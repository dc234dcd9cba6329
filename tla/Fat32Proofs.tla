---------------------------- MODULE Fat32Proofs ----------------------------
(***************************************************************************)
(* Proofs about the file system and the commands that use it, for volumes, *)
(* directories, clusters and sessions of any size, in a session that is    *)
(* plain (PlainSession): no transfer fails, and no command is given the    *)
(* arguments that the configurations FatChain, FatMkdirLost, FatPwd and    *)
(* FatRemoveDir show to break the volume.                                  *)
(*                                                                         *)
(* The argument: every cluster in use has one owner (Owned): the root      *)
(* directory, an entry of the tree, or the call in progress, which has     *)
(* what it freed from an entry and not yet from the FAT, or allocated and  *)
(* not yet put in an entry (Mine). A step of a call moves clusters between *)
(* those three (OwnedLoses, OwnedGains, OwnedFrees, OwnedTakes), so it     *)
(* writes to no cluster of another file, and files keep their bytes        *)
(* (IntactKept). The directories are a tree (Tree) that only mkdir         *)
(* extends, after the new directory is on the disk, so paths keep leading  *)
(* where they led (WayKept).                                               *)
(*                                                                         *)
(* Chains and paths are recursive functions: that they satisfy their       *)
(* equations is proved for each (WalkExists, WayExists), and what they     *)
(* compute by induction over a set of numbers (SetInduction).              *)
(***************************************************************************)
EXTENDS Fat32, RingTheorems, FiniteSetTheorems

----------------------------------------------------------------------------
(* The inductive invariant *)

\* The disk as the proofs see it: the same for the state before a step and after it.
\* Entry i of directory d, the entries before the end marker, the slot of a name, the
\* first slot for a new entry, the directories.
Ent(D, d, i) == D[d].entries[i]

\* The entries of directory d before the end marker.
Shown(D, d) == {i \in 1 .. ENTRIES : \A j \in 1 .. i : Ent(D, d, j).name # "END"}

\* The slot of name n in directory d, 0 when it has none.
Find(D, d, n) ==
  LET S == {i \in Shown(D, d) : Ent(D, d, i).name = n} IN IF S = {} THEN 0 ELSE Min(S)

\* The first slot of directory d that a new entry may take.
Room(D, d) ==
  LET S == {i \in 1 .. ENTRIES : Ent(D, d, i).name \in {"END", "DEL"}}
  IN IF S = {} THEN 0 ELSE Min(S)

\* S has the root and the subdirectories of its members.
Subdirs(D, S) ==
  /\ ROOT \in S
  /\ \A d \in S, i \in 1 .. ENTRIES :
       i \in Shown(D, d) /\ Ent(D, d, i).name \notin {"DEL", ".", ".."} /\ Ent(D, d, i).dir
         => Ent(D, d, i).first \in S

\* The directories that can be reached from the root.
Dirs(D) == {c \in Cluster : \A S \in SUBSET Cluster : Subdirs(D, S) => c \in S}

\* One step of a path, and all of them.
Down(D, d, n) ==
  IF d = NoDir \/ Find(D, d, n) = 0 THEN NoDir
  ELSE IF Ent(D, d, Find(D, d, n)).dir THEN Ent(D, d, Find(D, d, n)).first ELSE NoDir

\* w is the directories on the way from d along the first N of some names.
IsWay(w, D, d, names, N) ==
  w = [i \in 0 .. N |-> IF i = 0 THEN d ELSE Down(D, w[i - 1], names[i])]

Way(D, d, names) == CHOOSE w : IsWay(w, D, d, names, Len(names))

\* Slot i of directory d holds the name of a file or of a subdirectory.
Named(D, d, i) ==
  d \in Dirs(D) /\ i \in Shown(D, d) /\ Ent(D, d, i).name \notin {"DEL", ".", ".."}

\* The slot a write or a delete is about, while its chain is not what the slot says.
Changing(d, i) ==
  /\ pc \in {"free", "alloc", "data", "dirent", "save"}
  /\ call.kind \in {"write", "delete"}
  /\ d = call.parent /\ i = call.slot

\* The slots of the tree whose chain is what they say.
Held == {x \in Cluster \X (1 .. ENTRIES) : Named(disk, x[1], x[2]) /\ ~Changing(x[1], x[2])}

\* The clusters of an entry, and those of the call in progress.
Used(f, e) == IF e.first = 0 THEN {} ELSE Chain(f, e.first)
Mine ==
  IF pc = "free" THEN Chain(fat, call.cluster)
  ELSE IF pc \in {"data", "newdir", "addentry", "dirent"} /\ call.first # 0 THEN {call.first}
  ELSE {}

\* The chain of an entry is what its size needs.
Sound(f, e) ==
  IF e.dir THEN e.first # 0 /\ f[e.first] = EOC
  ELSE /\ e.first # 0 => WellEnded(f, e.first)
       /\ Cardinality(Used(f, e)) = Clusters(e.size)

\* The names and the marks an entry may have.
Names == STRING \union {"END", "DEL", ".", "..", "image"}

\* The sets the variables are in.
EntryRecord == [name : Names, dir : BOOLEAN, first : Cluster \union {0}, size : Nat]
Entries == [1 .. ENTRIES -> EntryRecord]
Disk == [Cluster -> [entries : Entries, bytes : [1 .. CLUSTER_SIZE -> Nat]]]
Fat == [Cluster -> Cluster \union {FREE, EOC}]
Places == {"idle", "free", "alloc", "data", "dirent", "save", "newdir", "addentry", "fail",
           "cat", "read"}
CallRecord ==
  [kind : {"none", "write", "delete", "mkdir"}, parent : Cluster, slot : 1 .. ENTRIES,
   name : Names, bytes : Seq(Nat), buf : Entries, need : Nat, first : Cluster \union {0},
   prev : Cluster \union {0}, cluster : Cluster \union {0}, n : Nat, then : Places]

\* Every variable has its type.
Typed ==
  /\ fat \in Fat
  /\ disk \in Disk
  /\ current_dir_cluster \in Cluster
  /\ current_path \in Seq(Names)
  /\ open_file \in [first : Cluster \union {0}, current : Cluster \union {0},
                    position : Nat, size : Nat]
  /\ open_file.position <= open_file.size
  /\ pc \in Places
  /\ call \in CallRecord
  /\ got \in Seq(Nat)
  /\ last = [op |-> last.op, path |-> last.path, ok |-> last.ok]
  /\ calls \in 0 .. MAX_CALLS

\* Every cluster in use has one owner: the root directory, an entry of N or the call,
\* which has M.
Owned(D, f, N, M) ==
  /\ f[ROOT] = EOC /\ ROOT \notin M
  /\ \A x \in N : /\ Sound(f, Ent(D, x[1], x[2]))
                  /\ ROOT \notin Used(f, Ent(D, x[1], x[2]))
                  /\ Used(f, Ent(D, x[1], x[2])) \cap M = {}
  /\ \A x, y \in N : x # y =>
       Used(f, Ent(D, x[1], x[2])) \cap Used(f, Ent(D, y[1], y[2])) = {}
  /\ \A c \in Cluster : f[c] # FREE =>
       c = ROOT \/ c \in M \/ \E x \in N : c \in Used(f, Ent(D, x[1], x[2]))

\* The slots of the tree and the call own the clusters in use.
Ownership == Owned(disk, fat, Held, Mine)

\* The entries of a directory.
Listing(D, d) ==
  /\ \A i, j \in 1 .. ENTRIES : i < j /\ Ent(D, d, i).name = "END" => Ent(D, d, j).name = "END"
  /\ \A i \in 1 .. ENTRIES : Ent(D, d, i).name \in {"END", "DEL"} =>
       Ent(D, d, i).first = 0 /\ ~Ent(D, d, i).dir
  /\ \A i, j \in 1 .. ENTRIES : i # j /\ Ent(D, d, i).name = Ent(D, d, j).name =>
       Ent(D, d, i).name \in {"END", "DEL"}
  /\ \A i \in 1 .. ENTRIES : Ent(D, d, i).dir => Ent(D, d, i).name \notin FileNames

\* The first two entries of a directory other than the root lead to itself and to its
\* parent.
Dots(D, d, p) ==
  /\ Ent(D, d, 1).name = "." /\ Ent(D, d, 1).dir /\ Ent(D, d, 1).first = d
  /\ Ent(D, d, 2).name = ".." /\ Ent(D, d, 2).dir /\ Ent(D, d, 2).first = p

\* The directories are a tree, with names that are unique and dots that lead back.
Tree(D) ==
  /\ \A d \in Dirs(D) : Listing(D, d)
  /\ \A i \in 1 .. ENTRIES : Ent(D, ROOT, i).name \notin {".", ".."}
  /\ \A d \in Dirs(D) \ {ROOT} : \E p \in Dirs(D) : Dots(D, d, p)
  /\ \A d \in Dirs(D), i \in 1 .. ENTRIES :
       Named(D, d, i) /\ Ent(D, d, i).dir =>
         Ent(D, d, i).first \in Dirs(D) \ {ROOT} /\ Dots(D, Ent(D, d, i).first, d)

\* The slot of a write: that of its name, or the first free one when there is none.
WriteSlot(D, d, i, name) ==
  \/ i \in Shown(D, d) /\ Ent(D, d, i).name = name
  \/ /\ \A j \in Shown(D, d) : Ent(D, d, j).name # name
     /\ Ent(D, d, i).name \in {"END", "DEL"}
     /\ \A j \in 1 .. i - 1 : Ent(D, d, j).name \notin {"END", "DEL"}

\* The entries mkdir gives a directory in cluster c, child of p.
NewDir(c, p) ==
  [NoEntries EXCEPT ![1] = Entry(".", TRUE, c, 0), ![2] = Entry("..", TRUE, p, 0)]

\* What the call in progress has done and holds at each of its places.
InWrite ==
  call.kind = "write" =>
    LET old == Ent(disk, call.parent, call.slot) IN
    /\ pc \in {"free", "alloc", "data", "dirent", "fail"}
    /\ call.parent \in Dirs(disk) /\ call.name \in FileNames \ {"END", "DEL"}
    /\ WriteSlot(disk, call.parent, call.slot, call.name)
    /\ ~old.dir /\ (old.first = 0 => Clusters(old.size) = 0 \/ old.name = "END" \/ old.name = "DEL")
    /\ call.buf = disk[call.parent].entries
    /\ Len(call.bytes) <= CLUSTER_SIZE
    /\ call.need = Clusters(Len(call.bytes))
    /\ pc = "free" => call.then = IF call.bytes = <<>> THEN "dirent" ELSE "alloc"
    /\ pc = "alloc" => call.bytes # <<>>
    /\ pc = "alloc" /\ call.n = 0 /\ old.first # 0 => \E c \in Cluster : fat[c] = FREE
    /\ pc = "data" => call.bytes # <<>>
    /\ pc = "dirent" => IF call.bytes = <<>> THEN call.first = 0
                        ELSE /\ call.first # 0
                             /\ disk[call.first].bytes = Chunk(call.bytes, 1)

\* ... of rm, which frees the chain before it marks the entry,
InDelete ==
  call.kind = "delete" =>
    LET old == Ent(disk, ROOT, call.slot) IN
    /\ pc \in {"free", "save"} /\ call.then = "save"
    /\ call.parent = ROOT /\ call.name \in FileNames \ {"END", "DEL"}
    /\ call.slot \in Shown(disk, ROOT) /\ old.name = call.name /\ ~old.dir
    /\ call.buf = [disk[ROOT].entries EXCEPT ![call.slot] = DeletedEntry]

\* ... of mkdir, which takes a cluster, fills it and then adds the entry,
InMkdir ==
  call.kind = "mkdir" =>
    /\ pc \in {"free", "alloc", "newdir", "addentry", "fail"}
    /\ call.parent \in Dirs(disk)
    /\ call.name \notin FileNames \union {"END", "DEL", ".", ".."}
    /\ \A j \in Shown(disk, call.parent) : Ent(disk, call.parent, j).name # call.name
    /\ call.need = 1 /\ (pc = "free" => call.then = "fail")
    /\ pc = "addentry" => disk[call.first].entries = NewDir(call.first, call.parent)

\* ... and of the loops over the FAT that they share.
InChain ==
  /\ pc = "free" => /\ call.cluster # 0 /\ WellEnded(fat, call.cluster)
                    /\ call.then # "fail" => call.first = 0 /\ call.prev = 0 /\ call.n = 0
  /\ pc = "alloc" => /\ call.need = 1
                     /\ \/ call.n = 0 /\ call.first = 0 /\ call.prev = 0
                        \/ call.n = 1 /\ call.first # 0 /\ call.prev = call.first
                           /\ fat[call.first] = FREE
  /\ pc \in {"data", "newdir", "addentry"} => call.first # 0
  /\ pc \in {"data", "newdir", "addentry", "dirent"} /\ call.first # 0 =>
       fat[call.first] = EOC
  /\ pc = "data" => call.cluster = call.first /\ call.n = 0

\* The call in progress is at a place of its own kind.
InCall ==
  /\ InWrite /\ InDelete /\ InMkdir /\ InChain
  /\ call.kind = "none" <=> pc \in {"idle", "cat", "read"}
  /\ call.kind # "none" => last.op # "cat"

\* A file has its bytes.
Intact(D, f, e) ==
  LET i == Find(D, e.dir, e.name)
      x == Ent(D, e.dir, i)
  IN /\ i # 0 /\ x.size = Len(e.bytes) /\ ~x.dir
     /\ \A n \in 1 .. Clusters(Len(e.bytes)) :
          /\ Walk(f, x.first)[n - 1] \in Cluster
          /\ D[Walk(f, x.first)[n - 1]].bytes = Chunk(e.bytes, n)

\* Every file that was written and not touched since has its bytes, and is not the one the
\* call is about.
Kept ==
  \A e \in expect :
    /\ e.dir \in Dirs(disk) /\ e.name \in Names \ {"END", "DEL", ".", ".."}
    /\ e.bytes \in Seq(Nat)
    /\ Intact(disk, fat, e)
    /\ call.kind # "none" => e.dir # call.parent \/ e.name # call.name

\* The current directory exists and is where its path leads.
Here ==
  /\ current_dir_cluster \in Dirs(disk)
  /\ Way(disk, ROOT, current_path)[Len(current_path)] = current_dir_cluster
  /\ \A i \in 1 .. Len(current_path) : current_path[i] \notin {".", ".."}

\* e is the file that cat was asked for, in the current directory dir.
Wanted(path, dir, e) ==
  e.name = Last(path.names) /\ e.dir = IF path.abs THEN ROOT ELSE dir

\* An open file of e's size from which the bytes g have been read.
ReadTo(D, f, file, g, e) ==
  /\ file.size = Len(e.bytes)
  /\ g = SubSeq(e.bytes, 1, file.position)
  /\ file.position < file.size =>
       file.current = Walk(f, Ent(D, e.dir, Find(D, e.dir, e.name)).first)
                        [file.position \div CLUSTER_SIZE]

\* The open file is where cat has read to.
Reading ==
  pc \in {"cat", "read"} =>
    /\ last.op = "cat"
    /\ pc = "read" => /\ call.n < call.need
                      /\ open_file.position + (call.need - call.n) <= open_file.size
    /\ \A e \in expect : Wanted(last.path, current_dir_cluster, e) =>
         ReadTo(disk, fat, open_file, got, e)

\* The inductive invariant.
FatIInv ==
  /\ Typed /\ CacheCoherent /\ Ownership /\ Tree(disk)
  /\ InCall /\ Kept /\ Here /\ Reading /\ ReadBack

----------------------------------------------------------------------------
(* Chains *)

\* w is the walk from cluster c, as far as N steps.
IsWalk(w, f, c, N) ==
  w = [i \in 0 .. N |-> IF i = 0 THEN c
                        ELSE IF w[i - 1] \in Cluster THEN f[w[i - 1]] ELSE w[i - 1]]

\* Walk satisfies its equation.
LEMMA WalkExists ==
  ASSUME NEW f, NEW c, NEW N \in Nat
  PROVE  \E w : IsWalk(w, f, c, N)
  <1> DEFINE T == {k \in Nat : \E w : IsWalk(w, f, c, k)}
  <1>1. 0 \in T
    <2> DEFINE g == [i \in 0 .. 0 |-> c]
    <2>1. IsWalk(g, f, c, 0)
      BY DEF IsWalk
    <2> HIDE DEF g
    <2> QED BY <2>1
  <1>2. ASSUME NEW k \in Nat, k \in T PROVE k + 1 \in T
    <2>1. PICK w : IsWalk(w, f, c, k)
      BY <1>2
    <2> DEFINE next == IF w[k] \in Cluster THEN f[w[k]] ELSE w[k]
               g == [i \in 0 .. k + 1 |-> IF i = k + 1 THEN next ELSE w[i]]
    <2>2. \A i \in 0 .. k + 1 :
            g[i] = IF i = 0 THEN c ELSE IF g[i - 1] \in Cluster THEN f[g[i - 1]] ELSE g[i - 1]
      <3> TAKE i \in 0 .. k + 1
      <3>1. \A j \in 0 .. k : g[j] = w[j]
        OBVIOUS
      <3>2. g[k + 1] = next
        OBVIOUS
      <3>3. \A j \in 0 .. k : w[j] = IF j = 0 THEN c ELSE IF w[j - 1] \in Cluster
                                      THEN f[w[j - 1]] ELSE w[j - 1]
        BY <2>1 DEF IsWalk
      <3>4. CASE i = k + 1
        <4>1. i # 0 /\ i - 1 = k /\ g[k] = w[k]
          BY <3>1, <3>4
        <4> HIDE DEF g
        <4> QED BY <3>2, <3>4, <4>1
      <3>5. CASE i \in 0 .. k
        <4>1. g[i] = w[i] /\ (i # 0 => g[i - 1] = w[i - 1])
          BY <3>1, <3>5
        <4> HIDE DEF g
        <4> QED BY <3>3, <3>5, <4>1
      <3> QED BY <3>4, <3>5
    <2>3. IsWalk(g, f, c, k + 1)
      BY <2>2 DEF IsWalk
    <2> HIDE DEF g
    <2> QED BY <2>3
  <1> HIDE DEF T
  <1>3. N \in T
    BY <1>1, <1>2, SetInduction
  <1> QED BY <1>3 DEF T

\* A step of a walk is a lookup in the FAT.
LEMMA WalkSteps ==
  ASSUME NEW f, NEW c
  PROVE  /\ Walk(f, c)[0] = c
         /\ \A i \in 0 .. TOTAL_CLUSTERS - 1 :
              Walk(f, c)[i + 1] = IF Walk(f, c)[i] \in Cluster THEN f[Walk(f, c)[i]]
                                  ELSE Walk(f, c)[i]
  <1> DEFINE w == CHOOSE x : IsWalk(x, f, c, TOTAL_CLUSTERS)
  <1>0. TOTAL_CLUSTERS \in Nat /\ TOTAL_CLUSTERS >= 1
    BY Fat32Assumption
  <1>1. w = Walk(f, c)
    BY DEF Walk, IsWalk
  <1>2. IsWalk(w, f, c, TOTAL_CLUSTERS)
    BY <1>0, WalkExists, Zenon
  <1> HIDE DEF w
  <1>3. \A i \in 0 .. TOTAL_CLUSTERS :
          w[i] = IF i = 0 THEN c ELSE IF w[i - 1] \in Cluster THEN f[w[i - 1]] ELSE w[i - 1]
    BY <1>2 DEF IsWalk
  <1>4. ASSUME NEW i \in 0 .. TOTAL_CLUSTERS - 1
        PROVE  w[i + 1] = IF w[i] \in Cluster THEN f[w[i]] ELSE w[i]
    <2>1. i + 1 \in 0 .. TOTAL_CLUSTERS /\ i + 1 # 0 /\ (i + 1) - 1 = i
      BY <1>0
    <2> QED BY <1>3, <2>1
  <1>5. w[0] = c
    BY <1>0, <1>3
  <1> QED BY <1>1, <1>4, <1>5

\* A walk that stays in a set.
LEMMA WalkStays ==
  ASSUME NEW f, NEW c, NEW S, c \in S,
         \A x \in S : IF x \in Cluster THEN f[x] \in S ELSE TRUE
  PROVE  \A i \in 0 .. TOTAL_CLUSTERS : Walk(f, c)[i] \in S
  <1> DEFINE T == {i \in Nat : i <= TOTAL_CLUSTERS => Walk(f, c)[i] \in S}
  <1>0. TOTAL_CLUSTERS \in Nat
    BY Fat32Assumption
  <1>1. 0 \in T
    BY WalkSteps
  <1>2. ASSUME NEW i \in Nat, i \in T PROVE i + 1 \in T
    <2>1. CASE i + 1 <= TOTAL_CLUSTERS
      <3>1. i \in 0 .. TOTAL_CLUSTERS - 1 /\ Walk(f, c)[i] \in S
        BY <1>0, <1>2, <2>1
      <3>2. Walk(f, c)[i + 1] \in S
        BY <3>1, WalkSteps
      <3> QED BY <3>2
    <2>2. CASE ~(i + 1 <= TOTAL_CLUSTERS)
      BY <2>2
    <2> QED BY <2>1, <2>2
  <1> HIDE DEF T
  <1>3. \A i \in Nat : i \in T
    BY <1>1, <1>2, SetInduction
  <1> QED BY <1>0, <1>3 DEF T

\* Once outside the volume a walk stays where it is.
LEMMA WalkStuck ==
  ASSUME NEW f, NEW c, NEW i \in 0 .. TOTAL_CLUSTERS, Walk(f, c)[i] \notin Cluster,
         NEW j \in i .. TOTAL_CLUSTERS
  PROVE  Walk(f, c)[j] = Walk(f, c)[i]
  <1> DEFINE T == {k \in Nat : i + k <= TOTAL_CLUSTERS => Walk(f, c)[i + k] = Walk(f, c)[i]}
  <1>0. TOTAL_CLUSTERS \in Nat
    BY Fat32Assumption
  <1>1. 0 \in T
    BY <1>0
  <1>2. ASSUME NEW k \in Nat, k \in T PROVE k + 1 \in T
    <2>1. CASE i + (k + 1) <= TOTAL_CLUSTERS
      <3>1. i + k \in 0 .. TOTAL_CLUSTERS - 1 /\ Walk(f, c)[i + k] = Walk(f, c)[i]
        BY <1>0, <1>2, <2>1
      <3>2. Walk(f, c)[(i + k) + 1] = Walk(f, c)[i]
        BY <3>1, WalkSteps
      <3> QED BY <3>2
    <2>2. CASE ~(i + (k + 1) <= TOTAL_CLUSTERS)
      BY <2>2
    <2> QED BY <2>1, <2>2
  <1> HIDE DEF T
  <1>3. \A k \in Nat : k \in T
    BY <1>1, <1>2, SetInduction
  <1>4. j - i \in Nat /\ i + (j - i) = j /\ j <= TOTAL_CLUSTERS
    BY <1>0
  <1>5. j - i \in T
    BY <1>3, <1>4
  <1> QED BY <1>4, <1>5 DEF T


\* A chain depends on its own clusters only.
LEMMA WalkKept ==
  ASSUME NEW f, NEW g, NEW c, \A x \in Chain(f, c) : g[x] = f[x]
  PROVE  /\ \A i \in 0 .. TOTAL_CLUSTERS : Walk(g, c)[i] = Walk(f, c)[i]
         /\ Chain(g, c) = Chain(f, c)
         /\ WellEnded(g, c) <=> WellEnded(f, c)
  <1> DEFINE T == {i \in Nat : i <= TOTAL_CLUSTERS => Walk(g, c)[i] = Walk(f, c)[i]}
  <1>0. TOTAL_CLUSTERS \in Nat
    BY Fat32Assumption
  <1>1. 0 \in T
    BY WalkSteps
  <1>2. ASSUME NEW i \in Nat, i \in T PROVE i + 1 \in T
    <2>1. CASE i + 1 <= TOTAL_CLUSTERS
      <3>1. i \in 0 .. TOTAL_CLUSTERS - 1 /\ Walk(g, c)[i] = Walk(f, c)[i]
        BY <1>0, <1>2, <2>1
      <3>2. Walk(f, c)[i] \in Cluster => Walk(f, c)[i] \in Chain(f, c)
        <4>1. i \in 0 .. TOTAL_CLUSTERS
          BY <1>0, <3>1
        <4> QED BY <4>1 DEF Chain
      <3>3. Walk(g, c)[i + 1] = Walk(f, c)[i + 1]
        BY <3>1, <3>2, WalkSteps
      <3> QED BY <3>3
    <2>2. CASE ~(i + 1 <= TOTAL_CLUSTERS)
      BY <2>2
    <2> QED BY <2>1, <2>2
  <1> HIDE DEF T
  <1>3. \A i \in Nat : i \in T
    BY <1>1, <1>2, SetInduction
  <1>4. \A i \in 0 .. TOTAL_CLUSTERS : Walk(g, c)[i] = Walk(f, c)[i]
    BY <1>0, <1>3 DEF T
  <1>5. TOTAL_CLUSTERS \in 0 .. TOTAL_CLUSTERS
    BY <1>0
  <1> QED BY <1>4, <1>5 DEF Chain, WellEnded

\* The walk from the second cluster is that from the first, one step on.
LEMMA WalkShift ==
  ASSUME NEW f, NEW c \in Cluster
  PROVE  \A i \in 0 .. TOTAL_CLUSTERS - 1 : Walk(f, f[c])[i] = Walk(f, c)[i + 1]
  <1> DEFINE T == {i \in Nat : i < TOTAL_CLUSTERS => Walk(f, f[c])[i] = Walk(f, c)[i + 1]}
  <1>0. TOTAL_CLUSTERS \in Nat /\ TOTAL_CLUSTERS >= 1
    BY Fat32Assumption
  <1>1. 0 \in T
    <2>1. 0 \in 0 .. TOTAL_CLUSTERS - 1
      BY <1>0
    <2> QED BY <2>1, WalkSteps
  <1>2. ASSUME NEW i \in Nat, i \in T PROVE i + 1 \in T
    <2>1. CASE i + 1 < TOTAL_CLUSTERS
      <3>1. i \in 0 .. TOTAL_CLUSTERS - 1 /\ Walk(f, f[c])[i] = Walk(f, c)[i + 1]
            /\ i + 1 \in 0 .. TOTAL_CLUSTERS - 1
        BY <1>0, <1>2, <2>1
      <3>2. Walk(f, f[c])[i + 1] = Walk(f, c)[(i + 1) + 1]
        BY <3>1, WalkSteps
      <3> QED BY <3>2
    <2>2. CASE ~(i + 1 < TOTAL_CLUSTERS)
      BY <2>2
    <2> QED BY <2>1, <2>2
  <1> HIDE DEF T
  <1>3. \A i \in Nat : i \in T
    BY <1>1, <1>2, SetInduction
  <1> QED BY <1>0, <1>3 DEF T

\* The numbers that mark a cluster are no clusters.
LEMMA Marks == FREE \notin Cluster /\ EOC \notin Cluster /\ FREE # EOC /\ ROOT \in Cluster
  BY Fat32Assumption DEF FREE, EOC, Cluster, ROOT

\* A chain of one cluster.
LEMMA OneCluster ==
  ASSUME NEW f, NEW c \in Cluster, f[c] = EOC
  PROVE  WellEnded(f, c) /\ Chain(f, c) = {c}
  <1>0. TOTAL_CLUSTERS \in Nat /\ TOTAL_CLUSTERS >= 1
    BY Fat32Assumption
  <1>1. Walk(f, c)[0] = c /\ 0 \in 0 .. TOTAL_CLUSTERS - 1
    BY <1>0, WalkSteps
  <1>2. Walk(f, c)[0 + 1] = EOC
    BY <1>1, WalkSteps
  <1>3. 1 \in 0 .. TOTAL_CLUSTERS /\ Walk(f, c)[1] = EOC
    BY <1>0, <1>2
  <1>4. \A j \in 1 .. TOTAL_CLUSTERS : Walk(f, c)[j] = EOC
    BY <1>3, Marks, WalkStuck
  <1>5. TOTAL_CLUSTERS \in 1 .. TOTAL_CLUSTERS
    BY <1>0
  <1>6. \A j \in 0 .. TOTAL_CLUSTERS : j = 0 \/ Walk(f, c)[j] = EOC
    BY <1>4
  <1>7. 0 \in 0 .. TOTAL_CLUSTERS
    BY <1>0
  <1> QED BY <1>1, <1>4, <1>5, <1>6, <1>7, Marks DEF WellEnded, Chain

\* A well ended chain, its first cluster and the others.
LEMMA LongerChain ==
  ASSUME NEW f, NEW c \in Cluster, WellEnded(f, c)
  PROVE  /\ f[c] \in Cluster \union {EOC}
         /\ f[c] = EOC => Chain(f, c) = {c}
         /\ f[c] \in Cluster => /\ WellEnded(f, f[c])
                                /\ Chain(f, c) = {c} \union Chain(f, f[c])
                                /\ c \notin Chain(f, f[c])
  <1> DEFINE N == TOTAL_CLUSTERS
             W(i) == Walk(f, c)[i]
             V(i) == Walk(f, f[c])[i]
  <1>0. N \in Nat /\ N >= 1
    BY Fat32Assumption
  <1>1. W(0) = c /\ W(N) = EOC /\ V(0) = f[c]
    BY WalkSteps DEF WellEnded
  <1>2. \A i \in 0 .. N - 1 : V(i) = W(i + 1)
    BY WalkShift
  <1>3. \A i \in 0 .. N, j \in 0 .. N : i <= j /\ W(i) \notin Cluster => W(j) = W(i)
    BY <1>0, WalkStuck
  <1>4. \A i \in 0 .. N - 1 : W(i) \in Cluster => W(i + 1) = f[W(i)]
    BY WalkSteps
  <1>5. W(1) = f[c]
    <2>1. 0 \in 0 .. N - 1 /\ 0 + 1 = 1
      BY <1>0
    <2> QED BY <1>1, <1>4, <2>1
  <1> HIDE DEF W, V
  <1>6. f[c] \in Cluster \union {EOC}
    <2>1. 1 \in 0 .. N /\ N \in 0 .. N /\ 1 <= N
      BY <1>0
    <2> QED BY <1>1, <1>3, <1>5, <2>1
  <1>7. f[c] = EOC => Chain(f, c) = {c}
    BY OneCluster
  <1>8. ASSUME f[c] \in Cluster
        PROVE  /\ WellEnded(f, f[c])
               /\ Chain(f, c) = {c} \union Chain(f, f[c])
               /\ c \notin Chain(f, f[c])
    <2>1. V(N) = EOC
      <3>1. N - 1 \in 0 .. N - 1 /\ (N - 1) + 1 = N /\ N - 1 \in 0 .. N /\ N \in N - 1 .. N
        BY <1>0
      <3>2. V(N - 1) = EOC
        BY <1>1, <1>2, <3>1
      <3> QED BY <3>1, <3>2, Marks, WalkStuck DEF V
    <2>2. Chain(f, c) = {W(i) : i \in 0 .. N} \cap Cluster
      BY DEF Chain, W
    <2>3. Chain(f, f[c]) = {V(i) : i \in 0 .. N} \cap Cluster
      BY DEF Chain, V
    <2>4. ASSUME NEW i \in 0 .. N, W(i) \in Cluster, W(i) # c
          PROVE  W(i) \in Chain(f, f[c])
      <3>1. i - 1 \in 0 .. N - 1 /\ i - 1 \in 0 .. N /\ (i - 1) + 1 = i
        BY <1>0, <1>1, <2>4
      <3>2. V(i - 1) = W(i)
        BY <1>2, <3>1
      <3> QED BY <2>3, <2>4, <3>1, <3>2
    <2>5. ASSUME NEW i \in 0 .. N, V(i) \in Cluster
          PROVE  i + 1 \in 0 .. N /\ V(i) = W(i + 1)
      <3>1. i # N
        BY <2>1, <2>5, Marks
      <3>2. i \in 0 .. N - 1 /\ i + 1 \in 0 .. N
        BY <1>0, <3>1
      <3> QED BY <1>2, <3>2
    <2>6. c \in Chain(f, c)
      <3>1. 0 \in 0 .. N
        BY <1>0
      <3> QED BY <1>1, <2>2, <3>1
    <2>7. Chain(f, c) = {c} \union Chain(f, f[c])
      BY <2>2, <2>3, <2>4, <2>5, <2>6
    <2>8. ASSUME c \in Chain(f, f[c]) PROVE FALSE
      <3>1. PICK j \in 0 .. N : V(j) = c
        BY <2>3, <2>8
      <3>2. j + 1 \in 0 .. N /\ W(j + 1) = c
        BY <2>5, <3>1
      <3> DEFINE S == {W(i) : i \in 0 .. j}
      <3>3. ASSUME NEW i \in 0 .. j PROVE W(i) \in Cluster
        <4>1. i \in 0 .. N /\ i <= j + 1
          BY <1>0
        <4> QED BY <1>3, <3>2, <4>1
      <3>4. ASSUME NEW i \in 0 .. j PROVE f[W(i)] \in S
        <4>1. i \in 0 .. N - 1
          BY <1>0, <3>2
        <4>2. W(i + 1) = f[W(i)]
          BY <1>4, <3>3, <4>1
        <4>3. CASE i = j
          <5>1. W(i + 1) = W(0) /\ 0 \in 0 .. j
            BY <1>1, <3>2, <4>3
          <5> QED BY <4>2, <5>1
        <4>4. CASE i # j
          <5>1. i + 1 \in 0 .. j
            BY <4>4
          <5> QED BY <4>2, <5>1
        <4> QED BY <4>3, <4>4
      <3>5. c \in S
        <4>1. 0 \in 0 .. j
          OBVIOUS
        <4> QED BY <1>1, <4>1
      <3>6. S \subseteq Cluster /\ \A x \in S : f[x] \in S
        BY <3>3, <3>4
      <3> HIDE DEF S
      <3>7. \A i \in 0 .. N : W(i) \in S
        BY <3>5, <3>6, WalkStays DEF W
      <3>8. N \in 0 .. N
        BY <1>0
      <3> QED BY <1>1, <3>6, <3>7, <3>8, Marks
    <2> QED BY <2>1, <2>7, <2>8 DEF WellEnded, V
  <1> QED BY <1>6, <1>7, <1>8

\* No cluster of a well ended chain is free.
LEMMA ChainInUse ==
  ASSUME NEW f, NEW c, WellEnded(f, c), NEW x \in Chain(f, c)
  PROVE  f[x] # FREE
  <1> DEFINE N == TOTAL_CLUSTERS
  <1>0. N \in Nat /\ N >= 1 /\ N \in 0 .. N
    BY Fat32Assumption
  <1>1. PICK i \in 0 .. N : Walk(f, c)[i] = x
    BY DEF Chain
  <1>2. x \in Cluster /\ Walk(f, c)[N] = EOC
    BY DEF Chain, WellEnded
  <1>3. i \in 0 .. N - 1
    BY <1>0, <1>1, <1>2, Marks
  <1>4. Walk(f, c)[i + 1] = f[x]
    BY <1>1, <1>2, <1>3, WalkSteps
  <1>5. i + 1 \in 0 .. N /\ N \in (i + 1) .. N
    BY <1>0, <1>3
  <1>6. Walk(f, c)[i + 1] \notin Cluster => Walk(f, c)[N] = Walk(f, c)[i + 1]
    BY <1>5, WalkStuck
  <1> QED BY <1>2, <1>4, <1>6, Marks


----------------------------------------------------------------------------
(* Directories *)

\* The least slot of a set of slots.
LEMMA LeastSlot ==
  ASSUME NEW S, S \subseteq 1 .. ENTRIES, S # {}
  PROVE  Min(S) \in S /\ \A i \in S : Min(S) <= i
  <1>1. S \subseteq Nat
    BY Fat32Assumption
  <1>2. \E x \in S : \A y \in S : x <= y
    BY <1>1, LeastNumber
  <1> QED BY <1>2, Zenon DEF Min

\* What a search for a name finds.
LEMMA SlotFinds ==
  ASSUME NEW D, NEW d, NEW n
  PROVE  /\ Find(D, d, n) # 0 => /\ Find(D, d, n) \in Shown(D, d) /\ Find(D, d, n) \in 1 .. ENTRIES
                              /\ Ent(D, d, Find(D, d, n)).name = n
         /\ Find(D, d, n) = 0 <=> \A i \in Shown(D, d) : Ent(D, d, i).name # n
  <1> DEFINE S == {i \in Shown(D, d) : Ent(D, d, i).name = n}
  <1>1. S \subseteq 1 .. ENTRIES
    BY DEF Shown
  <1>2. Find(D, d, n) = IF S = {} THEN 0 ELSE Min(S)
    BY DEF Find
  <1>3. S # {} => Min(S) \in S
    BY <1>1, LeastSlot
  <1>4. S = {} <=> \A i \in Shown(D, d) : Ent(D, d, i).name # n
    BY DEF Ent
  <1>5. \A i \in S : i \in Shown(D, d) /\ i \in 1 .. ENTRIES /\ i # 0 /\ Ent(D, d, i).name = n
    BY <1>1, Fat32Assumption DEF Ent
  <1> HIDE DEF S
  <1> QED BY <1>2, <1>3, <1>4, <1>5

\* Find returns the slot of a name that is shown.
LEMMA SlotIs ==
  ASSUME NEW D, NEW d, Listing(D, d), NEW i \in Shown(D, d), Ent(D, d, i).name \notin {"END", "DEL"}
  PROVE  Find(D, d, Ent(D, d, i).name) = i
  <1> DEFINE n == Ent(D, d, i).name
  <1>1. Find(D, d, n) # 0
    BY SlotFinds
  <1>2. /\ Find(D, d, n) \in 1 .. ENTRIES
        /\ Ent(D, d, Find(D, d, n)).name = n
    BY <1>1, SlotFinds
  <1>3. i \in 1 .. ENTRIES
    BY DEF Shown
  <1> QED BY <1>2, <1>3 DEF Listing

\* An entry with a name is before the end marker.
LEMMA NamedIsShown ==
  ASSUME NEW D, NEW d, Listing(D, d), NEW i \in 1 .. ENTRIES
  PROVE  Ent(D, d, i).name # "END" <=> i \in Shown(D, d)
  <1>0. ENTRIES \in Nat
    BY Fat32Assumption
  <1>1. ASSUME Ent(D, d, i).name # "END", NEW j \in 1 .. i PROVE Ent(D, d, j).name # "END"
    <2>1. j \in 1 .. ENTRIES /\ (j = i \/ j < i)
      BY <1>0
    <2> QED BY <1>1, <2>1 DEF Listing
  <1>2. i \in 1 .. i
    BY <1>0
  <1> QED BY <1>1, <1>2 DEF Shown, Ent

\* The first slot for a new entry.
LEMMA FreeSlotFinds ==
  ASSUME NEW D, NEW d, Room(D, d) # 0
  PROVE  /\ Room(D, d) \in 1 .. ENTRIES
         /\ Ent(D, d, Room(D, d)).name \in {"END", "DEL"}
         /\ \A j \in 1 .. Room(D, d) - 1 : Ent(D, d, j).name \notin {"END", "DEL"}
  <1> DEFINE S == {i \in 1 .. ENTRIES : Ent(D, d, i).name \in {"END", "DEL"}}
  <1>1. Room(D, d) = Min(S) /\ S # {}
    BY DEF Room
  <1>2. Min(S) \in S /\ \A i \in S : Min(S) <= i
    <2>1. S \subseteq 1 .. ENTRIES
      OBVIOUS
    <2> HIDE DEF S
    <2> QED BY <1>1, <2>1, LeastSlot
  <1>3. \A i \in 1 .. ENTRIES : i \in S <=> Ent(D, d, i).name \in {"END", "DEL"}
    BY DEF Ent
  <1>4. Min(S) \in 1 .. ENTRIES /\ \A j \in 1 .. Min(S) - 1 : j \in 1 .. ENTRIES /\ j \notin S
    <2>1. Min(S) \in 1 .. ENTRIES
      BY <1>2
    <2> HIDE DEF S
    <2>2. ENTRIES \in Nat
      BY Fat32Assumption
    <2> QED BY <1>2, <2>1, <2>2
  <1> HIDE DEF S
  <1> QED BY <1>1, <1>2, <1>3, <1>4

\* An entry of the disk has its type.
LEMMA EntTyped ==
  ASSUME NEW D \in Disk, NEW d \in Cluster, NEW i \in 1 .. ENTRIES
  PROVE  /\ Ent(D, d, i) \in EntryRecord /\ Ent(D, d, i).first \in Cluster \union {0}
         /\ Ent(D, d, i).name \in Names /\ Ent(D, d, i).dir \in BOOLEAN /\ Ent(D, d, i).size \in Nat
  BY DEF Disk, Ent, Entries, EntryRecord

\* Dirs is the least set that has the root and its subdirectories.
LEMMA DirectoriesLeast ==
  ASSUME NEW D, NEW S, S \subseteq Cluster, Subdirs(D, S)
  PROVE  Dirs(D) \subseteq S
  BY DEF Dirs

\* Named entries that are directories have a cluster.
LEMMA DirectoriesClosed ==
  ASSUME NEW D \in Disk, Tree(D)
  PROVE  Dirs(D) \subseteq Cluster /\ Subdirs(D, Dirs(D)) /\ ROOT \in Dirs(D)
  <1>1. Dirs(D) \subseteq Cluster
    BY DEF Dirs
  <1>2. ROOT \in Dirs(D)
    BY Marks DEF Dirs, Subdirs
  <1> QED BY <1>1, <1>2 DEF Subdirs, Tree, Named

\* A directory other than the root is an entry of a directory.
LEMMA DirectoryIsNamed ==
  ASSUME NEW D \in Disk, Tree(D), NEW c \in Dirs(D), c # ROOT
  PROVE  \E d \in Dirs(D), i \in 1 .. ENTRIES :
           Named(D, d, i) /\ Ent(D, d, i).dir /\ Ent(D, d, i).first = c
  <1> DEFINE S == {x \in Dirs(D) : x = ROOT \/
                    \E d \in Dirs(D), i \in 1 .. ENTRIES :
                      Named(D, d, i) /\ Ent(D, d, i).dir /\ Ent(D, d, i).first = x}
  <1>1. Dirs(D) \subseteq Cluster /\ Subdirs(D, Dirs(D))
    BY DirectoriesClosed
  <1>2. Subdirs(D, S)
    BY <1>1 DEF Subdirs, Named
  <1>3. Dirs(D) \subseteq S
    BY <1>1, <1>2, DirectoriesLeast
  <1> QED BY <1>3

\* What leads to a directory stays.
LeadsOn(D, E) ==
  \A d \in Dirs(D) : \A i \in Shown(D, d) :
    Ent(D, d, i).dir => i \in Shown(E, d) /\ Ent(E, d, i) = Ent(D, d, i)

\* The entries of the directories make the tree.
LEMMA EntriesSame ==
  ASSUME NEW D \in Disk, NEW E \in Disk, Tree(D),
         \A d \in Dirs(D) : E[d].entries = D[d].entries
  PROVE  /\ Dirs(E) = Dirs(D) /\ Tree(E) /\ LeadsOn(D, E)
         /\ \A d, i : Named(E, d, i) <=> Named(D, d, i)
         /\ \A d \in Dirs(D) :
              /\ Shown(E, d) = Shown(D, d)
              /\ \A i : Ent(E, d, i) = Ent(D, d, i)
              /\ \A n : Find(E, d, n) = Find(D, d, n)
  <1>1. /\ Dirs(D) \subseteq Cluster /\ Subdirs(D, Dirs(D)) /\ ROOT \in Dirs(D)
    BY DirectoriesClosed
  <1>2. \A d \in Dirs(D) : \A i : Ent(E, d, i) = Ent(D, d, i)
    BY DEF Ent
  <1>3. \A d \in Dirs(D) : Shown(E, d) = Shown(D, d)
    BY <1>2 DEF Shown
  <1>4. \A d \in Dirs(D) : \A n : Find(E, d, n) = Find(D, d, n)
    BY <1>2, <1>3 DEF Find
  <1>5. Dirs(E) \subseteq Dirs(D)
    <2>1. Subdirs(E, Dirs(D))
      BY <1>1, <1>2, <1>3 DEF Subdirs
    <2> QED BY <1>1, <2>1, DirectoriesLeast
  <1>6. Dirs(D) \subseteq Dirs(E)
    <2>1. ASSUME NEW S \in SUBSET Cluster, Subdirs(E, S) PROVE Dirs(D) \subseteq S
      <3>1. Subdirs(D, S \cap Dirs(D))
        BY <1>1, <1>2, <1>3, <2>1 DEF Subdirs
      <3>2. Dirs(D) \subseteq S \cap Dirs(D)
        BY <1>1, <3>1, DirectoriesLeast
      <3> QED BY <3>2
    <2> QED BY <1>1, <2>1 DEF Dirs
  <1>7. Dirs(E) = Dirs(D)
    BY <1>5, <1>6
  <1>8. \A d, i : Named(E, d, i) <=> Named(D, d, i)
    BY <1>2, <1>3, <1>7 DEF Named
  <1>9. \A d \in Dirs(D) : Listing(E, d)
    BY <1>2 DEF Tree, Listing
  <1>10. \A d, p \in Dirs(D) : Dots(D, d, p) => Dots(E, d, p)
    BY <1>2 DEF Dots
  <1>11. Tree(E)
    BY <1>1, <1>2, <1>7, <1>8, <1>9, <1>10 DEF Tree
  <1>12. LeadsOn(D, E)
    BY <1>2, <1>3 DEF LeadsOn
  <1> QED BY <1>2, <1>3, <1>4, <1>7, <1>8, <1>11, <1>12

\* One entry is changed or added: the listing stays one.
Changed(D, E, p, s, e) ==
  /\ E[p].entries = [D[p].entries EXCEPT ![s] = e]
  /\ \A d \in Dirs(D) \ {p} : E[d].entries = D[d].entries

\* One entry of a directory is replaced and no other.
LEMMA ChangedEntries ==
  ASSUME NEW D \in Disk, NEW E \in Disk, NEW p \in Dirs(D), p \in Cluster,
         NEW s \in 1 .. ENTRIES, NEW e, Changed(D, E, p, s, e)
  PROVE  /\ Ent(E, p, s) = e
         /\ \A d \in Dirs(D), i \in 1 .. ENTRIES : d # p \/ i # s => Ent(E, d, i) = Ent(D, d, i)
  BY DEF Disk, Entries, Changed, Ent

\* The directory in which an entry is written keeps its listing, with the new name in it.
LEMMA ListingKept ==
  ASSUME NEW D \in Disk, NEW E \in Disk, NEW p \in Dirs(D), p \in Cluster,
         NEW s \in 1 .. ENTRIES, NEW e, Changed(D, E, p, s, e), Listing(D, p),
         WriteSlot(D, p, s, e.name), e.name \notin {"END", "DEL"},
         e.dir => e.name \notin FileNames
  PROVE  /\ Listing(E, p) /\ Shown(E, p) = Shown(D, p) \union {s}
         /\ \A n : n # e.name /\ n # Ent(D, p, s).name => Find(E, p, n) = Find(D, p, n)
         /\ Find(E, p, e.name) = s
  <1>0. ENTRIES \in Nat
    BY Fat32Assumption
  <1>1. /\ Ent(E, p, s) = e
        /\ \A i \in 1 .. ENTRIES : i # s => Ent(E, p, i) = Ent(D, p, i)
    BY ChangedEntries
  <1>2. ASSUME NEW i \in 1 .. ENTRIES, i # s PROVE Ent(D, p, i).name # e.name
    <2>1. CASE s \in Shown(D, p) /\ Ent(D, p, s).name = e.name
      BY <1>2, <2>1 DEF Listing
    <2>2. CASE \A j \in Shown(D, p) : Ent(D, p, j).name # e.name
      BY <2>2, NamedIsShown
    <2> QED BY <2>1, <2>2 DEF WriteSlot
  <1>3. ASSUME NEW i \in 1 .. ENTRIES, i < s PROVE Ent(D, p, i).name # "END"
    <2>1. CASE s \in Shown(D, p)
      <3>1. i \in 1 .. s
        BY <1>0, <1>3
      <3> QED BY <2>1, <3>1 DEF Shown
    <2>2. CASE \A j \in 1 .. s - 1 : Ent(D, p, j).name \notin {"END", "DEL"}
      <3>1. i \in 1 .. s - 1
        BY <1>0, <1>3
      <3> QED BY <2>2, <3>1
    <2> QED BY <2>1, <2>2 DEF WriteSlot
  <1>4. ASSUME NEW i \in 1 .. ENTRIES, NEW j \in 1 .. ENTRIES, i < j, Ent(E, p, i).name = "END"
        PROVE  Ent(E, p, j).name = "END"
    <2>1. i # s /\ Ent(D, p, i).name = "END"
      BY <1>1, <1>4
    <2>2. j # s
      BY <1>3, <1>4, <2>1
    <2> QED BY <1>1, <1>4, <2>1, <2>2 DEF Listing
  <1>5. ASSUME NEW i \in 1 .. ENTRIES, NEW j \in 1 .. ENTRIES, i # j,
               Ent(E, p, i).name = Ent(E, p, j).name
        PROVE  Ent(E, p, i).name \in {"END", "DEL"}
    BY <1>1, <1>2, <1>5 DEF Listing
  <1>6. Listing(E, p)
    BY <1>1, <1>4, <1>5 DEF Listing
  <1>7. \A i \in 1 .. ENTRIES : i \in Shown(E, p) <=> i \in Shown(D, p) \/ i = s
    <2>1. \A i \in 1 .. ENTRIES : i \in Shown(E, p) <=> Ent(E, p, i).name # "END"
      BY <1>6, NamedIsShown
    <2>2. \A i \in 1 .. ENTRIES : i \in Shown(D, p) <=> Ent(D, p, i).name # "END"
      BY NamedIsShown
    <2> QED BY <1>1, <2>1, <2>2
  <1>8. Shown(E, p) = Shown(D, p) \union {s}
    <2>1. Shown(E, p) \subseteq 1 .. ENTRIES /\ Shown(D, p) \subseteq 1 .. ENTRIES
      BY DEF Shown
    <2> QED BY <1>7, <2>1
  <1>9. ASSUME NEW n, n # e.name, n # Ent(D, p, s).name PROVE Find(E, p, n) = Find(D, p, n)
    <2>1. Shown(D, p) \subseteq 1 .. ENTRIES
      BY DEF Shown
    <2>2. {i \in Shown(E, p) : Ent(E, p, i).name = n} = {i \in Shown(D, p) : Ent(D, p, i).name = n}
      BY <1>1, <1>8, <1>9, <2>1
    <2> QED BY <2>2 DEF Find
  <1>10. Find(E, p, e.name) = s
    BY <1>1, <1>6, <1>8, SlotIs
  <1> QED BY <1>6, <1>8, <1>9, <1>10

\* A file's entry is changed, added or removed: the tree of directories stays.
LEMMA FilesChange ==
  ASSUME ENTRIES >= 2, NEW D \in Disk, NEW E \in Disk, Tree(D), NEW p \in Dirs(D),
         NEW s \in 1 .. ENTRIES, NEW e, Changed(D, E, p, s, e), Listing(E, p),
         Shown(E, p) = Shown(D, p) \union {s}, e.name \notin {".", ".."},
         ~e.dir, ~Ent(D, p, s).dir
  PROVE  /\ Dirs(E) = Dirs(D) /\ Tree(E) /\ LeadsOn(D, E)
         /\ \A d, i : d # p \/ i # s => (Named(E, d, i) <=> Named(D, d, i))
         /\ Named(E, p, s) <=> e.name # "DEL"
         /\ \A d \in Dirs(D) : \A n : d # p => Find(E, d, n) = Find(D, d, n)
  <1>1. Dirs(D) \subseteq Cluster /\ Subdirs(D, Dirs(D)) /\ ROOT \in Dirs(D)
    BY DirectoriesClosed
  <1>2. /\ Ent(E, p, s) = e
        /\ \A d \in Dirs(D), i \in 1 .. ENTRIES : d # p \/ i # s => Ent(E, d, i) = Ent(D, d, i)
    BY <1>1, ChangedEntries
  <1>3. \A d \in Dirs(D) \ {p} : Shown(E, d) = Shown(D, d)
    BY DEF Changed, Shown, Ent
  <1>4. \A d : Shown(D, d) \subseteq 1 .. ENTRIES /\ Shown(E, d) \subseteq 1 .. ENTRIES
    BY DEF Shown
  <1>5. ASSUME NEW S, Subdirs(E, S) PROVE Subdirs(D, S \cap Dirs(D))
    BY <1>1, <1>2, <1>3, <1>4, <1>5 DEF Subdirs
  <1>6. Subdirs(E, Dirs(D))
    BY <1>1, <1>2, <1>3, <1>4 DEF Subdirs
  <1>7. Dirs(E) = Dirs(D)
    <2>1. Dirs(E) \subseteq Dirs(D)
      BY <1>1, <1>6, DirectoriesLeast
    <2>2. ASSUME NEW S \in SUBSET Cluster, Subdirs(E, S) PROVE Dirs(D) \subseteq S
      <3>1. Dirs(D) \subseteq S \cap Dirs(D)
        BY <1>1, <1>5, <2>2, DirectoriesLeast
      <3> QED BY <3>1
    <2>3. Dirs(D) \subseteq Dirs(E)
      BY <1>1, <2>2 DEF Dirs
    <2> QED BY <2>1, <2>3
  <1>8. ASSUME NEW d, NEW i, d # p \/ i # s PROVE Named(E, d, i) <=> Named(D, d, i)
    BY <1>2, <1>3, <1>4, <1>7, <1>8 DEF Named
  <1>9. Named(E, p, s) <=> e.name # "DEL"
    BY <1>2, <1>7 DEF Named
  <1>10. ASSUME NEW d \in Dirs(D), NEW n, d # p PROVE Find(E, d, n) = Find(D, d, n)
    <2>1. Shown(E, d) = Shown(D, d) /\ \A i \in Shown(D, d) : Ent(E, d, i) = Ent(D, d, i)
      BY <1>2, <1>3, <1>4, <1>10
    <2>2. {i \in Shown(E, d) : Ent(E, d, i).name = n} = {i \in Shown(D, d) : Ent(D, d, i).name = n}
      BY <2>1
    <2> QED BY <2>2 DEF Find
  <1>11. Tree(E)
    <2>1. \A d \in Dirs(D) : Listing(E, d)
      <3>1. ASSUME NEW d \in Dirs(D), d # p PROVE Listing(E, d)
        <4>1. \A i \in 1 .. ENTRIES : Ent(E, d, i) = Ent(D, d, i)
          BY <1>2, <3>1
        <4>2. Listing(D, d)
          BY DEF Tree
        <4> QED BY <4>1, <4>2 DEF Listing
      <3> QED BY <3>1
    <2>2. \A i \in 1 .. ENTRIES : Ent(E, ROOT, i).name \notin {".", ".."}
      BY <1>1, <1>2 DEF Tree
    <2>3. ASSUME NEW d \in Dirs(D), NEW q \in Dirs(D), Dots(D, d, q) PROVE Dots(E, d, q)
      <3>1. 1 \in 1 .. ENTRIES /\ 2 \in 1 .. ENTRIES
        BY Fat32Assumption
      <3>2. Ent(E, d, 1) = Ent(D, d, 1) /\ Ent(E, d, 2) = Ent(D, d, 2)
        BY <1>2, <2>3, <3>1 DEF Dots
      <3> QED BY <2>3, <3>2 DEF Dots
    <2>4. ASSUME NEW d \in Dirs(D), NEW i \in 1 .. ENTRIES, Named(E, d, i), Ent(E, d, i).dir
          PROVE  Ent(E, d, i).first \in Dirs(D) \ {ROOT} /\ Dots(E, Ent(E, d, i).first, d)
      <3>1. d # p \/ i # s
        BY <1>2, <2>4
      <3>2. Named(D, d, i) /\ Ent(E, d, i) = Ent(D, d, i)
        BY <1>2, <1>8, <2>4, <3>1
      <3>3. Ent(D, d, i).first \in Dirs(D) \ {ROOT} /\ Dots(D, Ent(D, d, i).first, d)
        BY <2>4, <3>2 DEF Tree
      <3> QED BY <2>3, <3>2, <3>3
    <2>5. \A d \in Dirs(D) \ {ROOT} : \E q \in Dirs(D) : Dots(E, d, q)
      BY <2>3 DEF Tree
    <2> QED BY <1>7, <2>1, <2>2, <2>4, <2>5 DEF Tree
  <1>12. LeadsOn(D, E)
    BY <1>2, <1>3, <1>4 DEF LeadsOn
  <1> QED BY <1>7, <1>8, <1>9, <1>10, <1>11, <1>12

\* A write's entry.
LEMMA FileWritten ==
  ASSUME ENTRIES >= 2, NEW D \in Disk, NEW E \in Disk, Tree(D), NEW p \in Dirs(D),
         NEW s \in 1 .. ENTRIES, NEW e, Changed(D, E, p, s, e), WriteSlot(D, p, s, e.name),
         e.name \notin {"END", "DEL", ".", ".."}, ~e.dir, ~Ent(D, p, s).dir
  PROVE  /\ Dirs(E) = Dirs(D) /\ Tree(E) /\ LeadsOn(D, E)
         /\ \A d, i : Named(E, d, i) <=> Named(D, d, i) \/ (d = p /\ i = s)
         /\ \A d \in Dirs(D) : \A n : n \notin {"END", "DEL"} /\ (d # p \/ n # e.name) =>
              Find(E, d, n) = Find(D, d, n)
         /\ Find(E, p, e.name) = s
  <1>1. p \in Cluster
    BY DEF Dirs
  <1>2. Listing(D, p)
    BY DEF Tree
  <1>3. /\ Listing(E, p) /\ Shown(E, p) = Shown(D, p) \union {s}
        /\ \A n : n # e.name /\ n # Ent(D, p, s).name => Find(E, p, n) = Find(D, p, n)
        /\ Find(E, p, e.name) = s
    BY <1>1, <1>2, ListingKept
  <1>4. Ent(D, p, s).name \in {e.name, "END", "DEL"}
    BY DEF WriteSlot
  <1>5. /\ Dirs(E) = Dirs(D) /\ Tree(E) /\ LeadsOn(D, E)
        /\ \A d, i : d # p \/ i # s => (Named(E, d, i) <=> Named(D, d, i))
        /\ Named(E, p, s) <=> e.name # "DEL"
        /\ \A d \in Dirs(D) : \A n : d # p => Find(E, d, n) = Find(D, d, n)
    BY <1>3, FilesChange
  <1> QED BY <1>3, <1>4, <1>5

\* A delete's entry.
LEMMA FileDeleted ==
  ASSUME ENTRIES >= 2, NEW D \in Disk, NEW E \in Disk, Tree(D), NEW p \in Dirs(D),
         NEW s \in Shown(D, p), NEW e, Changed(D, E, p, s, e),
         e.name = "DEL", ~e.dir, e.first = 0, ~Ent(D, p, s).dir
  PROVE  /\ Dirs(E) = Dirs(D) /\ Tree(E) /\ LeadsOn(D, E)
         /\ \A d, i : Named(E, d, i) <=> Named(D, d, i) /\ (d # p \/ i # s)
         /\ \A d \in Dirs(D) : \A n : n # "DEL" /\ (d # p \/ n # Ent(D, p, s).name) =>
              Find(E, d, n) = Find(D, d, n)
  <1>1. p \in Cluster /\ s \in 1 .. ENTRIES
    BY DEF Dirs, Shown
  <1>2. Listing(D, p) /\ Ent(D, p, s).name # "END"
    BY <1>1, NamedIsShown DEF Tree
  <1>3. /\ Ent(E, p, s) = e
        /\ \A i \in 1 .. ENTRIES : i # s => Ent(E, p, i) = Ent(D, p, i)
    BY <1>1, ChangedEntries
  <1>4. Listing(E, p)
    <2>1. ASSUME NEW i \in 1 .. ENTRIES, NEW j \in 1 .. ENTRIES, i < j, Ent(E, p, i).name = "END"
          PROVE  Ent(E, p, j).name = "END"
      BY <1>2, <1>3, <2>1 DEF Listing
    <2>2. ASSUME NEW i \in 1 .. ENTRIES, NEW j \in 1 .. ENTRIES, i # j,
                 Ent(E, p, i).name = Ent(E, p, j).name
          PROVE  Ent(E, p, i).name \in {"END", "DEL"}
      BY <1>2, <1>3, <2>2 DEF Listing
    <2> QED BY <1>2, <1>3, <2>1, <2>2 DEF Listing
  <1>5. Shown(E, p) = Shown(D, p) \union {s}
    <2>1. \A i \in 1 .. ENTRIES : i \in Shown(E, p) <=> Ent(E, p, i).name # "END"
      BY <1>4, NamedIsShown
    <2>2. \A i \in 1 .. ENTRIES : i \in Shown(D, p) <=> Ent(D, p, i).name # "END"
      BY <1>2, NamedIsShown
    <2>3. Shown(E, p) \subseteq 1 .. ENTRIES /\ Shown(D, p) \subseteq 1 .. ENTRIES
      BY DEF Shown
    <2> QED BY <1>3, <2>1, <2>2, <2>3
  <1>6. ASSUME NEW n, n # "DEL", n # Ent(D, p, s).name PROVE Find(E, p, n) = Find(D, p, n)
    <2>1. Shown(D, p) \subseteq 1 .. ENTRIES
      BY DEF Shown
    <2>2. {i \in Shown(E, p) : Ent(E, p, i).name = n} = {i \in Shown(D, p) : Ent(D, p, i).name = n}
      BY <1>3, <1>5, <1>6, <2>1
    <2> QED BY <2>2 DEF Find
  <1>7. /\ Dirs(E) = Dirs(D) /\ Tree(E) /\ LeadsOn(D, E)
        /\ \A d, i : d # p \/ i # s => (Named(E, d, i) <=> Named(D, d, i))
        /\ Named(E, p, s) <=> e.name # "DEL"
        /\ \A d \in Dirs(D) : \A n : d # p => Find(E, d, n) = Find(D, d, n)
    BY <1>1, <1>4, <1>5, FilesChange
  <1> QED BY <1>6, <1>7

\* A new directory has the entries . and .. and no other.
LEMMA NewDirEntries ==
  ASSUME ENTRIES >= 2, NEW E, NEW c, NEW p, E[c].entries = NewDir(c, p)
  PROVE  /\ Listing(E, c) \/ {".", ".."} \cap FileNames # {}
         /\ Dots(E, c, p)
         /\ \A i \in Shown(E, c) : Ent(E, c, i).name \in {".", ".."}
  <1>0. 1 \in 1 .. ENTRIES /\ 2 \in 1 .. ENTRIES /\ ENTRIES \in Nat
    BY Fat32Assumption
  <1>1. /\ Ent(E, c, 1) = Entry(".", TRUE, c, 0)
        /\ Ent(E, c, 2) = Entry("..", TRUE, p, 0)
        /\ \A i \in 1 .. ENTRIES : i > 2 => Ent(E, c, i) = EndEntry
    <2> DEFINE a == Entry(".", TRUE, c, 0)
               b == Entry("..", TRUE, p, 0)
               g == [NoEntries EXCEPT ![1] = a, ![2] = b]
    <2>1. E[c].entries = g
      BY DEF NewDir
    <2> HIDE DEF a, b
    <2>2. g[1] = a /\ g[2] = b /\ \A i \in 1 .. ENTRIES : i > 2 => g[i] = EndEntry
      BY <1>0 DEF NoEntries
    <2> HIDE DEF g
    <2>3. \A i : Ent(E, c, i) = g[i]
      BY <2>1 DEF Ent
    <2> QED BY <2>2, <2>3 DEF a, b
  <1>2. /\ Ent(E, c, 1).name = "." /\ Ent(E, c, 1).dir /\ Ent(E, c, 1).first = c
        /\ Ent(E, c, 2).name = ".." /\ Ent(E, c, 2).dir /\ Ent(E, c, 2).first = p
        /\ \A i \in 1 .. ENTRIES : i > 2 =>
             Ent(E, c, i).name = "END" /\ ~Ent(E, c, i).dir /\ Ent(E, c, i).first = 0
    BY <1>1 DEF Entry, EndEntry
  <1>3. \A i \in 1 .. ENTRIES : i = 1 \/ i = 2 \/ i > 2
    BY <1>0
  <1>4. Dots(E, c, p)
    BY <1>2 DEF Dots
  <1>5. ASSUME NEW i \in Shown(E, c) PROVE Ent(E, c, i).name \in {".", ".."}
    <2>1. i \in 1 .. ENTRIES /\ i \in 1 .. i
      BY <1>0 DEF Shown
    <2>2. Ent(E, c, i).name # "END"
      BY <2>1 DEF Shown
    <2> QED BY <1>2, <1>3, <2>1, <2>2
  <1>6. ASSUME {".", ".."} \cap FileNames = {} PROVE Listing(E, c)
    <2>1. \A i, j \in 1 .. ENTRIES : i < j /\ Ent(E, c, i).name = "END" => Ent(E, c, j).name = "END"
      BY <1>0, <1>2, <1>3
    <2>2. \A i, j \in 1 .. ENTRIES : i # j /\ Ent(E, c, i).name = Ent(E, c, j).name =>
            Ent(E, c, i).name \in {"END", "DEL"}
      BY <1>2, <1>3
    <2>3. \A i \in 1 .. ENTRIES : Ent(E, c, i).dir => Ent(E, c, i).name \notin FileNames
      BY <1>2, <1>3, <1>6
    <2> QED BY <1>2, <1>3, <2>1, <2>2, <2>3 DEF Listing
  <1> QED BY <1>4, <1>5, <1>6

\* A directory is added.
LEMMA DirectoryAdded ==
  ASSUME ENTRIES >= 2, {".", ".."} \cap FileNames = {},
         NEW D \in Disk, NEW E \in Disk, Tree(D), NEW p \in Dirs(D),
         NEW s \in 1 .. ENTRIES, NEW e, Changed(D, E, p, s, e), WriteSlot(D, p, s, e.name),
         Ent(D, p, s).name \in {"END", "DEL"}, e.dir,
         e.name \notin FileNames \union {"END", "DEL", ".", ".."},
         NEW c \in Cluster, c \notin Dirs(D), e.first = c, E[c].entries = NewDir(c, p)
  PROVE  /\ Dirs(E) = Dirs(D) \union {c} /\ Tree(E) /\ LeadsOn(D, E)
         /\ \A d, i : Named(E, d, i) <=> Named(D, d, i) \/ (d = p /\ i = s)
         /\ \A d \in Dirs(D) : \A n : n \notin {"END", "DEL"} /\ (d # p \/ n # e.name) =>
              Find(E, d, n) = Find(D, d, n)
  <1>1. Dirs(D) \subseteq Cluster /\ Subdirs(D, Dirs(D)) /\ ROOT \in Dirs(D) /\ c # ROOT
    BY DirectoriesClosed
  <1>2. /\ Ent(E, p, s) = e
        /\ \A d \in Dirs(D), i \in 1 .. ENTRIES : d # p \/ i # s => Ent(E, d, i) = Ent(D, d, i)
    BY <1>1, ChangedEntries
  <1>3. Listing(D, p) /\ ~Ent(D, p, s).dir
    BY DEF Tree, Listing
  <1>4. /\ Listing(E, p) /\ Shown(E, p) = Shown(D, p) \union {s}
        /\ \A n : n # e.name /\ n # Ent(D, p, s).name => Find(E, p, n) = Find(D, p, n)
    BY <1>1, <1>3, ListingKept
  <1>5. \A d \in Dirs(D) \ {p} : Shown(E, d) = Shown(D, d)
    BY DEF Changed, Shown, Ent
  <1>6. \A d : Shown(D, d) \subseteq 1 .. ENTRIES /\ Shown(E, d) \subseteq 1 .. ENTRIES
    BY DEF Shown
  <1>7. /\ Listing(E, c) /\ Dots(E, c, p)
        /\ \A i \in Shown(E, c) : Ent(E, c, i).name \in {".", ".."}
    BY NewDirEntries
  <1>8. ASSUME NEW S, Subdirs(E, S) PROVE Subdirs(D, S \cap Dirs(D))
    BY <1>1, <1>2, <1>3, <1>4, <1>5, <1>6, <1>8 DEF Subdirs
  <1>9. Subdirs(E, Dirs(D) \union {c})
    <2>1. ASSUME NEW d \in Dirs(D) \union {c}, NEW i \in 1 .. ENTRIES, i \in Shown(E, d),
                 Ent(E, d, i).name \notin {"DEL", ".", ".."}, Ent(E, d, i).dir
          PROVE  Ent(E, d, i).first \in Dirs(D) \union {c}
      <3>1. d # c
        BY <1>7, <2>1
      <3>2. CASE d = p /\ i = s
        BY <1>2, <3>2
      <3>3. CASE d # p \/ i # s
        <4>1. d \in Dirs(D) /\ Ent(E, d, i) = Ent(D, d, i) /\ i \in Shown(D, d)
          BY <1>2, <1>4, <1>5, <2>1, <3>1, <3>3
        <4> QED BY <1>1, <2>1, <4>1 DEF Subdirs
      <3> QED BY <3>2, <3>3
    <2> QED BY <1>1, <2>1 DEF Subdirs
  <1>10. Dirs(E) = Dirs(D) \union {c}
    <2>1. Dirs(E) \subseteq Dirs(D) \union {c}
      BY <1>1, <1>9, DirectoriesLeast
    <2>2. ASSUME NEW S \in SUBSET Cluster, Subdirs(E, S) PROVE Dirs(D) \union {c} \subseteq S
      <3>1. Dirs(D) \subseteq S \cap Dirs(D)
        BY <1>1, <1>8, <2>2, DirectoriesLeast
      <3>2. p \in S /\ s \in Shown(E, p)
        BY <1>4, <3>1
      <3>3. c \in S
        BY <1>2, <2>2, <3>2 DEF Subdirs
      <3> QED BY <3>1, <3>3
    <2>3. Dirs(D) \union {c} \subseteq Dirs(E)
      BY <1>1, <2>2 DEF Dirs
    <2> QED BY <2>1, <2>3
  <1>11. ASSUME NEW d, NEW i
         PROVE  Named(E, d, i) <=> Named(D, d, i) \/ (d = p /\ i = s)
    <2>1. CASE d = p /\ i = s
      BY <1>2, <1>4, <1>10, <2>1 DEF Named
    <2>2. CASE d # p \/ i # s
      <3>1. CASE d = c
        BY <1>7, <2>2, <3>1 DEF Named
      <3>2. CASE d # c
        BY <1>2, <1>4, <1>5, <1>6, <1>10, <2>2, <3>2 DEF Named
      <3> QED BY <3>1, <3>2
    <2> QED BY <2>1, <2>2
  <1>12. ASSUME NEW d \in Dirs(D), NEW n, n \notin {"END", "DEL"}, d # p \/ n # e.name
         PROVE  Find(E, d, n) = Find(D, d, n)
    <2>1. CASE d = p
      BY <1>4, <1>12, <2>1
    <2>2. CASE d # p
      <3>1. Shown(E, d) = Shown(D, d) /\ \A i \in Shown(D, d) : Ent(E, d, i) = Ent(D, d, i)
        BY <1>2, <1>5, <1>6, <2>2
      <3>2. {i \in Shown(E, d) : Ent(E, d, i).name = n} = {i \in Shown(D, d) : Ent(D, d, i).name = n}
        BY <3>1
      <3> QED BY <3>2 DEF Find
    <2> QED BY <2>1, <2>2
  <1>13. Tree(E)
    <2>1. \A d \in Dirs(E) : Listing(E, d)
      <3>1. ASSUME NEW d \in Dirs(D), d # p PROVE Listing(E, d)
        <4>1. \A i \in 1 .. ENTRIES : Ent(E, d, i) = Ent(D, d, i)
          BY <1>2, <3>1
        <4>2. Listing(D, d)
          BY DEF Tree
        <4> QED BY <4>1, <4>2 DEF Listing
      <3> QED BY <1>4, <1>7, <1>10, <3>1
    <2>2. \A i \in 1 .. ENTRIES : Ent(E, ROOT, i).name \notin {".", ".."}
      BY <1>1, <1>2 DEF Tree
    <2>3. ASSUME NEW d \in Dirs(D), NEW q \in Dirs(D), Dots(D, d, q) PROVE Dots(E, d, q)
      <3>1. 1 \in 1 .. ENTRIES /\ 2 \in 1 .. ENTRIES
        BY Fat32Assumption
      <3>2. Ent(E, d, 1) = Ent(D, d, 1) /\ Ent(E, d, 2) = Ent(D, d, 2)
        BY <1>2, <1>3, <2>3, <3>1 DEF Dots
      <3> QED BY <2>3, <3>2 DEF Dots
    <2>4. ASSUME NEW d \in Dirs(E), NEW i \in 1 .. ENTRIES, Named(E, d, i), Ent(E, d, i).dir
          PROVE  Ent(E, d, i).first \in Dirs(E) \ {ROOT} /\ Dots(E, Ent(E, d, i).first, d)
      <3>1. CASE d = p /\ i = s
        BY <1>1, <1>2, <1>7, <1>10, <3>1
      <3>2. CASE d # p \/ i # s
        <4>1. Named(D, d, i) /\ d \in Dirs(D) /\ Ent(E, d, i) = Ent(D, d, i)
          BY <1>2, <1>11, <2>4, <3>2 DEF Named
        <4>2. Ent(D, d, i).first \in Dirs(D) \ {ROOT} /\ Dots(D, Ent(D, d, i).first, d)
          BY <2>4, <4>1 DEF Tree
        <4> QED BY <1>10, <2>3, <4>1, <4>2
      <3> QED BY <3>1, <3>2
    <2>5. \A d \in Dirs(E) \ {ROOT} : \E q \in Dirs(E) : Dots(E, d, q)
      BY <1>7, <1>10, <2>3 DEF Tree
    <2> QED BY <2>1, <2>2, <2>4, <2>5 DEF Tree
  <1>14. LeadsOn(D, E)
    BY <1>2, <1>3, <1>4, <1>5, <1>6 DEF LeadsOn
  <1> QED BY <1>10, <1>11, <1>12, <1>13, <1>14


----------------------------------------------------------------------------
(* Paths *)

\* The operators of Fat32 in the state before a step and after it.
LEMMA SeenBefore ==
  /\ \A d : Visible(d) = Shown(disk, d)
  /\ \A d, n : Slot(d, n) = Find(disk, d, n)
  /\ \A d : FreeSlot(d) = Room(disk, d)
  /\ \A d, names : DirWalk(d, names) = Way(disk, d, names)
  <1>1. \A d : Visible(d) = Shown(disk, d)
    BY DEF Visible, Shown, Ent
  <1>2. \A d, n : Slot(d, n) = Find(disk, d, n)
    BY DEF Slot, Find, Visible, Shown, Ent
  <1>3. \A d : FreeSlot(d) = Room(disk, d)
    BY DEF FreeSlot, Room, Ent
  <1>4. \A d, n : Subdirectory(d, n) = Down(disk, d, n)
    BY DEF Subdirectory, Down, EntryOf, Slot, Find, Visible, Shown, Ent
  <1>5. \A d, names : DirWalk(d, names) = Way(disk, d, names)
    BY <1>4 DEF DirWalk, Way, IsWay, Subdirectory, Down, EntryOf, Slot, Find, Visible, Shown, Ent
  <1> QED BY <1>1, <1>2, <1>3, <1>5

\* The operators on the next disk are the primed operators of the model.
LEMMA SeenAfter ==
  /\ \A d : Visible(d)' = Shown(disk', d)
  /\ \A d, n : Slot(d, n)' = Find(disk', d, n)
  /\ \A d, names : DirWalk(d, names)' = Way(disk', d, names)
  <1>1. \A d : Visible(d)' = Shown(disk', d)
    BY DEF Visible, Shown, Ent
  <1>2. \A d, n : Slot(d, n)' = Find(disk', d, n)
    BY DEF Slot, Find, Visible, Shown, Ent
  <1>5. \A d, names : DirWalk(d, names)' = Way(disk', d, names)
    BY DEF DirWalk, Way, IsWay, Subdirectory, Down, EntryOf, Slot, Find, Visible, Shown, Ent
  <1> QED BY <1>1, <1>2, <1>5

\* Way satisfies its equation.
LEMMA WayExists ==
  ASSUME NEW D, NEW d, NEW names, NEW N \in Nat
  PROVE  \E w : IsWay(w, D, d, names, N)
  <1> DEFINE T == {k \in Nat : \E w : IsWay(w, D, d, names, k)}
  <1>1. 0 \in T
    <2> DEFINE g == [i \in 0 .. 0 |-> d]
    <2>1. IsWay(g, D, d, names, 0)
      BY DEF IsWay
    <2> HIDE DEF g
    <2> QED BY <2>1
  <1>2. ASSUME NEW k \in Nat, k \in T PROVE k + 1 \in T
    <2>1. PICK w : IsWay(w, D, d, names, k)
      BY <1>2
    <2> DEFINE g == [i \in 0 .. k + 1 |-> IF i = k + 1 THEN Down(D, w[k], names[k + 1]) ELSE w[i]]
    <2>2. \A i \in 0 .. k + 1 : g[i] = IF i = 0 THEN d ELSE Down(D, g[i - 1], names[i])
      BY <2>1 DEF IsWay
    <2>3. IsWay(g, D, d, names, k + 1)
      BY <2>2 DEF IsWay
    <2> HIDE DEF g
    <2> QED BY <2>3
  <1> HIDE DEF T
  <1>3. N \in T
    BY <1>1, <1>2, SetInduction
  <1> QED BY <1>3 DEF T

\* A step of a way is a lookup in a directory.
LEMMA WaySteps ==
  ASSUME NEW D, NEW d, NEW names, Len(names) \in Nat
  PROVE  /\ Way(D, d, names)[0] = d
         /\ \A i \in 0 .. Len(names) - 1 :
              Way(D, d, names)[i + 1] = Down(D, Way(D, d, names)[i], names[i + 1])
  <1> DEFINE N == Len(names)
             w == Way(D, d, names)
  <1>1. IsWay(w, D, d, names, N)
    BY WayExists, Zenon DEF Way
  <1> HIDE DEF w
  <1>2. \A i \in 0 .. N : w[i] = IF i = 0 THEN d ELSE Down(D, w[i - 1], names[i])
    BY <1>1 DEF IsWay
  <1>3. ASSUME NEW i \in 0 .. N - 1 PROVE w[i + 1] = Down(D, w[i], names[i + 1])
    <2>1. i + 1 \in 0 .. N /\ i + 1 # 0 /\ (i + 1) - 1 = i
      OBVIOUS
    <2> QED BY <1>2, <2>1
  <1>4. w[0] = d
    BY <1>2
  <1> QED BY <1>3, <1>4 DEF w

\* A directory's name leads to a directory, whose .. leads back when the name is not . or ..
LEMMA EntryLeads ==
  ASSUME ENTRIES >= 2, NEW D \in Disk, Tree(D), NEW d \in Dirs(D), NEW n,
         Find(D, d, n) # 0, Ent(D, d, Find(D, d, n)).dir
  PROVE  /\ Ent(D, d, Find(D, d, n)).first \in Dirs(D)
         /\ n \notin {".", ".."} => Dots(D, Ent(D, d, Find(D, d, n)).first, d)
         /\ n \in {".", ".."} => d # ROOT
         /\ n = "." => Ent(D, d, Find(D, d, n)).first = d
         /\ n = ".." => Dots(D, d, Ent(D, d, Find(D, d, n)).first)
  <1> DEFINE i == Find(D, d, n)
  <1>2. i \in Shown(D, d) /\ i \in 1 .. ENTRIES /\ Ent(D, d, i).name = n
    BY SlotFinds
  <1>3. Listing(D, d) /\ Ent(D, d, i).dir
    BY DEF Tree
  <1> HIDE DEF i
  <1>4. CASE n \in {".", ".."}
    <2>1. d # ROOT
      BY <1>2, <1>4 DEF Tree
    <2>2. PICK p \in Dirs(D) : Dots(D, d, p)
      BY <2>1 DEF Tree
    <2>3. 1 \in 1 .. ENTRIES /\ 2 \in 1 .. ENTRIES
      BY Fat32Assumption
    <2>4. (n = "." => i = 1) /\ (n = ".." => i = 2)
      BY <1>2, <1>3, <1>4, <2>2, <2>3 DEF Dots, Listing
    <2>5. (n = "." => Ent(D, d, i).first = d) /\ (n = ".." => Ent(D, d, i).first = p)
      BY <2>2, <2>4 DEF Dots
    <2> QED BY <1>4, <2>1, <2>2, <2>5 DEF i
  <1>5. CASE n \notin {".", ".."}
    <2>1. n # "DEL"
      BY <1>2, <1>3 DEF Listing
    <2>2. Named(D, d, i)
      BY <1>2, <1>5, <2>1 DEF Named
    <2> QED BY <1>2, <1>3, <1>5, <2>2 DEF Tree, i
  <1> QED BY <1>4, <1>5

\* A name in a directory leads to a directory or nowhere.
LEMMA DownInDirs ==
  ASSUME ENTRIES >= 2, NEW D \in Disk, Tree(D), NEW d \in Dirs(D) \union {NoDir}, NEW n
  PROVE  Down(D, d, n) \in Dirs(D) \union {NoDir}
  BY EntryLeads DEF Down

\* Every step of a way is a directory or fails.
LEMMA WayInDirs ==
  ASSUME ENTRIES >= 2, NEW D \in Disk, Tree(D), NEW d \in Dirs(D), NEW names,
         Len(names) \in Nat, NEW i \in 0 .. Len(names)
  PROVE  Way(D, d, names)[i] \in Dirs(D) \union {NoDir}
  <1> DEFINE T == {k \in Nat : k <= Len(names) => Way(D, d, names)[k] \in Dirs(D) \union {NoDir}}
  <1>1. 0 \in T
    BY WaySteps
  <1>2. ASSUME NEW k \in Nat, k \in T PROVE k + 1 \in T
    <2>1. CASE k + 1 <= Len(names)
      <3>1. k \in 0 .. Len(names) - 1 /\ Way(D, d, names)[k] \in Dirs(D) \union {NoDir}
        BY <1>2, <2>1
      <3>2. Way(D, d, names)[k + 1] \in Dirs(D) \union {NoDir}
        <4>1. Way(D, d, names)[k + 1] = Down(D, Way(D, d, names)[k], names[k + 1])
          BY <3>1, WaySteps
        <4> QED BY <3>1, <4>1, DownInDirs
      <3> QED BY <3>2
    <2>2. CASE ~(k + 1 <= Len(names))
      BY <2>2
    <2> QED BY <2>1, <2>2
  <1> HIDE DEF T
  <1>3. \A k \in Nat : k \in T
    BY <1>1, <1>2, SetInduction
  <1> QED BY <1>3 DEF T

\* A way that leads somewhere leads there after a step, too.
LEMMA DownKept ==
  ASSUME NEW D \in Disk, NEW E \in Disk, Tree(D), Tree(E), Dirs(D) \subseteq Dirs(E),
         LeadsOn(D, E), NEW d \in Dirs(D), NEW n, Down(D, d, n) # NoDir
  PROVE  Down(E, d, n) = Down(D, d, n)
  <1> DEFINE i == Find(D, d, n)
  <1>1. i # 0 /\ Ent(D, d, i).dir /\ d # NoDir
    BY DEF Down
  <1>2. i \in Shown(D, d) /\ i \in 1 .. ENTRIES /\ Ent(D, d, i).name = n
    BY <1>1, SlotFinds
  <1> HIDE DEF i
  <1>3. i \in Shown(E, d) /\ Ent(E, d, i) = Ent(D, d, i)
    BY <1>1, <1>2 DEF LeadsOn
  <1>4. Listing(E, d) /\ Listing(D, d)
    BY DEF Tree
  <1>5. n \notin {"END", "DEL"}
    BY <1>1, <1>2, <1>4 DEF Listing
  <1>6. Find(E, d, n) = i
    BY <1>2, <1>3, <1>4, <1>5, SlotIs
  <1> QED BY <1>1, <1>3, <1>6 DEF Down, i

\* A way in a disk in which every lookup along it gives the same is the same way.
LEMMA WayKept ==
  ASSUME ENTRIES >= 2, NEW D \in Disk, NEW E \in Disk, Tree(D), Tree(E), Dirs(D) \subseteq Dirs(E),
         LeadsOn(D, E), NEW d \in Dirs(D), NEW names, Len(names) \in Nat,
         NEW i \in 0 .. Len(names), Way(D, d, names)[i] # NoDir
  PROVE  Way(E, d, names)[i] = Way(D, d, names)[i]
  <1> DEFINE T == {k \in Nat : k <= Len(names) /\ Way(D, d, names)[k] # NoDir =>
                     Way(E, d, names)[k] = Way(D, d, names)[k]}
  <1>1. 0 \in T
    BY WaySteps
  <1>2. ASSUME NEW k \in Nat, k \in T PROVE k + 1 \in T
    <2>1. CASE k + 1 <= Len(names) /\ Way(D, d, names)[k + 1] # NoDir
      <3>1. k \in 0 .. Len(names) - 1 /\ k \in 0 .. Len(names) /\ k <= Len(names)
        BY <2>1
      <3>2. Way(D, d, names)[k + 1] = Down(D, Way(D, d, names)[k], names[k + 1])
        BY <3>1, WaySteps
      <3>3. Way(D, d, names)[k] # NoDir
        BY <2>1, <3>2 DEF Down
      <3>4. Way(E, d, names)[k] = Way(D, d, names)[k]
        BY <1>2, <3>1, <3>3
      <3>5. Way(D, d, names)[k] \in Dirs(D)
        BY <3>1, <3>3, WayInDirs
      <3>6. Way(E, d, names)[k + 1] = Down(E, Way(D, d, names)[k], names[k + 1])
        BY <3>1, <3>4, WaySteps
      <3>7. Way(E, d, names)[k + 1] = Way(D, d, names)[k + 1]
        BY <2>1, <3>2, <3>5, <3>6, DownKept
      <3> QED BY <3>7
    <2>2. CASE ~(k + 1 <= Len(names) /\ Way(D, d, names)[k + 1] # NoDir)
      BY <2>2
    <2> QED BY <2>1, <2>2
  <1> HIDE DEF T
  <1>3. \A k \in Nat : k \in T
    BY <1>1, <1>2, SetInduction
  <1> QED BY <1>3 DEF T

\* The way along the first names of a path.
LEMMA WayPrefix ==
  ASSUME NEW D, NEW d, NEW a, NEW b, Len(a) \in Nat, Len(b) \in Nat, Len(a) <= Len(b),
         \A i \in 1 .. Len(a) : a[i] = b[i]
  PROVE  \A i \in 0 .. Len(a) : Way(D, d, a)[i] = Way(D, d, b)[i]
  <1> DEFINE T == {k \in Nat : k <= Len(a) => Way(D, d, a)[k] = Way(D, d, b)[k]}
  <1>1. 0 \in T
    BY WaySteps
  <1>2. ASSUME NEW k \in Nat, k \in T PROVE k + 1 \in T
    <2>1. CASE k + 1 <= Len(a)
      <3>1. k \in 0 .. Len(a) - 1 /\ k \in 0 .. Len(b) - 1 /\ k + 1 \in 1 .. Len(a)
            /\ Way(D, d, a)[k] = Way(D, d, b)[k]
        BY <1>2, <2>1
      <3>2. Way(D, d, a)[k + 1] = Way(D, d, b)[k + 1]
        BY <3>1, WaySteps
      <3> QED BY <3>2
    <2>2. CASE ~(k + 1 <= Len(a))
      BY <2>2
    <2> QED BY <2>1, <2>2
  <1> HIDE DEF T
  <1>3. \A k \in Nat : k \in T
    BY <1>1, <1>2, SetInduction
  <1> QED BY <1>3 DEF T


----------------------------------------------------------------------------
(* Ownership of clusters *)

\* 0 is not the first cluster of anything.
LEMMA NoChain ==
  ASSUME NEW f
  PROVE  Chain(f, 0) = {}
  <1>1. 0 \notin Cluster
    BY Marks DEF FREE
  <1>2. \A i \in 0 .. TOTAL_CLUSTERS : Walk(f, 0)[i] \in {0}
    BY <1>1, WalkStays
  <1> QED BY <1>1, <1>2 DEF Chain

\* The clusters of an entry are those of its chain.
LEMMA UsedIsChain ==
  ASSUME NEW f, NEW e
  PROVE  Used(f, e) = Chain(f, e.first) /\ Used(f, e) \subseteq Cluster
  BY NoChain DEF Used, Chain

\* The first cluster of a chain is in it.
LEMMA FirstInChain ==
  ASSUME NEW f, NEW c \in Cluster
  PROVE  c \in Chain(f, c)
  <1>1. Walk(f, c)[0] = c /\ 0 \in 0 .. TOTAL_CLUSTERS
    BY WalkSteps, Fat32Assumption
  <1> QED BY <1>1 DEF Chain

\* A sound entry that has clusters has a well ended chain.
LEMMA SoundEnds ==
  ASSUME NEW f, NEW e, Sound(f, e), e.first \in Cluster \union {0}
  PROVE  /\ e.first # 0 => WellEnded(f, e.first)
         /\ \A c \in Used(f, e) : f[c] # FREE
         /\ e.dir => e.first \in Cluster /\ Used(f, e) = {e.first}
  <1>1. CASE e.first = 0
    BY <1>1 DEF Sound, Used
  <1>2. CASE e.first # 0
    <2>1. e.first \in Cluster
      BY <1>2
    <2>2. WellEnded(f, e.first) /\ (e.dir => Used(f, e) = {e.first})
      <3>1. CASE e.dir
        <4>1. f[e.first] = EOC
          BY <3>1 DEF Sound
        <4> QED BY <2>1, <4>1, OneCluster, UsedIsChain
      <3>2. CASE ~e.dir
        BY <1>2, <3>2 DEF Sound
      <3> QED BY <3>1, <3>2
    <2>3. \A c \in Used(f, e) : f[c] # FREE
      BY <2>2, UsedIsChain, ChainInUse
    <2> QED BY <2>1, <2>2, <2>3
  <1> QED BY <1>1, <1>2

\* The chain of an entry is not touched.
LEMMA UsedKept ==
  ASSUME NEW f, NEW g, NEW e, e.first \in Cluster \union {0},
         \A c \in Used(f, e) : g[c] = f[c]
  PROVE  /\ Used(g, e) = Used(f, e)
         /\ Sound(f, e) => Sound(g, e)
         /\ \A i \in 0 .. TOTAL_CLUSTERS : Walk(g, e.first)[i] = Walk(f, e.first)[i]
  <1>1. Used(f, e) = Chain(f, e.first) /\ Used(g, e) = Chain(g, e.first)
    BY UsedIsChain
  <1>2. /\ \A i \in 0 .. TOTAL_CLUSTERS : Walk(g, e.first)[i] = Walk(f, e.first)[i]
        /\ Chain(g, e.first) = Chain(f, e.first)
        /\ WellEnded(g, e.first) <=> WellEnded(f, e.first)
    BY <1>1, WalkKept
  <1>3. e.first # 0 => e.first \in Used(f, e)
    BY <1>1, FirstInChain
  <1>4. Sound(f, e) => Sound(g, e)
    BY <1>1, <1>2, <1>3 DEF Sound
  <1> QED BY <1>1, <1>2, <1>4

\* The pairs of directory and slot.
Slots == Cluster \X (1 .. ENTRIES)

\* The entry in a slot has its type.
LEMMA SlotTyped ==
  ASSUME NEW D \in Disk, NEW x \in Slots
  PROVE  /\ Ent(D, x[1], x[2]).first \in Cluster \union {0}
         /\ x[1] \in Cluster /\ x[2] \in 1 .. ENTRIES
  BY EntTyped DEF Slots

\* The steps of Owned: an entry's clusters go to the call, a cluster is freed or taken,
\* the call's clusters go to an entry.
LEMMA OwnedSame ==
  ASSUME NEW D, NEW E, NEW f, NEW N, NEW M, Owned(D, f, N, M),
         \A x \in N : Ent(E, x[1], x[2]) = Ent(D, x[1], x[2])
  PROVE  Owned(E, f, N, M)
  BY DEF Owned

\* An entry hands its clusters to the call,
LEMMA OwnedLoses ==
  ASSUME NEW D, NEW f, NEW N, Owned(D, f, N, {}), NEW x \in N
  PROVE  Owned(D, f, N \ {x}, Used(f, Ent(D, x[1], x[2])))
  BY DEF Owned

\* ... the call hands its clusters to an entry,
LEMMA OwnedGains ==
  ASSUME NEW D, NEW E, NEW f, NEW N, NEW M, Owned(D, f, N, M),
         \A y \in N : Ent(E, y[1], y[2]) = Ent(D, y[1], y[2]),
         NEW x, x \notin N, Sound(f, Ent(E, x[1], x[2])), Used(f, Ent(E, x[1], x[2])) = M
  PROVE  Owned(E, f, N \union {x}, {})
  <1>1. ASSUME NEW c \in Cluster, f[c] # FREE
        PROVE  c = ROOT \/ \E y \in N \union {x} : c \in Used(f, Ent(E, y[1], y[2]))
    BY <1>1 DEF Owned
  <1>2. \A y \in N \union {x} : /\ Sound(f, Ent(E, y[1], y[2]))
                                /\ ROOT \notin Used(f, Ent(E, y[1], y[2]))
    BY DEF Owned
  <1>3. \A y, z \in N \union {x} : y # z =>
          Used(f, Ent(E, y[1], y[2])) \cap Used(f, Ent(E, z[1], z[2])) = {}
    BY DEF Owned
  <1>4. f[ROOT] = EOC
    BY DEF Owned
  <1> QED BY <1>1, <1>2, <1>3, <1>4 DEF Owned

\* ... a cluster is given back to the FAT,
LEMMA OwnedFrees ==
  ASSUME NEW D \in Disk, NEW f \in Fat, NEW N, N \subseteq Slots, NEW M, Owned(D, f, N, M),
         NEW c \in M, c \in Cluster
  PROVE  Owned(D, [f EXCEPT ![c] = FREE], N, M \ {c})
  <1> DEFINE g == [f EXCEPT ![c] = FREE]
             U(x) == Used(f, Ent(D, x[1], x[2]))
  <1>1. \A y \in Cluster : g[y] = IF y = c THEN FREE ELSE f[y]
    BY DEF Fat
  <1> HIDE DEF g
  <1>2. ASSUME NEW x \in N
        PROVE  Used(g, Ent(D, x[1], x[2])) = U(x) /\ Sound(g, Ent(D, x[1], x[2]))
    <2>1. U(x) \subseteq Cluster /\ c \notin U(x) /\ Sound(f, Ent(D, x[1], x[2]))
      BY UsedIsChain DEF Owned
    <2>2. Ent(D, x[1], x[2]).first \in Cluster \union {0}
      BY SlotTyped
    <2> QED BY <1>1, <2>1, <2>2, UsedKept
  <1>3. c # ROOT /\ g[ROOT] = EOC
    BY <1>1, Marks DEF Owned
  <1> QED BY <1>1, <1>2, <1>3 DEF Owned, g

\* ... and a free one is taken.
LEMMA OwnedTakes ==
  ASSUME NEW D \in Disk, NEW f \in Fat, NEW N, N \subseteq Slots, Owned(D, f, N, {}),
         NEW c \in Cluster, f[c] = FREE
  PROVE  Owned(D, [f EXCEPT ![c] = EOC], N, {c})
  <1> DEFINE g == [f EXCEPT ![c] = EOC]
             U(x) == Used(f, Ent(D, x[1], x[2]))
  <1>1. \A y \in Cluster : g[y] = IF y = c THEN EOC ELSE f[y]
    BY DEF Fat
  <1> HIDE DEF g
  <1>2. ASSUME NEW x \in N
        PROVE  Used(g, Ent(D, x[1], x[2])) = U(x) /\ Sound(g, Ent(D, x[1], x[2])) /\ c \notin U(x)
    <2>1. U(x) \subseteq Cluster /\ Sound(f, Ent(D, x[1], x[2]))
      BY UsedIsChain DEF Owned
    <2>2. Ent(D, x[1], x[2]).first \in Cluster \union {0}
      BY SlotTyped
    <2>3. c \notin U(x)
      BY <2>1, <2>2, SoundEnds
    <2> QED BY <1>1, <2>1, <2>2, <2>3, UsedKept
  <1>3. c # ROOT /\ g[ROOT] = EOC
    BY <1>1, Marks DEF Owned
  <1>4. \A x \in N : ROOT \notin U(x)
    BY DEF Owned
  <1>5. \A x, y \in N : x # y => U(x) \cap U(y) = {}
    BY DEF Owned
  <1>6. \A y \in Cluster : f[y] # FREE => y = ROOT \/ \E x \in N : y \in U(x)
    BY DEF Owned
  <1> HIDE DEF U
  <1>7. \A y \in Cluster : g[y] # FREE => y = ROOT \/ y \in {c} \/ \E x \in N : y \in U(x)
    BY <1>1, <1>6
  <1>8. \A x \in N : Used(g, Ent(D, x[1], x[2])) = U(x)
    BY <1>2
  <1>9. Owned(D, g, N, {c})
    BY <1>2, <1>3, <1>4, <1>5, <1>7, <1>8 DEF Owned
  <1> QED BY <1>9 DEF g


\* The slots that hold a name.
InTree(D) == {x \in Slots : Named(D, x[1], x[2])}

\* A write or a delete has its slot in hand.
Busy == pc \in {"free", "alloc", "data", "dirent", "save"} /\ call.kind \in {"write", "delete"}

\* What is held, while a call has a slot in hand and otherwise,
LEMMA HeldNow ==
  /\ Busy => Held = InTree(disk) \ {<<call.parent, call.slot>>}
  /\ ~Busy => Held = InTree(disk)
  <1>1. \A x \in Slots : x[1] = call.parent /\ x[2] = call.slot <=> x = <<call.parent, call.slot>>
    BY DEF Slots
  <1>2. \A x \in Slots : x \in Held <=> x \in InTree(disk) /\ ~(Busy /\ x = <<call.parent, call.slot>>)
    BY <1>1 DEF Held, InTree, Changing, Busy, Slots
  <1>3. Held \subseteq Slots /\ InTree(disk) \subseteq Slots
    BY DEF Held, InTree, Slots
  <1> QED BY <1>2, <1>3

\* ... and the same after a step.
LEMMA HeldNext ==
  /\ Busy' => Held' = InTree(disk') \ {<<call'.parent, call'.slot>>}
  /\ ~Busy' => Held' = InTree(disk')
  <1>1. \A x \in Slots : x[1] = call'.parent /\ x[2] = call'.slot <=> x = <<call'.parent, call'.slot>>
    BY DEF Slots
  <1>2. \A x \in Slots : x \in Held' <=> x \in InTree(disk') /\ ~(Busy' /\ x = <<call'.parent, call'.slot>>)
    BY <1>1 DEF Held, InTree, Changing, Busy, Slots
  <1>3. Held' \subseteq Slots /\ InTree(disk') \subseteq Slots
    BY DEF Held, InTree, Slots
  <1> QED BY <1>2, <1>3

\* Without I/O errors the FAT is read and written as it should be.
LEMMA PlainReads ==
  ASSUME PlainSession, CacheCoherent, NEW r \in FatReads
  PROVE  r.view = fat /\ r.cache \in {NoCache, fat}
  <1>1. Faults = {}
    BY DEF PlainSession, Faults
  <1> QED BY <1>1 DEF FatReads, CacheCoherent

\* No transfer fails: the cached sector and the two FATs are read and written as one.
LEMMA PlainWrites ==
  ASSUME PlainSession, CacheCoherent, NEW c, NEW v, NEW cache \in {NoCache, fat},
         NEW w \in FatWrites(c, v, cache)
  PROVE  /\ w.fat = [fat EXCEPT ![c] = v] /\ w.fat2 = w.fat /\ w.ok
         /\ w.cache \in {NoCache, w.fat}
  <1>1. ~IO_ERRORS /\ fat = fat2
    BY DEF PlainSession, CacheCoherent
  <1>2. {q \in {<<fat, fat2>>, <<[fat EXCEPT ![c] = v], fat2>>,
                <<[fat EXCEPT ![c] = v], [fat2 EXCEPT ![c] = v]>>} : IO_ERRORS} = {}
    BY <1>1
  <1>3. w = [fat |-> [fat EXCEPT ![c] = v], fat2 |-> [fat2 EXCEPT ![c] = v], ok |-> TRUE,
             cache |-> IF cache = NoCache THEN NoCache ELSE [cache EXCEPT ![c] = v]]
    BY <1>2 DEF FatWrites
  <1> QED BY <1>1, <1>3

\* A file is no larger than the volume.
LEMMA SoundSize ==
  ASSUME NEW f, NEW e, Sound(f, e), ~e.dir
  PROVE  Clusters(e.size) \in Nat /\ Clusters(e.size) <= TOTAL_CLUSTERS
  <1>0. TOTAL_CLUSTERS \in Nat
    BY Fat32Assumption
  <1>1. IsFiniteSet(Cluster) /\ Cardinality(Cluster) = TOTAL_CLUSTERS
    BY <1>0, FS_Interval DEF Cluster, ROOT
  <1>2. Used(f, e) \subseteq Cluster
    BY UsedIsChain
  <1>3. Cardinality(Used(f, e)) <= TOTAL_CLUSTERS /\ IsFiniteSet(Used(f, e))
    BY <1>1, <1>2, FS_Subset
  <1>4. Cardinality(Used(f, e)) \in Nat
    BY <1>3, FS_CardinalityType
  <1>5. Cardinality(Used(f, e)) = Clusters(e.size)
    BY DEF Sound
  <1> QED BY <1>3, <1>4, <1>5

\* A file whose entry, chain and data stay is intact.
LEMMA IntactKept ==
  ASSUME NEW D, NEW E, NEW f, NEW g, NEW e, Intact(D, f, e),
         NEW x, x = Ent(D, e.dir, Find(D, e.dir, e.name)), Sound(f, x),
         x.first \in Cluster \union {0},
         Find(E, e.dir, e.name) = Find(D, e.dir, e.name),
         Ent(E, e.dir, Find(D, e.dir, e.name)) = x,
         \A c \in Used(f, x) : g[c] = f[c] /\ E[c].bytes = D[c].bytes
  PROVE  Intact(E, g, e)
  <1>1. x.size = Len(e.bytes) /\ ~x.dir /\ Find(D, e.dir, e.name) # 0
    BY DEF Intact
  <1>2. Clusters(Len(e.bytes)) \in Nat /\ Clusters(Len(e.bytes)) <= TOTAL_CLUSTERS
    BY <1>1, SoundSize
  <1>3. \A i \in 0 .. TOTAL_CLUSTERS : Walk(g, x.first)[i] = Walk(f, x.first)[i]
    BY UsedKept
  <1>4. ASSUME NEW n \in 1 .. Clusters(Len(e.bytes))
        PROVE  /\ Walk(g, x.first)[n - 1] \in Cluster
               /\ E[Walk(g, x.first)[n - 1]].bytes = Chunk(e.bytes, n)
    <2>1. n - 1 \in 0 .. TOTAL_CLUSTERS
      BY <1>2, Fat32Assumption
    <2>2. /\ Walk(f, x.first)[n - 1] \in Cluster
          /\ D[Walk(f, x.first)[n - 1]].bytes = Chunk(e.bytes, n)
      BY DEF Intact
    <2>3. Walk(f, x.first)[n - 1] \in Used(f, x)
      BY <2>1, <2>2, UsedIsChain DEF Chain
    <2> QED BY <1>3, <2>1, <2>2, <2>3
  <1> QED BY <1>1, <1>4 DEF Intact

\* The entry of a file that must be intact is not the one that is being changed.
LEMMA KeptIsHeld ==
  ASSUME FatIInv, NEW e \in expect
  PROVE  /\ <<e.dir, Find(disk, e.dir, e.name)>> \in Held
         /\ Named(disk, e.dir, Find(disk, e.dir, e.name))
         /\ Ent(disk, e.dir, Find(disk, e.dir, e.name)).name = e.name
         /\ ~Ent(disk, e.dir, Find(disk, e.dir, e.name)).dir
         /\ e.dir \in Cluster /\ Find(disk, e.dir, e.name) \in 1 .. ENTRIES
  <1> DEFINE i == Find(disk, e.dir, e.name)
  <1>1. /\ e.dir \in Dirs(disk) /\ e.name \in Names \ {"END", "DEL", ".", ".."}
        /\ i # 0 /\ ~Ent(disk, e.dir, i).dir
        /\ call.kind # "none" => e.dir # call.parent \/ e.name # call.name
    BY DEF FatIInv, Kept, Intact
  <1>2. i \in Shown(disk, e.dir) /\ i \in 1 .. ENTRIES /\ Ent(disk, e.dir, i).name = e.name
    BY <1>1, SlotFinds
  <1> HIDE DEF i
  <1>3. e.dir \in Cluster
    BY <1>1 DEF Dirs
  <1>4. Named(disk, e.dir, i)
    BY <1>1, <1>2 DEF Named
  <1>5. ~Changing(e.dir, i)
    <2>1. SUFFICES ASSUME call.kind \in {"write", "delete"}, e.dir = call.parent, i = call.slot
                   PROVE  FALSE
      BY DEF Changing
    <2>2. e.name # call.name
      BY <1>1, <2>1
    <2>3. CASE call.kind = "write"
      <3>1. WriteSlot(disk, call.parent, call.slot, call.name)
        BY <2>3 DEF FatIInv, InCall, InWrite
      <3> QED BY <1>1, <1>2, <2>1, <2>2, <3>1 DEF WriteSlot
    <2>4. CASE call.kind = "delete"
      <3>1. call.parent = ROOT /\ Ent(disk, ROOT, call.slot).name = call.name
        BY <2>4 DEF FatIInv, InCall, InDelete
      <3> QED BY <1>2, <2>1, <2>2, <3>1
    <2> QED BY <2>1, <2>3, <2>4
  <1>6. <<e.dir, i>> \in Held
    BY <1>2, <1>3, <1>4, <1>5 DEF Held
  <1> QED BY <1>1, <1>2, <1>3, <1>4, <1>6 DEF i

\* A file stays intact when its chain, its bytes and its entry stay.
LEMMA KeptStep ==
  ASSUME FatIInv, NEW E, NEW g, NEW e \in expect,
         \A x \in Held : ~Ent(disk, x[1], x[2]).dir =>
           \A c \in Used(fat, Ent(disk, x[1], x[2])) : g[c] = fat[c] /\ E[c].bytes = disk[c].bytes,
         Find(E, e.dir, e.name) = Find(disk, e.dir, e.name),
         Ent(E, e.dir, Find(disk, e.dir, e.name)) = Ent(disk, e.dir, Find(disk, e.dir, e.name))
  PROVE  Intact(E, g, e)
  <1> DEFINE i == Find(disk, e.dir, e.name)
             y == <<e.dir, i>>
             x == Ent(disk, e.dir, i)
  <1>1. y \in Held /\ ~x.dir /\ e.dir \in Cluster /\ i \in 1 .. ENTRIES
    BY KeptIsHeld
  <1>2. y[1] = e.dir /\ y[2] = i
    OBVIOUS
  <1>3. Sound(fat, x)
    BY <1>1, <1>2 DEF FatIInv, Ownership, Owned
  <1>4. x.first \in Cluster \union {0}
    BY <1>1, EntTyped DEF FatIInv, Typed
  <1>5. \A c \in Used(fat, x) : g[c] = fat[c] /\ E[c].bytes = disk[c].bytes
    BY <1>1, <1>2
  <1>6. Intact(disk, fat, e)
    BY DEF FatIInv, Kept
  <1> QED BY <1>3, <1>4, <1>5, <1>6, IntactKept

\* The clusters of directories belong to no file and not to the call.
LEMMA DirsApart ==
  ASSUME FatIInv, NEW d \in Dirs(disk)
  PROVE  /\ d \in Cluster /\ fat[d] # FREE /\ d \notin Mine
         /\ \A x \in Held : ~Ent(disk, x[1], x[2]).dir => d \notin Used(fat, Ent(disk, x[1], x[2]))
  <1>0. disk \in Disk /\ Tree(disk) /\ Owned(disk, fat, Held, Mine)
    BY DEF FatIInv, Typed, Ownership
  <1>1. d \in Cluster
    BY DEF Dirs
  <1>2. CASE d = ROOT
    BY <1>0, <1>1, <1>2, Marks DEF Owned
  <1>3. CASE d # ROOT
    <2>1. PICK p \in Dirs(disk), i \in 1 .. ENTRIES :
            Named(disk, p, i) /\ Ent(disk, p, i).dir /\ Ent(disk, p, i).first = d
      BY <1>0, <1>3, DirectoryIsNamed
    <2>2. ~Changing(p, i)
      <3>1. CASE call.kind = "write"
        <4>1. ~Ent(disk, call.parent, call.slot).dir
          BY <3>1 DEF FatIInv, InCall, InWrite
        <4> QED BY <2>1, <4>1 DEF Changing
      <3>2. CASE call.kind = "delete"
        <4>1. ~Ent(disk, call.parent, call.slot).dir
          BY <3>2 DEF FatIInv, InCall, InDelete
        <4> QED BY <2>1, <4>1 DEF Changing
      <3> QED BY <3>1, <3>2 DEF Changing
    <2> DEFINE y == <<p, i>>
    <2>3. y \in Held /\ y[1] = p /\ y[2] = i
      <3>1. p \in Cluster
        BY DEF Dirs
      <3> QED BY <2>1, <2>2, <3>1 DEF Held
    <2>4. Sound(fat, Ent(disk, p, i))
      BY <1>0, <2>3 DEF Owned
    <2>5. Used(fat, Ent(disk, p, i)) = {d} /\ fat[d] # FREE
      BY <1>1, <2>1, <2>4, SoundEnds
    <2>6. d \notin Mine
      BY <1>0, <2>3, <2>5 DEF Owned
    <2>7. ASSUME NEW x \in Held, ~Ent(disk, x[1], x[2]).dir
          PROVE  d \notin Used(fat, Ent(disk, x[1], x[2]))
      <3>1. x # y
        BY <2>1, <2>3, <2>7
      <3>2. Used(fat, Ent(disk, x[1], x[2])) \cap Used(fat, Ent(disk, y[1], y[2])) = {}
        BY <1>0, <2>3, <3>1 DEF Owned
      <3> QED BY <2>3, <2>5, <3>2
    <2> QED BY <1>1, <2>5, <2>6, <2>7
  <1> QED BY <1>2, <1>3

\* The current directory and its path stay when what leads to directories stays.
LEMMA HereKept ==
  ASSUME PlainSession, Typed, Tree(disk), Here, disk' \in Disk, Tree(disk'),
         Dirs(disk) \subseteq Dirs(disk'), LeadsOn(disk, disk'), UNCHANGED cwd
  PROVE  Here'
  <1>1. current_path \in Seq(Names) /\ current_path' = current_path
        /\ current_dir_cluster' = current_dir_cluster /\ ENTRIES >= 2 /\ disk \in Disk
    BY DEF cwd, Typed, PlainSession
  <1>2. Len(current_path) \in Nat /\ Len(current_path) \in 0 .. Len(current_path)
    BY <1>1
  <1>3. ROOT \in Dirs(disk)
    BY <1>1, DirectoriesClosed
  <1>4. Way(disk, ROOT, current_path)[Len(current_path)] # NoDir
    BY Marks DEF Here, Dirs, NoDir, FREE
  <1>5. Way(disk', ROOT, current_path)[Len(current_path)]
          = Way(disk, ROOT, current_path)[Len(current_path)]
    BY <1>1, <1>2, <1>3, <1>4, WayKept
  <1> QED BY <1>1, <1>5 DEF Here


----------------------------------------------------------------------------
(* The steps that leave the volume alone *)

\* Between two calls everything in the tree is held, and nothing else is in use.
LEMMA CallNone ==
  ASSUME FatIInv, call.kind = "none"
  PROVE  Held = InTree(disk) /\ Mine = {} /\ pc \in {"idle", "cat", "read"}
  <1>1. pc \in {"idle", "cat", "read"} /\ ~Busy
    BY DEF FatIInv, InCall, Busy
  <1> QED BY <1>1, HeldNow DEF Mine

\* No call is in progress and none begins to work.
LEMMA NoneStep ==
  ASSUME FatIInv, call.kind = "none", call'.kind = "none", pc' \in {"idle", "cat", "read"},
         UNCHANGED <<fat, fat2, disk, expect>>, fat_sector_cache' \in {NoCache, fat},
         Typed', Here', Reading', ReadBack'
  PROVE  FatIInv'
  <1>1. Held = InTree(disk) /\ Mine = {} /\ Held' = InTree(disk') /\ Mine' = {}
    <2>1. ~Busy'
      BY DEF Busy
    <2> QED BY <2>1, CallNone, HeldNext DEF Mine
  <1>2. Ownership'
    BY <1>1 DEF FatIInv, Ownership
  <1>3. CacheCoherent' /\ Tree(disk')
    BY DEF FatIInv, CacheCoherent
  <1>4. Kept'
    BY DEF FatIInv, Kept
  <1>5. InCall'
    <2>1. InWrite' /\ InDelete' /\ InMkdir' /\ InChain'
      BY DEF InWrite, InDelete, InMkdir, InChain
    <2> QED BY <2>1 DEF InCall
  <1> QED BY <1>2, <1>3, <1>4, <1>5 DEF FatIInv


\* A call that returns at once.
LEMMA IdleStep ==
  ASSUME FatIInv, pc = "idle", pc' = "idle", calls < MAX_CALLS, calls' = calls + 1,
         got' = <<>>, call' \in CallRecord, call'.kind = "none",
         UNCHANGED <<fat, fat2, disk, expect>>, fat_sector_cache' \in {NoCache, fat},
         UNCHANGED open_file \/ open_file' = closed,
         NEW op, NEW path, NEW ok, last' = [op |-> op, path |-> path, ok |-> ok],
         op # "cat" \/ ~ok,
         current_dir_cluster' \in Cluster, current_path' \in Seq(Names), Here'
  PROVE  FatIInv'
  <1>1. call.kind = "none"
    BY DEF FatIInv, InCall
  <1>2. last'.op = op /\ last'.ok = ok /\ last'.path = path
    OBVIOUS
  <1>3. Typed'
    <2>1. open_file' \in [first : Cluster \union {0}, current : Cluster \union {0},
                          position : Nat, size : Nat]
          /\ open_file'.position <= open_file'.size
      BY DEF FatIInv, Typed, closed
    <2>2. calls' \in 0 .. MAX_CALLS
      BY Fat32Assumption DEF FatIInv, Typed
    <2>3. fat' \in Fat /\ disk' \in Disk /\ pc' \in Places /\ got' \in Seq(Nat)
      BY DEF FatIInv, Typed, Places
    <2> QED BY <1>2, <2>1, <2>2, <2>3 DEF Typed
  <1>4. Reading' /\ ReadBack'
    BY <1>2 DEF Reading, ReadBack
  <1> QED BY <1>1, <1>3, <1>4, NoneStep

\* A command that is refused keeps the invariant.
LEMMA RefusedStep ==
  ASSUME PlainSession, FatIInv, NEW op, NEW path, Begin(op, path), Refused
  PROVE  FatIInv'
  <1>1. /\ pc = "idle" /\ pc' = "idle" /\ calls < MAX_CALLS /\ calls' = calls + 1 /\ got' = <<>>
        /\ call' = call /\ last' = [op |-> op, path |-> path, ok |-> FALSE]
        /\ UNCHANGED <<fat, fat2, disk, expect>> /\ fat_sector_cache' \in {NoCache, fat}
        /\ open_file' = open_file /\ UNCHANGED cwd
    BY DEF Begin, Refused, volume, FatIInv, CacheCoherent
  <1>2. call \in CallRecord /\ call.kind = "none"
    BY <1>1 DEF FatIInv, Typed, InCall
  <1>3. current_dir_cluster' \in Cluster /\ current_path' \in Seq(Names) /\ Here'
    BY <1>1 DEF FatIInv, Typed, Here, cwd
  <1> QED BY <1>1, <1>2, <1>3, IdleStep

\* The record of no call has its type.
LEMMA NoCallTyped == noCall \in CallRecord /\ noCall.kind = "none"
  <1>1. NoEntries \in Entries
    <2>1. EndEntry \in EntryRecord
      <3>1. 0 \in Nat /\ FALSE \in BOOLEAN /\ "END" \in Names
        BY DEF Names
      <3> QED BY <3>1, Zenon DEF EndEntry, Entry, EntryRecord
    <2> QED BY <2>1 DEF NoEntries, Entries
  <1>2. 1 \in 1 .. ENTRIES
    BY Fat32Assumption
  <1>3. <<>> \in Seq(Nat) /\ 0 \in Nat /\ "idle" \in Places /\ ROOT \in Cluster
    BY Marks DEF Places
  <1>4. noCall.kind = "none"
    BY DEF noCall
  <1>5. "END" \in Names /\ "none" \in {"none", "write", "delete", "mkdir"} /\ 0 \in Cluster \union {0}
    BY DEF Names
  <1>6. noCall \in CallRecord
    BY <1>1, <1>2, <1>3, <1>5, Zenon DEF noCall, CallRecord
  <1> QED BY <1>4, <1>6

\* Reboot between two commands.
LEMMA RebootStep ==
  ASSUME PlainSession, FatIInv, Reboot
  PROVE  FatIInv'
  <1>1. /\ pc = "idle" /\ pc' = "idle" /\ calls < MAX_CALLS /\ calls' = calls + 1 /\ got' = <<>>
        /\ call' = noCall /\ last' = [op |-> "reboot", path |-> [abs |-> TRUE, names |-> <<>>], ok |-> TRUE]
        /\ UNCHANGED <<fat, fat2, disk, expect>> /\ fat_sector_cache' \in {NoCache, fat}
        /\ open_file' = closed /\ current_dir_cluster' = ROOT /\ current_path' = <<>>
    BY DEF Reboot, volume, PlainSession
  <1>2. current_dir_cluster' \in Cluster /\ current_path' \in Seq(Names)
    BY <1>1, Marks
  <1>3. Here'
    <2>1. ROOT \in Dirs(disk')
      BY <1>1, DirectoriesClosed DEF FatIInv, Typed
    <2>2. Len(<<>>) = 0 /\ Way(disk', ROOT, <<>>)[0] = ROOT
      BY WaySteps
    <2> QED BY <1>1, <2>1, <2>2 DEF Here
  <1>4. call' \in CallRecord /\ call'.kind = "none"
    BY <1>1, NoCallTyped
  <1> DEFINE path == [abs |-> TRUE, names |-> <<>>]
  <1>5. last' = [op |-> "reboot", path |-> path, ok |-> TRUE] /\ "reboot" # "cat"
    BY <1>1
  <1> HIDE DEF path
  <1> QED BY <1>1, <1>2, <1>3, <1>4, <1>5, IdleStep


\* Where a command's path is looked up.
Start(path) == IF path.abs THEN ROOT ELSE current_dir_cluster

\* A path starts at a directory.
LEMMA StartIsDirectory ==
  ASSUME FatIInv, NEW path
  PROVE  Start(path) \in Dirs(disk)
  BY DirectoriesClosed DEF Start, FatIInv, Typed, Here

\* The directory of a path's last name.
LEMMA ParentIsWay ==
  ASSUME NEW path, IsPath(path), path.names # <<>>
  PROVE  /\ Len(path.names) \in Nat /\ Len(path.names) >= 1
         /\ Parent(path) = Way(disk, Start(path), path.names)[Len(path.names) - 1]
         /\ Last(path.names) = path.names[Len(path.names)]
         /\ Last(path.names) \in Names \ {"END", "DEL"}
  <1>1. path.names \in Seq(STRING \ {"END", "DEL"})
    BY DEF IsPath
  <1>2. Len(path.names) \in Nat /\ Len(path.names) >= 1
    BY <1>1
  <1>3. Last(path.names) = path.names[Len(path.names)]
    BY DEF Last
  <1>4. path.names[Len(path.names)] \in STRING \ {"END", "DEL"}
    BY <1>1, <1>2
  <1>5. Parent(path) = Way(disk, Start(path), path.names)[Len(path.names) - 1]
    BY SeenBefore DEF Parent, Start
  <1> QED BY <1>2, <1>3, <1>4, <1>5 DEF Names

\* The directory of the last name of a path is a directory or none.
LEMMA ParentInDirs ==
  ASSUME PlainSession, FatIInv, NEW path, IsPath(path), path.names # <<>>
  PROVE  Parent(path) \in Dirs(disk) \union {NoDir}
  <1>1. /\ Len(path.names) \in Nat /\ Len(path.names) - 1 \in 0 .. Len(path.names)
        /\ Parent(path) = Way(disk, Start(path), path.names)[Len(path.names) - 1]
    BY ParentIsWay
  <1>2. Start(path) \in Dirs(disk) /\ ENTRIES >= 2 /\ disk \in Disk /\ Tree(disk)
    BY StartIsDirectory DEF PlainSession, FatIInv, Typed
  <1> QED BY <1>1, <1>2, WayInDirs

\* A path one name longer.
LEMMA WayAppend ==
  ASSUME NEW D, NEW d, NEW S, NEW a \in Seq(S), NEW n \in S
  PROVE  Way(D, d, Append(a, n))[Len(a) + 1] = Down(D, Way(D, d, a)[Len(a)], n)
  <1> DEFINE b == Append(a, n)
  <1>1. /\ Len(a) \in Nat /\ Len(b) = Len(a) + 1 /\ b[Len(a) + 1] = n
        /\ \A i \in 1 .. Len(a) : a[i] = b[i]
    OBVIOUS
  <1> HIDE DEF b
  <1>2. Len(a) \in 0 .. Len(b) - 1 /\ Len(a) \in 0 .. Len(a) /\ Len(b) \in Nat /\ Len(a) <= Len(b)
    BY <1>1
  <1>3. Way(D, d, a)[Len(a)] = Way(D, d, b)[Len(a)]
    BY <1>1, <1>2, WayPrefix
  <1>4. Way(D, d, b)[Len(a) + 1] = Down(D, Way(D, d, b)[Len(a)], b[Len(a) + 1])
    BY <1>2, WaySteps
  <1> QED BY <1>1, <1>3, <1>4 DEF b

\* A path without its last name.
LEMMA FrontIs ==
  ASSUME NEW S, NEW a \in Seq(S), a # <<>>
  PROVE  /\ Front(a) \in Seq(S) /\ Len(Front(a)) = Len(a) - 1
         /\ \A i \in 1 .. Len(Front(a)) : Front(a)[i] = a[i] /\ i \in 1 .. Len(a)
  <1>1. Len(a) \in Nat /\ Len(a) >= 1
    OBVIOUS
  <1>2. Front(a) = SubSeq(a, 1, Len(a) - 1)
    BY DEF Front
  <1>3. \A i \in 1 .. Len(a) - 1 : a[i] \in S
    BY <1>1
  <1>4. /\ Front(a) \in Seq(S)
        /\ Len(Front(a)) = IF 1 <= Len(a) - 1 THEN (Len(a) - 1) - 1 + 1 ELSE 0
        /\ \A i \in 1 .. (Len(a) - 1) - 1 + 1 : Front(a)[i] = a[1 + i - 1]
    BY <1>1, <1>2, <1>3, SubSeqProperties
  <1>5. Len(Front(a)) = Len(a) - 1
    <2> DEFINE k == Len(a)
               h == Len(Front(a))
    <2>1. k \in Nat /\ k >= 1 /\ h = IF 1 <= k - 1 THEN (k - 1) - 1 + 1 ELSE 0
      BY <1>1, <1>4
    <2> HIDE DEF k, h
    <2>2. h = k - 1
      BY <2>1
    <2> QED BY <2>2 DEF h, k
  <1>6. ASSUME NEW i \in 1 .. Len(a) - 1 PROVE Front(a)[i] = a[i] /\ i \in 1 .. Len(a)
    <2>1. i \in 1 .. (Len(a) - 1) - 1 + 1 /\ 1 + i - 1 = i /\ i \in 1 .. Len(a)
      BY <1>1
    <2> QED BY <1>4, <2>1
  <1> QED BY <1>4, <1>5, <1>6

\* The tracked path leads to the new current directory.
LEMMA TrackedLeads ==
  ASSUME PlainSession, FatIInv, NEW path \in CHDIRS, IsDirectory(path),
         NEW c, c = EntryOf(Parent(path), Last(path.names)).first
  PROVE  /\ c \in Dirs(disk) /\ TrackedPath(path) \in Seq(Names)
         /\ Way(disk, ROOT, TrackedPath(path))[Len(TrackedPath(path))] = c
         /\ \A i \in 1 .. Len(TrackedPath(path)) : TrackedPath(path)[i] \notin {".", ".."}
  <1> DEFINE d == Parent(path)
             n == Last(path.names)
             D == disk
             cur == current_path
  <1>1. IsPath(path) /\ path.names # <<>> /\ d # NoDir /\ Find(D, d, n) # 0
        /\ Ent(D, d, Find(D, d, n)).dir /\ c = Ent(D, d, Find(D, d, n)).first
    BY Fat32Assumption, SeenBefore DEF IsDirectory, Found, EntryOf, Ent
  <1>2. /\ Len(path.names) \in Nat /\ Len(path.names) >= 1
        /\ d = Way(D, Start(path), path.names)[Len(path.names) - 1]
        /\ n = path.names[Len(path.names)] /\ n \in Names \ {"END", "DEL"}
    BY <1>1, ParentIsWay
  <1>3. d \in Dirs(D) /\ D \in Disk /\ Tree(D) /\ ENTRIES >= 2
    BY <1>1, ParentInDirs DEF FatIInv, Typed, PlainSession
  <1>4. /\ c \in Dirs(D)
        /\ n \notin {".", ".."} => Dots(D, c, d)
        /\ n \in {".", ".."} => d # ROOT
        /\ n = "." => c = d
        /\ n = ".." => Dots(D, d, c)
    BY <1>1, <1>3, EntryLeads
  <1>5. Down(D, d, n) = c
    BY <1>1 DEF Down
  <1>6. /\ cur \in Seq(Names) /\ Way(D, ROOT, cur)[Len(cur)] = current_dir_cluster
        /\ current_dir_cluster \in Dirs(D)
        /\ \A i \in 1 .. Len(cur) : cur[i] \notin {".", ".."}
    BY DEF FatIInv, Typed, Here
  <1> DEFINE t == TrackedPath(path)
  <1>7. CASE path.abs
    <2>1. t = path.names /\ \A i \in 1 .. Len(t) : t[i] \notin {".", ".."}
      BY <1>7 DEF TrackedPath, PlainSession
    <2>2. t \in Seq(Names)
      <3>1. t \in Seq(STRING \ {"END", "DEL"})
        BY <1>1, <2>1 DEF IsPath
      <3>2. Len(t) \in Nat /\ \A i \in 1 .. Len(t) : t[i] \in Names
        BY <3>1 DEF Names
      <3> QED BY <3>1, <3>2
    <2>3. Len(path.names) - 1 \in 0 .. Len(path.names) - 1 /\ (Len(path.names) - 1) + 1 = Len(path.names)
      BY <1>2
    <2>4. Way(D, ROOT, path.names)[Len(path.names)] = Down(D, d, n)
      BY <1>2, <1>7, <2>3, WaySteps DEF Start
    <2> QED BY <1>4, <1>5, <2>1, <2>2, <2>4
  <1>8. CASE ~path.abs
    <2>1. Len(path.names) = 1 /\ d = current_dir_cluster
      <3>1. Len(path.names) = 1
        BY <1>8 DEF PlainSession
      <3>2. Way(D, Start(path), path.names)[0] = Start(path)
        BY <3>1, WaySteps
      <3> QED BY <1>2, <1>8, <3>1, <3>2 DEF Start
    <2>2. CASE n = "."
      <3>1. t = cur /\ c = d
        BY <1>4, <1>8, <2>2 DEF TrackedPath
      <3> QED BY <1>4, <1>6, <2>1, <3>1
    <2>3. CASE n = ".."
      <3>1. Way(D, ROOT, cur)[0] = ROOT
        BY <1>6, WaySteps
      <3>2. cur # <<>> /\ Len(cur) >= 1 /\ Len(cur) \in Nat
        BY <1>4, <1>6, <2>1, <2>3, <3>1
      <3>3. t = Front(cur)
        BY <1>8, <2>3, <3>2 DEF TrackedPath
      <3>4. /\ t \in Seq(Names) /\ Len(t) = Len(cur) - 1
            /\ \A i \in 1 .. Len(t) : t[i] = cur[i] /\ i \in 1 .. Len(cur)
        BY <1>6, <3>2, <3>3, FrontIs
      <3> HIDE DEF t
      <3> DEFINE q == Way(D, ROOT, cur)[Len(cur) - 1]
                 m == cur[Len(cur)]
      <3>5. Way(D, ROOT, t)[Len(t)] = q
        <4>1. Len(t) \in Nat /\ Len(t) <= Len(cur) /\ Len(t) \in 0 .. Len(t)
          BY <3>2, <3>4
        <4>2. \A i \in 0 .. Len(t) : Way(D, ROOT, t)[i] = Way(D, ROOT, cur)[i]
          <5>1. \A i \in 1 .. Len(t) : t[i] = cur[i]
            BY <3>4
          <5> QED BY <3>2, <4>1, <5>1, WayPrefix
        <4> QED BY <3>4, <4>1, <4>2
      <3>6. current_dir_cluster = Down(D, q, m)
        <4>1. Len(cur) - 1 \in 0 .. Len(cur) - 1 /\ (Len(cur) - 1) + 1 = Len(cur)
          BY <3>2
        <4> QED BY <1>6, <3>2, <4>1, WaySteps
      <3>7. q \in Dirs(D)
        <4>1. Len(cur) - 1 \in 0 .. Len(cur)
          BY <3>2
        <4>2. ROOT \in Dirs(D)
          BY <1>3, DirectoriesClosed
        <4>3. q \in Dirs(D) \union {NoDir}
          BY <1>3, <3>2, <4>1, <4>2, WayInDirs
        <4>4. NoDir \notin Dirs(D)
          BY Marks DEF Dirs, NoDir, FREE
        <4> QED BY <1>6, <3>6, <4>3, <4>4 DEF Down
      <3> HIDE DEF q
      <3>8. Find(D, q, m) # 0 /\ Ent(D, q, Find(D, q, m)).dir
            /\ Ent(D, q, Find(D, q, m)).first = current_dir_cluster
        <4>1. NoDir \notin Dirs(D)
          BY Marks DEF Dirs, NoDir, FREE
        <4> QED BY <1>6, <3>6, <4>1 DEF Down
      <3>9. m \notin {".", ".."}
        BY <1>6, <3>2
      <3>10. Dots(D, d, q)
        BY <1>3, <2>1, <3>7, <3>8, <3>9, EntryLeads
      <3>11. c = q
        BY <1>4, <2>3, <3>10 DEF Dots
      <3> QED BY <1>4, <1>6, <3>4, <3>5, <3>11 DEF t
    <2>4. CASE n \notin {".", ".."}
      <3>1. t = Append(cur, n)
        BY <1>8, <2>4 DEF TrackedPath
      <3>2. /\ t \in Seq(Names) /\ Len(t) = Len(cur) + 1
            /\ \A i \in 1 .. Len(t) : t[i] = n \/ (i \in 1 .. Len(cur) /\ t[i] = cur[i])
        BY <1>2, <1>6, <3>1
      <3>3. Way(D, ROOT, t)[Len(cur) + 1] = Down(D, Way(D, ROOT, cur)[Len(cur)], n)
        BY <1>2, <1>6, <3>1, WayAppend
      <3> HIDE DEF t
      <3>4. Way(D, ROOT, t)[Len(t)] = c
        BY <1>5, <1>6, <2>1, <3>2, <3>3
      <3> QED BY <1>4, <1>6, <2>4, <3>2, <3>4 DEF t
    <2> QED BY <2>2, <2>3, <2>4
  <1> QED BY <1>7, <1>8

\* fat32_chdir keeps the invariant.
LEMMA ChdirStep ==
  ASSUME PlainSession, FatIInv, NEW path \in CHDIRS, fat32_chdir(path)
  PROVE  FatIInv'
  <1>1. /\ pc = "idle" /\ pc' = "idle" /\ calls < MAX_CALLS /\ calls' = calls + 1 /\ got' = <<>>
        /\ call' = call
        /\ UNCHANGED <<fat, fat2, disk, expect>> /\ fat_sector_cache' \in {NoCache, fat}
        /\ open_file' = open_file
    BY DEF fat32_chdir, volume, FatIInv, CacheCoherent
  <1>2. call' \in CallRecord /\ call'.kind = "none"
    BY <1>1 DEF FatIInv, Typed, InCall
  <1>3. PICK ok : last' = [op |-> "chdir", path |-> path, ok |-> ok] /\ "chdir" # "cat"
    BY DEF fat32_chdir
  <1>4. current_dir_cluster' \in Cluster /\ current_path' \in Seq(Names) /\ Here'
    <2>1. CASE IsDirectory(path) /\ current_dir_cluster' = EntryOf(Parent(path), Last(path.names)).first
               /\ current_path' = TrackedPath(path)
      <3>1. /\ current_dir_cluster' \in Dirs(disk) /\ current_path' \in Seq(Names)
            /\ Way(disk, ROOT, current_path')[Len(current_path')] = current_dir_cluster'
            /\ \A i \in 1 .. Len(current_path') : current_path'[i] \notin {".", ".."}
        BY <2>1, TrackedLeads
      <3>2. current_dir_cluster' \in Cluster
        BY <3>1 DEF Dirs
      <3> QED BY <1>1, <3>1, <3>2 DEF Here
    <2>2. CASE UNCHANGED cwd
      BY <1>1, <2>2 DEF FatIInv, Typed, Here, cwd
    <2> QED BY <2>1, <2>2 DEF fat32_chdir
  <1> QED BY <1>1, <1>2, <1>3, <1>4, IdleStep


----------------------------------------------------------------------------
(* Reading *)

\* The smaller of two numbers.
LEMMA MinOfTwo ==
  ASSUME NEW a \in Int, NEW b \in Int
  PROVE  Min({a, b}) \in {a, b} /\ Min({a, b}) <= a /\ Min({a, b}) <= b
  <1>1. \E x \in {a, b} : \A y \in {a, b} : x <= y
    <2>1. CASE a <= b BY <2>1
    <2>2. CASE b <= a BY <2>2
    <2> QED BY <2>1, <2>2
  <1>2. Min({a, b}) \in {a, b} /\ \A y \in {a, b} : Min({a, b}) <= y
    BY <1>1 DEF Min
  <1> QED BY <1>2

\* The position's cluster and its offset there, before and after k more bytes.
LEMMA PositionMoves ==
  ASSUME NEW p \in Nat, NEW s \in Nat, s > 0, NEW k \in Nat, k > 0, k <= s - (p % s)
  PROVE  IF (p + k) % s = 0
         THEN (p + k) \div s = (p \div s) + 1
         ELSE (p + k) \div s = p \div s
  <1> DEFINE c == p \div s
             o == p % s
  <1>1. c \in Nat /\ o \in 0 .. s - 1 /\ p = c * s + o /\ k <= s - o
    BY DivMod
  <1> HIDE DEF c, o
  <1>2. CASE o + k = s
    <2>1. p + k \in Nat /\ p + k = (c + 1) * s /\ c + 1 \in Nat
      BY <1>1, <1>2
    <2>2. (c + 1) * s <= p + k /\ p + k < (c + 1) * s + s
      BY <1>1, <2>1
    <2>3. (p + k) \div s = c + 1 /\ (p + k) % s = (p + k) - (c + 1) * s
      BY <2>1, <2>2, DivModIs
    <2>4. (p + k) - (c + 1) * s = 0
      BY <2>1
    <2> QED BY <2>3, <2>4 DEF c
  <1>3. CASE o + k < s
    <2>1. p + k \in Nat /\ c * s <= p + k /\ p + k < c * s + s
      BY <1>1, <1>3
    <2>2. (p + k) \div s = c /\ (p + k) % s = (p + k) - c * s
      BY <1>1, <2>1, DivModIs
    <2>3. (p + k) - c * s # 0
      BY <1>1
    <2> QED BY <2>2, <2>3 DEF c
  <1> QED BY <1>1, <1>2, <1>3

\* A position before the end is in one of the file's clusters.
LEMMA PositionInFile ==
  ASSUME NEW p \in Nat, NEW len \in Nat, p < len
  PROVE  p \div CLUSTER_SIZE \in Nat /\ p \div CLUSTER_SIZE < Clusters(len)
         /\ Clusters(len) \in Nat
  <1> DEFINE s == CLUSTER_SIZE
             c == p \div s
             t == len + s - 1
             d == t \div s
  <1>0. s \in Nat /\ s > 0 /\ t \in Nat
    BY Fat32Assumption
  <1>1. c \in Nat /\ c * s <= p
    BY <1>0, DivMod
  <1>2. d \in Nat /\ t < d * s + s /\ d = Clusters(len)
    BY <1>0, DivMod DEF Clusters
  <1>3. (c + 1) * s <= t
    BY <1>0, <1>1
  <1> HIDE DEF c, d
  <1>4. (c + 1) * s < (d + 1) * s
    BY <1>0, <1>1, <1>2, <1>3
  <1>5. c + 1 <= d
    BY <1>0, <1>1, <1>2, <1>4, Multiples
  <1> QED BY <1>1, <1>2, <1>5 DEF c, d

\* What is read from a cluster of a file continues what was read before.
LEMMA ReadOn ==
  ASSUME NEW bytes \in Seq(Nat), NEW p \in Nat, NEW k \in Nat, p + k <= Len(bytes),
         k <= CLUSTER_SIZE - (p % CLUSTER_SIZE)
  PROVE  SubSeq(bytes, 1, p) \o SubSeq(Chunk(bytes, (p \div CLUSTER_SIZE) + 1),
                                       (p % CLUSTER_SIZE) + 1, (p % CLUSTER_SIZE) + k)
           = SubSeq(bytes, 1, p + k)
  <1> DEFINE s == CLUSTER_SIZE
             c == p \div s
             o == p % s
             ch == Chunk(bytes, c + 1)
             a == SubSeq(bytes, 1, p)
             b == SubSeq(ch, o + 1, o + k)
             r == SubSeq(bytes, 1, p + k)
  <1>0. s \in Nat /\ s > 0 /\ Len(bytes) \in Nat
    BY Fat32Assumption
  <1>1. c \in Nat /\ o \in 0 .. s - 1 /\ p = c * s + o /\ k <= s - o
    BY <1>0, DivMod
  <1> HIDE DEF c, o
  <1>2. \A i \in 1 .. s : ch[i] = IF ((c + 1) - 1) * s + i <= Len(bytes)
                                  THEN bytes[((c + 1) - 1) * s + i] ELSE 0
    BY DEF Chunk
  <1>3. ASSUME NEW j \in 1 .. k PROVE o + j \in 1 .. s /\ ch[o + j] = bytes[p + j]
                                      /\ p + j \in 1 .. Len(bytes)
    <2>1. o + j \in 1 .. s /\ p + j \in 1 .. Len(bytes)
      BY <1>0, <1>1, <1>3
    <2>2. ((c + 1) - 1) * s + (o + j) = p + j
      BY <1>0, <1>1
    <2> HIDE DEF ch
    <2> QED BY <1>2, <2>1, <2>2
  <1> HIDE DEF ch
  <1>4. \A i \in 1 .. Len(bytes) : bytes[i] \in Nat
    BY <1>0
  <1>5. /\ a \in Seq(Nat) /\ Len(a) = p
        /\ \A i \in 1 .. p : a[i] = bytes[i]
    <2>1. \A i \in 1 .. p : bytes[i] \in Nat
      BY <1>0, <1>4
    <2>2. /\ a \in Seq(Nat)
          /\ Len(a) = IF 1 <= p THEN p - 1 + 1 ELSE 0
          /\ \A i \in 1 .. p - 1 + 1 : a[i] = bytes[1 + i - 1]
      BY <2>1, SubSeqProperties
    <2> HIDE DEF a
    <2>3. Len(a) = p
      BY <2>2
    <2>4. ASSUME NEW i \in 1 .. p PROVE a[i] = bytes[i]
      <3>1. i \in 1 .. p - 1 + 1 /\ 1 + i - 1 = i
        OBVIOUS
      <3> QED BY <2>2, <3>1
    <2> QED BY <2>2, <2>3, <2>4
  <1>6. /\ b \in Seq(Nat) /\ Len(b) = k
        /\ \A i \in 1 .. k : b[i] = bytes[p + i]
    <2>1. ASSUME NEW i \in o + 1 .. o + k PROVE ch[i] \in Nat
      <3>1. i - o \in 1 .. k /\ o + (i - o) = i
        BY <1>0, <1>1
      <3> QED BY <1>3, <1>4, <3>1
    <2>2. /\ b \in Seq(Nat)
          /\ Len(b) = IF o + 1 <= o + k THEN (o + k) - (o + 1) + 1 ELSE 0
          /\ \A i \in 1 .. (o + k) - (o + 1) + 1 : b[i] = ch[(o + 1) + i - 1]
      <3>1. o + 1 \in Int /\ o + k \in Int
        BY <1>1
      <3> QED BY <2>1, <3>1, SubSeqProperties
    <2> HIDE DEF b
    <2>3. Len(b) = k
      BY <1>1, <2>2
    <2>4. ASSUME NEW i \in 1 .. k PROVE b[i] = bytes[p + i]
      <3>1. i \in 1 .. (o + k) - (o + 1) + 1 /\ (o + 1) + i - 1 = o + i
        BY <1>1
      <3> QED BY <1>3, <2>2, <3>1
    <2> QED BY <2>2, <2>3, <2>4
  <1>7. /\ r \in Seq(Nat) /\ Len(r) = p + k
        /\ \A i \in 1 .. p + k : r[i] = bytes[i]
    <2>1. \A i \in 1 .. p + k : bytes[i] \in Nat
      BY <1>0, <1>4
    <2>2. /\ r \in Seq(Nat)
          /\ Len(r) = IF 1 <= p + k THEN (p + k) - 1 + 1 ELSE 0
          /\ \A i \in 1 .. (p + k) - 1 + 1 : r[i] = bytes[1 + i - 1]
      <3>1. p + k \in Int
        OBVIOUS
      <3> QED BY <2>1, <3>1, SubSeqProperties
    <2> HIDE DEF r
    <2>3. Len(r) = p + k
      BY <2>2
    <2>4. ASSUME NEW i \in 1 .. p + k PROVE r[i] = bytes[i]
      <3>1. i \in 1 .. (p + k) - 1 + 1 /\ 1 + i - 1 = i
        OBVIOUS
      <3> QED BY <2>2, <3>1
    <2> QED BY <2>2, <2>3, <2>4
  <1> HIDE DEF a, b, r
  <1>8. /\ a \o b \in Seq(Nat) /\ Len(a \o b) = p + k
        /\ \A i \in 1 .. p + k : (a \o b)[i] = IF i <= p THEN a[i] ELSE b[i - p]
    <2>1. /\ a \o b \in Seq(Nat) /\ Len(a \o b) = Len(a) + Len(b)
          /\ \A i \in 1 .. Len(a) + Len(b) :
               (a \o b)[i] = IF i <= Len(a) THEN a[i] ELSE b[i - Len(a)]
      BY <1>5, <1>6, ConcatProperties
    <2> QED BY <1>5, <1>6, <2>1
  <1>9. ASSUME NEW i \in 1 .. p + k PROVE (a \o b)[i] = r[i]
    <2>1. CASE i <= p
      <3>1. i \in 1 .. p
        BY <2>1
      <3> QED BY <1>5, <1>7, <1>8, <2>1, <3>1
    <2>2. CASE ~(i <= p)
      <3>1. i - p \in 1 .. k /\ p + (i - p) = i
        BY <2>2
      <3> QED BY <1>6, <1>7, <1>8, <2>2, <3>1
    <2> QED BY <2>1, <2>2
  <1>10. a \o b = r
    BY <1>7, <1>8, <1>9, SeqEqual
  <1> QED BY <1>10 DEF a, b, r, ch, c, o


\* fat32_open keeps the invariant.
LEMMA OpenStep ==
  ASSUME PlainSession, FatIInv, NEW path \in CATS, fat32_open(path)
  PROVE  FatIInv'
  <1> DEFINE d == Start(path)
             n == Last(path.names)
             x == Ent(disk, d, Find(disk, d, n))
  <1>1. CASE Refused
    <2>1. Begin("cat", path)
      BY DEF fat32_open
    <2> QED BY <1>1, <2>1, RefusedStep
  <1>2. CASE ~Refused
    <2>1. /\ Begin("cat", path)
          /\ Find(disk, d, n) # 0 /\ ~x.dir
          /\ open_file' = [first |-> x.first, current |-> x.first, position |-> 0, size |-> x.size]
          /\ pc' = "cat" /\ call' = noCall
          /\ UNCHANGED <<volume, fat_sector_cache, cwd, expect>>
      BY <1>2, SeenBefore DEF fat32_open, Start, EntryOf, Ent
    <2>2. /\ pc = "idle" /\ calls < MAX_CALLS /\ calls' = calls + 1 /\ got' = <<>>
          /\ last' = [op |-> "cat", path |-> path, ok |-> FALSE]
          /\ UNCHANGED <<fat, fat2, disk, expect, fat_sector_cache, current_dir_cluster, current_path>>
      BY <2>1 DEF Begin, volume, cwd
    <2>3. call.kind = "none" /\ call'.kind = "none" /\ call' \in CallRecord
      BY <2>1, <2>2, NoCallTyped DEF FatIInv, InCall
    <2>4. d \in Dirs(disk) /\ disk \in Disk /\ d \in Cluster
      BY StartIsDirectory DEF FatIInv, Typed, Dirs
    <2>5. Find(disk, d, n) \in 1 .. ENTRIES
      BY <2>1, SlotFinds
    <2>6. x.first \in Cluster \union {0} /\ x.size \in Nat
      BY <2>4, <2>5, EntTyped
    <2>7. last'.op = "cat" /\ last'.path = path /\ ~last'.ok /\ open_file'.position = 0
          /\ open_file'.size = x.size /\ open_file'.current = x.first
      BY <2>1, <2>2
    <2> HIDE DEF x
    <2>8. Typed'
      <3>1. open_file' \in [first : Cluster \union {0}, current : Cluster \union {0},
                            position : Nat, size : Nat]
            /\ open_file'.position <= open_file'.size
        BY <2>1, <2>6, <2>7
      <3>2. calls' \in 0 .. MAX_CALLS
        BY <2>2, Fat32Assumption DEF FatIInv, Typed
      <3>3. fat' \in Fat /\ disk' \in Disk /\ pc' \in Places /\ got' \in Seq(Nat)
            /\ current_dir_cluster' \in Cluster /\ current_path' \in Seq(Names)
        BY <2>1, <2>2 DEF FatIInv, Typed, Places
      <3> QED BY <2>2, <2>3, <3>1, <3>2, <3>3 DEF Typed
    <2>9. Here'
      BY <2>2 DEF FatIInv, Here
    <2>10. ReadBack'
      BY <2>1 DEF ReadBack
    <2>11. ASSUME NEW e \in expect, Wanted(path, current_dir_cluster, e)
           PROVE  ReadTo(disk, fat, open_file', <<>>, e)
      <3>1. e.name = n /\ e.dir = d
        BY <2>11 DEF Wanted, Start
      <3>2. e.bytes \in Seq(Nat) /\ x.size = Len(e.bytes)
        BY <3>1 DEF FatIInv, Kept, Intact, x
      <3>3. SubSeq(e.bytes, 1, 0) = <<>>
        BY <3>2
      <3>4. 0 \div CLUSTER_SIZE = 0
        <4>1. CLUSTER_SIZE \in Nat /\ CLUSTER_SIZE > 0 /\ 0 * CLUSTER_SIZE <= 0
              /\ 0 < 0 * CLUSTER_SIZE + CLUSTER_SIZE
          BY Fat32Assumption
        <4> QED BY <4>1, DivModIs
      <3>5. Walk(fat, x.first)[0] = x.first
        BY WalkSteps
      <3>6. Ent(disk, e.dir, Find(disk, e.dir, e.name)).first = x.first
        BY <3>1 DEF x
      <3> QED BY <2>7, <3>2, <3>3, <3>4, <3>5, <3>6 DEF ReadTo
    <2>12. Reading'
      <3>1. open_file'.position <= open_file'.size /\ last'.op = "cat" /\ pc' # "read"
        BY <2>1, <2>6, <2>7
      <3>2. \A e \in expect' : Wanted(last'.path, current_dir_cluster', e) =>
              ReadTo(disk', fat', open_file', got', e)
        BY <2>2, <2>7, <2>11
      <3> QED BY <3>1, <3>2 DEF Reading
    <2>13. fat_sector_cache' \in {NoCache, fat}
      BY <2>2 DEF FatIInv, CacheCoherent
    <2> QED BY <2>1, <2>2, <2>3, <2>8, <2>9, <2>10, <2>12, <2>13, NoneStep
  <1> QED BY <1>1, <1>2

\* cat goes on.
LEMMA CatGoesOn ==
  ASSUME FatIInv, pc \in {"cat", "read"}, pc' \in {"cat", "read"},
         UNCHANGED <<volume, cwd, calls, last, expect>>, fat_sector_cache' \in {NoCache, fat},
         call' \in CallRecord, call'.kind = "none",
         open_file' \in [first : Cluster \union {0}, current : Cluster \union {0},
                         position : Nat, size : Nat],
         got' \in Seq(Nat), open_file'.position <= open_file'.size,
         pc' = "read" => /\ call'.n < call'.need
                         /\ open_file'.position + (call'.need - call'.n) <= open_file'.size,
         \A e \in expect : Wanted(last.path, current_dir_cluster, e) =>
           ReadTo(disk, fat, open_file', got', e)
  PROVE  FatIInv'
  <1>1. call.kind = "none" /\ last.op = "cat"
    BY DEF FatIInv, InCall, Reading
  <1>2. UNCHANGED <<fat, fat2, disk, expect, last, calls, current_dir_cluster, current_path>>
    BY DEF volume, cwd
  <1>3. Typed'
    BY <1>2 DEF FatIInv, Typed, Places
  <1>4. Here' /\ ReadBack'
    BY <1>2 DEF FatIInv, Here, ReadBack
  <1>5. Reading'
    BY <1>1, <1>2 DEF Reading
  <1> QED BY <1>1, <1>2, <1>3, <1>4, <1>5, NoneStep

\* cat ends.
LEMMA CatEnds ==
  ASSUME FatIInv, pc \in {"cat", "read"}, Done, open_file' = closed,
         UNCHANGED <<volume, cwd, calls, got, fat_sector_cache>>,
         \A e \in expect : Wanted(last.path, current_dir_cluster, e) => got = e.bytes
  PROVE  FatIInv'
  <1>1. call.kind = "none" /\ last = [op |-> last.op, path |-> last.path, ok |-> last.ok]
    BY DEF FatIInv, InCall, Typed
  <1>2. /\ UNCHANGED <<fat, fat2, disk, got, calls, current_dir_cluster, current_path>>
        /\ pc' = "idle" /\ call' = noCall /\ last' = [last EXCEPT !.ok = TRUE]
        /\ expect' = expect \union
            {e \in {[dir |-> call.parent, name |-> call.name, bytes |-> call.bytes]} :
               call.kind = "write"}
    BY DEF volume, cwd, Done
  <1>3. expect' = expect
    BY <1>1, <1>2
  <1>4. last'.path = last.path /\ last' = [op |-> last'.op, path |-> last'.path, ok |-> last'.ok]
    BY <1>1, <1>2
  <1>5. Typed'
    <2>1. open_file' \in [first : Cluster \union {0}, current : Cluster \union {0},
                          position : Nat, size : Nat]
          /\ open_file'.position <= open_file'.size
      BY DEF closed
    <2>2. call' \in CallRecord /\ pc' \in Places
      BY <1>2, NoCallTyped DEF Places
    <2> QED BY <1>2, <1>4, <2>1, <2>2 DEF FatIInv, Typed
  <1>6. Here' /\ Reading'
    BY <1>2 DEF FatIInv, Here, Reading
  <1>7. ReadBack'
    <2>1. \A e \in expect' : (/\ e.name = Last(last'.path.names)
                              /\ e.dir = IF last'.path.abs THEN ROOT ELSE current_dir_cluster')
                              => got' = e.bytes
      BY <1>2, <1>3, <1>4 DEF Wanted
    <2> QED BY <2>1 DEF ReadBack
  <1>8. call'.kind = "none" /\ fat_sector_cache' \in {NoCache, fat}
    BY <1>2, NoCallTyped DEF FatIInv, CacheCoherent
  <1> QED BY <1>1, <1>2, <1>3, <1>5, <1>6, <1>7, <1>8, NoneStep


\* The loop of cmd_cat keeps the invariant.
LEMMA CatNextStep ==
  ASSUME PlainSession, FatIInv, CatNext
  PROVE  FatIInv'
  <1>1. pc = "cat" /\ UNCHANGED <<volume, cwd, calls, got, fat_sector_cache>>
    BY DEF CatNext
  <1>2. /\ call \in CallRecord /\ call.kind = "none" /\ got \in Seq(Nat)
        /\ open_file \in [first : Cluster \union {0}, current : Cluster \union {0},
                          position : Nat, size : Nat]
        /\ open_file.position <= open_file.size
        /\ \A e \in expect : Wanted(last.path, current_dir_cluster, e) =>
             ReadTo(disk, fat, open_file, got, e) /\ e.bytes \in Seq(Nat)
    BY <1>1 DEF FatIInv, Typed, InCall, Reading, Kept
  <1> DEFINE k == ReadCount
  <1>3. k \in Int /\ k <= open_file.size - open_file.position
        /\ (k = READ_COUNT \/ k = open_file.size - open_file.position)
        /\ READ_COUNT > 0 /\ open_file.position \in Nat /\ open_file.size \in Nat
    <2>1. READ_COUNT \in Int /\ READ_COUNT > 0 /\ open_file.size - open_file.position \in Int
          /\ open_file.position \in Nat /\ open_file.size \in Nat
      BY <1>2, Fat32Assumption
    <2> QED BY <2>1, MinOfTwo DEF ReadCount
  <1> HIDE DEF k
  <1>4. CASE k > 0
    <2>1. /\ pc' = "read" /\ call' = [call EXCEPT !.need = k, !.n = 0]
          /\ UNCHANGED <<last, expect, open_file>>
      BY <1>4 DEF CatNext, GoOn, k
    <2>2. k \in Nat
      BY <1>3, <1>4
    <2>3. call' \in CallRecord /\ call'.kind = "none" /\ call'.need = k /\ call'.n = 0
      BY <1>2, <2>1, <2>2 DEF CallRecord
    <2>4. fat_sector_cache' \in {NoCache, fat} /\ pc' \in {"cat", "read"} /\ pc \in {"cat", "read"}
      BY <1>1, <2>1 DEF FatIInv, CacheCoherent
    <2>5. call'.n < call'.need /\ open_file'.position + (call'.need - call'.n) <= open_file'.size
      BY <1>3, <1>4, <2>1, <2>2, <2>3
    <2> QED BY <1>1, <1>2, <2>1, <2>3, <2>4, <2>5, CatGoesOn
  <1>5. CASE ~(k > 0)
    <2>1. Done /\ open_file' = closed /\ pc \in {"cat", "read"}
      BY <1>1, <1>5 DEF CatNext, k
    <2>2. open_file.position = open_file.size
      BY <1>2, <1>3, <1>5
    <2>3. ASSUME NEW e \in expect, Wanted(last.path, current_dir_cluster, e) PROVE got = e.bytes
      <3>1. got = SubSeq(e.bytes, 1, Len(e.bytes)) /\ e.bytes \in Seq(Nat)
        BY <1>2, <2>2, <2>3 DEF ReadTo
      <3> QED BY <3>1, SubSeqFull
    <2> QED BY <1>1, <2>1, <2>3, CatEnds
  <1> QED BY <1>4, <1>5

\* The cluster of the position is the one the file's chain has there.
LEMMA AtPosition ==
  ASSUME FatIInv, NEW e \in expect, NEW p \in Nat, p < Len(e.bytes),
         NEW w, w = Walk(fat, Ent(disk, e.dir, Find(disk, e.dir, e.name)).first),
         NEW c, c = p \div CLUSTER_SIZE
  PROVE  /\ c \in Nat /\ c < TOTAL_CLUSTERS /\ w[c] \in Cluster
         /\ disk[w[c]].bytes = Chunk(e.bytes, c + 1)
         /\ w[c + 1] = fat[w[c]]
  <1> DEFINE i == Find(disk, e.dir, e.name)
             x == Ent(disk, e.dir, i)
             y == <<e.dir, i>>
  <1>1. e.bytes \in Seq(Nat) /\ Intact(disk, fat, e) /\ Len(e.bytes) \in Nat
    BY DEF FatIInv, Kept
  <1>2. c \in Nat /\ c < Clusters(Len(e.bytes)) /\ Clusters(Len(e.bytes)) \in Nat
    BY <1>1, PositionInFile
  <1>3. c + 1 \in 1 .. Clusters(Len(e.bytes)) /\ (c + 1) - 1 = c
    BY <1>2
  <1>4. w[c] \in Cluster /\ disk[w[c]].bytes = Chunk(e.bytes, c + 1)
    BY <1>1, <1>3 DEF Intact
  <1>5. y \in Held /\ ~x.dir /\ y[1] = e.dir /\ y[2] = i /\ x.size = Len(e.bytes)
    BY <1>1, KeptIsHeld DEF Intact
  <1>6. Sound(fat, x)
    BY <1>5 DEF FatIInv, Ownership, Owned
  <1>7. Clusters(Len(e.bytes)) <= TOTAL_CLUSTERS
    BY <1>5, <1>6, SoundSize
  <1>8. c < TOTAL_CLUSTERS /\ c \in 0 .. TOTAL_CLUSTERS - 1
    BY <1>2, <1>7, Fat32Assumption
  <1>9. w[c + 1] = fat[w[c]]
    BY <1>4, <1>8, WalkSteps
  <1> QED BY <1>2, <1>4, <1>8, <1>9

\* The fields of a record after one of them is changed.
LEMMA CountMoves ==
  ASSUME NEW r \in CallRecord, NEW v \in Nat, NEW s, s = [r EXCEPT !.n = v]
  PROVE  s \in CallRecord /\ s.kind = r.kind /\ s.n = v /\ s.need = r.need
  BY DEF CallRecord

\* The fields of the open file after a read of some bytes.
LEMMA FileMoves ==
  ASSUME NEW r \in [first : Cluster \union {0}, current : Cluster \union {0},
                    position : Nat, size : Nat],
         NEW v \in Nat, NEW s, s = [r EXCEPT !.position = v]
  PROVE  /\ s.position = v /\ s.size = r.size /\ s.current = r.current
         /\ s \in [first : Cluster \union {0}, current : Cluster \union {0},
                   position : Nat, size : Nat]
  OBVIOUS

\* The loop of fat32_read keeps the invariant.
LEMMA ReadStepStep ==
  ASSUME PlainSession, FatIInv, ReadStep
  PROVE  FatIInv'
  <1> DEFINE f == open_file
             off == f.position % CLUSTER_SIZE
             k == Min({call.need - call.n, CLUSTER_SIZE - off})
             at == IF call.n + k < call.need THEN "read" ELSE "cat"
             moved == [f EXCEPT !.position = @ + k]
             locals == [call EXCEPT !.n = @ + k]
             Asked(e) == Wanted(last.path, current_dir_cluster, e)
             First(e) == Ent(disk, e.dir, Find(disk, e.dir, e.name)).first
  <1>1. pc = "read" /\ UNCHANGED <<volume, cwd, calls>> /\ pc \in {"cat", "read"}
    BY DEF ReadStep
  <1>2. /\ call \in CallRecord /\ call.kind = "none" /\ got \in Seq(Nat)
        /\ f \in [first : Cluster \union {0}, current : Cluster \union {0},
                          position : Nat, size : Nat]
        /\ f.position + (call.need - call.n) <= f.size /\ call.n < call.need
        /\ f.position <= f.size
        /\ disk \in Disk /\ fat \in Fat /\ CacheCoherent
    BY <1>1 DEF FatIInv, Typed, InCall, Reading
  <1>3. \A e \in expect : e.bytes \in Seq(Nat) /\ (Asked(e) => ReadTo(disk, fat, f, got, e))
    BY <1>1 DEF FatIInv, Reading, Kept
  <1>4. f.position \in Nat /\ f.size \in Nat /\ f.position < f.size /\ call.n \in Nat /\ call.need \in Nat
    BY <1>2 DEF CallRecord
  <1>5. off \in 0 .. CLUSTER_SIZE - 1 /\ CLUSTER_SIZE \in Nat /\ CLUSTER_SIZE > 0
    <2>1. CLUSTER_SIZE \in Nat /\ CLUSTER_SIZE > 0
      BY Fat32Assumption
    <2> QED BY <1>4, <2>1, DivMod
  <1>6. k \in Nat /\ k > 0 /\ k <= CLUSTER_SIZE - off /\ call.n + k <= call.need
        /\ f.position + k <= f.size
    <2>1. call.need - call.n \in Int /\ CLUSTER_SIZE - off \in Int /\ call.need - call.n > 0
          /\ CLUSTER_SIZE - off > 0
      BY <1>2, <1>4, <1>5
    <2> HIDE DEF off
    <2>2. /\ k \in {call.need - call.n, CLUSTER_SIZE - off}
          /\ k <= call.need - call.n /\ k <= CLUSTER_SIZE - off
      BY <2>1, MinOfTwo
    <2> HIDE DEF k
    <2> QED BY <1>2, <1>4, <2>1, <2>2
  <1> HIDE DEF k
  <1>7. CASE f.current < 2
    <2>1. f.current \notin Cluster
      BY <1>7, Fat32Assumption DEF Cluster, ROOT
    <2>2. ASSUME NEW e \in expect, Asked(e) PROVE FALSE
      <3>1. f.position < Len(e.bytes) /\ f.current = Walk(fat, First(e))[f.position \div CLUSTER_SIZE]
        BY <1>3, <1>4, <2>2 DEF ReadTo
      <3>2. Walk(fat, First(e))[f.position \div CLUSTER_SIZE] \in Cluster
        BY <1>4, <3>1, AtPosition
      <3> QED BY <2>1, <3>1, <3>2
    <2>3. ReadBreaks /\ UNCHANGED <<got, fat_sector_cache>>
      <3>1. ~(f.current >= 2)
        BY <1>2, <1>7, Fat32Assumption DEF Cluster, ROOT
      <3> QED BY <3>1 DEF ReadStep
    <2>4. CASE call.n > 0
      <3>1. pc' = "cat" /\ call' = call /\ UNCHANGED <<last, expect, open_file>>
        BY <2>3, <2>4 DEF ReadBreaks, GoOn
      <3>2. fat_sector_cache' \in {NoCache, fat} /\ pc' \in {"cat", "read"} /\ pc' # "read"
        BY <1>2, <2>3, <3>1 DEF CacheCoherent
      <3> QED BY <1>1, <1>2, <1>3, <2>3, <3>1, <3>2, CatGoesOn
    <2>5. CASE ~(call.n > 0)
      <3>1. Done /\ open_file' = closed
        BY <2>3, <2>5 DEF ReadBreaks
      <3> QED BY <1>1, <2>2, <2>3, <3>1, CatEnds
    <2> QED BY <2>4, <2>5
  <1>8. CASE ~(f.current < 2)
    <2>0. ~IO_ERRORS
      BY DEF PlainSession
    <2>1. /\ got' = got \o SubSeq(disk[f.current].bytes, off + 1, off + k)
          /\ IF MoveOn(f.position + k)
             THEN \E r \in FatReads :
                     /\ fat_sector_cache' = r.cache
                     /\ IF r.view[f.current] \in {EOC, FREE}
                        THEN open_file' = moved /\ GoOn("cat", locals)
                        ELSE /\ open_file' = [moved EXCEPT !.current = r.view[f.current]]
                             /\ GoOn(at, locals)
             ELSE open_file' = moved /\ GoOn(at, locals) /\ UNCHANGED fat_sector_cache
      BY <1>8, <2>0 DEF ReadStep, k
    <2>2. f.current \in Cluster
      <3>1. 0 < 2
        OBVIOUS
      <3> QED BY <1>2, <1>8, <3>1
    <2>3. /\ locals \in CallRecord /\ locals.kind = "none" /\ locals.n = call.n + k
          /\ locals.need = call.need
      <3>1. call.n + k \in Nat
        BY <1>4, <1>6
      <3> QED BY <1>2, <3>1, CountMoves
    <2>4. /\ moved.position = f.position + k /\ moved.size = f.size /\ moved.current = f.current
          /\ moved \in [first : Cluster \union {0}, current : Cluster \union {0},
                        position : Nat, size : Nat]
      <3>1. f.position + k \in Nat
        BY <1>4, <1>6
      <3> QED BY <1>2, <3>1, FileMoves
    <2>5. fat[f.current] \in Cluster \union {FREE, EOC}
      BY <1>2, <2>2 DEF Fat
    <2>6. /\ open_file'.position = f.position + k /\ open_file'.size = f.size
          /\ open_file' \in [first : Cluster \union {0}, current : Cluster \union {0},
                             position : Nat, size : Nat]
          /\ fat_sector_cache' \in {NoCache, fat}
          /\ pc' \in {"cat", at} /\ call' = locals /\ UNCHANGED <<last, expect>>
          /\ open_file'.current = IF MoveOn(f.position + k) /\ fat[f.current] \notin {EOC, FREE}
                                  THEN fat[f.current] ELSE f.current
      <3> HIDE DEF moved, locals, at
      <3>1. CASE MoveOn(f.position + k)
        <4>1. PICK r \in FatReads :
                     /\ fat_sector_cache' = r.cache
                     /\ IF r.view[f.current] \in {EOC, FREE}
                        THEN open_file' = moved /\ GoOn("cat", locals)
                        ELSE /\ open_file' = [moved EXCEPT !.current = r.view[f.current]]
                             /\ GoOn(at, locals)
          BY <2>1, <3>1
        <4>2. r.view = fat /\ r.cache \in {NoCache, fat}
          BY <1>2, PlainReads
        <4>3. CASE fat[f.current] \in {EOC, FREE}
          BY <2>4, <4>1, <4>2, <4>3 DEF GoOn
        <4>4. CASE fat[f.current] \notin {EOC, FREE}
          <5>1. open_file' = [moved EXCEPT !.current = fat[f.current]] /\ GoOn(at, locals)
            BY <4>1, <4>2, <4>4
          <5>2. fat[f.current] \in Cluster
            BY <2>5, <4>4
          <5> QED BY <2>4, <3>1, <4>1, <4>2, <4>4, <5>1, <5>2 DEF GoOn
        <4> QED BY <4>3, <4>4
      <3>2. CASE ~MoveOn(f.position + k)
        BY <1>2, <2>1, <2>4, <3>2 DEF GoOn, CacheCoherent
      <3> QED BY <3>1, <3>2
    <2>7. got' \in Seq(Nat)
      <3>1. disk[f.current].bytes \in [1 .. CLUSTER_SIZE -> Nat]
        BY <1>2, <2>2 DEF Disk
      <3>2. off + 1 \in Int /\ off + k \in Int
            /\ \A i \in off + 1 .. off + k : i \in 1 .. CLUSTER_SIZE
        BY <1>5, <1>6
      <3>3. \A i \in off + 1 .. off + k : disk[f.current].bytes[i] \in Nat
        BY <3>1, <3>2
      <3>4. SubSeq(disk[f.current].bytes, off + 1, off + k) \in Seq(Nat)
        BY <3>2, <3>3, SubSeqProperties
      <3> QED BY <1>2, <2>1, <3>4, ConcatProperties
    <2>8. ASSUME NEW e \in expect, Asked(e)
          PROVE  ReadTo(disk, fat, open_file', got', e)
      <3> DEFINE p == f.position
                 c == p \div CLUSTER_SIZE
                 w == Walk(fat, First(e))
      <3>1. p < Len(e.bytes) /\ f.size = Len(e.bytes) /\ got = SubSeq(e.bytes, 1, p) /\ f.current = w[c]
            /\ e.bytes \in Seq(Nat)
        BY <1>3, <1>4, <2>8 DEF ReadTo
      <3>2. /\ c \in Nat /\ c < TOTAL_CLUSTERS /\ w[c] \in Cluster
            /\ disk[w[c]].bytes = Chunk(e.bytes, c + 1)
            /\ w[c + 1] = fat[w[c]]
        BY <1>4, <3>1, AtPosition
      <3>3. got' = SubSeq(e.bytes, 1, p + k)
        <4>1. got' = SubSeq(e.bytes, 1, p) \o SubSeq(Chunk(e.bytes, c + 1), off + 1, off + k)
          BY <2>1, <3>1, <3>2
        <4>2. p + k <= Len(e.bytes)
          BY <1>6, <3>1
        <4> QED BY <1>4, <1>6, <3>1, <4>1, <4>2, ReadOn
      <3>4. IF MoveOn(p + k) THEN (p + k) \div CLUSTER_SIZE = c + 1
            ELSE (p + k) \div CLUSTER_SIZE = c
        BY <1>4, <1>5, <1>6, PositionMoves DEF MoveOn
      <3>5. ASSUME p + k < f.size PROVE open_file'.current = w[(p + k) \div CLUSTER_SIZE]
        <4>1. CASE MoveOn(p + k)
          <5>1. w[(p + k) \div CLUSTER_SIZE] \in Cluster
            <6>1. p + k \in Nat /\ p + k < Len(e.bytes)
              BY <1>4, <1>6, <3>1, <3>5
            <6> QED BY <6>1, AtPosition
          <5>2. fat[f.current] \in Cluster /\ w[(p + k) \div CLUSTER_SIZE] = fat[f.current]
            BY <3>1, <3>2, <3>4, <4>1, <5>1
          <5> QED BY <2>6, <4>1, <5>2, Marks
        <4>2. CASE ~MoveOn(p + k)
          BY <2>6, <3>1, <3>4, <4>2
        <4> QED BY <4>1, <4>2
      <3> QED BY <2>6, <3>1, <3>3, <3>5 DEF ReadTo
    <2>9. pc' \in {"cat", "read"}
      BY <2>6
    <2>10. pc' = "read" => /\ call'.n < call'.need
                           /\ open_file'.position + (call'.need - call'.n) <= open_file'.size
      <3>1. SUFFICES ASSUME pc' = "read"
                     PROVE  /\ call'.n < call'.need
                            /\ open_file'.position + (call'.need - call'.n) <= open_file'.size
        OBVIOUS
      <3>2. call.n + k < call.need
        BY <2>6, <3>1
      <3>3. call'.n = call.n + k /\ call'.need = call.need
        BY <2>3, <2>6
      <3> QED BY <1>2, <1>4, <1>6, <2>6, <3>2, <3>3
    <2>11. open_file'.position <= open_file'.size
      BY <1>6, <2>6
    <2>12. call' \in CallRecord /\ call'.kind = "none"
      BY <2>3, <2>6
    <2> QED BY <1>1, <2>6, <2>7, <2>8, <2>9, <2>10, <2>11, <2>12, CatGoesOn
  <1> QED BY <1>7, <1>8


----------------------------------------------------------------------------
(* The steps of a call *)

\* What is left to show of a step of write, delete or mkdir.
LEMMA CallStep ==
  ASSUME PlainSession, FatIInv,
         fat' \in Fat, disk' \in Disk, Tree(disk'), Dirs(disk) \subseteq Dirs(disk'),
         LeadsOn(disk, disk'), fat2' = fat', fat_sector_cache' \in {NoCache, fat'},
         UNCHANGED <<cwd, open_file>>, got' \in Seq(Nat), calls' \in 0 .. MAX_CALLS,
         pc' \in Places \ {"cat", "read"}, call' \in CallRecord,
         last' = [op |-> last'.op, path |-> last'.path, ok |-> last'.ok],
         last'.op # "cat" \/ ~last'.ok,
         Owned(disk', fat', Held', Mine'), InCall', Kept'
  PROVE  FatIInv'
  <1>1. Typed /\ Tree(disk) /\ Here
    BY DEF FatIInv
  <1>2. Here'
    BY <1>1, HereKept
  <1>3. UNCHANGED <<current_dir_cluster, current_path>>
    BY DEF cwd
  <1>4. Typed'
    BY <1>1, <1>3 DEF Typed
  <1>5. CacheCoherent'
    BY DEF CacheCoherent
  <1>6. Reading' /\ ReadBack'
    BY DEF Reading, ReadBack
  <1>7. Ownership'
    BY DEF Ownership
  <1> QED BY <1>2, <1>4, <1>5, <1>6, <1>7 DEF FatIInv

\* The step leaves the disk alone.
LEMMA SameDisk ==
  ASSUME FatIInv, disk' = disk
  PROVE  disk' \in Disk /\ Tree(disk') /\ Dirs(disk) \subseteq Dirs(disk') /\ LeadsOn(disk, disk')
  BY DEF FatIInv, Typed, LeadsOn

\* The call begins to work.
LEMMA BeginStep ==
  ASSUME PlainSession, FatIInv, NEW op, op # "cat", NEW path, Begin(op, path),
         NEW at \in Places \ {"cat", "read", "idle"}, NEW locals \in CallRecord,
         locals.kind # "none", Working(at, locals),
         Owned(disk, fat, Held', Mine'), InWrite', InDelete', InMkdir',
         pc' = "free" => /\ call'.cluster # 0 /\ WellEnded(fat, call'.cluster)
                         /\ call'.first = 0 /\ call'.prev = 0 /\ call'.n = 0,
         pc' = "alloc" => call'.need = 1 /\ call'.n = 0 /\ call'.first = 0 /\ call'.prev = 0,
         pc' \in {"free", "alloc", "dirent", "save"}, call'.first = 0
  PROVE  FatIInv'
  <1>1. /\ pc = "idle" /\ calls < MAX_CALLS /\ calls' = calls + 1 /\ got' = <<>>
        /\ last' = [op |-> op, path |-> path, ok |-> FALSE]
        /\ pc' = at /\ call' = locals
        /\ expect' \subseteq {e \in expect : e.dir # locals.parent \/ e.name # locals.name}
        /\ UNCHANGED <<fat, fat2, disk, fat_sector_cache, cwd, open_file>>
    BY DEF Begin, Working, volume
  <1>2. last'.op = op /\ last'.path = path /\ last'.ok = FALSE
    BY <1>1
  <1>3. fat' \in Fat /\ fat2' = fat' /\ fat_sector_cache' \in {NoCache, fat'}
        /\ calls' \in 0 .. MAX_CALLS /\ got' \in Seq(Nat)
    BY <1>1, Fat32Assumption DEF FatIInv, Typed, CacheCoherent
  <1>4. InCall'
    <2>1. call'.kind # "none" /\ pc' \notin {"idle", "cat", "read"} /\ last'.op # "cat"
      BY <1>1, <1>2
    <2>2. InChain'
      BY <1>1 DEF InChain
    <2> QED BY <1>1, <2>1, <2>2 DEF InCall
  <1>5. Kept'
    <2>1. \A e \in expect' : /\ e.dir \in Dirs(disk) /\ e.name \in Names \ {"END", "DEL", ".", ".."}
                             /\ e.bytes \in Seq(Nat) /\ Intact(disk, fat, e)
                             /\ e.dir # call'.parent \/ e.name # call'.name
      BY <1>1 DEF FatIInv, Kept
    <2> QED BY <1>1, <2>1 DEF Kept
  <1>6. Owned(disk', fat', Held', Mine')
    BY <1>1
  <1>7. pc' \in Places \ {"cat", "read"} /\ call' \in CallRecord /\ UNCHANGED <<cwd, open_file>>
    BY <1>1
  <1>8. disk' \in Disk /\ Tree(disk') /\ Dirs(disk) \subseteq Dirs(disk') /\ LeadsOn(disk, disk')
    BY <1>1, SameDisk
  <1>9. last' = [op |-> last'.op, path |-> last'.path, ok |-> last'.ok] /\ ~last'.ok
    BY <1>1, <1>2
  <1> QED BY <1>3, <1>4, <1>5, <1>6, <1>7, <1>8, <1>9, CallStep

\* The entry of a file that is to be written again or removed.
LEMMA TakesEntry ==
  ASSUME PlainSession, FatIInv, pc = "idle", NEW d \in Dirs(disk), NEW i \in Shown(disk, d),
         NEW x, x = Ent(disk, d, i), x.name \in FileNames \ {"END", "DEL"}
  PROVE  /\ ~x.dir /\ i \in 1 .. ENTRIES /\ <<d, i>> \in InTree(disk)
         /\ x.first \in Cluster \union {0}
         /\ x.first = 0 => Clusters(x.size) = 0
         /\ x.first # 0 => WellEnded(fat, x.first)
         /\ Owned(disk, fat, InTree(disk) \ {<<d, i>>}, Chain(fat, x.first))
  <1> DEFINE y == <<d, i>>
  <1>0. d \in Cluster /\ i \in 1 .. ENTRIES /\ disk \in Disk
    BY DEF Dirs, Shown, FatIInv, Typed
  <1>1. ~x.dir
    BY <1>0 DEF FatIInv, Tree, Listing
  <1>2. x.name \notin {".", ".."}
    BY DEF PlainSession
  <1>3. y \in InTree(disk) /\ y[1] = d /\ y[2] = i
    BY <1>0, <1>2 DEF InTree, Slots, Named
  <1>4. call.kind = "none"
    BY DEF FatIInv, InCall
  <1>5. Owned(disk, fat, InTree(disk), {})
    BY <1>4, CallNone DEF FatIInv, Ownership
  <1>6. Sound(fat, x)
    BY <1>3, <1>5 DEF Owned
  <1>7. x.first \in Cluster \union {0}
    BY <1>0, EntTyped
  <1>8. x.first = 0 => Clusters(x.size) = 0
    BY <1>1, <1>6, FS_EmptySet DEF Sound, Used
  <1>9. x.first # 0 => WellEnded(fat, x.first)
    BY <1>6, <1>7, SoundEnds
  <1>10. Used(fat, x) = Chain(fat, x.first)
    BY UsedIsChain
  <1>11. Owned(disk, fat, InTree(disk) \ {y}, Used(fat, Ent(disk, y[1], y[2])))
    BY <1>3, <1>5, OwnedLoses
  <1> QED BY <1>0, <1>1, <1>3, <1>7, <1>8, <1>9, <1>10, <1>11

\* Data that fits a cluster needs one.
LEMMA OneNeeded ==
  ASSUME NEW k \in Nat, k > 0, k <= CLUSTER_SIZE
  PROVE  Clusters(k) = 1
  <1>1. CLUSTER_SIZE \in Nat /\ CLUSTER_SIZE > 0 /\ k + CLUSTER_SIZE - 1 \in Nat
        /\ 1 * CLUSTER_SIZE <= k + CLUSTER_SIZE - 1
        /\ k + CLUSTER_SIZE - 1 < 1 * CLUSTER_SIZE + CLUSTER_SIZE
    BY Fat32Assumption
  <1>2. (k + CLUSTER_SIZE - 1) \div CLUSTER_SIZE = 1
    BY <1>1, DivModIs
  <1> QED BY <1>2 DEF Clusters

\* An empty file needs no cluster.
LEMMA NoneNeeded == Clusters(0) = 0
  <1>1. CLUSTER_SIZE \in Nat /\ CLUSTER_SIZE > 0 /\ 0 + CLUSTER_SIZE - 1 \in Nat
        /\ 0 * CLUSTER_SIZE <= 0 + CLUSTER_SIZE - 1
        /\ 0 + CLUSTER_SIZE - 1 < 0 * CLUSTER_SIZE + CLUSTER_SIZE
    BY Fat32Assumption
  <1>2. (0 + CLUSTER_SIZE - 1) \div CLUSTER_SIZE = 0
    BY <1>1, DivModIs
  <1> QED BY <1>2 DEF Clusters


\* The locals a call begins with.
WriteCall(r, d, s, n, b, buf, need, c, then) ==
  r = [noCall EXCEPT !.kind = "write", !.parent = d, !.slot = s, !.name = n,
                     !.bytes = b, !.buf = buf, !.need = need, !.cluster = c, !.then = then]

DeleteCall(r, s, n, c, then, buf) ==
  r = [noCall EXCEPT !.kind = "delete", !.slot = s, !.name = n, !.cluster = c,
                     !.then = then, !.buf = buf]

MkdirCall(r, d, n) == r = [noCall EXCEPT !.kind = "mkdir", !.parent = d, !.name = n, !.need = 1]

\* The locals of fat32_write,
LEMMA WriteLocals ==
  ASSUME NEW d \in Cluster, NEW s \in 1 .. ENTRIES, NEW n \in Names, NEW b \in Seq(Nat),
         NEW buf \in Entries, NEW need \in Nat, NEW c \in Cluster \union {0}, NEW then \in Places,
         NEW r, WriteCall(r, d, s, n, b, buf, need, c, then)
  PROVE  /\ r \in CallRecord
         /\ r.kind = "write" /\ r.parent = d /\ r.slot = s /\ r.name = n /\ r.bytes = b
         /\ r.buf = buf /\ r.need = need /\ r.first = 0 /\ r.prev = 0 /\ r.cluster = c /\ r.n = 0
         /\ r.then = then
  <1>1. /\ r.kind = "write" /\ r.parent = d /\ r.slot = s /\ r.name = n /\ r.bytes = b
        /\ r.buf = buf /\ r.need = need /\ r.first = 0 /\ r.prev = 0 /\ r.cluster = c /\ r.n = 0
        /\ r.then = then
    BY DEF noCall, WriteCall
  <1>2. r \in CallRecord
    BY NoCallTyped DEF CallRecord, WriteCall
  <1> QED BY <1>1, <1>2

\* ... of fat32_delete
LEMMA DeleteLocals ==
  ASSUME NEW s \in 1 .. ENTRIES, NEW n \in Names, NEW buf \in Entries,
         NEW c \in Cluster \union {0}, NEW then \in Places,
         NEW r, DeleteCall(r, s, n, c, then, buf)
  PROVE  /\ r \in CallRecord
         /\ r.kind = "delete" /\ r.parent = ROOT /\ r.slot = s /\ r.name = n
         /\ r.buf = buf /\ r.first = 0 /\ r.prev = 0 /\ r.cluster = c /\ r.n = 0
         /\ r.then = then
  <1>1. /\ r.kind = "delete" /\ r.parent = ROOT /\ r.slot = s /\ r.name = n
        /\ r.buf = buf /\ r.first = 0 /\ r.prev = 0 /\ r.cluster = c /\ r.n = 0
        /\ r.then = then
    BY DEF noCall, DeleteCall
  <1>2. r \in CallRecord
    BY NoCallTyped DEF CallRecord, DeleteCall
  <1> QED BY <1>1, <1>2

\* ... and of fat32_mkdir.
LEMMA MkdirLocals ==
  ASSUME NEW d \in Cluster, NEW n \in Names,
         NEW r, MkdirCall(r, d, n)
  PROVE  /\ r \in CallRecord
         /\ r.kind = "mkdir" /\ r.parent = d /\ r.name = n /\ r.need = 1
         /\ r.first = 0 /\ r.prev = 0 /\ r.n = 0
  <1>1. /\ r.kind = "mkdir" /\ r.parent = d /\ r.name = n /\ r.need = 1
        /\ r.first = 0 /\ r.prev = 0 /\ r.n = 0
    BY DEF noCall, MkdirCall
  <1>2. r \in CallRecord
    BY NoCallTyped DEF CallRecord, MkdirCall
  <1> QED BY <1>1, <1>2

\* fat32_write up to its first change of the FAT keeps the invariant.
LEMMA WriteBegins ==
  ASSUME PlainSession, FatIInv, NEW w \in WRITES, fat32_write(w.path, w.bytes)
  PROVE  FatIInv'
  <1> DEFINE path == w.path
             bytes == w.bytes
             d == Parent(path)
             n == Last(path.names)
             slot == IF Find(disk, d, n) # 0 THEN Find(disk, d, n) ELSE Room(disk, d)
             old == Ent(disk, d, slot)
             next == IF bytes = <<>> THEN "dirent" ELSE "alloc"
             at == IF old.first >= 2 THEN "free" ELSE next
             locals == [noCall EXCEPT !.kind = "write", !.parent = d, !.slot = slot,
                   !.name = n, !.bytes = bytes, !.buf = disk[d].entries,
                   !.need = Clusters(Len(bytes)), !.cluster = old.first, !.then = next]
  <1>1. CASE Refused
    <2>1. Begin("write", path)
      BY DEF fat32_write
    <2> QED BY <1>1, <2>1, RefusedStep
  <1>2. CASE ~Refused
    <2>1. Begin("write", path) /\ d # NoDir /\ slot # 0 /\ Working(at, locals)
      BY <1>2, SeenBefore DEF fat32_write, Ent
    <2>2. IsPath(path) /\ path.names # <<>> /\ bytes \in Seq(Nat) /\ Len(bytes) \in Nat
          /\ Len(bytes) <= CLUSTER_SIZE /\ n \in FileNames
      BY Fat32Assumption DEF PlainSession, FileNames
    <2>3. n \in Names \ {"END", "DEL"} /\ d \in Dirs(disk) /\ d \in Cluster
          /\ n \notin {".", ".."}
      <3>1. d \in Dirs(disk)
        BY <2>1, <2>2, ParentInDirs
      <3>2. n \in Names \ {"END", "DEL"}
        BY <2>2, ParentIsWay
      <3> QED BY <2>2, <3>1, <3>2 DEF Dirs, PlainSession
    <2>4. pc = "idle" /\ disk \in Disk /\ Listing(disk, d) /\ call.kind = "none"
      BY <2>1, <2>3 DEF Begin, FatIInv, Typed, Tree, InCall
    <2>5. WriteSlot(disk, d, slot, n) /\ slot \in 1 .. ENTRIES
      <3>1. CASE Find(disk, d, n) # 0
        BY <3>1, SlotFinds DEF WriteSlot
      <3>2. CASE Find(disk, d, n) = 0
        <4>1. slot = Room(disk, d) /\ Room(disk, d) # 0
          BY <2>1, <3>2
        <4>2. \A j \in Shown(disk, d) : Ent(disk, d, j).name # n
          BY <3>2, SlotFinds
        <4> QED BY <4>1, <4>2, FreeSlotFinds DEF WriteSlot
      <3> QED BY <3>1, <3>2
    <2> DEFINE x == <<d, slot>>
    <2> HIDE DEF slot
    <2>6. \/ slot \in Shown(disk, d) /\ old.name = n
          \/ old.name \in {"END", "DEL"} /\ old.first = 0 /\ ~old.dir
      BY <2>4, <2>5 DEF WriteSlot, Listing
    <2>7. /\ ~old.dir /\ old.first \in Cluster \union {0}
          /\ old.first = 0 => Clusters(old.size) = 0 \/ old.name = "END" \/ old.name = "DEL"
          /\ old.first # 0 => WellEnded(fat, old.first)
          /\ Owned(disk, fat, InTree(disk) \ {x}, Chain(fat, old.first))
      <3>1. CASE slot \in Shown(disk, d) /\ old.name = n
        BY <2>2, <2>3, <2>4, <3>1, TakesEntry
      <3>2. CASE old.name \in {"END", "DEL"} /\ old.first = 0 /\ ~old.dir
        <4>1. x \notin InTree(disk)
          <5>1. old.name = "END" => slot \notin Shown(disk, d)
            BY <2>4, <2>5, NamedIsShown
          <5> QED BY <3>2, <5>1 DEF InTree, Named
        <4>2. InTree(disk) \ {x} = InTree(disk)
          BY <4>1
        <4>3. Chain(fat, old.first) = {}
          BY <3>2, NoChain
        <4>4. Owned(disk, fat, InTree(disk), {})
          BY <2>4, CallNone DEF FatIInv, Ownership
        <4> QED BY <3>2, <4>2, <4>3, <4>4
      <3> QED BY <2>6, <3>1, <3>2
    <2>8. Clusters(Len(bytes)) \in Nat /\ (bytes # <<>> => Clusters(Len(bytes)) = 1)
      <3>1. CASE bytes = <<>>
        BY <3>1, NoneNeeded
      <3>2. CASE bytes # <<>>
        <4>1. Len(bytes) > 0
          BY <2>2, <3>2
        <4> QED BY <2>2, <4>1, OneNeeded
      <3> QED BY <3>1, <3>2
    <2>9. disk[d].entries \in Entries
      BY <2>3, <2>4 DEF Disk
    <2>10. next \in Places /\ at \in Places \ {"cat", "read", "idle"} /\ next \in {"dirent", "alloc"}
      BY DEF Places
    <2> HIDE DEF next, old
    <2>11. /\ locals \in CallRecord
           /\ locals.kind = "write" /\ locals.parent = d /\ locals.slot = slot /\ locals.name = n
           /\ locals.bytes = bytes /\ locals.buf = disk[d].entries
           /\ locals.need = Clusters(Len(bytes)) /\ locals.first = 0 /\ locals.prev = 0
           /\ locals.cluster = old.first /\ locals.n = 0 /\ locals.then = next
      <3> DEFINE buf == disk[d].entries
                 need == Clusters(Len(bytes))
                 c == old.first
      <3>1. /\ n \in Names /\ d \in Cluster /\ slot \in 1 .. ENTRIES /\ bytes \in Seq(Nat)
            /\ buf \in Entries /\ need \in Nat /\ c \in Cluster \union {0} /\ next \in Places
        BY <2>2, <2>3, <2>5, <2>7, <2>8, <2>9, <2>10
      <3>2. WriteCall(locals, d, slot, n, bytes, buf, need, c, next)
        BY DEF WriteCall
      <3> HIDE DEF locals, n, d, bytes, buf, need, c
      <3>3. /\ locals \in CallRecord
            /\ locals.kind = "write" /\ locals.parent = d /\ locals.slot = slot /\ locals.name = n
            /\ locals.bytes = bytes /\ locals.buf = buf /\ locals.need = need
            /\ locals.first = 0 /\ locals.prev = 0 /\ locals.cluster = c /\ locals.n = 0
            /\ locals.then = next
        BY <3>1, <3>2, WriteLocals
      <3> QED BY <3>3 DEF n, d, bytes, buf, need, c
    <2> HIDE DEF locals
    <2>12. pc' = at /\ call' = locals /\ disk' = disk /\ fat' = fat
      BY <2>1 DEF Working, volume
    <2>13. old.first >= 2 <=> old.first # 0
      BY <2>7 DEF Cluster, ROOT
    <2>14. at = (IF old.first # 0 THEN "free" ELSE next)
      BY <2>13
    <2>15. Held' = InTree(disk) \ {x}
      <3>1. Busy'
        BY <2>10, <2>11, <2>12, <2>14 DEF Busy
      <3>2. <<call'.parent, call'.slot>> = x
        BY <2>11, <2>12
      <3> QED BY <2>12, <3>1, <3>2, HeldNext
    <2>16. Mine' = Chain(fat, old.first)
      <3>1. CASE old.first # 0
        BY <2>11, <2>12, <2>14, <3>1 DEF Mine
      <3>2. CASE old.first = 0
        <4>1. pc' \in {"dirent", "alloc"} /\ call'.first = 0
          BY <2>10, <2>11, <2>12, <2>14, <3>2
        <4>2. Mine' = {}
          BY <4>1 DEF Mine
        <4> QED BY <3>2, <4>2, NoChain
      <3> QED BY <3>1, <3>2
    <2>17. InWrite'
      <3> DEFINE o == Ent(disk', call'.parent, call'.slot)
      <3>1. o = old
        BY <2>11, <2>12 DEF old
      <3>2. /\ pc' \in {"free", "alloc", "data", "dirent", "fail"}
            /\ call'.parent \in Dirs(disk') /\ call'.name \in FileNames \ {"END", "DEL"}
            /\ WriteSlot(disk', call'.parent, call'.slot, call'.name)
            /\ call'.buf = disk'[call'.parent].entries
            /\ Len(call'.bytes) <= CLUSTER_SIZE
            /\ call'.need = Clusters(Len(call'.bytes))
        BY <2>2, <2>3, <2>5, <2>10, <2>11, <2>12, <2>14
      <3>3. ~o.dir /\ (o.first = 0 => Clusters(o.size) = 0 \/ o.name = "END" \/ o.name = "DEL")
        BY <2>7, <3>1
      <3>4. /\ pc' = "free" => call'.then = IF call'.bytes = <<>> THEN "dirent" ELSE "alloc"
            /\ pc' = "alloc" => call'.bytes # <<>> /\ o.first = 0
            /\ pc' # "data"
            /\ pc' = "dirent" => call'.bytes = <<>> /\ call'.first = 0
        BY <2>11, <2>12, <2>14, <3>1 DEF next
      <3> HIDE DEF o
      <3> QED BY <3>2, <3>3, <3>4 DEF InWrite, o
    <2>18. InDelete' /\ InMkdir'
      BY <2>11, <2>12 DEF InDelete, InMkdir
    <2>19. pc' = "free" => /\ call'.cluster # 0 /\ WellEnded(fat, call'.cluster)
                           /\ call'.first = 0 /\ call'.prev = 0 /\ call'.n = 0
      BY <2>7, <2>10, <2>11, <2>12, <2>14
    <2>20. pc' = "alloc" => call'.need = 1 /\ call'.n = 0 /\ call'.first = 0 /\ call'.prev = 0
      BY <2>8, <2>11, <2>12, <2>14 DEF next
    <2>21. pc' \in {"free", "alloc", "dirent", "save"} /\ call'.first = 0
      BY <2>10, <2>11, <2>12, <2>14
    <2>22. Owned(disk, fat, Held', Mine')
      BY <2>7, <2>15, <2>16
    <2>23. locals.kind # "none" /\ locals \in CallRecord /\ "write" # "cat"
      BY <2>11
    <2> HIDE DEF at
    <2> QED BY <2>1, <2>10, <2>17, <2>18, <2>19, <2>20, <2>21, <2>22, <2>23, BeginStep
  <1> QED BY <1>1, <1>2


\* fat32_delete up to its first change of the FAT keeps the invariant.
LEMMA DeleteBegins ==
  ASSUME PlainSession, FatIInv, NEW path \in DELETES, fat32_delete(path)
  PROVE  FatIInv'
  <1> DEFINE n == Last(path.names)
             slot == Find(disk, ROOT, n)
             old == Ent(disk, ROOT, slot)
             at == IF old.first >= 2 THEN "free" ELSE "save"
             buf == [disk[ROOT].entries EXCEPT ![slot] = DeletedEntry]
             c == old.first
             locals == [noCall EXCEPT !.kind = "delete", !.slot = slot,
                   !.name = n, !.cluster = c, !.then = "save", !.buf = buf]
  <1>1. CASE Refused
    <2>1. Begin("delete", path)
      BY DEF fat32_delete
    <2> QED BY <1>1, <2>1, RefusedStep
  <1>2. CASE ~Refused
    <2>1. Begin("delete", path) /\ slot # 0 /\ Working(at, locals)
      BY <1>2, SeenBefore DEF fat32_delete, Ent
    <2>2. n \in FileNames \ {"END", "DEL"} /\ n \in Names
      <3>1. IsPath(path) /\ path.names # <<>>
        BY Fat32Assumption
      <3> QED BY <3>1, ParentIsWay DEF FileNames
    <2>3. pc = "idle" /\ disk \in Disk /\ ROOT \in Dirs(disk) /\ ROOT \in Cluster
      BY <2>1, DirectoriesClosed, Marks DEF Begin, FatIInv, Typed
    <2>4. slot \in Shown(disk, ROOT) /\ slot \in 1 .. ENTRIES /\ old.name = n
      BY <2>1, SlotFinds
    <2> DEFINE x == <<ROOT, slot>>
    <2> HIDE DEF slot
    <2>5. /\ ~old.dir /\ c \in Cluster \union {0}
          /\ c # 0 => WellEnded(fat, c)
          /\ Owned(disk, fat, InTree(disk) \ {x}, Chain(fat, c))
      BY <2>2, <2>3, <2>4, TakesEntry
    <2>6. buf \in Entries
      <3>1. DeletedEntry \in EntryRecord
        <4>1. 0 \in Nat /\ FALSE \in BOOLEAN /\ "DEL" \in Names
          BY DEF Names
        <4> QED BY <4>1, Zenon DEF DeletedEntry, Entry, EntryRecord
      <3>2. disk[ROOT].entries \in Entries
        BY <2>3 DEF Disk
      <3> QED BY <2>4, <3>1, <3>2 DEF Entries
    <2>7. "save" \in Places /\ DeleteCall(locals, slot, n, c, "save", buf)
      BY DEF Places, DeleteCall
    <2> HIDE DEF locals, buf, c, n
    <2>8. /\ locals \in CallRecord
          /\ locals.kind = "delete" /\ locals.parent = ROOT /\ locals.slot = slot /\ locals.name = n
          /\ locals.buf = buf /\ locals.first = 0 /\ locals.prev = 0 /\ locals.cluster = c
          /\ locals.n = 0 /\ locals.then = "save"
      BY <2>2, <2>4, <2>5, <2>6, <2>7, DeleteLocals
    <2>9. pc' = at /\ call' = locals /\ disk' = disk /\ fat' = fat
      BY <2>1 DEF Working, volume
    <2>10. at = (IF c # 0 THEN "free" ELSE "save")
      BY <2>5 DEF Cluster, ROOT, c
    <2> HIDE DEF at
    <2>11. Held' = InTree(disk) \ {x}
      <3>1. Busy'
        BY <2>8, <2>9, <2>10 DEF Busy
      <3>2. <<call'.parent, call'.slot>> = x
        BY <2>8, <2>9
      <3> QED BY <2>9, <3>1, <3>2, HeldNext
    <2>12. Mine' = Chain(fat, c)
      <3>1. CASE c # 0
        BY <2>8, <2>9, <2>10, <3>1 DEF Mine
      <3>2. CASE c = 0
        <4>1. Mine' = {}
          BY <2>9, <2>10, <3>2 DEF Mine
        <4> QED BY <3>2, <4>1, NoChain
      <3> QED BY <3>1, <3>2
    <2>13. InDelete'
      <3>1. /\ pc' \in {"free", "save"} /\ call'.then = "save"
            /\ call'.parent = ROOT /\ call'.name \in FileNames \ {"END", "DEL"}
            /\ call'.slot \in Shown(disk', ROOT)
            /\ Ent(disk', ROOT, call'.slot).name = call'.name /\ ~Ent(disk', ROOT, call'.slot).dir
            /\ call'.buf = [disk'[ROOT].entries EXCEPT ![call'.slot] = DeletedEntry]
        BY <2>2, <2>4, <2>5, <2>8, <2>9, <2>10 DEF buf
      <3> QED BY <3>1 DEF InDelete
    <2>14. InWrite' /\ InMkdir'
      BY <2>8, <2>9 DEF InWrite, InMkdir
    <2>15. pc' = "free" => /\ call'.cluster # 0 /\ WellEnded(fat, call'.cluster)
                           /\ call'.first = 0 /\ call'.prev = 0 /\ call'.n = 0
      BY <2>5, <2>8, <2>9, <2>10
    <2>16. pc' # "alloc" /\ pc' \in {"free", "alloc", "dirent", "save"} /\ call'.first = 0
      BY <2>8, <2>9, <2>10
    <2>17. Owned(disk, fat, Held', Mine')
      BY <2>5, <2>11, <2>12
    <2>18. at \in Places \ {"cat", "read", "idle"} /\ locals.kind # "none" /\ "delete" # "cat"
      BY <2>8, <2>10 DEF Places
    <2> QED BY <2>1, <2>8, <2>13, <2>14, <2>15, <2>16, <2>17, <2>18, BeginStep
  <1> QED BY <1>1, <1>2

\* fat32_mkdir up to its first change of the FAT keeps the invariant.
LEMMA MkdirBegins ==
  ASSUME PlainSession, FatIInv, NEW path \in MKDIRS, fat32_mkdir(path)
  PROVE  FatIInv'
  <1> DEFINE n == Last(path.names)
             d == Parent(path)
             locals == [noCall EXCEPT !.kind = "mkdir", !.parent = d, !.name = n, !.need = 1]
  <1>0. Begin("mkdir", path)
    BY DEF fat32_mkdir
  <1>1. CASE Refused
    BY <1>0, <1>1, RefusedStep
  <1>2. CASE ~Refused
    <2>1. /\ IsPath(path) /\ path.names # <<>> /\ Len(path.names) = 1 /\ ~IO_ERRORS
          /\ path.names[1] \notin FileNames \union {".", ".."}
      BY Fat32Assumption DEF PlainSession
    <2>2. /\ d = Way(disk, Start(path), path.names)[Len(path.names) - 1]
          /\ n = path.names[Len(path.names)] /\ n \in Names \ {"END", "DEL"}
      BY <2>1, ParentIsWay
    <2>3. d = Start(path)
      BY <2>1, <2>2, WaySteps
    <2>4. d \in Dirs(disk) /\ d \in Cluster /\ d # NoDir
      BY <2>3, StartIsDirectory, Marks DEF Dirs, NoDir, FREE
    <2>5. ~Found(path) /\ Working("alloc", locals)
      BY <1>2, <2>1, <2>4 DEF fat32_mkdir
    <2>6. \A j \in Shown(disk, d) : Ent(disk, d, j).name # n
      <3>1. Find(disk, d, n) = 0
        BY <2>1, <2>4, <2>5, SeenBefore DEF Found
      <3> QED BY <3>1, SlotFinds
    <2>7. MkdirCall(locals, d, n) /\ n \in Names \ {"END", "DEL"} /\ n \notin FileNames \union {".", ".."}
      BY <2>1, <2>2 DEF MkdirCall
    <2> HIDE DEF locals, n, d
    <2>8. /\ locals \in CallRecord
          /\ locals.kind = "mkdir" /\ locals.parent = d /\ locals.name = n /\ locals.need = 1
          /\ locals.first = 0 /\ locals.prev = 0 /\ locals.n = 0
      BY <2>4, <2>7, MkdirLocals
    <2>9. pc' = "alloc" /\ call' = locals /\ disk' = disk /\ fat' = fat /\ pc = "idle"
      BY <1>0, <2>5 DEF Working, volume, Begin
    <2>10. call.kind = "none"
      BY <2>9 DEF FatIInv, InCall
    <2>11. Owned(disk, fat, Held', Mine')
      <3>1. ~Busy'
        BY <2>8, <2>9 DEF Busy
      <3>2. Held' = InTree(disk) /\ Mine' = {}
        BY <2>9, <3>1, HeldNext DEF Mine
      <3> QED BY <2>10, <3>2, CallNone DEF FatIInv, Ownership
    <2>12. InMkdir'
      <3>1. /\ pc' = "alloc" /\ call'.parent \in Dirs(disk')
            /\ call'.name \notin FileNames \union {"END", "DEL", ".", ".."}
            /\ \A j \in Shown(disk', call'.parent) : Ent(disk', call'.parent, j).name # call'.name
            /\ call'.need = 1
        BY <2>4, <2>6, <2>7, <2>8, <2>9
      <3> QED BY <3>1 DEF InMkdir
    <2>13. InWrite' /\ InDelete'
      BY <2>8, <2>9 DEF InWrite, InDelete
    <2>14. /\ pc' = "alloc" /\ call'.need = 1 /\ call'.n = 0 /\ call'.first = 0 /\ call'.prev = 0
           /\ pc' \in {"free", "alloc", "dirent", "save"} /\ pc' # "free"
      BY <2>8, <2>9
    <2>15. "alloc" \in Places \ {"cat", "read", "idle"} /\ locals.kind # "none" /\ "mkdir" # "cat"
      BY <2>8 DEF Places
    <2> QED BY <1>0, <2>5, <2>8, <2>11, <2>12, <2>13, <2>14, <2>15, BeginStep
  <1> QED BY <1>1, <1>2


\* What a step of a call does not change of its locals.
SameCall(r, s) ==
  /\ s.kind = r.kind /\ s.parent = r.parent /\ s.slot = r.slot /\ s.name = r.name
  /\ s.bytes = r.bytes /\ s.buf = r.buf /\ s.need = r.need

\* A step of a call that goes on.
LEMMA GoesOn ==
  ASSUME PlainSession, FatIInv, call.kind # "none", call'.kind = call.kind,
         fat' \in Fat, disk' \in Disk, Tree(disk'), Dirs(disk) \subseteq Dirs(disk'),
         LeadsOn(disk, disk'), fat2' = fat', fat_sector_cache' \in {NoCache, fat'},
         UNCHANGED <<cwd, open_file, got, calls, last>>,
         pc' \in Places \ {"cat", "read", "idle"}, call' \in CallRecord,
         Owned(disk', fat', Held', Mine'), InWrite', InDelete', InMkdir', InChain', Kept'
  PROVE  FatIInv'
  <1>1. last.op # "cat" /\ last = [op |-> last.op, path |-> last.path, ok |-> last.ok]
        /\ got \in Seq(Nat) /\ calls \in 0 .. MAX_CALLS
    BY DEF FatIInv, InCall, Typed
  <1>2. InCall'
    BY <1>1 DEF InCall
  <1>3. /\ got' \in Seq(Nat) /\ calls' \in 0 .. MAX_CALLS /\ UNCHANGED <<cwd, open_file>>
        /\ last' = [op |-> last'.op, path |-> last'.path, ok |-> last'.ok]
        /\ last'.op # "cat" /\ pc' \in Places \ {"cat", "read"}
    BY <1>1
  <1> QED BY <1>2, <1>3, CallStep

\* A step of a call that writes to the FAT only.
LEMMA FatStep ==
  ASSUME PlainSession, FatIInv, call.kind # "none", disk' = disk,
         UNCHANGED <<cwd, open_file, got, calls, last, expect>>,
         fat' \in Fat, fat2' = fat', fat_sector_cache' \in {NoCache, fat'},
         call' \in CallRecord, SameCall(call, call'), pc' \in Places \ {"cat", "read", "idle"},
         Owned(disk, fat', Held', Mine'), InChain',
         \A x \in Held : \A c \in Used(fat, Ent(disk, x[1], x[2])) : fat'[c] = fat[c],
         call.kind = "write" =>
           /\ pc' \in {"free", "alloc", "data", "dirent", "fail"}
           /\ pc' = "free" => call'.then = IF call.bytes = <<>> THEN "dirent" ELSE "alloc"
           /\ pc' \in {"alloc", "data"} => call.bytes # <<>>
           /\ pc' = "alloc" /\ call'.n = 0 /\ Ent(disk, call.parent, call.slot).first # 0
                => \E c \in Cluster : fat'[c] = FREE
           /\ pc' = "dirent" => call.bytes = <<>> /\ call'.first = 0,
         call.kind = "delete" => pc' \in {"free", "save"} /\ call'.then = "save",
         call.kind = "mkdir" => /\ pc' \in {"free", "alloc", "newdir", "fail"}
                                /\ pc' = "free" => call'.then = "fail"
  PROVE  FatIInv'
  <1>1. disk' \in Disk /\ Tree(disk') /\ Dirs(disk) \subseteq Dirs(disk') /\ LeadsOn(disk, disk')
    BY SameDisk
  <1>2. call'.kind = call.kind
    BY DEF SameCall
  <1>3. InWrite'
    <2> SUFFICES ASSUME call.kind = "write" PROVE InWrite'
      BY <1>2 DEF InWrite
    <2> DEFINE old == Ent(disk, call.parent, call.slot)
               o == Ent(disk', call'.parent, call'.slot)
    <2>1. o = old
      BY DEF SameCall
    <2>2. /\ call.parent \in Dirs(disk) /\ call.name \in FileNames \ {"END", "DEL"}
          /\ WriteSlot(disk, call.parent, call.slot, call.name)
          /\ ~old.dir /\ (old.first = 0 => Clusters(old.size) = 0 \/ old.name = "END" \/ old.name = "DEL")
          /\ call.buf = disk[call.parent].entries
          /\ Len(call.bytes) <= CLUSTER_SIZE
          /\ call.need = Clusters(Len(call.bytes))
      BY DEF FatIInv, InCall, InWrite
    <2>3. /\ call'.parent \in Dirs(disk') /\ call'.name \in FileNames \ {"END", "DEL"}
          /\ WriteSlot(disk', call'.parent, call'.slot, call'.name)
          /\ ~o.dir /\ (o.first = 0 => Clusters(o.size) = 0 \/ o.name = "END" \/ o.name = "DEL")
          /\ call'.buf = disk'[call'.parent].entries
          /\ Len(call'.bytes) <= CLUSTER_SIZE
          /\ call'.need = Clusters(Len(call'.bytes))
      BY <2>1, <2>2 DEF SameCall
    <2>4. /\ pc' \in {"free", "alloc", "data", "dirent", "fail"}
          /\ pc' = "free" => call'.then = IF call'.bytes = <<>> THEN "dirent" ELSE "alloc"
          /\ pc' \in {"alloc", "data"} => call'.bytes # <<>>
          /\ pc' = "alloc" /\ call'.n = 0 /\ o.first # 0 => \E c \in Cluster : fat'[c] = FREE
          /\ pc' = "dirent" => call'.bytes = <<>> /\ call'.first = 0
      BY <2>1 DEF SameCall
    <2> HIDE DEF o
    <2> QED BY <2>3, <2>4 DEF InWrite, o
  <1>4. InDelete'
    BY <1>2 DEF FatIInv, InCall, InDelete, SameCall
  <1>5. InMkdir'
    <2> SUFFICES ASSUME call.kind = "mkdir" PROVE InMkdir'
      BY <1>2 DEF InMkdir
    <2>1. /\ call.parent \in Dirs(disk)
          /\ call.name \notin FileNames \union {"END", "DEL", ".", ".."}
          /\ \A j \in Shown(disk, call.parent) : Ent(disk, call.parent, j).name # call.name
          /\ call.need = 1
      BY DEF FatIInv, InCall, InMkdir
    <2> QED BY <2>1 DEF InMkdir, SameCall
  <1>6. Kept'
    <2>1. \A e \in expect : Intact(disk, fat', e)
      BY KeptStep
    <2>2. \A e \in expect : /\ e.dir \in Dirs(disk) /\ e.name \in Names \ {"END", "DEL", ".", ".."}
                            /\ e.bytes \in Seq(Nat)
                            /\ e.dir # call.parent \/ e.name # call.name
      BY DEF FatIInv, Kept
    <2> QED BY <2>1, <2>2 DEF Kept, SameCall
  <1>7. Owned(disk', fat', Held', Mine')
    OBVIOUS
  <1> QED BY <1>1, <1>2, <1>3, <1>4, <1>5, <1>6, <1>7, GoesOn

\* The slot in hand stays the same.
LEMMA HeldStays ==
  ASSUME disk' = disk, SameCall(call, call'), Busy' <=> Busy
  PROVE  Held' = Held
  BY HeldNow, HeldNext DEF SameCall

\* A call that fails or is over leaves nothing in hand.
LEMMA FailStep ==
  ASSUME PlainSession, FatIInv, Fail
  PROVE  FatIInv'
  <1>1. /\ pc = "fail" /\ pc' = "idle" /\ call' = noCall
        /\ UNCHANGED <<fat, fat2, disk, fat_sector_cache, cwd, open_file, got, calls, last, expect>>
    BY DEF Fail, GoOn, volume
  <1>2. last.op # "cat" /\ last = [op |-> last.op, path |-> last.path, ok |-> last.ok]
        /\ got \in Seq(Nat) /\ calls \in 0 .. MAX_CALLS /\ call.kind # "none"
        /\ fat \in Fat /\ fat2 = fat /\ fat_sector_cache \in {NoCache, fat}
    BY <1>1 DEF FatIInv, InCall, Typed, CacheCoherent
  <1>3. call' \in CallRecord /\ call'.kind = "none"
    BY <1>1, NoCallTyped
  <1>4. ~Busy /\ ~Busy'
    BY <1>1 DEF Busy
  <1>5. Held' = Held /\ Mine = {} /\ Mine' = {}
    BY <1>1, <1>4, HeldNow, HeldNext DEF Mine
  <1>6. Owned(disk', fat', Held', Mine')
    BY <1>1, <1>5 DEF FatIInv, Ownership
  <1>7. InWrite' /\ InDelete' /\ InMkdir' /\ InChain'
    BY <1>1, <1>3 DEF InWrite, InDelete, InMkdir, InChain
  <1>8. InCall'
    BY <1>1, <1>3, <1>7 DEF InCall
  <1>9. Kept'
    BY <1>1, <1>3 DEF FatIInv, Kept
  <1>10. disk' \in Disk /\ Tree(disk') /\ Dirs(disk) \subseteq Dirs(disk') /\ LeadsOn(disk, disk')
    BY <1>1, SameDisk
  <1>11. /\ fat' \in Fat /\ fat2' = fat' /\ fat_sector_cache' \in {NoCache, fat'}
         /\ UNCHANGED <<cwd, open_file>> /\ got' \in Seq(Nat) /\ calls' \in 0 .. MAX_CALLS
         /\ pc' \in Places \ {"cat", "read"}
         /\ last' = [op |-> last'.op, path |-> last'.path, ok |-> last'.ok] /\ last'.op # "cat"
    BY <1>1, <1>2 DEF Places
  <1> QED BY <1>3, <1>6, <1>8, <1>9, <1>10, <1>11, CallStep


\* The locals with another cluster.
LEMMA ClusterMoves ==
  ASSUME NEW r \in CallRecord, NEW v \in Cluster \union {0}, NEW s, s = [r EXCEPT !.cluster = v]
  PROVE  /\ s \in CallRecord /\ SameCall(r, s) /\ s.cluster = v /\ s.first = r.first
         /\ s.prev = r.prev /\ s.n = r.n /\ s.then = r.then
  BY DEF CallRecord, SameCall

\* fat32_free_chain, one cluster, keeps the invariant.
LEMMA FreeStepStep ==
  ASSUME PlainSession, FatIInv, FreeStep
  PROVE  FatIInv'
  <1> DEFINE c == call.cluster
             next == fat[c]
  <1>1. pc = "free" /\ UNCHANGED <<disk, cwd, open_file, got, calls>> /\ disk' = disk
    BY DEF FreeStep
  <1>2. /\ fat \in Fat /\ disk \in Disk /\ call \in CallRecord /\ CacheCoherent
        /\ Owned(disk, fat, Held, Mine) /\ Mine = Chain(fat, c)
        /\ c # 0 /\ WellEnded(fat, c) /\ call.kind # "none" /\ call.kind \in {"write", "delete", "mkdir"}
        /\ call.then # "fail" => call.first = 0 /\ call.prev = 0 /\ call.n = 0
    BY <1>1 DEF FatIInv, Typed, Ownership, Mine, InCall, InChain, CallRecord
  <1>3. c \in Cluster
    BY <1>2 DEF CallRecord
  <1>4. /\ next \in Cluster \union {EOC}
        /\ next = EOC => Chain(fat, c) = {c}
        /\ next \in Cluster => /\ WellEnded(fat, next) /\ Chain(fat, c) = {c} \union Chain(fat, next)
                               /\ c \notin Chain(fat, next)
    BY <1>2, <1>3, LongerChain
  <1>5. PICK r \in FatReads : \E w \in FatWrites(call.cluster, FREE, r.cache) :
           /\ fat' = w.fat /\ fat2' = w.fat2 /\ fat_sector_cache' = w.cache
           /\ IF ~w.ok \/ r.view[call.cluster] \in {EOC, FREE}
              THEN GoOn(call.then, call)
              ELSE GoOn("free", [call EXCEPT !.cluster = r.view[call.cluster]])
    BY DEF FreeStep
  <1>6. r.view = fat /\ r.cache \in {NoCache, fat}
    BY <1>2, PlainReads
  <1>7. PICK w \in FatWrites(c, FREE, r.cache) :
           /\ fat' = w.fat /\ fat2' = w.fat2 /\ fat_sector_cache' = w.cache
           /\ IF ~w.ok \/ next \in {EOC, FREE}
              THEN GoOn(call.then, call)
              ELSE GoOn("free", [call EXCEPT !.cluster = next])
    BY <1>5, <1>6
  <1>8. w.fat = [fat EXCEPT ![c] = FREE] /\ w.fat2 = w.fat /\ w.ok /\ w.cache \in {NoCache, w.fat}
    BY <1>2, <1>6, PlainWrites
  <1>9. /\ fat' = [fat EXCEPT ![c] = FREE] /\ fat2' = fat' /\ fat_sector_cache' \in {NoCache, fat'}
        /\ IF next = EOC THEN GoOn(call.then, call) ELSE GoOn("free", [call EXCEPT !.cluster = next])
    BY <1>4, <1>7, <1>8, Marks
  <1>10. fat' \in Fat /\ fat'[c] = FREE /\ \A x \in Cluster : x # c => fat'[x] = fat[x]
    <2>1. fat \in Fat /\ c \in Cluster /\ fat' = [fat EXCEPT ![c] = FREE]
      BY <1>2, <1>3, <1>9
    <2> HIDE DEF c
    <2> QED BY <2>1 DEF Fat
  <1>11. c \in Mine
    BY <1>2, <1>3, FirstInChain
  <1>12. Owned(disk, fat', Held, Mine \ {c})
    <2>1. Held \subseteq Slots
      BY DEF Held, Slots
    <2> QED BY <1>2, <1>3, <1>9, <1>11, <2>1, OwnedFrees
  <1>13. \A x \in Held : \A y \in Used(fat, Ent(disk, x[1], x[2])) : fat'[y] = fat[y]
    <2> TAKE x \in Held
    <2>1. Used(fat, Ent(disk, x[1], x[2])) \subseteq Cluster
      BY UsedIsChain
    <2>2. Used(fat, Ent(disk, x[1], x[2])) \cap Mine = {}
      BY <1>2 DEF Owned
    <2> QED BY <1>10, <1>11, <2>1, <2>2
  <1>14. UNCHANGED <<last, expect>>
    BY <1>9 DEF GoOn
  <1>15. /\ call.kind = "write" => call.then = IF call.bytes = <<>> THEN "dirent" ELSE "alloc"
         /\ call.kind = "delete" => call.then = "save"
         /\ call.kind = "mkdir" => call.then = "fail"
    BY <1>1 DEF FatIInv, InCall, InWrite, InDelete, InMkdir
  <1>16. CASE next = EOC
    <2>1. pc' = call.then /\ call' = call /\ SameCall(call, call')
      BY <1>9, <1>16 DEF GoOn, SameCall
    <2>2. pc' \in {"dirent", "alloc", "save", "fail"} /\ (pc' = "fail" <=> call.kind = "mkdir")
          /\ (pc' # "fail" => call'.first = 0 /\ call'.prev = 0 /\ call'.n = 0)
      BY <1>2, <1>15, <2>1
    <2>3. Busy' <=> Busy
      BY <1>1, <1>2, <2>1, <2>2 DEF Busy
    <2>4. Held' = Held
      BY <1>1, <2>1, <2>3, HeldStays
    <2>5. Mine' = {} /\ Mine \ {c} = {}
      BY <1>2, <1>4, <1>16, <2>2 DEF Mine
    <2>6. Owned(disk, fat', Held', Mine')
      BY <1>12, <2>4, <2>5
    <2>7. pc' = "alloc" => call'.need = 1
      <3> SUFFICES ASSUME pc' = "alloc" PROVE call'.need = 1
        OBVIOUS
      <3>1. call.kind = "write" /\ call.bytes # <<>>
        BY <1>2, <1>15, <2>1
      <3>2. call.need = Clusters(Len(call.bytes)) /\ Len(call.bytes) <= CLUSTER_SIZE
            /\ call.bytes \in Seq(Nat)
        BY <1>2, <3>1 DEF FatIInv, InCall, InWrite, CallRecord
      <3>3. Len(call.bytes) \in Nat /\ Len(call.bytes) > 0
        BY <3>1, <3>2
      <3> QED BY <2>1, <3>2, <3>3, OneNeeded
    <2>8. InChain'
      BY <2>2, <2>7 DEF InChain
    <2>9. call.kind = "write" =>
            /\ pc' \in {"alloc", "dirent"}
            /\ pc' = "alloc" => call.bytes # <<>>
            /\ pc' = "dirent" => call.bytes = <<>> /\ call'.first = 0
      BY <1>15, <2>1, <2>2
    <2>10. \E x \in Cluster : fat'[x] = FREE
      BY <1>3, <1>10
    <2>11. (call.kind = "delete" => pc' = "save" /\ call'.then = "save") /\ (call.kind = "mkdir" => pc' = "fail")
      BY <1>15, <2>1
    <2>12. pc' \in Places \ {"cat", "read", "idle"} /\ call' \in CallRecord
      BY <1>2, <2>1, <2>2 DEF Places
    <2> QED BY <1>1, <1>2, <1>9, <1>10, <1>13, <1>14, <2>1, <2>6, <2>8, <2>9, <2>10, <2>11, <2>12, FatStep
  <1>17. CASE next # EOC
    <2>1. next \in Cluster /\ next # 0
      BY <1>4, <1>17, Marks DEF FREE
    <2>2. pc' = "free" /\ call' = [call EXCEPT !.cluster = next]
      BY <1>9, <1>17 DEF GoOn
    <2>3. /\ call' \in CallRecord /\ SameCall(call, call') /\ call'.cluster = next
          /\ call'.first = call.first /\ call'.prev = call.prev /\ call'.n = call.n
          /\ call'.then = call.then
      BY <1>2, <2>1, <2>2, ClusterMoves
    <2>4. Held' = Held
      <3>1. Busy' <=> Busy
        BY <1>1, <2>2, <2>3 DEF Busy, SameCall
      <3> QED BY <1>1, <2>3, <3>1, HeldStays
    <2>5. /\ Chain(fat', next) = Chain(fat, next) /\ WellEnded(fat', next)
      <3>1. \A x \in Chain(fat, next) : fat'[x] = fat[x]
        <4>1. Chain(fat, next) \subseteq Cluster /\ c \notin Chain(fat, next)
          BY <1>4, <2>1 DEF Chain
        <4> QED BY <1>10, <4>1
      <3> QED BY <1>4, <2>1, <3>1, WalkKept
    <2>6. Mine' = Mine \ {c}
      <3>1. Mine' = Chain(fat', call'.cluster)
        BY <2>2 DEF Mine
      <3> QED BY <1>2, <1>4, <2>1, <2>3, <2>5, <3>1
    <2>7. Owned(disk, fat', Held', Mine')
      BY <1>12, <2>4, <2>6
    <2>8. InChain'
      BY <1>2, <2>1, <2>2, <2>3, <2>5 DEF InChain
    <2>9. pc' \in Places \ {"cat", "read", "idle"}
      BY <2>2 DEF Places
    <2>10. /\ call.kind = "write" => call'.then = IF call.bytes = <<>> THEN "dirent" ELSE "alloc"
           /\ call.kind = "delete" => call'.then = "save"
           /\ call.kind = "mkdir" => call'.then = "fail"
      BY <1>15, <2>3
    <2> QED BY <1>1, <1>2, <1>9, <1>10, <1>13, <1>14, <2>2, <2>3, <2>7, <2>8, <2>9, <2>10, FatStep
  <1> QED BY <1>16, <1>17


\* The entry a write did not touch is sound again when no cluster was free.
LEMMA WriteGivesUp ==
  ASSUME PlainSession, FatIInv, pc = "alloc", call.n = 0, call.kind = "write",
         \A c \in Cluster : fat[c] # FREE
  PROVE  Owned(disk, fat, InTree(disk), {})
  <1> DEFINE old == Ent(disk, call.parent, call.slot)
             x == <<call.parent, call.slot>>
  <1>1. /\ call.parent \in Dirs(disk) /\ ~old.dir
        /\ old.first = 0 => Clusters(old.size) = 0 \/ old.name = "END" \/ old.name = "DEL"
        /\ old.first # 0 => \E c \in Cluster : fat[c] = FREE
    BY DEF FatIInv, InCall, InWrite
  <1>2. old.first = 0
    BY <1>1
  <1>3. Held = InTree(disk) \ {x} /\ Mine = {}
    <2>1. Busy
      BY DEF Busy
    <2> QED BY <2>1, HeldNow DEF Mine
  <1>4. Owned(disk, fat, InTree(disk) \ {x}, {})
    BY <1>3 DEF FatIInv, Ownership
  <1>5. CASE x \notin InTree(disk)
    <2>1. InTree(disk) \ {x} = InTree(disk)
      BY <1>5
    <2> QED BY <1>4, <2>1
  <1>6. CASE x \in InTree(disk)
    <2>1. old.name # "END" /\ old.name # "DEL"
      <3>1. x[1] = call.parent /\ x[2] = call.slot
        OBVIOUS
      <3>2. Named(disk, call.parent, call.slot) /\ call.slot \in Shown(disk, call.parent)
        BY <1>6, <3>1 DEF InTree, Named
      <3>3. call.slot \in 1 .. ENTRIES /\ call.slot \in 1 .. call.slot
        BY <3>2 DEF Shown
      <3> QED BY <3>2, <3>3 DEF Named, Shown
    <2>2. Used(fat, old) = {} /\ Cardinality({}) = 0
      BY <1>2, FS_EmptySet DEF Used
    <2>3. Sound(fat, old)
      BY <1>1, <1>2, <2>1, <2>2 DEF Sound
    <2> DEFINE N == InTree(disk) \ {x}
    <2>4. x \notin N /\ x[1] = call.parent /\ x[2] = call.slot /\ N \union {x} = InTree(disk)
      BY <1>6
    <2> HIDE DEF N, x
    <2>5. Owned(disk, fat, N \union {x}, {})
      BY <1>4, <2>2, <2>3, <2>4, OwnedGains DEF N
    <2> QED BY <2>4, <2>5
  <1> QED BY <1>5, <1>6

\* The locals with the first cluster found.
FoundCall(r, s, c) == s = [r EXCEPT !.first = c, !.prev = c, !.n = @ + 1]

\* The locals of fat32_alloc_chain when it has found a cluster.
LEMMA ClusterFound ==
  ASSUME NEW r \in CallRecord, NEW c \in Cluster, r.n = 0, NEW s, FoundCall(r, s, c)
  PROVE  /\ s \in CallRecord /\ SameCall(r, s) /\ s.first = c
         /\ s.prev = c /\ s.n = 1
  <1>0. r.n + 1 = 1 /\ 1 \in Nat
    OBVIOUS
  <1>1. s = [r EXCEPT !.first = c, !.prev = c, !.n = 1]
    BY <1>0 DEF FoundCall
  <1>2. s \in CallRecord
    BY <1>1 DEF CallRecord
  <1>3. s.first = c /\ s.prev = c /\ s.n = 1
    BY <1>1 DEF CallRecord
  <1>4. SameCall(r, s)
    BY <1>1 DEF CallRecord, SameCall
  <1> QED BY <1>2, <1>3, <1>4

\* A set of clusters that is not empty has a smallest one.
LEMMA LeastCluster ==
  ASSUME NEW S, S \subseteq Cluster, S # {}
  PROVE  Min(S) \in S
  <1>1. S \subseteq Nat
    BY Fat32Assumption DEF Cluster, ROOT
  <1>2. \E x \in S : \A y \in S : x <= y
    BY <1>1, LeastNumber
  <1> QED BY <1>2, Zenon DEF Min

\* fat32_alloc_chain, one turn of its search, keeps the invariant.
LEMMA AllocStepStep ==
  ASSUME PlainSession, FatIInv, AllocStep
  PROVE  FatIInv'
  <1> DEFINE free == {c \in Cluster : fat[c] = FREE}
  <1>1. pc = "alloc" /\ call.n < call.need /\ UNCHANGED <<disk, cwd, open_file, got, calls>> /\ disk' = disk
    BY DEF AllocStep
  <1>2. /\ fat \in Fat /\ disk \in Disk /\ call \in CallRecord /\ CacheCoherent /\ fat2 = fat
        /\ Owned(disk, fat, Held, Mine) /\ Mine = {}
        /\ call.kind # "none" /\ call.kind \in {"write", "mkdir"}
        /\ call.need = 1
        /\ \/ call.n = 0 /\ call.first = 0 /\ call.prev = 0
           \/ call.n = 1
        /\ call.kind = "write" => call.bytes # <<>>
    BY <1>1 DEF FatIInv, Typed, Ownership, Mine, InCall, InChain, InDelete, InWrite, CallRecord, CacheCoherent
  <1>3. call.n = 0 /\ call.first = 0 /\ call.prev = 0
    BY <1>1, <1>2
  <1>4. PICK r \in FatReads :
          LET fr == {c \in Cluster : r.view[c] = FREE}
              c == Min(fr)
          IN \/ /\ fr = {}
                /\ fat_sector_cache' = r.cache
                /\ GoOn("fail", call)
                /\ UNCHANGED <<fat, fat2>>
             \/ /\ fr # {} /\ call.prev = 0
                /\ fat_sector_cache' = r.cache
                /\ GoOn("alloc", [call EXCEPT !.first = c, !.prev = c, !.n = @ + 1])
                /\ UNCHANGED <<fat, fat2>>
             \/ call.prev # 0
    BY DEF AllocStep
  <1>5. r.view = fat /\ r.cache \in {NoCache, fat}
    BY <1>2, PlainReads
  <1>6. /\ fat_sector_cache' \in {NoCache, fat} /\ fat' = fat /\ fat2' = fat
        /\ \/ free = {} /\ GoOn("fail", call)
           \/ free # {} /\ GoOn("alloc", [call EXCEPT !.first = Min(free), !.prev = Min(free), !.n = @ + 1])
    BY <1>2, <1>3, <1>4, <1>5
  <1>7. UNCHANGED <<last, expect>> /\ fat' \in Fat /\ fat2' = fat' /\ fat_sector_cache' \in {NoCache, fat'}
    BY <1>2, <1>6 DEF GoOn
  <1>8. \A x \in Held : \A y \in Used(fat, Ent(disk, x[1], x[2])) : fat'[y] = fat[y]
    BY <1>6
  <1>9. CASE free = {}
    <2>1. pc' = "fail" /\ call' = call /\ SameCall(call, call') /\ call' \in CallRecord
      BY <1>2, <1>6, <1>9 DEF GoOn, SameCall
    <2>2. Mine' = {} /\ ~Busy' /\ Held' = InTree(disk)
      <3>1. Mine' = {} /\ ~Busy'
        BY <2>1 DEF Mine, Busy
      <3> QED BY <1>1, <3>1, HeldNext
    <2>3. Owned(disk, fat, InTree(disk), {})
      <3>1. CASE call.kind = "write"
        <4>1. \A c \in Cluster : fat[c] # FREE
          BY <1>9
        <4> QED BY <1>1, <1>3, <3>1, <4>1, WriteGivesUp
      <3>2. CASE call.kind = "mkdir"
        <4>1. ~Busy
          BY <3>2 DEF Busy
        <4> QED BY <1>2, <4>1, HeldNow
      <3> QED BY <1>2, <3>1, <3>2
    <2>4. Owned(disk, fat', Held', Mine')
      BY <1>6, <2>2, <2>3
    <2>5. InChain' /\ pc' \in Places \ {"cat", "read", "idle"}
      BY <2>1 DEF InChain, Places
    <2> QED BY <1>1, <1>2, <1>7, <1>8, <2>1, <2>4, <2>5, FatStep
  <1>10. CASE free # {}
    <2> DEFINE c == Min(free)
    <2>1. c \in Cluster /\ fat[c] = FREE
      <3>1. c \in free
        BY <1>10, LeastCluster
      <3> QED BY <3>1
    <2>2. pc' = "alloc" /\ call' = [call EXCEPT !.first = c, !.prev = c, !.n = @ + 1]
      BY <1>6, <1>10 DEF GoOn
    <2> HIDE DEF c
    <2>3. /\ call' \in CallRecord /\ SameCall(call, call') /\ call'.first = c
          /\ call'.prev = c /\ call'.n = 1
      <3>1. FoundCall(call, call', c)
        BY <2>2 DEF FoundCall
      <3> QED BY <1>2, <1>3, <2>1, <3>1, ClusterFound
    <2>4. Held' = Held
      <3>1. Busy' <=> Busy
        BY <1>1, <2>2, <2>3 DEF Busy, SameCall
      <3> QED BY <1>1, <2>3, <3>1, HeldStays
    <2>5. Owned(disk, fat', Held', Mine')
      <3>1. Mine' = {}
        BY <2>2 DEF Mine
      <3> QED BY <1>2, <1>6, <2>4, <3>1
    <2>6. InChain'
      <3>1. call'.need = 1 /\ call'.first # 0 /\ fat'[call'.first] = FREE
        BY <1>2, <1>6, <2>1, <2>3, Marks DEF SameCall, FREE
      <3> QED BY <2>2, <2>3, <3>1 DEF InChain
    <2>7. pc' \in Places \ {"cat", "read", "idle"}
      BY <2>2 DEF Places
    <2> QED BY <1>1, <1>2, <1>7, <1>8, <2>2, <2>3, <2>5, <2>6, <2>7, FatStep
  <1> QED BY <1>6, <1>9, <1>10

\* The locals when the chain is made.
LEMMA ChainMade ==
  ASSUME NEW r \in CallRecord, NEW s, s = [r EXCEPT !.cluster = r.first, !.n = 0]
  PROVE  /\ s \in CallRecord /\ SameCall(r, s) /\ s.first = r.first /\ s.cluster = r.first
         /\ s.prev = r.prev /\ s.n = 0
  <1>1. s \in CallRecord
    BY DEF CallRecord
  <1>2. s.first = r.first /\ s.cluster = r.first /\ s.prev = r.prev /\ s.n = 0
    BY DEF CallRecord
  <1>3. SameCall(r, s)
    BY DEF CallRecord, SameCall
  <1> QED BY <1>1, <1>2, <1>3

\* The end of fat32_alloc_chain keeps the invariant.
LEMMA AllocEndStep ==
  ASSUME PlainSession, FatIInv, AllocEnd
  PROVE  FatIInv'
  <1> DEFINE c == call.first
             at == IF call.kind = "mkdir" THEN "newdir" ELSE "data"
  <1>1. pc = "alloc" /\ call.n = call.need /\ UNCHANGED <<disk, cwd, open_file, got, calls>> /\ disk' = disk
    BY DEF AllocEnd
  <1>2. /\ fat \in Fat /\ disk \in Disk /\ call \in CallRecord /\ CacheCoherent
        /\ fat_sector_cache \in {NoCache, fat}
        /\ Owned(disk, fat, Held, Mine) /\ Mine = {}
        /\ call.kind # "none" /\ call.kind \in {"write", "mkdir"}
        /\ call.need = 1
        /\ \/ call.n = 0
           \/ call.n = 1 /\ c # 0 /\ call.prev = c /\ fat[c] = FREE
        /\ call.kind = "write" => call.bytes # <<>>
    BY <1>1 DEF FatIInv, Typed, Ownership, Mine, InCall, InChain, InDelete, InWrite, CallRecord, CacheCoherent
  <1>3. call.n = 1 /\ c # 0 /\ call.prev = c /\ fat[c] = FREE
    BY <1>1, <1>2
  <1>4. c \in Cluster
    BY <1>2, <1>3 DEF CallRecord
  <1>5. PICK w \in FatWrites(call.prev, EOC, fat_sector_cache) :
          /\ fat' = w.fat /\ fat2' = w.fat2 /\ fat_sector_cache' = w.cache
          /\ GoOn(IF ~w.ok THEN "fail" ELSE IF call.kind = "mkdir" THEN "newdir" ELSE "data",
                  [call EXCEPT !.cluster = call.first, !.n = 0])
    BY DEF AllocEnd
  <1>6. w.fat = [fat EXCEPT ![c] = EOC] /\ w.fat2 = w.fat /\ w.ok /\ w.cache \in {NoCache, w.fat}
    <2>1. w \in FatWrites(c, EOC, fat_sector_cache)
      BY <1>3
    <2>2. CacheCoherent /\ fat_sector_cache \in {NoCache, fat}
      BY <1>2
    <2> HIDE DEF c
    <2> QED BY <2>1, <2>2, PlainWrites
  <1>7. /\ fat' = [fat EXCEPT ![c] = EOC] /\ fat2' = fat' /\ fat_sector_cache' \in {NoCache, fat'}
        /\ pc' = at /\ call' = [call EXCEPT !.cluster = call.first, !.n = 0]
        /\ UNCHANGED <<last, expect>>
    BY <1>5, <1>6 DEF GoOn
  <1>8. /\ call' \in CallRecord /\ SameCall(call, call') /\ call'.first = c
        /\ call'.cluster = c /\ call'.n = 0
    BY <1>2, <1>7, ChainMade
  <1>9. fat' \in Fat /\ fat'[c] = EOC /\ \A x \in Cluster : x # c => fat'[x] = fat[x]
    <2>1. fat \in Fat /\ c \in Cluster /\ fat' = [fat EXCEPT ![c] = EOC]
      BY <1>2, <1>4, <1>7
    <2> HIDE DEF c
    <2> QED BY <2>1 DEF Fat
  <1>10. Held \subseteq Slots
    BY DEF Held, Slots
  <1>11. Owned(disk, fat', Held, {c})
    BY <1>2, <1>3, <1>4, <1>7, <1>10, OwnedTakes
  <1>12. \A x \in Held : \A y \in Used(fat, Ent(disk, x[1], x[2])) : fat'[y] = fat[y]
    <2> TAKE x \in Held
    <2>1. Used(fat, Ent(disk, x[1], x[2])) \subseteq Cluster
      BY UsedIsChain
    <2>2. Ent(disk, x[1], x[2]).first \in Cluster \union {0}
      BY <1>2, <1>10, SlotTyped
    <2>3. Sound(fat, Ent(disk, x[1], x[2]))
      BY <1>2 DEF Owned
    <2>4. \A y \in Used(fat, Ent(disk, x[1], x[2])) : fat[y] # FREE
      BY <2>2, <2>3, SoundEnds
    <2> QED BY <1>3, <1>9, <2>1, <2>4
  <1>13. at \in {"newdir", "data"} /\ (at = "newdir" <=> call.kind = "mkdir")
    OBVIOUS
  <1>14. Held' = Held
    <2>1. Busy' <=> Busy
      BY <1>1, <1>2, <1>7, <1>8 DEF Busy, SameCall
    <2> QED BY <1>1, <1>8, <2>1, HeldStays
  <1>15. Owned(disk, fat', Held', Mine')
    <2>1. Mine' = {c}
      BY <1>3, <1>7, <1>8, <1>13 DEF Mine
    <2> QED BY <1>11, <1>14, <2>1
  <1> HIDE DEF at
  <1>16. InChain'
    BY <1>3, <1>7, <1>8, <1>9, <1>13 DEF InChain
  <1>17. pc' \in Places \ {"cat", "read", "idle"}
    BY <1>7, <1>13 DEF Places
  <1> QED BY <1>1, <1>2, <1>7, <1>8, <1>9, <1>12, <1>13, <1>15, <1>16, <1>17, FatStep


\* What a cluster holds.
Contents == [entries : Entries, bytes : [1 .. CLUSTER_SIZE -> Nat]]

\* One cluster is written.
Overwritten(D, c, k, E) == E = [D EXCEPT ![c] = k]

\* ... and the disk keeps its type.
LEMMA ClusterWritten ==
  ASSUME NEW D \in Disk, NEW c \in Cluster, NEW k \in Contents, NEW E,
         Overwritten(D, c, k, E)
  PROVE  E \in Disk /\ E[c] = k /\ \A x \in Cluster : x # c => E[x] = D[x]
  <1>1. Disk = [Cluster -> Contents]
    BY DEF Disk, Contents
  <1> HIDE DEF Contents
  <1> QED BY <1>1 DEF Overwritten

\* The call writes to its own new cluster.
LEMMA OwnCluster ==
  ASSUME PlainSession, FatIInv, pc \in {"data", "newdir"}, NEW k \in Contents,
         Overwritten(disk, call.first, k, disk')
  PROVE  /\ disk' \in Disk /\ Tree(disk') /\ Dirs(disk') = Dirs(disk) /\ LeadsOn(disk, disk')
         /\ call.first \in Cluster /\ disk'[call.first] = k /\ InTree(disk') = InTree(disk)
         /\ Mine = {call.first} /\ Owned(disk', fat, Held, {call.first})
         /\ \A d \in Dirs(disk) : /\ disk'[d] = disk[d] /\ Shown(disk', d) = Shown(disk, d)
                                  /\ \A i : Ent(disk', d, i) = Ent(disk, d, i)
         /\ \A e \in expect : Intact(disk', fat, e)
  <1> DEFINE c == call.first
  <1>1. /\ disk \in Disk /\ call \in CallRecord /\ c # 0 /\ Tree(disk)
        /\ Mine = {c} /\ Owned(disk, fat, Held, Mine)
    BY DEF FatIInv, Typed, InCall, InChain, Mine, Ownership
  <1>2. c \in Cluster
    BY <1>1 DEF CallRecord
  <1>3. disk' \in Disk /\ disk'[c] = k /\ \A x \in Cluster : x # c => disk'[x] = disk[x]
    BY <1>1, <1>2, ClusterWritten
  <1>4. \A d \in Dirs(disk) : disk'[d] = disk[d]
    BY <1>1, <1>3, DirsApart
  <1>5. /\ Dirs(disk') = Dirs(disk) /\ Tree(disk') /\ LeadsOn(disk, disk')
        /\ \A d, i : Named(disk', d, i) <=> Named(disk, d, i)
        /\ \A d \in Dirs(disk) :
              /\ Shown(disk', d) = Shown(disk, d)
              /\ \A i : Ent(disk', d, i) = Ent(disk, d, i)
              /\ \A n : Find(disk', d, n) = Find(disk, d, n)
    BY <1>1, <1>3, <1>4, EntriesSame
  <1>6. InTree(disk') = InTree(disk)
    BY <1>5 DEF InTree
  <1>7. \A x \in Held : x[1] \in Dirs(disk) /\ Ent(disk', x[1], x[2]) = Ent(disk, x[1], x[2])
    BY <1>5 DEF Held, Named
  <1>8. Owned(disk', fat, Held, {c})
    BY <1>1, <1>7, OwnedSame
  <1>9. ASSUME NEW e \in expect PROVE Intact(disk', fat, e)
    <2>1. \A x \in Held : ~Ent(disk, x[1], x[2]).dir =>
            \A y \in Used(fat, Ent(disk, x[1], x[2])) : fat[y] = fat[y] /\ disk'[y].bytes = disk[y].bytes
      <3> TAKE x \in Held
      <3>1. Used(fat, Ent(disk, x[1], x[2])) \subseteq Cluster
        BY UsedIsChain
      <3>2. c \notin Used(fat, Ent(disk, x[1], x[2]))
        BY <1>1 DEF Owned
      <3> QED BY <1>3, <3>1, <3>2
    <2>2. e.dir \in Dirs(disk)
      BY DEF FatIInv, Kept
    <2>3. Find(disk', e.dir, e.name) = Find(disk, e.dir, e.name)
      BY <1>5, <2>2
    <2>4. Ent(disk', e.dir, Find(disk, e.dir, e.name)) = Ent(disk, e.dir, Find(disk, e.dir, e.name))
      BY <1>5, <2>2
    <2> QED BY <2>1, <2>3, <2>4, KeptStep
  <1> QED BY <1>1, <1>2, <1>3, <1>4, <1>5, <1>6, <1>8, <1>9

\* A cluster of data has its type.
LEMMA ChunkTyped ==
  ASSUME NEW b \in Seq(Nat), NEW n \in Nat \ {0}
  PROVE  Chunk(b, n) \in [1 .. CLUSTER_SIZE -> Nat]
  <1>1. ASSUME NEW i \in 1 .. CLUSTER_SIZE
        PROVE  LET p == (n - 1) * CLUSTER_SIZE + i IN (IF p <= Len(b) THEN b[p] ELSE 0) \in Nat
    <2> DEFINE p == (n - 1) * CLUSTER_SIZE + i
    <2>1. CLUSTER_SIZE \in Nat /\ n - 1 \in Nat /\ i \in Nat /\ i > 0
      BY Fat32Assumption
    <2>2. (n - 1) * CLUSTER_SIZE \in Nat
      BY <2>1
    <2> DEFINE m == (n - 1) * CLUSTER_SIZE
    <2> HIDE DEF m
    <2>3. m + i \in Nat \ {0}
      BY <2>1, <2>2 DEF m
    <2>4. m + i <= Len(b) => b[m + i] \in Nat
      BY <2>3
    <2> QED BY <2>4 DEF m
  <1> QED BY <1>1 DEF Chunk

\* A cluster with new data has its type,
LEMMA DataTyped ==
  ASSUME NEW b \in [1 .. CLUSTER_SIZE -> Nat]
  PROVE  DataCluster(b) \in Contents /\ DataCluster(b).bytes = b
  <1>1. NoEntries \in Entries
    <2>1. EndEntry \in EntryRecord
      <3>1. 0 \in Nat /\ FALSE \in BOOLEAN /\ "END" \in Names
        BY DEF Names
      <3> QED BY <3>1, Zenon DEF EndEntry, Entry, EntryRecord
    <2> QED BY <2>1 DEF NoEntries, Entries
  <1> QED BY <1>1 DEF DataCluster, Contents

\* ... and one with new entries.
LEMMA DirTyped ==
  ASSUME NEW s \in Entries
  PROVE  DirCluster(s) \in Contents /\ DirCluster(s).entries = s
  <1>1. Zeros \in [1 .. CLUSTER_SIZE -> Nat]
    BY DEF Zeros
  <1> QED BY <1>1 DEF DirCluster, Contents

\* The data of a write reaches its cluster.
LEMMA WriteDataStep ==
  ASSUME PlainSession, FatIInv, WriteData
  PROVE  FatIInv'
  <1> DEFINE c == call.first
             k == DataCluster(Chunk(call.bytes, 1))
             old == Ent(disk, call.parent, call.slot)
             o == Ent(disk', call'.parent, call'.slot)
  <1>1. pc = "data" /\ UNCHANGED <<fat, fat2, cwd, open_file, got, calls>>
    BY DEF WriteData
  <1>2. /\ fat \in Fat /\ disk \in Disk /\ call \in CallRecord /\ CacheCoherent /\ fat2 = fat
        /\ call.kind = "write" /\ call.cluster = c /\ call.n = 0 /\ c # 0 /\ fat[c] = EOC
        /\ call.bytes # <<>>
    BY <1>1 DEF FatIInv, Typed, InCall, InChain, InDelete, InWrite, InMkdir, CallRecord, CacheCoherent
  <1>3. PICK r \in FatReads :
          LET next == r.view[call.cluster] IN
          /\ disk' = [disk EXCEPT ![call.cluster] = DataCluster(Chunk(call.bytes, call.n + 1))]
          /\ fat_sector_cache' = r.cache
          /\ IF (call.n + 1) * CLUSTER_SIZE >= Len(call.bytes)
                \/ next \in {EOC, FREE}
             THEN GoOn("dirent", call)
             ELSE GoOn("data", [call EXCEPT !.cluster = next, !.n = @ + 1])
    BY DEF WriteData, PlainSession
  <1>4. r.view = fat /\ r.cache \in {NoCache, fat}
    BY <1>2, PlainReads
  <1>5. call.n + 1 = 1
    BY <1>2
  <1>6. /\ disk' = [disk EXCEPT ![c] = k] /\ fat_sector_cache' \in {NoCache, fat}
        /\ pc' = "dirent" /\ call' = call /\ UNCHANGED <<last, expect>>
    BY <1>2, <1>3, <1>4, <1>5 DEF GoOn
  <1>7. k \in Contents /\ k.bytes = Chunk(call.bytes, 1)
    <2>1. call.bytes \in Seq(Nat) /\ 1 \in Nat \ {0}
      BY <1>2 DEF CallRecord
    <2>2. Chunk(call.bytes, 1) \in [1 .. CLUSTER_SIZE -> Nat]
      BY <2>1, ChunkTyped
    <2> QED BY <2>2, DataTyped
  <1> HIDE DEF k
  <1>8. /\ disk' \in Disk /\ Tree(disk') /\ Dirs(disk') = Dirs(disk) /\ LeadsOn(disk, disk')
        /\ disk'[c] = k /\ InTree(disk') = InTree(disk)
        /\ Owned(disk', fat, Held, {c})
        /\ \A d \in Dirs(disk) : /\ disk'[d] = disk[d] /\ Shown(disk', d) = Shown(disk, d)
                                 /\ \A i : Ent(disk', d, i) = Ent(disk, d, i)
        /\ \A e \in expect : Intact(disk', fat, e)
    <2>1. Overwritten(disk, call.first, k, disk')
      BY <1>6 DEF Overwritten
    <2> QED BY <1>1, <1>7, <2>1, OwnCluster
  <1>9. Held' = Held /\ Mine' = {c}
    <2>1. Busy /\ Busy'
      BY <1>1, <1>2, <1>6 DEF Busy
    <2>2. Held' = Held
      BY <1>6, <1>8, <2>1, HeldNow, HeldNext
    <2>3. Mine' = {c}
      BY <1>2, <1>6 DEF Mine
    <2> QED BY <2>2, <2>3
  <1>10. Owned(disk', fat', Held', Mine')
    BY <1>1, <1>8, <1>9
  <1>11. InWrite'
    <2>1. /\ call.parent \in Dirs(disk) /\ call.name \in FileNames \ {"END", "DEL"}
          /\ WriteSlot(disk, call.parent, call.slot, call.name)
          /\ ~old.dir /\ (old.first = 0 => Clusters(old.size) = 0 \/ old.name = "END" \/ old.name = "DEL")
          /\ call.buf = disk[call.parent].entries
          /\ Len(call.bytes) <= CLUSTER_SIZE
          /\ call.need = Clusters(Len(call.bytes))
      BY <1>2 DEF FatIInv, InCall, InWrite
    <2>2. o = old
      BY <1>6, <1>8, <2>1
    <2>3. WriteSlot(disk', call.parent, call.slot, call.name)
      BY <1>8, <2>1 DEF WriteSlot
    <2>4. /\ call'.parent \in Dirs(disk') /\ call'.name \in FileNames \ {"END", "DEL"}
          /\ WriteSlot(disk', call'.parent, call'.slot, call'.name)
          /\ ~o.dir /\ (o.first = 0 => Clusters(o.size) = 0 \/ o.name = "END" \/ o.name = "DEL")
          /\ call'.buf = disk'[call'.parent].entries
          /\ Len(call'.bytes) <= CLUSTER_SIZE
          /\ call'.need = Clusters(Len(call'.bytes))
      BY <1>6, <1>8, <2>1, <2>2, <2>3
    <2>5. /\ pc' = "dirent" /\ call'.bytes # <<>> /\ call'.first # 0
          /\ disk'[call'.first].bytes = Chunk(call'.bytes, 1)
      BY <1>2, <1>6, <1>7, <1>8
    <2> HIDE DEF o
    <2> QED BY <2>4, <2>5 DEF InWrite, o
  <1>12. InDelete' /\ InMkdir' /\ InChain'
    BY <1>1, <1>2, <1>6 DEF InDelete, InMkdir, InChain
  <1>13. Kept'
    <2>1. \A e \in expect : /\ e.dir \in Dirs(disk) /\ e.name \in Names \ {"END", "DEL", ".", ".."}
                            /\ e.bytes \in Seq(Nat)
                            /\ e.dir # call.parent \/ e.name # call.name
      BY <1>2 DEF FatIInv, Kept
    <2> QED BY <1>1, <1>6, <1>8, <2>1 DEF Kept
  <1>14. /\ fat' \in Fat /\ fat2' = fat' /\ fat_sector_cache' \in {NoCache, fat'}
         /\ UNCHANGED <<cwd, open_file, got, calls, last>> /\ call.kind # "none" /\ call'.kind = call.kind
         /\ pc' \in Places \ {"cat", "read", "idle"} /\ call' \in CallRecord
         /\ Dirs(disk) \subseteq Dirs(disk')
    BY <1>1, <1>2, <1>6, <1>8 DEF Places
  <1> QED BY <1>8, <1>10, <1>11, <1>12, <1>13, <1>14, GoesOn

\* The entries of a new directory have their type.
LEMMA NewDirTyped ==
  ASSUME PlainSession, NEW c \in Cluster, NEW p \in Cluster
  PROVE  NewDir(c, p) \in Entries
  <1> DEFINE a == Entry(".", TRUE, c, 0)
             b == Entry("..", TRUE, p, 0)
  <1>1. NoEntries \in Entries
    BY NoCallTyped DEF noCall, CallRecord
  <1>2. 0 \in Nat /\ TRUE \in BOOLEAN /\ "." \in Names /\ ".." \in Names
        /\ c \in Cluster \union {0} /\ p \in Cluster \union {0}
    BY DEF Names
  <1>3. a \in EntryRecord
    BY <1>2, Zenon DEF Entry, EntryRecord
  <1>4. b \in EntryRecord
    BY <1>2, Zenon DEF Entry, EntryRecord
  <1> HIDE DEF a, b
  <1>5. [NoEntries EXCEPT ![1] = a, ![2] = b] \in Entries
    BY <1>1, <1>3, <1>4 DEF Entries
  <1> QED BY <1>5 DEF NewDir, a, b

\* The new directory is written, before anything refers to it.
LEMMA WriteNewDirStep ==
  ASSUME PlainSession, FatIInv, WriteNewDir
  PROVE  FatIInv'
  <1> DEFINE c == call.first
             g == NewDir(c, call.parent)
             k == DirCluster(g)
  <1>1. pc = "newdir" /\ UNCHANGED <<fat, fat2, fat_sector_cache, cwd, open_file, got, calls>>
    BY DEF WriteNewDir
  <1>2. /\ fat \in Fat /\ disk \in Disk /\ call \in CallRecord /\ fat2 = fat
        /\ fat_sector_cache \in {NoCache, fat}
        /\ call.kind = "mkdir" /\ c # 0 /\ fat[c] = EOC
        /\ call.parent \in Dirs(disk)
        /\ call.name \notin FileNames \union {"END", "DEL", ".", ".."}
        /\ \A j \in Shown(disk, call.parent) : Ent(disk, call.parent, j).name # call.name
        /\ call.need = 1
    BY <1>1 DEF FatIInv, Typed, InCall, InChain, InDelete, InWrite, InMkdir, CallRecord, CacheCoherent
  <1>3. /\ disk' = [disk EXCEPT ![c] = k] /\ pc' = "addentry" /\ call' = call
        /\ UNCHANGED <<last, expect>>
    BY DEF WriteNewDir, PlainSession, GoOn, NewDir
  <1>4. k \in Contents /\ k.entries = g
    <2>1. c \in Cluster /\ call.parent \in Cluster
      BY <1>2 DEF CallRecord
    <2>2. g \in Entries
      BY <2>1, NewDirTyped
    <2> QED BY <2>2, DirTyped
  <1> HIDE DEF k
  <1>5. /\ disk' \in Disk /\ Tree(disk') /\ Dirs(disk') = Dirs(disk) /\ LeadsOn(disk, disk')
        /\ disk'[c] = k /\ InTree(disk') = InTree(disk)
        /\ Owned(disk', fat, Held, {c})
        /\ \A d \in Dirs(disk) : /\ disk'[d] = disk[d] /\ Shown(disk', d) = Shown(disk, d)
                                 /\ \A i : Ent(disk', d, i) = Ent(disk, d, i)
        /\ \A e \in expect : Intact(disk', fat, e)
    <2>1. Overwritten(disk, call.first, k, disk')
      BY <1>3 DEF Overwritten
    <2> QED BY <1>1, <1>4, <2>1, OwnCluster
  <1>6. Held' = Held /\ Mine' = {c}
    <2>1. ~Busy /\ ~Busy'
      BY <1>1, <1>2, <1>3 DEF Busy
    <2>2. Held' = Held
      BY <1>5, <2>1, HeldNow, HeldNext
    <2>3. Mine' = {c}
      BY <1>2, <1>3 DEF Mine
    <2> QED BY <2>2, <2>3
  <1>7. Owned(disk', fat', Held', Mine')
    BY <1>1, <1>5, <1>6
  <1>8. InMkdir'
    <2>1. disk'[call'.first].entries = NewDir(call'.first, call'.parent)
      BY <1>3, <1>4, <1>5
    <2> QED BY <1>2, <1>3, <1>5, <2>1 DEF InMkdir
  <1>9. InDelete' /\ InWrite' /\ InChain'
    BY <1>1, <1>2, <1>3 DEF InDelete, InWrite, InChain
  <1>10. Kept'
    <2>1. \A e \in expect : /\ e.dir \in Dirs(disk) /\ e.name \in Names \ {"END", "DEL", ".", ".."}
                            /\ e.bytes \in Seq(Nat)
                            /\ e.dir # call.parent \/ e.name # call.name
      BY <1>2 DEF FatIInv, Kept
    <2> QED BY <1>1, <1>3, <1>5, <2>1 DEF Kept
  <1>11. /\ fat' \in Fat /\ fat2' = fat' /\ fat_sector_cache' \in {NoCache, fat'}
         /\ UNCHANGED <<cwd, open_file, got, calls, last>> /\ call.kind # "none" /\ call'.kind = call.kind
         /\ pc' \in Places \ {"cat", "read", "idle"} /\ call' \in CallRecord
         /\ Dirs(disk) \subseteq Dirs(disk')
    BY <1>1, <1>2, <1>3, <1>5 DEF Places
  <1> QED BY <1>5, <1>7, <1>8, <1>9, <1>10, <1>11, GoesOn

\* A call that has changed a directory returns 0.
LEMMA DoneStep ==
  ASSUME PlainSession, FatIInv, call.kind # "none", Done,
         UNCHANGED <<fat, fat2, fat_sector_cache, cwd, open_file, got, calls>>,
         disk' \in Disk, Tree(disk'), Dirs(disk) \subseteq Dirs(disk'), LeadsOn(disk, disk'),
         Owned(disk', fat, InTree(disk'), {}),
         \A e \in expect : Intact(disk', fat, e),
         call.kind = "write" =>
           Intact(disk', fat, [dir |-> call.parent, name |-> call.name, bytes |-> call.bytes])
  PROVE  FatIInv'
  <1> DEFINE new == [dir |-> call.parent, name |-> call.name, bytes |-> call.bytes]
  <1>1. /\ pc' = "idle" /\ call' = noCall /\ last' = [last EXCEPT !.ok = TRUE]
        /\ expect' = expect \union {e \in {new} : call.kind = "write"}
    BY DEF Done
  <1>2. last.op # "cat" /\ last = [op |-> last.op, path |-> last.path, ok |-> last.ok]
        /\ got \in Seq(Nat) /\ calls \in 0 .. MAX_CALLS
        /\ fat \in Fat /\ fat2 = fat /\ fat_sector_cache \in {NoCache, fat} /\ call \in CallRecord
    BY DEF FatIInv, InCall, Typed, CacheCoherent
  <1>3. last' = [op |-> last.op, path |-> last.path, ok |-> TRUE]
    BY <1>1, <1>2
  <1>4. last'.op = last.op /\ last' = [op |-> last'.op, path |-> last'.path, ok |-> last'.ok]
    BY <1>3
  <1>5. call' \in CallRecord /\ call'.kind = "none"
    BY <1>1, NoCallTyped
  <1>6. Held' = InTree(disk') /\ Mine' = {}
    <2>1. ~Busy' /\ Mine' = {}
      BY <1>1 DEF Busy, Mine
    <2> QED BY <2>1, HeldNext
  <1>7. InCall'
    <2>1. InWrite' /\ InDelete' /\ InMkdir' /\ InChain'
      BY <1>1, <1>5 DEF InWrite, InDelete, InMkdir, InChain
    <2> QED BY <1>1, <1>5, <2>1 DEF InCall
  <1>8. Kept'
    <2>1. \A e \in expect : /\ e.dir \in Dirs(disk) /\ e.name \in Names \ {"END", "DEL", ".", ".."}
                            /\ e.bytes \in Seq(Nat)
      BY DEF FatIInv, Kept
    <2>2. call.kind = "write" =>
            /\ new.dir \in Dirs(disk) /\ new.name \in Names \ {"END", "DEL", ".", ".."}
            /\ new.bytes \in Seq(Nat) /\ Intact(disk', fat, new)
      <3> SUFFICES ASSUME call.kind = "write"
                   PROVE  /\ call.parent \in Dirs(disk)
                          /\ call.name \in Names \ {"END", "DEL", ".", ".."}
                          /\ call.bytes \in Seq(Nat) /\ Intact(disk', fat, new)
        OBVIOUS
      <3>1. call.parent \in Dirs(disk) /\ call.name \in FileNames \ {"END", "DEL"}
        BY DEF FatIInv, InCall, InWrite
      <3>2. call.name \in Names /\ call.bytes \in Seq(Nat)
        BY <1>2 DEF CallRecord
      <3>3. call.name \notin {".", ".."}
        BY <3>1 DEF PlainSession
      <3> QED BY <3>1, <3>2, <3>3
    <2> HIDE DEF new
    <2>3. \A e \in expect' : /\ e.dir \in Dirs(disk') /\ e.name \in Names \ {"END", "DEL", ".", ".."}
                             /\ e.bytes \in Seq(Nat) /\ Intact(disk', fat', e)
      BY <1>1, <2>1, <2>2
    <2> QED BY <1>5, <2>3 DEF Kept
  <1>9. Owned(disk', fat', Held', Mine')
    BY <1>6
  <1>10. /\ fat' \in Fat /\ fat2' = fat' /\ fat_sector_cache' \in {NoCache, fat'}
         /\ UNCHANGED <<cwd, open_file>> /\ got' \in Seq(Nat) /\ calls' \in 0 .. MAX_CALLS
         /\ pc' \in Places \ {"cat", "read"} /\ last'.op # "cat"
    BY <1>1, <1>2, <1>4 DEF Places
  <1> QED BY <1>4, <1>5, <1>7, <1>8, <1>9, <1>10, CallStep


\* The entry of a new directory has its type.
LEMMA DirEntryTyped ==
  ASSUME NEW n \in Names, NEW c \in Cluster
  PROVE  /\ Entry(n, TRUE, c, 0) \in EntryRecord /\ Entry(n, TRUE, c, 0).name = n
         /\ Entry(n, TRUE, c, 0).dir /\ Entry(n, TRUE, c, 0).first = c
  BY DEF Entry, EntryRecord

\* One entry of a directory is written, with the others as they were.
LEMMA EntryWritten ==
  ASSUME FatIInv, NEW p \in Dirs(disk), NEW s \in 1 .. ENTRIES, NEW x \in EntryRecord,
         NEW g, g = [disk[p].entries EXCEPT ![s] = x],
         Overwritten(disk, p, DirCluster(g), disk')
  PROVE  /\ disk' \in Disk /\ Changed(disk, disk', p, s, x)
         /\ \A c \in Cluster : c # p => disk'[c] = disk[c]
         /\ Ent(disk', p, s) = x
         /\ <<p, s>> \notin Held =>
              /\ \A y \in Held : Ent(disk', y[1], y[2]) = Ent(disk, y[1], y[2])
              /\ \A e \in expect : Find(disk', e.dir, e.name) = Find(disk, e.dir, e.name)
                                     => Intact(disk', fat, e)
  <1>1. p \in Cluster /\ disk \in Disk /\ disk[p].entries \in Entries /\ Tree(disk)
    BY DEF Dirs, FatIInv, Typed, Disk
  <1>2. g \in Entries
    BY <1>1 DEF Entries
  <1>3. DirCluster(g) \in Contents /\ DirCluster(g).entries = g
    BY <1>2, DirTyped
  <1>4. disk' \in Disk /\ disk'[p] = DirCluster(g) /\ \A c \in Cluster : c # p => disk'[c] = disk[c]
    BY <1>1, <1>3, ClusterWritten
  <1>5. Dirs(disk) \subseteq Cluster
    BY DEF Dirs
  <1>6. Changed(disk, disk', p, s, x)
    BY <1>3, <1>4, <1>5 DEF Changed
  <1>7. /\ Ent(disk', p, s) = x
        /\ \A d \in Dirs(disk), i \in 1 .. ENTRIES :
             d # p \/ i # s => Ent(disk', d, i) = Ent(disk, d, i)
    BY <1>1, <1>4, <1>6, ChangedEntries
  <1>8. ASSUME <<p, s>> \notin Held, NEW y \in Held
        PROVE  Ent(disk', y[1], y[2]) = Ent(disk, y[1], y[2])
    <2>1. y = <<y[1], y[2]>> /\ y[1] \in Dirs(disk) /\ y[2] \in 1 .. ENTRIES
      BY DEF Held, Named
    <2>2. y[1] # p \/ y[2] # s
      BY <1>8, <2>1
    <2> QED BY <1>7, <2>1, <2>2
  <1>9. ASSUME <<p, s>> \notin Held, NEW e \in expect,
               Find(disk', e.dir, e.name) = Find(disk, e.dir, e.name)
        PROVE  Intact(disk', fat, e)
    <2> DEFINE i == Find(disk, e.dir, e.name)
               y == <<e.dir, i>>
    <2>1. y \in Held
      BY KeptIsHeld
    <2>2. y[1] = e.dir /\ y[2] = i
      OBVIOUS
    <2>3. Ent(disk', e.dir, i) = Ent(disk, e.dir, i)
      BY <1>8, <1>9, <2>1, <2>2
    <2>4. \A z \in Held : ~Ent(disk, z[1], z[2]).dir =>
            \A c \in Used(fat, Ent(disk, z[1], z[2])) : fat[c] = fat[c] /\ disk'[c].bytes = disk[c].bytes
      <3> TAKE z \in Held
      <3>1. Used(fat, Ent(disk, z[1], z[2])) \subseteq Cluster
        BY UsedIsChain
      <3>2. ~Ent(disk, z[1], z[2]).dir => p \notin Used(fat, Ent(disk, z[1], z[2]))
        BY DirsApart
      <3> QED BY <1>4, <3>1, <3>2
    <2> QED BY <1>9, <2>3, <2>4, KeptStep
  <1> QED BY <1>4, <1>6, <1>7, <1>8, <1>9

\* rm saves the root directory; the slot is free and its chain was freed before.
LEMMA SaveRootStep ==
  ASSUME PlainSession, FatIInv, SaveRoot
  PROVE  FatIInv'
  <1> DEFINE s == call.slot
             x == <<ROOT, s>>
             old == Ent(disk, ROOT, s)
  <1>1. /\ pc = "save" /\ UNCHANGED <<fat, fat2, fat_sector_cache, cwd, open_file, got, calls>>
        /\ disk' = [disk EXCEPT ![ROOT] = DirCluster(call.buf)] /\ Done
    BY DEF SaveRoot, PlainSession
  <1>2. /\ disk \in Disk /\ call \in CallRecord /\ Tree(disk) /\ ENTRIES >= 2
        /\ call.kind = "delete" /\ call.parent = ROOT /\ call.name \in FileNames \ {"END", "DEL"}
        /\ s \in Shown(disk, ROOT) /\ old.name = call.name /\ ~old.dir
        /\ call.buf = [disk[ROOT].entries EXCEPT ![s] = DeletedEntry]
        /\ Owned(disk, fat, Held, {})
    BY <1>1 DEF FatIInv, Typed, InCall, InDelete, InWrite, InMkdir, CallRecord, Ownership, Mine, PlainSession
  <1>3. ROOT \in Dirs(disk) /\ s \in 1 .. ENTRIES
    BY <1>2, DirectoriesClosed DEF Shown
  <1>4. /\ DeletedEntry \in EntryRecord /\ DeletedEntry.name = "DEL" /\ ~DeletedEntry.dir
        /\ DeletedEntry.first = 0
    <2>1. "DEL" \in Names /\ 0 \in Nat /\ 0 \in Cluster \union {0}
      BY DEF Names
    <2> QED BY <2>1 DEF Entry, EntryRecord, DeletedEntry
  <1>5. Overwritten(disk, ROOT, DirCluster(call.buf), disk')
    BY <1>1 DEF Overwritten
  <1>6. Held = InTree(disk) \ {x}
    <2>1. Busy
      BY <1>1, <1>2 DEF Busy
    <2> QED BY <1>2, <2>1, HeldNow
  <1>7. x \notin Held
    BY <1>6
  <1>8. /\ disk' \in Disk /\ Changed(disk, disk', ROOT, s, DeletedEntry)
        /\ \A y \in Held : Ent(disk', y[1], y[2]) = Ent(disk, y[1], y[2])
        /\ \A e \in expect : Find(disk', e.dir, e.name) = Find(disk, e.dir, e.name)
                                     => Intact(disk', fat, e)
    BY <1>2, <1>3, <1>4, <1>5, <1>7, EntryWritten
  <1>9. /\ Dirs(disk') = Dirs(disk) /\ Tree(disk') /\ LeadsOn(disk, disk')
        /\ \A d, i : Named(disk', d, i) <=> Named(disk, d, i) /\ (d # ROOT \/ i # s)
        /\ \A d \in Dirs(disk) : \A n : n # "DEL" /\ (d # ROOT \/ n # old.name) =>
              Find(disk', d, n) = Find(disk, d, n)
    BY <1>2, <1>3, <1>4, <1>8, FileDeleted
  <1>10. InTree(disk') = Held
    <2>1. \A y \in Slots : y = x <=> y[1] = ROOT /\ y[2] = s
      BY DEF Slots
    <2> HIDE DEF x
    <2> QED BY <1>6, <1>9, <2>1 DEF InTree
  <1>11. Owned(disk', fat, InTree(disk'), {})
    BY <1>2, <1>8, <1>10, OwnedSame
  <1>12. ASSUME NEW e \in expect PROVE Intact(disk', fat, e)
    <2>1. e.dir \in Dirs(disk) /\ e.name # "DEL" /\ (e.dir # ROOT \/ e.name # old.name)
      BY <1>2 DEF FatIInv, Kept
    <2> QED BY <1>8, <1>9, <2>1
  <1>13. call.kind # "none" /\ call.kind # "write" /\ Dirs(disk) \subseteq Dirs(disk')
    BY <1>2, <1>9
  <1> QED BY <1>1, <1>8, <1>9, <1>11, <1>12, <1>13, DoneStep

\* The entry of a write is saved: it owns the chain that was allocated.
LEMMA WriteDirentStep ==
  ASSUME PlainSession, FatIInv, WriteDirent
  PROVE  FatIInv'
  <1> DEFINE p == call.parent
             s == call.slot
             c == call.first
             x == <<p, s>>
             e == Entry(call.name, FALSE, c, Len(call.bytes))
             g == [disk[p].entries EXCEPT ![s] = e]
             new == [dir |-> p, name |-> call.name, bytes |-> call.bytes]
  <1>1. pc = "dirent" /\ UNCHANGED <<fat, fat2, fat_sector_cache, cwd, open_file, got, calls>>
    BY DEF WriteDirent
  <1>2. /\ disk \in Disk /\ call \in CallRecord /\ Tree(disk) /\ ENTRIES >= 2
        /\ call.kind = "write" /\ p \in Dirs(disk) /\ call.name \in FileNames \ {"END", "DEL"}
        /\ WriteSlot(disk, p, s, call.name) /\ ~Ent(disk, p, s).dir
        /\ call.buf = disk[p].entries /\ Len(call.bytes) <= CLUSTER_SIZE
        /\ IF call.bytes = <<>> THEN c = 0
           ELSE c # 0 /\ disk[c].bytes = Chunk(call.bytes, 1) /\ fat[c] = EOC
        /\ Owned(disk, fat, Held, Mine) /\ Mine = IF c = 0 THEN {} ELSE {c}
    BY <1>1 DEF FatIInv, Typed, InCall, InDelete, InWrite, InMkdir, InChain, CallRecord, Ownership, Mine, PlainSession
  <1>3. /\ s \in 1 .. ENTRIES /\ c \in Cluster \union {0} /\ call.name \in Names
        /\ call.bytes \in Seq(Nat) /\ Len(call.bytes) \in Nat /\ call.name \notin {".", ".."}
    BY <1>2 DEF CallRecord, PlainSession
  <1>4. /\ e \in EntryRecord /\ e.name = call.name /\ ~e.dir /\ e.first = c /\ e.size = Len(call.bytes)
    BY <1>3 DEF Entry, EntryRecord
  <1> HIDE DEF e
  <1>5. Overwritten(disk, p, DirCluster(g), disk') /\ Done
    BY <1>2 DEF WriteDirent, PlainSession, Overwritten, e
  <1>6. Held = InTree(disk) \ {x} /\ x \notin Held
    <2>1. Busy
      BY <1>1, <1>2 DEF Busy
    <2> QED BY <2>1, HeldNow
  <1>7. /\ disk' \in Disk /\ Changed(disk, disk', p, s, e) /\ Ent(disk', p, s) = e
        /\ \A y \in Cluster : y # p => disk'[y] = disk[y]
        /\ \A y \in Held : Ent(disk', y[1], y[2]) = Ent(disk, y[1], y[2])
        /\ \A z \in expect : Find(disk', z.dir, z.name) = Find(disk, z.dir, z.name)
                                     => Intact(disk', fat, z)
    <2> HIDE DEF g
    <2>1. g = [disk[p].entries EXCEPT ![s] = e]
      BY DEF g
    <2> QED BY <1>2, <1>3, <1>4, <1>5, <1>6, <2>1, EntryWritten
  <1>8. /\ Dirs(disk') = Dirs(disk) /\ Tree(disk') /\ LeadsOn(disk, disk')
        /\ \A d, i : Named(disk', d, i) <=> Named(disk, d, i) \/ (d = p /\ i = s)
        /\ \A d \in Dirs(disk) : \A n : n \notin {"END", "DEL"} /\ (d # p \/ n # e.name) =>
             Find(disk', d, n) = Find(disk, d, n)
        /\ Find(disk', p, e.name) = s
    BY <1>2, <1>3, <1>4, <1>7, FileWritten
  <1>9. InTree(disk') = Held \union {x} /\ x[1] = p /\ x[2] = s
    <2>1. \A y \in Slots : y = x <=> y[1] = p /\ y[2] = s
      BY DEF Slots
    <2>2. x \in Slots
      BY <1>2, <1>3 DEF Slots, Dirs
    <2> HIDE DEF x
    <2> QED BY <1>6, <1>8, <2>1, <2>2 DEF InTree
  <1>10. Used(fat, e) = Mine /\ Sound(fat, e) /\ (c # 0 => Clusters(Len(call.bytes)) = 1)
         /\ (c = 0 => Clusters(Len(call.bytes)) = 0)
    <2>1. CASE c = 0
      <3>1. call.bytes = <<>> /\ Len(call.bytes) = 0
        BY <1>2, <2>1
      <3>2. Clusters(Len(call.bytes)) = 0
        BY <3>1, NoneNeeded
      <3>3. Used(fat, e) = {} /\ Cardinality({}) = 0
        BY <1>4, <2>1, FS_EmptySet DEF Used
      <3> QED BY <1>2, <1>4, <2>1, <3>2, <3>3 DEF Sound
    <2>2. CASE c # 0
      <3>1. call.bytes # <<>> /\ Len(call.bytes) > 0 /\ c \in Cluster /\ fat[c] = EOC
        BY <1>2, <1>3, <2>2
      <3>2. Clusters(Len(call.bytes)) = 1
        BY <1>2, <1>3, <3>1, OneNeeded
      <3>3. Used(fat, e) = {c} /\ WellEnded(fat, c)
        BY <1>4, <3>1, OneCluster, UsedIsChain
      <3>4. Cardinality({c}) = 1
        BY FS_Singleton
      <3> QED BY <1>2, <1>4, <2>2, <3>2, <3>3, <3>4 DEF Sound
    <2> QED BY <2>1, <2>2
  <1>11. Owned(disk', fat, InTree(disk'), {})
    <2> HIDE DEF x
    <2>1. Sound(fat, Ent(disk', x[1], x[2])) /\ Used(fat, Ent(disk', x[1], x[2])) = Mine
      BY <1>7, <1>9, <1>10
    <2>2. /\ Owned(disk, fat, Held, Mine) /\ x \notin Held
          /\ \A y \in Held : Ent(disk', y[1], y[2]) = Ent(disk, y[1], y[2])
      BY <1>2, <1>6, <1>7
    <2>3. Owned(disk', fat, Held \union {x}, {})
      BY <2>1, <2>2, OwnedGains
    <2> QED BY <1>9, <2>3
  <1>12. ASSUME NEW z \in expect PROVE Intact(disk', fat, z)
    <2>1. /\ z.dir \in Dirs(disk) /\ z.name \notin {"END", "DEL"}
          /\ z.dir # p \/ z.name # e.name
      BY <1>2, <1>4 DEF FatIInv, Kept
    <2> QED BY <1>7, <1>8, <2>1
  <1>13. Intact(disk', fat, new)
    <2>1. /\ new.dir = p /\ new.name = call.name /\ new.bytes = call.bytes
      OBVIOUS
    <2>2. ASSUME NEW n \in 1 .. Clusters(Len(call.bytes))
          PROVE  /\ Walk(fat, c)[n - 1] \in Cluster
                 /\ disk'[Walk(fat, c)[n - 1]].bytes = Chunk(call.bytes, n)
      <3>1. c # 0 /\ n = 1
        BY <1>10, <2>2
      <3>2. c \in Cluster /\ Walk(fat, c)[0] = c
        BY <1>3, <3>1, WalkSteps
      <3>3. c # p
        BY <1>2, <3>1, DirsApart
      <3>4. disk'[c].bytes = Chunk(call.bytes, 1)
        BY <1>2, <1>7, <3>1, <3>2, <3>3
      <3> QED BY <3>1, <3>2, <3>4
    <2>3. s # 0
      BY <1>3
    <2> HIDE DEF new
    <2>4. Find(disk', new.dir, new.name) = s /\ Ent(disk', new.dir, s) = e
      BY <1>4, <1>7, <1>8, <2>1
    <2> QED BY <1>4, <2>1, <2>2, <2>3, <2>4 DEF Intact
  <1>14. call.kind # "none" /\ Dirs(disk) \subseteq Dirs(disk')
    BY <1>2, <1>8
  <1> QED BY <1>1, <1>5, <1>7, <1>8, <1>11, <1>12, <1>13, <1>14, DoneStep

\* mkdir adds the entry: the new directory is part of the tree.
LEMMA AddEntryStep ==
  ASSUME PlainSession, FatIInv, AddEntry
  PROVE  FatIInv'
  <1> DEFINE p == call.parent
             s == IF call.name = InvalidName THEN 0 ELSE Room(disk, p)
             c == call.first
             x == <<p, s>>
             e == Entry(call.name, TRUE, c, 0)
             g == [disk[p].entries EXCEPT ![s] = e]
  <1>1. pc = "addentry" /\ UNCHANGED <<fat, fat2, fat_sector_cache, cwd, open_file, got, calls>>
    BY DEF AddEntry
  <1>2. /\ fat \in Fat /\ disk \in Disk /\ call \in CallRecord /\ Tree(disk) /\ ENTRIES >= 2
        /\ call.kind = "mkdir" /\ p \in Dirs(disk)
        /\ call.name \notin FileNames \union {"END", "DEL", ".", ".."}
        /\ \A j \in Shown(disk, p) : Ent(disk, p, j).name # call.name
        /\ disk[c].entries = NewDir(c, p)
        /\ c # 0 /\ fat[c] = EOC /\ fat2 = fat /\ fat_sector_cache \in {NoCache, fat}
        /\ Owned(disk, fat, Held, Mine) /\ Mine = {c}
        /\ {".", ".."} \cap FileNames = {}
    BY <1>1 DEF FatIInv, Typed, InCall, InDelete, InWrite, InMkdir, InChain, CallRecord, Ownership, Mine,
                PlainSession, CacheCoherent
  <1>3. c \in Cluster /\ call.name \in Names
    BY <1>2 DEF CallRecord
  <1>4. \/ s # 0 /\ Overwritten(disk, p, DirCluster(g), disk') /\ Done
        \/ s = 0 /\ CleanUp /\ disk' = disk
    BY SeenBefore DEF AddEntry, PlainSession, Overwritten
  <1>5. Held = InTree(disk)
    <2>1. ~Busy
      BY <1>2 DEF Busy
    <2> QED BY <2>1, HeldNow
  <1>6. CASE s # 0
    <2>1. /\ e \in EntryRecord /\ e.name = call.name /\ e.dir /\ e.first = c
      BY <1>3, DirEntryTyped
    <2> HIDE DEF e
    <2>2. s = Room(disk, p) /\ Room(disk, p) # 0
      BY <1>6
    <2>3. s \in 1 .. ENTRIES /\ Ent(disk, p, s).name \in {"END", "DEL"} /\ WriteSlot(disk, p, s, e.name)
      BY <1>2, <2>1, <2>2, FreeSlotFinds DEF WriteSlot
    <2>4. Overwritten(disk, p, DirCluster(g), disk') /\ Done
      BY <1>4, <1>6
    <2> HIDE DEF s
    <2>5. x \notin Held
      <3>1. Listing(disk, p)
        BY <1>2 DEF Tree
      <3>2. Ent(disk, p, s).name = "END" => s \notin Shown(disk, p)
        BY <2>3, <3>1, NamedIsShown
      <3> QED BY <1>5, <2>3, <3>2 DEF InTree, Named
    <2>6. /\ disk' \in Disk /\ Changed(disk, disk', p, s, e) /\ Ent(disk', p, s) = e
          /\ \A y \in Cluster : y # p => disk'[y] = disk[y]
          /\ \A y \in Held : Ent(disk', y[1], y[2]) = Ent(disk, y[1], y[2])
          /\ \A z \in expect : Find(disk', z.dir, z.name) = Find(disk, z.dir, z.name)
                                     => Intact(disk', fat, z)
      <3> HIDE DEF g
      <3>1. g = [disk[p].entries EXCEPT ![s] = e]
        BY DEF g
      <3> QED BY <1>2, <2>1, <2>3, <2>4, <2>5, <3>1, EntryWritten
    <2>7. c \notin Dirs(disk) /\ c # p
      BY <1>2, DirsApart
    <2>8. disk'[c].entries = NewDir(c, p)
      BY <1>2, <1>3, <2>6, <2>7
    <2>9. /\ Dirs(disk') = Dirs(disk) \union {c} /\ Tree(disk') /\ LeadsOn(disk, disk')
          /\ \A d, i : Named(disk', d, i) <=> Named(disk, d, i) \/ (d = p /\ i = s)
          /\ \A d \in Dirs(disk) : \A n : n \notin {"END", "DEL"} /\ (d # p \/ n # e.name) =>
               Find(disk', d, n) = Find(disk, d, n)
      BY <1>2, <1>3, <2>1, <2>3, <2>6, <2>7, <2>8, DirectoryAdded
    <2>10. InTree(disk') = Held \union {x} /\ x[1] = p /\ x[2] = s
      <3>1. \A y \in Slots : y = x <=> y[1] = p /\ y[2] = s
        BY DEF Slots
      <3>2. x \in Slots
        BY <1>2, <2>3 DEF Slots, Dirs
      <3> HIDE DEF x
      <3> QED BY <1>5, <2>9, <3>1, <3>2 DEF InTree
    <2>11. Used(fat, e) = Mine /\ Sound(fat, e)
      <3>1. Used(fat, e) = {c}
        BY <1>2, <1>3, <2>1, OneCluster, UsedIsChain
      <3> QED BY <1>2, <2>1, <3>1 DEF Sound
    <2>12. Owned(disk', fat, InTree(disk'), {})
      <3> HIDE DEF x
      <3>1. Sound(fat, Ent(disk', x[1], x[2])) /\ Used(fat, Ent(disk', x[1], x[2])) = Mine
        BY <2>6, <2>10, <2>11
      <3>2. /\ Owned(disk, fat, Held, Mine) /\ x \notin Held
            /\ \A y \in Held : Ent(disk', y[1], y[2]) = Ent(disk, y[1], y[2])
        BY <1>2, <2>5, <2>6
      <3>3. Owned(disk', fat, Held \union {x}, {})
        BY <3>1, <3>2, OwnedGains
      <3> QED BY <2>10, <3>3
    <2>13. ASSUME NEW z \in expect PROVE Intact(disk', fat, z)
      <3>1. /\ z.dir \in Dirs(disk) /\ z.name \notin {"END", "DEL"}
            /\ z.dir # p \/ z.name # e.name
        BY <1>2, <2>1 DEF FatIInv, Kept
      <3> QED BY <2>6, <2>9, <3>1
    <2>14. call.kind # "none" /\ call.kind # "write" /\ Dirs(disk) \subseteq Dirs(disk')
      BY <1>2, <2>9
    <2> QED BY <1>1, <2>4, <2>6, <2>9, <2>12, <2>13, <2>14, DoneStep
  <1>7. CASE s = 0
    <2>1. disk' = disk /\ pc' = "free" /\ call' = [call EXCEPT !.cluster = c, !.then = "fail"]
          /\ UNCHANGED <<last, expect>>
      BY <1>4, <1>7 DEF CleanUp, GoOn
    <2>2. /\ call' \in CallRecord /\ SameCall(call, call') /\ call'.cluster = c /\ call'.then = "fail"
      BY <1>2, <2>1 DEF CallRecord, SameCall, Places
    <2>3. Held' = Held
      <3>1. ~Busy /\ ~Busy'
        BY <1>2, <2>2 DEF Busy, SameCall
      <3> QED BY <2>1, <2>2, <3>1, HeldStays
    <2>4. WellEnded(fat, c) /\ Chain(fat, c) = {c}
      BY <1>2, <1>3, OneCluster
    <2>5. Mine' = {c}
      BY <1>1, <2>1, <2>2, <2>4 DEF Mine
    <2>6. Owned(disk, fat', Held', Mine')
      BY <1>1, <1>2, <2>3, <2>5
    <2>7. InChain'
      BY <1>1, <1>2, <2>1, <2>2, <2>4 DEF InChain
    <2>8. /\ fat' \in Fat /\ fat2' = fat' /\ fat_sector_cache' \in {NoCache, fat'}
          /\ UNCHANGED <<cwd, open_file, got, calls, last, expect>>
          /\ pc' \in Places \ {"cat", "read", "idle"} /\ call.kind # "none"
          /\ \A y \in Held : \A z \in Used(fat, Ent(disk, y[1], y[2])) : fat'[z] = fat[z]
      BY <1>1, <1>2, <2>1 DEF Places
    <2> QED BY <1>2, <2>1, <2>2, <2>6, <2>7, <2>8, FatStep
  <1> QED BY <1>6, <1>7


----------------------------------------------------------------------------
(* The image *)

\* The FAT of an image whose file has k clusters.
ImageFat(f, k) ==
  \A c \in Cluster : f[c] = IF c = ROOT \/ c = ROOT + k THEN EOC
                            ELSE IF c < ROOT + k THEN c + 1 ELSE FREE

\* The image's file is in consecutive clusters.
LEMMA ImageChain ==
  ASSUME NEW f, NEW k \in Nat, k >= 1, k < TOTAL_CLUSTERS, ImageFat(f, k)
  PROVE  /\ \A i \in 0 .. TOTAL_CLUSTERS : Walk(f, ROOT + 1)[i] = IF i < k THEN ROOT + 1 + i ELSE EOC
         /\ Chain(f, ROOT + 1) = (ROOT + 1) .. (ROOT + k)
         /\ WellEnded(f, ROOT + 1)
         /\ Cardinality(Chain(f, ROOT + 1)) = k
  <1> DEFINE W(i) == Walk(f, ROOT + 1)[i]
             T == {i \in Nat : i < k => W(i) = ROOT + 1 + i}
  <1>0. TOTAL_CLUSTERS \in Nat /\ TOTAL_CLUSTERS >= 1 /\ ROOT = 2
    BY Fat32Assumption DEF ROOT
  <1>1. 0 \in T
    BY <1>0, WalkSteps
  <1>2. ASSUME NEW i \in Nat, i \in T PROVE i + 1 \in T
    <2>1. CASE i + 1 < k
      <3>1. i \in 0 .. TOTAL_CLUSTERS - 1 /\ W(i) = ROOT + 1 + i
        BY <1>0, <1>2, <2>1
      <3>2. W(i) \in Cluster /\ W(i) # ROOT /\ W(i) < ROOT + k
        BY <1>0, <2>1, <3>1 DEF Cluster
      <3>3. W(i + 1) = f[W(i)]
        BY <3>1, <3>2, WalkSteps
      <3>4. f[W(i)] = W(i) + 1
        BY <1>0, <3>1, <3>2 DEF ImageFat
      <3>5. W(i + 1) = ROOT + 1 + (i + 1)
        BY <1>0, <3>1, <3>3, <3>4
      <3> QED BY <3>5
    <2>2. CASE ~(i + 1 < k)
      BY <2>2
    <2> QED BY <2>1, <2>2
  <1> HIDE DEF T
  <1>3. \A i \in Nat : i \in T
    BY <1>1, <1>2, SetInduction
  <1>4. \A i \in 0 .. k - 1 : W(i) = ROOT + 1 + i
    BY <1>3 DEF T
  <1>5. W(k) = EOC
    <2>1. k - 1 \in 0 .. k - 1 /\ k - 1 \in 0 .. TOTAL_CLUSTERS - 1 /\ (k - 1) + 1 = k
      BY <1>0
    <2>2. W(k - 1) = ROOT + k /\ ROOT + k \in Cluster
      BY <1>0, <1>4, <2>1 DEF Cluster
    <2>3. W((k - 1) + 1) = f[W(k - 1)]
      BY <2>1, <2>2, WalkSteps
    <2>4. f[ROOT + k] = EOC
      BY <2>2 DEF ImageFat
    <2> QED BY <2>1, <2>2, <2>3, <2>4
  <1>6. \A j \in k .. TOTAL_CLUSTERS : W(j) = EOC
    <2>1. k \in 0 .. TOTAL_CLUSTERS /\ W(k) \notin Cluster
      BY <1>0, <1>5, Marks
    <2> QED BY <1>5, <2>1, WalkStuck
  <1>7. \A i \in 0 .. TOTAL_CLUSTERS : W(i) = IF i < k THEN ROOT + 1 + i ELSE EOC
    BY <1>0, <1>4, <1>6
  <1>8. WellEnded(f, ROOT + 1)
    BY <1>0, <1>7 DEF WellEnded
  <1>9. Chain(f, ROOT + 1) = (ROOT + 1) .. (ROOT + k)
    <2>1. ASSUME NEW c \in Chain(f, ROOT + 1) PROVE c \in (ROOT + 1) .. (ROOT + k)
      <3>1. PICK i \in 0 .. TOTAL_CLUSTERS : c = W(i) /\ c \in Cluster
        BY <2>1 DEF Chain
      <3>2. c = ROOT + 1 + i /\ i < k
        BY <1>7, <3>1, Marks
      <3> QED BY <1>0, <3>2
    <2>2. ASSUME NEW c \in (ROOT + 1) .. (ROOT + k) PROVE c \in Chain(f, ROOT + 1)
      <3> DEFINE i == c - (ROOT + 1)
      <3>1. i \in 0 .. TOTAL_CLUSTERS /\ i < k /\ ROOT + 1 + i = c /\ c \in Cluster
        BY <1>0 DEF Cluster
      <3>2. W(i) = c
        BY <1>7, <3>1
      <3> QED BY <3>1, <3>2 DEF Chain
    <2> QED BY <2>1, <2>2
  <1>10. Cardinality((ROOT + 1) .. (ROOT + k)) = k
    <2>1. ROOT + 1 \in Int /\ ROOT + k \in Int /\ ~(ROOT + 1 > ROOT + k) /\ (ROOT + k) - (ROOT + 1) + 1 = k
      BY <1>0
    <2> HIDE DEF ROOT
    <2> QED BY <2>1, FS_Interval
  <1> QED BY <1>7, <1>8, <1>9, <1>10

\* The image's file is not empty.
LEMMA ImageNeeds ==
  /\ Clusters(Len(IMAGE_FILE)) \in Nat /\ Clusters(Len(IMAGE_FILE)) >= 1
  /\ Clusters(Len(IMAGE_FILE)) < TOTAL_CLUSTERS
  <1>1. Len(IMAGE_FILE) \in Nat /\ Len(IMAGE_FILE) >= 1 /\ CLUSTER_SIZE \in Nat /\ CLUSTER_SIZE > 0
    BY Fat32Assumption
  <1> DEFINE x == Len(IMAGE_FILE) + CLUSTER_SIZE - 1
             q == x \div CLUSTER_SIZE
             r == x % CLUSTER_SIZE
  <1>2. x \in Nat /\ x >= CLUSTER_SIZE
    BY <1>1
  <1> HIDE DEF x
  <1>3. q \in Nat /\ r \in 0 .. CLUSTER_SIZE - 1 /\ x = q * CLUSTER_SIZE + r
    BY <1>1, <1>2, DivMod
  <1> HIDE DEF q, r
  <1>4. q # 0
    <2>1. SUFFICES ASSUME q = 0 PROVE FALSE
      OBVIOUS
    <2>2. q * CLUSTER_SIZE = 0
      BY <1>1, <2>1
    <2> QED BY <1>1, <1>2, <1>3, <2>2
  <1>5. Clusters(Len(IMAGE_FILE)) = q
    BY DEF Clusters, q, x
  <1> QED BY <1>3, <1>4, <1>5, Fat32Assumption

\* The root directory of the image.
ImageDisk(D, k) ==
  /\ D \in Disk
  /\ Ent(D, ROOT, 1) = Entry("image", FALSE, ROOT + 1, Len(IMAGE_FILE))
  /\ \A i \in 2 .. ENTRIES : Ent(D, ROOT, i) = EndEntry
  /\ \A n \in 1 .. k : D[ROOT + n].bytes = Chunk(IMAGE_FILE, n)

\* The directory of the image is the root and has one entry.
LEMMA ImageDirectory ==
  ASSUME NEW D, NEW k, ImageDisk(D, k)
  PROVE  /\ Dirs(D) = {ROOT} /\ Tree(D)
         /\ \A d, i : Named(D, d, i) <=> d = ROOT /\ i = 1
         /\ Find(D, ROOT, "image") = 1
  <1> DEFINE img == Entry("image", FALSE, ROOT + 1, Len(IMAGE_FILE))
  <1>0. ENTRIES \in Nat /\ ENTRIES >= 1 /\ 1 \in 1 .. ENTRIES
    BY Fat32Assumption
  <1>1. /\ img.name = "image" /\ ~img.dir /\ EndEntry.name = "END" /\ ~EndEntry.dir /\ EndEntry.first = 0
    BY DEF Entry, EndEntry
  <1>2. /\ Ent(D, ROOT, 1) = img /\ \A i \in 1 .. ENTRIES : i # 1 => Ent(D, ROOT, i) = EndEntry
    <2>1. \A i \in 1 .. ENTRIES : i # 1 => i \in 2 .. ENTRIES
      BY <1>0
    <2> QED BY <2>1 DEF ImageDisk
  <1> HIDE DEF img
  <1>3. Shown(D, ROOT) = {1}
    <2>1. 1 \in Shown(D, ROOT)
      <3>1. \A j \in 1 .. 1 : j = 1
        OBVIOUS
      <3> QED BY <1>0, <1>1, <1>2, <3>1 DEF Shown
    <2>2. ASSUME NEW i \in Shown(D, ROOT) PROVE i = 1
      <3>1. i \in 1 .. ENTRIES /\ i \in 1 .. i
        BY DEF Shown
      <3>2. Ent(D, ROOT, i).name # "END"
        BY <3>1 DEF Shown
      <3> QED BY <1>1, <1>2, <3>1, <3>2
    <2> QED BY <2>1, <2>2
  <1>4. Dirs(D) = {ROOT}
    <2>1. Subdirs(D, {ROOT})
      BY <1>1, <1>2, <1>3 DEF Subdirs
    <2>2. Dirs(D) \subseteq {ROOT}
      BY <2>1, Marks, DirectoriesLeast
    <2>3. ROOT \in Dirs(D)
      BY Marks DEF Dirs, Subdirs
    <2> QED BY <2>2, <2>3
  <1>5. \A d, i : Named(D, d, i) <=> d = ROOT /\ i = 1
    BY <1>1, <1>2, <1>3, <1>4 DEF Named
  <1>6. Listing(D, ROOT)
    <2>1. \A i \in 1 .. ENTRIES : ~Ent(D, ROOT, i).dir /\ (Ent(D, ROOT, i).name = "image" \/ Ent(D, ROOT, i) = EndEntry)
      BY <1>1, <1>2
    <2>2. \A i \in 1 .. ENTRIES : Ent(D, ROOT, i).name = "END" <=> i # 1
      BY <1>1, <1>2
    <2>3. \A i \in 1 .. ENTRIES : Ent(D, ROOT, i).name \in {"END", "DEL"} => Ent(D, ROOT, i).first = 0
      BY <1>1, <1>2
    <2>4. \A i, j \in 1 .. ENTRIES : i < j /\ Ent(D, ROOT, i).name = "END" => Ent(D, ROOT, j).name = "END"
      BY <1>0, <2>2
    <2>5. \A i, j \in 1 .. ENTRIES : i # j /\ Ent(D, ROOT, i).name = Ent(D, ROOT, j).name =>
            Ent(D, ROOT, i).name = "END"
      BY <2>2
    <2> QED BY <2>1, <2>3, <2>4, <2>5 DEF Listing
  <1>7. Tree(D)
    <2>1. \A i \in 1 .. ENTRIES : Ent(D, ROOT, i).name \notin {".", ".."} /\ ~Ent(D, ROOT, i).dir
      BY <1>1, <1>2
    <2> QED BY <1>4, <1>6, <2>1 DEF Tree
  <1>8. Find(D, ROOT, "image") = 1
    BY <1>1, <1>2, <1>3, <1>6, SlotIs
  <1> QED BY <1>4, <1>5, <1>7, <1>8

\* The disk of the image has its type.
LEMMA InitDisk ==
  ASSUME Init
  PROVE  /\ fat \in Fat /\ ImageFat(fat, Clusters(Len(IMAGE_FILE)))
         /\ ImageDisk(disk, Clusters(Len(IMAGE_FILE)))
  <1> DEFINE k == Clusters(Len(IMAGE_FILE))
             img == Entry("image", FALSE, ROOT + 1, Len(IMAGE_FILE))
             rootdir == [Blank EXCEPT !.entries[1] = img]
             data(c) == [Blank EXCEPT !.bytes = Chunk(IMAGE_FILE, c - ROOT)]
  <1>0. /\ TOTAL_CLUSTERS \in Nat /\ k \in Nat /\ k >= 1 /\ k < TOTAL_CLUSTERS /\ ROOT = 2
        /\ IMAGE_FILE \in Seq(Nat) /\ Len(IMAGE_FILE) \in Nat /\ ENTRIES \in Nat /\ ENTRIES >= 1
    BY ImageNeeds, Fat32Assumption DEF ROOT
  <1>1. /\ fat = [c \in Cluster |-> IF c = ROOT \/ c = ROOT + k THEN EOC
                              ELSE IF c < ROOT + k THEN c + 1 ELSE FREE]
        /\ disk = [c \in Cluster |-> IF c = ROOT THEN rootdir
                                     ELSE IF c <= ROOT + k THEN data(c) ELSE Blank]
    BY DEF Init
  <1> HIDE DEF k
  <1>2. fat \in Fat /\ ImageFat(fat, k)
    <2>1. \A c \in Cluster : c < ROOT + k => c + 1 \in Cluster
      BY <1>0 DEF Cluster
    <2> QED BY <1>1, <2>1 DEF Fat, ImageFat
  <1>3. ROOT + 1 \in Cluster
    BY <1>0 DEF Cluster
  <1>4. img \in EntryRecord
    <2>1. "image" \in Names
      BY DEF Names
    <2> QED BY <1>0, <1>3, <2>1 DEF Entry, EntryRecord
  <1>5. NoEntries \in Entries /\ Zeros \in [1 .. CLUSTER_SIZE -> Nat]
    BY NoCallTyped DEF noCall, CallRecord, Zeros
  <1> HIDE DEF img
  <1>6. rootdir = [entries |-> [NoEntries EXCEPT ![1] = img], bytes |-> Zeros]
    BY DEF Blank
  <1>7. [NoEntries EXCEPT ![1] = img] \in Entries
    BY <1>4, <1>5 DEF Entries
  <1>8. rootdir \in Contents /\ Blank \in Contents
    BY <1>5, <1>6, <1>7 DEF Contents, Blank
  <1>9. ASSUME NEW c \in Cluster, c # ROOT
        PROVE  data(c) \in Contents /\ data(c).bytes = Chunk(IMAGE_FILE, c - ROOT)
    <2>1. c - ROOT \in Nat \ {0}
      BY <1>0, <1>9 DEF Cluster
    <2>2. Chunk(IMAGE_FILE, c - ROOT) \in [1 .. CLUSTER_SIZE -> Nat]
      BY <1>0, <2>1, ChunkTyped
    <2>3. data(c) = [entries |-> NoEntries, bytes |-> Chunk(IMAGE_FILE, c - ROOT)]
      BY DEF Blank
    <2> QED BY <1>5, <2>2, <2>3 DEF Contents
  <1>10. Disk = [Cluster -> Contents]
    BY DEF Disk, Contents
  <1>11. rootdir.entries = [NoEntries EXCEPT ![1] = img]
    BY <1>6
  <1> HIDE DEF rootdir, data
  <1>12. disk \in Disk
    <2> HIDE DEF Contents, Disk
    <2> QED BY <1>1, <1>8, <1>9, <1>10
  <1>13. disk[ROOT] = rootdir
    BY <1>1, Marks
  <1>14. Ent(disk, ROOT, 1) = img /\ \A i \in 2 .. ENTRIES : Ent(disk, ROOT, i) = EndEntry
    <2>1. DOMAIN NoEntries = 1 .. ENTRIES /\ \A i \in 1 .. ENTRIES : NoEntries[i] = EndEntry
      BY DEF NoEntries
    <2>2. 1 \in 1 .. ENTRIES /\ \A i \in 2 .. ENTRIES : i \in 1 .. ENTRIES /\ i # 1
      BY <1>0
    <2>3. disk[ROOT].entries = [NoEntries EXCEPT ![1] = img]
      BY <1>11, <1>13
    <2> QED BY <2>1, <2>2, <2>3 DEF Ent
  <1>15. ASSUME NEW n \in 1 .. k PROVE disk[ROOT + n].bytes = Chunk(IMAGE_FILE, n)
    <2>1. ROOT + n \in Cluster /\ ROOT + n # ROOT /\ ROOT + n <= ROOT + k /\ (ROOT + n) - ROOT = n
      BY <1>0 DEF Cluster
    <2>2. disk[ROOT + n] = data(ROOT + n)
      BY <1>1, <2>1
    <2> QED BY <1>9, <2>1, <2>2
  <1> QED BY <1>2, <1>12, <1>14, <1>15 DEF ImageDisk, img, k

\* The image satisfies the invariant.
LEMMA FatInitially ==
  ASSUME Init
  PROVE  FatIInv
  <1> DEFINE k == Clusters(Len(IMAGE_FILE))
             img == Entry("image", FALSE, ROOT + 1, Len(IMAGE_FILE))
             x == <<ROOT, 1>>
             e == [dir |-> ROOT, name |-> "image", bytes |-> IMAGE_FILE]
  <1>1. /\ fat2 = fat /\ fat_sector_cache = NoCache /\ current_dir_cluster = ROOT
        /\ current_path = <<>> /\ open_file = closed /\ pc = "idle" /\ call = noCall /\ got = <<>>
        /\ expect = {e} /\ calls = 0
        /\ last = [op |-> "none", path |-> [abs |-> FALSE, names |-> <<>>], ok |-> TRUE]
    BY DEF Init
  <1>2. /\ k \in Nat /\ k >= 1 /\ k < TOTAL_CLUSTERS /\ TOTAL_CLUSTERS \in Nat
        /\ IMAGE_FILE \in Seq(Nat) /\ ROOT = 2 /\ ENTRIES \in Nat /\ ENTRIES >= 1
    BY ImageNeeds, Fat32Assumption DEF ROOT
  <1>3. fat \in Fat /\ ImageFat(fat, k) /\ ImageDisk(disk, k) /\ disk \in Disk
    BY InitDisk DEF ImageDisk
  <1> HIDE DEF k
  <1>4. /\ \A i \in 0 .. TOTAL_CLUSTERS : Walk(fat, ROOT + 1)[i] = IF i < k THEN ROOT + 1 + i ELSE EOC
        /\ Chain(fat, ROOT + 1) = (ROOT + 1) .. (ROOT + k)
        /\ WellEnded(fat, ROOT + 1)
        /\ Cardinality(Chain(fat, ROOT + 1)) = k
    BY <1>2, <1>3, ImageChain
  <1>5. /\ Dirs(disk) = {ROOT} /\ Tree(disk)
        /\ \A d, i : Named(disk, d, i) <=> d = ROOT /\ i = 1
        /\ Find(disk, ROOT, "image") = 1
    BY <1>3, ImageDirectory
  <1>6. Ent(disk, ROOT, 1) = img /\ img.first = ROOT + 1 /\ ~img.dir /\ img.size = Len(IMAGE_FILE)
    BY <1>3 DEF ImageDisk, Entry
  <1> HIDE DEF img
  <1>7. Typed
    <2>1. current_dir_cluster \in Cluster /\ current_path \in Seq(Names) /\ pc \in Places /\ got \in Seq(Nat)
          /\ call \in CallRecord /\ calls \in 0 .. MAX_CALLS
      BY <1>1, Marks, NoCallTyped, Fat32Assumption DEF Places
    <2>2. open_file \in [first : Cluster \union {0}, current : Cluster \union {0},
                         position : Nat, size : Nat]
          /\ open_file.position <= open_file.size
      BY <1>1 DEF closed
    <2>3. last = [op |-> last.op, path |-> last.path, ok |-> last.ok]
      BY <1>1
    <2> QED BY <1>3, <2>1, <2>2, <2>3 DEF Typed
  <1>8. Held = {x} /\ Mine = {}
    <2>1. ~Busy /\ Mine = {}
      BY <1>1 DEF Busy, Mine
    <2>2. InTree(disk) = {x}
      <3>1. \A y \in Slots : y = x <=> y[1] = ROOT /\ y[2] = 1
        BY DEF Slots
      <3>2. x \in Slots
        BY <1>2, Marks DEF Slots
      <3> HIDE DEF x
      <3> QED BY <1>5, <3>1, <3>2 DEF InTree
    <2> QED BY <2>1, <2>2, HeldNow
  <1>9. Ownership
    <2>1. x[1] = ROOT /\ x[2] = 1 /\ Used(fat, img) = Chain(fat, ROOT + 1)
      BY <1>6, UsedIsChain
    <2>2. Sound(fat, img)
      BY <1>2, <1>4, <1>6, <2>1 DEF Sound, k
    <2>3. ROOT \notin Chain(fat, ROOT + 1) /\ fat[ROOT] = EOC
      BY <1>2, <1>3, <1>4, Marks DEF ImageFat
    <2>4. ASSUME NEW c \in Cluster, fat[c] # FREE PROVE c = ROOT \/ c \in Chain(fat, ROOT + 1)
      BY <1>2, <1>3, <1>4, <2>4 DEF ImageFat, Cluster
    <2> HIDE DEF x
    <2>5. \A y \in {x} : Ent(disk, y[1], y[2]) = img
      BY <1>6, <2>1
    <2>6. Owned(disk, fat, {x}, {})
      BY <2>1, <2>2, <2>3, <2>4, <2>5 DEF Owned
    <2> QED BY <1>8, <2>6 DEF Ownership
  <1>10. InCall
    <2>1. call.kind = "none"
      BY <1>1, NoCallTyped
    <2> QED BY <1>1, <2>1 DEF InCall, InWrite, InDelete, InMkdir, InChain
  <1>11. Kept
    <2>1. e.dir = ROOT /\ e.name = "image" /\ e.bytes = IMAGE_FILE
      OBVIOUS
    <2>2. ASSUME NEW n \in 1 .. k
          PROVE  /\ Walk(fat, ROOT + 1)[n - 1] \in Cluster
                 /\ disk[Walk(fat, ROOT + 1)[n - 1]].bytes = Chunk(IMAGE_FILE, n)
      <3>1. n - 1 \in 0 .. TOTAL_CLUSTERS /\ n - 1 < k /\ ROOT + 1 + (n - 1) = ROOT + n
            /\ ROOT + n \in Cluster
        BY <1>2 DEF Cluster
      <3>2. Walk(fat, ROOT + 1)[n - 1] = ROOT + n
        BY <1>4, <3>1
      <3> QED BY <1>3, <3>1, <3>2 DEF ImageDisk
    <2> HIDE DEF e
    <2>3. Find(disk, e.dir, e.name) = 1 /\ Ent(disk, e.dir, 1) = img
      BY <1>5, <1>6, <2>1
    <2>4. Intact(disk, fat, e)
      BY <1>6, <2>1, <2>2, <2>3 DEF Intact, k
    <2>5. e.dir \in Dirs(disk) /\ e.name \in Names \ {"END", "DEL", ".", ".."} /\ e.bytes \in Seq(Nat)
      BY <1>2, <1>5, <2>1 DEF Names
    <2>6. call.kind = "none"
      BY <1>1, NoCallTyped
    <2> QED BY <1>1, <2>4, <2>5, <2>6 DEF Kept
  <1>12. Here
    <2>1. Len(current_path) = 0
      BY <1>1
    <2>2. Way(disk, ROOT, current_path)[0] = ROOT
      BY <2>1, WaySteps
    <2> QED BY <1>1, <1>5, <2>1, <2>2 DEF Here
  <1>13. Reading /\ ReadBack /\ CacheCoherent
    <2>1. last.op = "none"
      BY <1>1
    <2> QED BY <1>1, <2>1 DEF Reading, ReadBack, CacheCoherent
  <1> QED BY <1>5, <1>7, <1>9, <1>10, <1>11, <1>12, <1>13 DEF FatIInv


----------------------------------------------------------------------------
(* The theorems *)

\* The invariant is about the variables of the model only.
LEMMA FatStutters ==
  ASSUME FatIInv, UNCHANGED vars
  PROVE  FatIInv'
  <1>1. UNCHANGED <<fat, fat2, disk, fat_sector_cache, current_dir_cluster, current_path,
                    open_file, pc, call, got, expect, last, calls>>
    BY DEF vars, volume, cwd
  <1>2. ~Busy' <=> ~Busy
    BY <1>1 DEF Busy
  <1>3. Held' = Held /\ Mine' = Mine
    BY <1>1, <1>2, HeldNow, HeldNext DEF Mine
  <1>4. Ownership' /\ CacheCoherent' /\ Typed'
    BY <1>1, <1>3 DEF FatIInv, Ownership, CacheCoherent, Typed
  <1>5. InCall'
    BY <1>1 DEF FatIInv, InCall, InWrite, InDelete, InMkdir, InChain
  <1>6. Kept' /\ Here' /\ Reading' /\ ReadBack' /\ Tree(disk')
    BY <1>1 DEF FatIInv, Kept, Here, Reading, ReadBack
  <1> QED BY <1>4, <1>5, <1>6 DEF FatIInv

\* Every step keeps the invariant.
LEMMA FatPreserved ==
  ASSUME PlainSession, FatIInv, [Next]_vars
  PROVE  FatIInv'
  <1>1. ASSUME NEW w \in WRITES, fat32_write(w.path, w.bytes) PROVE FatIInv'
    BY <1>1, WriteBegins
  <1>2. ASSUME NEW path \in DELETES, fat32_delete(path) PROVE FatIInv'
    BY <1>2, DeleteBegins
  <1>3. ASSUME NEW path \in MKDIRS, fat32_mkdir(path) PROVE FatIInv'
    BY <1>3, MkdirBegins
  <1>4. ASSUME NEW path \in CHDIRS, fat32_chdir(path) PROVE FatIInv'
    BY <1>4, ChdirStep
  <1>5. ASSUME NEW path \in CATS, fat32_open(path) PROVE FatIInv'
    BY <1>5, OpenStep
  <1>6. CASE Reboot
    BY <1>6, RebootStep
  <1>7. CASE FreeStep
    BY <1>7, FreeStepStep
  <1>8. CASE AllocStep
    BY <1>8, AllocStepStep
  <1>9. CASE AllocEnd
    BY <1>9, AllocEndStep
  <1>10. CASE Fail
    BY <1>10, FailStep
  <1>11. CASE WriteData
    BY <1>11, WriteDataStep
  <1>12. CASE WriteDirent
    BY <1>12, WriteDirentStep
  <1>13. CASE SaveRoot
    BY <1>13, SaveRootStep
  <1>14. CASE WriteNewDir
    BY <1>14, WriteNewDirStep
  <1>15. CASE AddEntry
    BY <1>15, AddEntryStep
  <1>16. CASE CatNext
    BY <1>16, CatNextStep
  <1>17. CASE ReadStep
    BY <1>17, ReadStepStep
  <1>18. CASE UNCHANGED vars
    BY <1>18, FatStutters
  <1> QED BY <1>1, <1>2, <1>3, <1>4, <1>5, <1>6, <1>7, <1>8, <1>9, <1>10, <1>11, <1>12, <1>13,
             <1>14, <1>15, <1>16, <1>17, <1>18 DEF Next

\* In a plain session the inductive invariant holds at every step.
THEOREM FatInvariant == ASSUME PlainSession PROVE Spec => []FatIInv
  <1>1. Init => FatIInv
    BY FatInitially
  <1>2. FatIInv /\ [Next]_vars => FatIInv'
    BY FatPreserved
  <1> QED BY <1>1, <1>2, PTL DEF Spec

\* The directories of the model are those of the proofs.
LEMMA DirectoriesAre == Directories = Dirs(disk)
  <1>1. \A d : Visible(d) = Shown(disk, d) /\ Visible(d) \subseteq 1 .. ENTRIES
    BY SeenBefore DEF Shown
  <1>2. ASSUME NEW S PROVE HasSubdirectories(S) <=> Subdirs(disk, S)
    <2>1. \A d, x : x \in Children(d) <=>
            \E i \in 1 .. ENTRIES : /\ i \in Shown(disk, d) /\ Ent(disk, d, i).name \notin {"DEL", ".", ".."}
                                    /\ x = Ent(disk, d, i)
      BY <1>1 DEF Children, Ent
    <2> QED BY <2>1 DEF HasSubdirectories, Subdirs
  <1> QED BY <1>2 DEF Directories, Dirs

\* The properties the runs check follow from the inductive invariant: FilesIntact,
LEMMA FatIsIntact ==
  ASSUME FatIInv
  PROVE  FilesIntact
  <1>1. \A d, n : Slot(d, n) = Find(disk, d, n)
    BY SeenBefore
  <1> QED BY <1>1 DEF FatIInv, Kept, Intact, FilesIntact, EntryOf, Ent

\* ... DirectoryInv,
LEMMA FatIsHere ==
  ASSUME FatIInv
  PROVE  DirectoryInv
  <1>1. \A d, names : DirWalk(d, names) = Way(disk, d, names)
    BY SeenBefore
  <1> QED BY <1>1, DirectoriesAre DEF FatIInv, Here, DirectoryInv, CwdIsDirectory, PwdIsCwd

\* ... the type invariant
LEMMA FatIsTyped ==
  ASSUME FatIInv
  PROVE  TypeOK
  <1>1. Typed /\ CacheCoherent
    BY DEF FatIInv
  <1>2. \A f \in {fat, fat2} : f \in [Cluster -> Cluster \union {FREE, EOC}]
    BY <1>1 DEF Typed, CacheCoherent, Fat
  <1>3. DOMAIN disk = Cluster
    BY <1>1 DEF Typed, Disk
  <1>4. ASSUME NEW c \in Cluster
        PROVE  /\ DOMAIN disk[c].entries = 1 .. ENTRIES
               /\ Len(disk[c].bytes) = CLUSTER_SIZE
               /\ \A i \in 1 .. ENTRIES : disk[c].entries[i].first \in Cluster \union {0}
    <2>1. disk[c].entries \in Entries /\ disk[c].bytes \in [1 .. CLUSTER_SIZE -> Nat]
      BY <1>1 DEF Typed, Disk
    <2>2. CLUSTER_SIZE \in Nat
      BY Fat32Assumption
    <2>3. Len(disk[c].bytes) = CLUSTER_SIZE
      BY <2>1, <2>2
    <2>4. \A i \in 1 .. ENTRIES : disk[c].entries[i] \in EntryRecord
      BY <2>1 DEF Entries
    <2> QED BY <2>1, <2>3, <2>4 DEF Entries, EntryRecord
  <1>5. fat_sector_cache \in [Cluster -> Cluster \union {FREE, EOC}] \union {NoCache}
    BY <1>1, <1>2 DEF CacheCoherent
  <1>6. /\ open_file.current \in Cluster \union {0} /\ open_file.position \in Nat /\ open_file.size \in Nat
        /\ open_file.position <= open_file.size
        /\ current_dir_cluster \in Cluster /\ calls \in 0 .. MAX_CALLS
    BY <1>1 DEF Typed
  <1>7. /\ {call.first, call.prev, call.cluster} \subseteq Cluster \union {0}
        /\ call.parent \in Cluster /\ call.slot \in 1 .. ENTRIES
    BY <1>1 DEF Typed, CallRecord
  <1> QED BY <1>2, <1>3, <1>4, <1>5, <1>6, <1>7 DEF TypeOK

\* ... and what fsck expects.
LEMMA FatIsClean ==
  ASSUME FatIInv
  PROVE  Fsck
  <1> SUFFICES ASSUME pc = "idle" PROVE Fsck
    BY DEF Fsck
  <1> DEFINE entries == UNION {{[at |-> d, e |-> x] : x \in Children(d)} : d \in Directories}
             used(x) == IF x.e.first = 0 THEN {} ELSE Chain(fat, x.e.first)
  <1>1. /\ disk \in Disk /\ Tree(disk) /\ Owned(disk, fat, InTree(disk), {})
    <2>1. call.kind = "none"
      BY DEF FatIInv, InCall
    <2> QED BY <2>1, CallNone DEF FatIInv, Typed, Ownership
  <1>2. \A d : Visible(d) = Shown(disk, d) /\ Visible(d) \subseteq 1 .. ENTRIES
    BY SeenBefore DEF Shown
  <1>3. Dirs(disk) \subseteq Cluster /\ Directories = Dirs(disk)
    BY DirectoriesAre DEF Dirs
  <1>4. \A x : x \in entries <=>
          \E d \in Dirs(disk), i \in 1 .. ENTRIES :
            Named(disk, d, i) /\ x = [at |-> d, e |-> Ent(disk, d, i)]
    <2>1. \A d, y : y \in Children(d) <=>
            \E i \in 1 .. ENTRIES : /\ i \in Shown(disk, d) /\ Ent(disk, d, i).name \notin {"DEL", ".", ".."}
                                    /\ y = Ent(disk, d, i)
      BY <1>2 DEF Children, Ent
    <2>2. \A x : x \in entries <=> \E d \in Dirs(disk) : \E y \in Children(d) : x = [at |-> d, e |-> y]
      BY <1>3
    <2> HIDE DEF entries
    <2> QED BY <2>1, <2>2 DEF Named
  <1>5. \A x : used(x) = Used(fat, x.e)
    BY DEF Used
  <1> HIDE DEF entries, used
  <1>6. \A d \in Dirs(disk), i \in 1 .. ENTRIES : Named(disk, d, i) => <<d, i>> \in InTree(disk)
    BY <1>3 DEF InTree, Slots
  <1>7. ASSUME NEW x \in entries
        PROVE  IF x.e.dir THEN WellEnded(fat, x.e.first) /\ Cardinality(used(x)) = 1
               ELSE /\ x.e.first # 0 => WellEnded(fat, x.e.first)
                    /\ Cardinality(used(x)) = Clusters(x.e.size)
    <2>1. PICK d \in Dirs(disk), i \in 1 .. ENTRIES :
            Named(disk, d, i) /\ x = [at |-> d, e |-> Ent(disk, d, i)]
      BY <1>4
    <2> DEFINE y == <<d, i>>
    <2>2. y \in InTree(disk) /\ y[1] = d /\ y[2] = i /\ x.e = Ent(disk, d, i)
      BY <1>6, <2>1
    <2>3. Sound(fat, x.e) /\ x.e.first \in Cluster \union {0}
      <3> HIDE DEF y
      <3>1. Sound(fat, x.e)
        BY <1>1, <2>2 DEF Owned
      <3>2. d \in Cluster
        BY <1>3
      <3> QED BY <1>1, <2>2, <3>1, <3>2, EntTyped
    <2>4. CASE x.e.dir
      <3>1. x.e.first \in Cluster /\ Used(fat, x.e) = {x.e.first}
        BY <2>3, <2>4, SoundEnds
      <3>2. WellEnded(fat, x.e.first)
        BY <2>3, <2>4, <3>1, OneCluster DEF Sound
      <3>3. Cardinality({x.e.first}) = 1
        BY FS_Singleton
      <3> QED BY <1>5, <2>4, <3>1, <3>2, <3>3
    <2>5. CASE ~x.e.dir
      BY <1>5, <2>3, <2>5 DEF Sound
    <2> QED BY <2>4, <2>5
  <1>8. ASSUME NEW x \in entries, NEW y \in entries, x # y PROVE used(x) \cap used(y) = {}
    <2>1. PICK d \in Dirs(disk), i \in 1 .. ENTRIES :
            Named(disk, d, i) /\ x = [at |-> d, e |-> Ent(disk, d, i)]
      BY <1>4
    <2>2. PICK d2 \in Dirs(disk), j \in 1 .. ENTRIES :
            Named(disk, d2, j) /\ y = [at |-> d2, e |-> Ent(disk, d2, j)]
      BY <1>4
    <2> DEFINE u == <<d, i>>
               v == <<d2, j>>
    <2>3. u \in InTree(disk) /\ u[1] = d /\ u[2] = i /\ x.e = Ent(disk, d, i)
      BY <1>6, <2>1
    <2>4. v \in InTree(disk) /\ v[1] = d2 /\ v[2] = j /\ y.e = Ent(disk, d2, j)
      BY <1>6, <2>2
    <2>5. u # v
      <3>1. d # d2 \/ i # j
        BY <1>8, <2>1, <2>2
      <3> QED BY <3>1
    <2> HIDE DEF u, v
    <2>6. Used(fat, Ent(disk, u[1], u[2])) \cap Used(fat, Ent(disk, v[1], v[2])) = {}
      BY <1>1, <2>3, <2>4, <2>5 DEF Owned
    <2> QED BY <1>5, <2>3, <2>4, <2>6
  <1>9. {c \in Cluster : fat[c] # FREE} = {ROOT} \union UNION {used(x) : x \in entries}
    <2>1. ASSUME NEW c \in Cluster, fat[c] # FREE, c # ROOT PROVE \E x \in entries : c \in used(x)
      <3>1. PICK y \in InTree(disk) : c \in Used(fat, Ent(disk, y[1], y[2]))
        BY <1>1, <2>1 DEF Owned
      <3> DEFINE x == [at |-> y[1], e |-> Ent(disk, y[1], y[2])]
      <3>2. y[1] \in Dirs(disk) /\ y[2] \in 1 .. ENTRIES /\ Named(disk, y[1], y[2])
        BY DEF InTree, Slots, Named
      <3>3. x \in entries
        BY <1>4, <3>2
      <3>4. c \in used(x)
        BY <1>5, <3>1
      <3> QED BY <3>3, <3>4
    <2>2. ASSUME NEW x \in entries, NEW c \in used(x) PROVE c \in Cluster /\ fat[c] # FREE
      <3>1. PICK d \in Dirs(disk), i \in 1 .. ENTRIES :
              Named(disk, d, i) /\ x = [at |-> d, e |-> Ent(disk, d, i)]
        BY <1>4
      <3> DEFINE y == <<d, i>>
      <3>2. y \in InTree(disk) /\ y[1] = d /\ y[2] = i /\ x.e = Ent(disk, d, i)
        BY <1>6, <3>1
      <3> HIDE DEF y
      <3>3. Sound(fat, x.e) /\ d \in Cluster
        BY <1>1, <1>3, <3>2 DEF Owned
      <3>4. x.e.first \in Cluster \union {0}
        BY <1>1, <3>2, <3>3, EntTyped
      <3>5. c \in Used(fat, x.e)
        BY <1>5
      <3> QED BY <3>3, <3>4, <3>5, SoundEnds, UsedIsChain
    <2>3. ROOT \in Cluster /\ fat[ROOT] # FREE
      BY <1>1, Marks DEF Owned
    <2> QED BY <2>1, <2>2, <2>3
  <1>10. ASSUME NEW d \in Directories, NEW i \in Visible(d), NEW j \in Visible(d),
                disk[d].entries[i].name = disk[d].entries[j].name, i # j
         PROVE  disk[d].entries[i].name = "DEL"
    <2>1. d \in Dirs(disk) /\ i \in 1 .. ENTRIES /\ j \in 1 .. ENTRIES /\ Listing(disk, d)
      BY <1>1, <1>2, <1>3 DEF Tree
    <2>2. Ent(disk, d, i).name \in {"END", "DEL"}
      BY <1>10, <2>1 DEF Listing, Ent
    <2>3. Ent(disk, d, i).name # "END"
      BY <2>1 DEF Visible, Ent
    <2> QED BY <2>2, <2>3 DEF Ent
  <1> QED BY <1>7, <1>8, <1>9, <1>10 DEF Fsck, entries, used

\* In a session without I/O errors the volume is what fsck expects between two commands,
\* and the cached sector and both copies of the FAT agree at every step.
THEOREM VolumeInvHolds == ASSUME PlainSession PROVE Spec => []VolumeInv
  <1>1. FatIInv => VolumeInv
    BY FatIsTyped, FatIsClean DEF FatIInv, VolumeInv
  <1> QED BY <1>1, FatInvariant, PTL

\* ... every file that was written and not touched since has its entry, its chain and its
\* bytes at every step of every later call.
THEOREM FilesIntactHolds == ASSUME PlainSession PROVE Spec => []FilesIntact
  <1>1. FatIInv => FilesIntact
    BY FatIsIntact
  <1> QED BY <1>1, FatInvariant, PTL

\* ... cat prints the bytes of the file it was given.
THEOREM ReadBackHolds == ASSUME PlainSession PROVE Spec => []ReadBack
  <1>1. FatIInv => ReadBack
    BY DEF FatIInv
  <1> QED BY <1>1, FatInvariant, PTL

\* ... and the path that pwd prints leads to the current directory.
THEOREM DirectoryInvHolds == ASSUME PlainSession PROVE Spec => []DirectoryInv
  <1>1. FatIInv => DirectoryInv
    BY FatIsHere
  <1> QED BY <1>1, FatInvariant, PTL
============================================================================
