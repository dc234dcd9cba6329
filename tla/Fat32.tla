------------------------------- MODULE Fat32 -------------------------------
(***************************************************************************)
(* The FAT32 file system (fs/fat32.c) on an ATA disk that may fail, driven *)
(* by the shell's file commands: touch and echo (fat32_write), rm          *)
(* (fat32_delete), mkdir, cd (fat32_chdir), cat (fat32_open, fat32_read,   *)
(* fat32_close) and reboot. The shell is the only caller, so a call is     *)
(* never interleaved with another; its steps are the disk transfers that   *)
(* change something, each of which may be the one that fails.              *)
(*                                                                         *)
(* The FAT fits one sector. A directory is one cluster. A byte is a value, *)
(* CLUSTER_SIZE of them make a cluster. A path is absolute or relative and *)
(* a sequence of names; names are valid 8.3 names.                         *)
(***************************************************************************)
EXTENDS Integers, Sequences, FiniteSets, FiniteSetsExt, SequencesExt

CONSTANTS
  TOTAL_CLUSTERS,  \* clusters of the data region
  ENTRIES,         \* directory entries in a cluster
  CLUSTER_SIZE,    \* bytes in a cluster
  READ_COUNT,      \* bytes cat asks for in one fat32_read (127 in the code)
  IO_ERRORS,       \* whether ATA transfers may fail
  SCAN_ERRORS,     \* ... the one of the FAT sector searched for a free cluster too
  POWER_LOSS,      \* whether the machine may restart in the middle of a call
  WRITES,          \* [path, bytes] of the writes
  DELETES, MKDIRS, CHDIRS, CATS,   \* the paths of the other commands
  IMAGE_FILE,      \* bytes of the file that is on the image
  MAX_CALLS        \* bound: commands per behaviour

ROOT == 2
Cluster == ROOT .. TOTAL_CLUSTERS + 1
FREE == 0
EOC == -1                       \* 0x0FFFFFF8 and above
NoDir == 0
InvalidName == "INVALID"        \* refused by fat32_make_name83
NoCache == <<>>                 \* fat_cache_sector = 0xFFFFFFFF

Clusters(size) == (size + CLUSTER_SIZE - 1) \div CLUSTER_SIZE

\* A path: absolute or from the current directory, and its names, none of which is a
\* mark of a free entry.
IsPath(p) ==
  /\ p.abs \in BOOLEAN
  /\ p.names \in Seq(STRING \ {"END", "DEL"})

ASSUME Fat32Assumption ==
  /\ TOTAL_CLUSTERS \in Nat \ {0}
  /\ ENTRIES \in Nat \ {0}
  /\ CLUSTER_SIZE \in Nat \ {0}
  /\ READ_COUNT \in Nat \ {0}
  /\ IO_ERRORS \in BOOLEAN /\ SCAN_ERRORS \in BOOLEAN /\ POWER_LOSS \in BOOLEAN
  /\ \A w \in WRITES : IsPath(w.path) /\ w.path.names # <<>> /\ w.bytes \in Seq(Nat)
  /\ \A p \in DELETES \union MKDIRS \union CATS : IsPath(p) /\ p.names # <<>>
  /\ \A p \in CHDIRS : IsPath(p)
  /\ IMAGE_FILE \in Seq(Nat) /\ IMAGE_FILE # <<>>
  /\ Clusters(Len(IMAGE_FILE)) < TOTAL_CLUSTERS
  /\ MAX_CALLS \in Nat

VARIABLES
  fat, fat2,          \* the two copies of the FAT on disk
  disk,               \* the data region: per cluster its entries or its bytes
  fat_sector_cache,   \* NoCache or the cached sector
  current_dir_cluster, current_path,
  open_file,
  pc,                 \* where the call in progress is; "idle" between calls
  call,               \* its locals
  got,                \* what cat has read so far
  expect,             \* history: the files that should exist and their bytes
  last,               \* history: the last command and its outcome
  calls               \* counter for the bound

volume == <<fat, fat2, disk>>
cwd == <<current_dir_cluster, current_path>>
vars == <<volume, fat_sector_cache, cwd, open_file, pc, call, got, expect, last,
          calls>>

Entry(n, dir, first, size) ==
  [name |-> n, dir |-> dir, first |-> first, size |-> size]
EndEntry == Entry("END", FALSE, 0, 0)      \* name[0] = 0x00
DeletedEntry == Entry("DEL", FALSE, 0, 0)  \* name[0] = 0xE5

NoEntries == [i \in 1 .. ENTRIES |-> EndEntry]
Zeros == [i \in 1 .. CLUSTER_SIZE |-> 0]
Blank == [entries |-> NoEntries, bytes |-> Zeros]

\* The n-th cluster's worth of bytes, padded with zeros.
Chunk(bytes, n) ==
  [i \in 1 .. CLUSTER_SIZE |->
     LET p == (n - 1) * CLUSTER_SIZE + i IN IF p <= Len(bytes) THEN bytes[p] ELSE 0]

closed == [first |-> 0, current |-> 0, position |-> 0, size |-> 0]
noCall == [kind |-> "none", parent |-> ROOT, slot |-> 1, name |-> "END",
           bytes |-> <<>>, buf |-> NoEntries, need |-> 0, first |-> 0, prev |-> 0,
           cluster |-> 0, n |-> 0, then |-> "idle"]

\* create_storage_image.py: the root directory with one file in consecutive
\* clusters. fat32_mount has run.
Init ==
  LET k == Clusters(Len(IMAGE_FILE)) IN
  /\ fat = [c \in Cluster |-> IF c = ROOT \/ c = ROOT + k THEN EOC
                              ELSE IF c < ROOT + k THEN c + 1 ELSE FREE]
  /\ fat2 = fat
  /\ disk = [c \in Cluster |->
       IF c = ROOT
       THEN [Blank EXCEPT !.entries[1] =
               Entry("image", FALSE, ROOT + 1, Len(IMAGE_FILE))]
       ELSE IF c <= ROOT + k
       THEN [Blank EXCEPT !.bytes = Chunk(IMAGE_FILE, c - ROOT)]
       ELSE Blank]
  /\ fat_sector_cache = NoCache
  /\ current_dir_cluster = ROOT /\ current_path = <<>>
  /\ open_file = closed
  /\ pc = "idle" /\ call = noCall /\ got = <<>>
  /\ expect = {[dir |-> ROOT, name |-> "image", bytes |-> IMAGE_FILE]}
  /\ last = [op |-> "none", path |-> [abs |-> FALSE, names |-> <<>>], ok |-> TRUE]
  /\ calls = 0

----------------------------------------------------------------------------
(* The disk and the FAT *)

\* One element when a transfer may fail, none otherwise.
Faults == IF IO_ERRORS THEN {"fault"} ELSE {}

\* What fat32_next_cluster sees: the cached sector, or the sector read from the
\* first copy; a failed read returns 0, which looks like a free cluster, and
\* leaves nothing cached.
FatReads ==
  IF fat_sector_cache # NoCache
  THEN {[view |-> fat_sector_cache, cache |-> fat_sector_cache]}
  ELSE {[view |-> fat, cache |-> fat]} \union
       {[view |-> [c \in Cluster |-> FREE], cache |-> NoCache] : f \in Faults}

\* Mutant of FatWrites: a failed write is not noticed.
FatWritesUnnoticed(c, v, cache) ==
  LET new == [fat EXCEPT ![c] = v]
      new2 == [fat2 EXCEPT ![c] = v]
  IN {[fat |-> new, fat2 |-> new2, ok |-> TRUE,
       cache |-> IF cache = NoCache THEN NoCache ELSE [cache EXCEPT ![c] = v]]}
     \union {[fat |-> p[1], fat2 |-> p[2], cache |-> cache, ok |-> TRUE] :
               p \in {q \in {<<fat, fat2>>, <<new, fat2>>, <<new, new2>>} : IO_ERRORS}}

\* fat32_set_fat_entry: both copies and the cached sector, or a failure at either
\* copy (the failed write may have reached the disk) that leaves the cache alone.
FatWrites(c, v, cache) ==
  LET new == [fat EXCEPT ![c] = v]
      new2 == [fat2 EXCEPT ![c] = v]
  IN {[fat |-> new, fat2 |-> new2, ok |-> TRUE,
       cache |-> IF cache = NoCache THEN NoCache ELSE [cache EXCEPT ![c] = v]]}
     \union {[fat |-> p[1], fat2 |-> p[2], cache |-> cache, ok |-> FALSE] :
               p \in {q \in {<<fat, fat2>>, <<new, fat2>>, <<new, new2>>} : IO_ERRORS}}

\* What a cluster holds after a failed write: the sectors before the one that failed
\* are new (a small cluster's sector is one entry or one byte), the others are not.
AfterFailure(c, contents) ==
  LET upTo(k, new, old) == [i \in DOMAIN new |-> IF i <= k THEN new[i] ELSE old[i]]
  IN {[disk EXCEPT ![c] = [entries |-> upTo(k, contents.entries, disk[c].entries),
                           bytes |-> upTo(k, contents.bytes, disk[c].bytes)]] :
        k \in 0 .. Max({ENTRIES, CLUSTER_SIZE})}

\* The first cluster and its successors in a FAT, and the clusters of that chain.
Walk(f, c) ==
  LET w[i \in 0 .. TOTAL_CLUSTERS] ==
        IF i = 0 THEN c
        ELSE IF w[i - 1] \in Cluster THEN f[w[i - 1]] ELSE w[i - 1]
  IN w
Chain(f, c) == {Walk(f, c)[i] : i \in 0 .. TOTAL_CLUSTERS} \cap Cluster

DirCluster(entries) == [entries |-> entries, bytes |-> Zeros]
DataCluster(bytes) == [entries |-> NoEntries, bytes |-> bytes]

----------------------------------------------------------------------------
(* Directories and paths *)

\* Entries before the end marker, the ones a search looks at.
Visible(d) ==
  {i \in 1 .. ENTRIES : \A j \in 1 .. i : disk[d].entries[j].name # "END"}

\* The slot of name n in directory d, 0 when there is none.
Slot(d, n) ==
  LET S == {i \in Visible(d) : disk[d].entries[i].name = n}
  IN IF S = {} THEN 0 ELSE Min(S)

\* The first slot that can take a new entry, 0 when the directory is full.
FreeSlot(d) ==
  LET S == {i \in 1 .. ENTRIES : disk[d].entries[i].name \in {"END", "DEL"}}
  IN IF S = {} THEN 0 ELSE Min(S)

EntryOf(d, n) == disk[d].entries[Slot(d, n)]

\* The directory of name n in directory d, NoDir when the name is missing or not a
\* directory.
Subdirectory(d, n) ==
  IF d = NoDir \/ Slot(d, n) = 0 THEN NoDir
  ELSE IF EntryOf(d, n).dir THEN EntryOf(d, n).first ELSE NoDir

\* The directories on the way from directory d along some names.
DirWalk(d, names) ==
  LET walk[i \in 0 .. Len(names)] ==
        IF i = 0 THEN d ELSE Subdirectory(walk[i - 1], names[i])
  IN walk

\* fat32_navigate_path: the directory of the path's last name, NoDir when a name
\* on the way is missing or not a directory (or could not be read).
Parent(path) ==
  DirWalk(IF path.abs THEN ROOT ELSE current_dir_cluster, path.names)
    [IF path.names = <<>> THEN 0 ELSE Len(path.names) - 1]

\* ... and whether the last name is there.
Found(path) ==
  path.names # <<>> /\ Parent(path) # NoDir /\ Slot(Parent(path), Last(path.names)) # 0

----------------------------------------------------------------------------
(* A call begins and returns *)

Begin(op, path) ==
  /\ pc = "idle" /\ calls < MAX_CALLS
  /\ calls' = calls + 1
  /\ got' = <<>>
  /\ last' = [op |-> op, path |-> path, ok |-> FALSE]

\* The call returns an error without having done anything.
Refused == UNCHANGED <<volume, fat_sector_cache, cwd, open_file, pc, call, expect>>

\* The files that share clusters with what the call is about to free, when the entry
\* that leads it there was left by a command that did not finish: its clusters were
\* free for a while and may be another file's now.
Endangered(locals) ==
  {e \in expect :
     /\ locals.cluster # 0
     /\ \A x \in expect : x.dir # locals.parent \/ x.name # locals.name
     /\ Chain(fat, locals.cluster) \cap Chain(fat, EntryOf(e.dir, e.name).first) # {}}

\* The call begins its work; "at" is its first step. Until it returns 0 nothing is
\* promised of the file it is about.
Working(at, locals) ==
  /\ pc' = at /\ call' = locals
  /\ expect' = {e \in expect \ Endangered(locals) :
                  e.dir # locals.parent \/ e.name # locals.name}
  /\ UNCHANGED <<volume, fat_sector_cache, cwd, open_file>>

\* The call returns 0.
Done ==
  /\ pc' = "idle" /\ call' = noCall
  /\ last' = [last EXCEPT !.ok = TRUE]
  /\ expect' = expect \union
       {e \in {[dir |-> call.parent, name |-> call.name, bytes |-> call.bytes]} :
          call.kind = "write"}

\* The call goes on, nothing has been returned yet.
GoOn(at, locals) == pc' = at /\ call' = locals /\ UNCHANGED <<last, expect>>

\* Clean up: free the chain of the call and then return -1.
CleanUp == GoOn("free", [call EXCEPT !.cluster = call.first, !.then = "fail"])

\* The call returns -1.
Fail ==
  /\ pc = "fail"
  /\ GoOn("idle", noCall)
  /\ UNCHANGED <<volume, fat_sector_cache, cwd, open_file, got, calls>>

\* fat32_free_cluster_chain, one cluster. Its callers do not look at its result.
FreeStep ==
  /\ pc = "free"
  /\ \E r \in FatReads : \E w \in FatWrites(call.cluster, FREE, r.cache) :
       LET next == r.view[call.cluster] IN
       /\ fat' = w.fat /\ fat2' = w.fat2 /\ fat_sector_cache' = w.cache
       /\ IF ~w.ok \/ next \in {EOC, FREE}
          THEN GoOn(call.then, call)
          ELSE GoOn("free", [call EXCEPT !.cluster = next])
  /\ UNCHANGED <<disk, cwd, open_file, got, calls>>

\* fat32_allocate_cluster_chain: find a free cluster and link the last one to it.
\* The cluster found is not marked, so the next search may find it again.
AllocStep ==
  /\ pc = "alloc" /\ call.n < call.need
  /\ \E r \in {x \in FatReads : SCAN_ERRORS \/ x.cache # NoCache} :
       LET free == {c \in Cluster : r.view[c] = FREE}
           c == Min(free)
       IN \/ /\ free = {}
             /\ fat_sector_cache' = r.cache
             /\ GoOn("fail", call)
             /\ UNCHANGED <<fat, fat2>>
          \/ /\ free # {} /\ call.prev = 0
             /\ fat_sector_cache' = r.cache
             /\ GoOn("alloc", [call EXCEPT !.first = c, !.prev = c, !.n = @ + 1])
             /\ UNCHANGED <<fat, fat2>>
          \/ /\ free # {} /\ call.prev # 0
             /\ \E w \in FatWrites(call.prev, c, r.cache) :
                  /\ fat' = w.fat /\ fat2' = w.fat2 /\ fat_sector_cache' = w.cache
                  /\ GoOn(IF w.ok THEN "alloc" ELSE "fail",
                          [call EXCEPT !.prev = c, !.n = @ + 1])
  /\ UNCHANGED <<disk, cwd, open_file, got, calls>>

\* Mutant of AllocEnd: the end of the chain is not marked.
AllocEndUnmarked ==
  /\ pc = "alloc" /\ call.n = call.need
  /\ GoOn(IF call.kind = "mkdir" THEN "newdir" ELSE "data",
          [call EXCEPT !.cluster = call.first, !.n = 0])
  /\ UNCHANGED <<volume, fat_sector_cache, cwd, open_file, got, calls>>

\* ... and mark the end of the chain.
AllocEnd ==
  /\ pc = "alloc" /\ call.n = call.need
  /\ \E w \in FatWrites(call.prev, EOC, fat_sector_cache) :
       /\ fat' = w.fat /\ fat2' = w.fat2 /\ fat_sector_cache' = w.cache
       /\ GoOn(IF ~w.ok THEN "fail" ELSE IF call.kind = "mkdir" THEN "newdir" ELSE "data",
               [call EXCEPT !.cluster = call.first, !.n = 0])
  /\ UNCHANGED <<disk, cwd, open_file, got, calls>>

----------------------------------------------------------------------------
(* fat32_write, fat32_create *)

\* Mutant of fat32_write: the old chain is not freed.
write_keeps_old_chain(path, bytes) ==
  /\ Begin("write", path)
  /\ LET d == Parent(path)
         n == Last(path.names)
         slot == IF Slot(d, n) # 0 THEN Slot(d, n) ELSE FreeSlot(d)
     IN \/ Refused /\ (IO_ERRORS \/ d = NoDir \/ (d # NoDir /\ slot = 0))
        \/ /\ d # NoDir /\ slot # 0
           /\ Working(IF bytes = <<>> THEN "dirent" ELSE "alloc",
                [noCall EXCEPT !.kind = "write", !.parent = d, !.slot = slot,
                   !.name = n, !.bytes = bytes, !.buf = disk[d].entries,
                   !.need = Clusters(Len(bytes))])

\* Find the file or a free entry in its directory; free what the file had.
fat32_write(path, bytes) ==
  /\ Begin("write", path)
  /\ LET d == Parent(path)
         n == Last(path.names)
         slot == IF Slot(d, n) # 0 THEN Slot(d, n) ELSE FreeSlot(d)
         old == disk[d].entries[slot].first
         next == IF bytes = <<>> THEN "dirent" ELSE "alloc"
     IN \/ Refused /\ (IO_ERRORS \/ d = NoDir \/ (d # NoDir /\ slot = 0))
        \/ /\ d # NoDir /\ slot # 0
           /\ Working(IF old >= 2 THEN "free" ELSE next,
                [noCall EXCEPT !.kind = "write", !.parent = d, !.slot = slot,
                   !.name = n, !.bytes = bytes, !.buf = disk[d].entries,
                   !.need = Clusters(Len(bytes)), !.cluster = old, !.then = next])

\* One cluster of data, as long as the chain and the data last.
WriteData ==
  /\ pc = "data"
  /\ LET contents == DataCluster(Chunk(call.bytes, call.n + 1)) IN
     \/ \E r \in FatReads :
          LET next == r.view[call.cluster] IN
          /\ disk' = [disk EXCEPT ![call.cluster] = contents]
          /\ fat_sector_cache' = r.cache
          /\ IF (call.n + 1) * CLUSTER_SIZE >= Len(call.bytes)
                \/ next \in {EOC, FREE}
             THEN GoOn("dirent", call)
             ELSE GoOn("data", [call EXCEPT !.cluster = next, !.n = @ + 1])
     \/ /\ IO_ERRORS
        /\ disk' \in AfterFailure(call.cluster, contents)
        /\ CleanUp
        /\ UNCHANGED fat_sector_cache
  /\ UNCHANGED <<fat, fat2, cwd, open_file, got, calls>>

\* The directory entry, and the reload of the root directory, whose failure makes
\* a write with data give its clusters back.
WriteDirent ==
  /\ pc = "dirent"
  /\ LET contents == DirCluster([call.buf EXCEPT ![call.slot] =
                       Entry(call.name, FALSE, call.first, Len(call.bytes))])
     IN \/ /\ disk' = [disk EXCEPT ![call.parent] = contents]
           /\ \/ Done
              \/ IO_ERRORS /\ call.parent = ROOT /\ call.need > 0 /\ CleanUp
        \/ /\ IO_ERRORS
           /\ disk' \in AfterFailure(call.parent, contents)
           /\ IF call.need > 0 THEN CleanUp ELSE GoOn("fail", call)
  /\ UNCHANGED <<fat, fat2, fat_sector_cache, cwd, open_file, got, calls>>

----------------------------------------------------------------------------
(* fat32_delete: the root directory only, whatever the current one is *)

fat32_delete(path) ==
  /\ Begin("delete", path)
  /\ LET slot == Slot(ROOT, Last(path.names))
         old == disk[ROOT].entries[slot].first
     IN \/ Refused /\ (IO_ERRORS \/ Len(path.names) > 1 \/ slot = 0)
        \/ /\ Len(path.names) = 1 /\ slot # 0
           /\ Working(IF old >= 2 THEN "free" ELSE "save",
                [noCall EXCEPT !.kind = "delete", !.slot = slot,
                   !.name = Last(path.names), !.cluster = old, !.then = "save",
                   !.buf = [disk[ROOT].entries EXCEPT ![slot] = DeletedEntry]])

\* fat32_save_root_directory.
SaveRoot ==
  /\ pc = "save"
  /\ \/ disk' = [disk EXCEPT ![ROOT] = DirCluster(call.buf)] /\ Done
     \/ /\ IO_ERRORS
        /\ disk' \in AfterFailure(ROOT, DirCluster(call.buf))
        /\ GoOn("fail", call)
  /\ UNCHANGED <<fat, fat2, fat_sector_cache, cwd, open_file, got, calls>>

----------------------------------------------------------------------------
(* fat32_mkdir *)

\* A name that could not be looked up counts as new. When a directory on the way
\* is missing (or could not be read) the code goes on with an uninitialised cluster
\* and an uninitialised name: any cluster of the volume, a valid name or not.
fat32_mkdir(path) ==
  LET make(d, n) == Working("alloc", [noCall EXCEPT !.kind = "mkdir", !.parent = d,
                                        !.name = n, !.need = 1])
  IN /\ Begin("mkdir", path)
     /\ \/ Refused /\ Found(path)
        \/ /\ Parent(path) # NoDir /\ (IO_ERRORS \/ ~Found(path))
           /\ make(Parent(path), Last(path.names))
        \/ /\ Parent(path) = NoDir \/ (IO_ERRORS /\ Len(path.names) > 1)
           /\ \E d \in Cluster, n \in {"junk", InvalidName} : make(d, n)

\* The new directory's cluster, with its . and .. entries.
WriteNewDir ==
  /\ pc = "newdir"
  /\ LET contents == DirCluster([NoEntries EXCEPT
                       ![1] = Entry(".", TRUE, call.first, 0),
                       ![2] = Entry("..", TRUE, call.parent, 0)])
     IN \/ /\ disk' = [disk EXCEPT ![call.first] = contents]
           /\ GoOn("addentry", call)
        \/ /\ IO_ERRORS
           /\ disk' \in AfterFailure(call.first, contents)
           /\ CleanUp
  /\ UNCHANGED <<fat, fat2, fat_sector_cache, cwd, open_file, got, calls>>

\* Its entry in the parent, if the parent can be read, the name is valid and there
\* is a free slot.
AddEntry ==
  /\ pc = "addentry"
  /\ LET d == call.parent
         slot == IF call.name = InvalidName THEN 0 ELSE FreeSlot(d)
         contents == DirCluster([disk[d].entries EXCEPT ![slot] =
                       Entry(call.name, TRUE, call.first, 0)])
     IN \/ slot # 0 /\ disk' = [disk EXCEPT ![d] = contents] /\ Done
        \/ slot = 0 /\ CleanUp /\ UNCHANGED disk
        \/ /\ IO_ERRORS
           /\ disk' \in IF slot = 0 THEN {disk} ELSE AfterFailure(d, contents)
           /\ CleanUp
  /\ UNCHANGED <<fat, fat2, fat_sector_cache, cwd, open_file, got, calls>>

----------------------------------------------------------------------------
(* fat32_chdir *)

\* Mutant of TrackedPath: .. leaves the path as it is.
TrackedPathStays(path) ==
  IF path.abs THEN path.names
  ELSE IF Last(path.names) \in {".", ".."} THEN current_path
  ELSE Append(current_path, Last(path.names))

\* The tracked path: an absolute path as it is, otherwise only the last name of
\* the path counts.
TrackedPath(path) ==
  IF path.abs THEN path.names
  ELSE IF Last(path.names) = "." THEN current_path
  ELSE IF Last(path.names) = ".."
  THEN (IF current_path = <<>> THEN <<>> ELSE Front(current_path))
  ELSE Append(current_path, Last(path.names))

\* The path leads to a directory.
IsDirectory(path) == Found(path) /\ EntryOf(Parent(path), Last(path.names)).dir

fat32_chdir(path) ==
  /\ pc = "idle" /\ calls < MAX_CALLS
  /\ calls' = calls + 1
  /\ got' = <<>>
  /\ \/ /\ IsDirectory(path)
        /\ current_dir_cluster' = EntryOf(Parent(path), Last(path.names)).first
        /\ current_path' = TrackedPath(path)
        /\ last' = [op |-> "chdir", path |-> path, ok |-> TRUE]
     \/ /\ ~IsDirectory(path) \/ IO_ERRORS
        /\ last' = [op |-> "chdir", path |-> path, ok |-> FALSE]
        /\ UNCHANGED cwd
  /\ UNCHANGED <<volume, fat_sector_cache, open_file, pc, call, expect>>

----------------------------------------------------------------------------
(* cmd_cat: fat32_open, fat32_read until it returns 0, fat32_close *)

fat32_open(path) ==
  /\ Begin("cat", path)
  /\ LET d == IF path.abs THEN ROOT ELSE current_dir_cluster
         n == Last(path.names)
         ok == Len(path.names) = 1 /\ Slot(d, n) # 0
     IN \/ Refused /\ (IO_ERRORS \/ ~ok \/ (ok /\ EntryOf(d, n).dir))
        \/ /\ ok /\ ~EntryOf(d, n).dir
           /\ open_file' = [first |-> EntryOf(d, n).first,
                            current |-> EntryOf(d, n).first,
                            position |-> 0, size |-> EntryOf(d, n).size]
           /\ pc' = "cat" /\ call' = noCall
           /\ UNCHANGED <<volume, fat_sector_cache, cwd, expect>>

\* How much fat32_read will read.
ReadCount == Min({READ_COUNT, open_file.size - open_file.position})

\* cat calls fat32_read, or closes the file when nothing is left to read.
CatNext ==
  /\ pc = "cat"
  /\ IF ReadCount > 0
     THEN GoOn("read", [call EXCEPT !.need = ReadCount, !.n = 0]) /\ UNCHANGED open_file
     ELSE Done /\ open_file' = closed
  /\ UNCHANGED <<volume, fat_sector_cache, cwd, got, calls>>

\* fat32_read stops before it has all it wants; cat goes on if it got anything.
ReadBreaks ==
  IF call.n > 0 THEN GoOn("cat", call) /\ UNCHANGED open_file
  ELSE Done /\ open_file' = closed

\* Mutant of MoveOn: the cluster is changed one byte too late.
MoveOnLate(position) == position % CLUSTER_SIZE = 1 /\ position > 1

\* The position is at the end of a cluster.
MoveOn(position) == position % CLUSTER_SIZE = 0

\* One round of fat32_read's loop: what is wanted from the current cluster, and
\* the step to the next cluster at the end of this one.
ReadStep ==
  /\ pc = "read"
  /\ LET f == open_file
         off == f.position % CLUSTER_SIZE
         k == Min({call.need - call.n, CLUSTER_SIZE - off})
         at == IF call.n + k < call.need THEN "read" ELSE "cat"
         moved == [f EXCEPT !.position = @ + k]
         locals == [call EXCEPT !.n = @ + k]
     IN \/ /\ f.current >= 2
           /\ got' = got \o SubSeq(disk[f.current].bytes, off + 1, off + k)
           /\ IF MoveOn(f.position + k)
              THEN \E r \in FatReads :
                     /\ fat_sector_cache' = r.cache
                     /\ IF r.view[f.current] \in {EOC, FREE}
                        THEN open_file' = moved /\ GoOn("cat", locals)
                        ELSE /\ open_file' = [moved EXCEPT !.current = r.view[f.current]]
                             /\ GoOn(at, locals)
              ELSE open_file' = moved /\ GoOn(at, locals) /\ UNCHANGED fat_sector_cache
        \/ (IO_ERRORS \/ f.current < 2) /\ ReadBreaks /\ UNCHANGED <<got, fat_sector_cache>>
  /\ UNCHANGED <<volume, cwd, calls>>

----------------------------------------------------------------------------

\* cmd_reboot, or a loss of power between two transfers, and the fat32_mount of the
\* next boot: only the disk survives.
Reboot ==
  /\ (pc = "idle" \/ POWER_LOSS) /\ calls < MAX_CALLS
  /\ calls' = calls + 1
  /\ fat_sector_cache' = NoCache
  /\ current_dir_cluster' = ROOT /\ current_path' = <<>>
  /\ open_file' = closed
  /\ pc' = "idle" /\ call' = noCall /\ got' = <<>>
  /\ last' = [op |-> "reboot", path |-> [abs |-> TRUE, names |-> <<>>], ok |-> TRUE]
  /\ UNCHANGED <<volume, expect>>

Next ==
  \/ \E w \in WRITES : fat32_write(w.path, w.bytes)
  \/ \E path \in DELETES : fat32_delete(path)
  \/ \E path \in MKDIRS : fat32_mkdir(path)
  \/ \E path \in CHDIRS : fat32_chdir(path)
  \/ \E path \in CATS : fat32_open(path)
  \/ Reboot
  \/ FreeStep \/ AllocStep \/ AllocEnd \/ Fail
  \/ WriteData \/ WriteDirent \/ SaveRoot \/ WriteNewDir \/ AddEntry
  \/ CatNext \/ ReadStep

Spec == Init /\ [][Next]_vars

----------------------------------------------------------------------------
(* Properties *)

\* The variables have their types; in particular every cluster number a call, an
\* open file or the FAT holds is a cluster of the volume.
TypeOK ==
  /\ \A f \in {fat, fat2} : f \in [Cluster -> Cluster \union {FREE, EOC}]
  /\ DOMAIN disk = Cluster
  /\ \A c \in Cluster : /\ DOMAIN disk[c].entries = 1 .. ENTRIES
                        /\ Len(disk[c].bytes) = CLUSTER_SIZE
                        /\ \A i \in 1 .. ENTRIES :
                             disk[c].entries[i].first \in Cluster \union {0}
  /\ fat_sector_cache \in [Cluster -> Cluster \union {FREE, EOC}] \union {NoCache}
  /\ current_dir_cluster \in Cluster
  /\ open_file.current \in Cluster \union {0}
  /\ open_file.position \in 0 .. open_file.size
  /\ {call.first, call.prev, call.cluster} \subseteq Cluster \union {0}
  /\ call.parent \in Cluster /\ call.slot \in 1 .. ENTRIES
  /\ calls \in 0 .. MAX_CALLS

\* The chain from c is well ended: its last entry is EOC.
WellEnded(f, c) == Walk(f, c)[TOTAL_CLUSTERS] = EOC

\* The entries of directory d other than . and ..
Children(d) ==
  {disk[d].entries[i] : i \in
     {j \in Visible(d) : disk[d].entries[j].name \notin {"DEL", ".", ".."}}}

\* The directories that can be reached from the root: those in every set that has the
\* root and the subdirectories of its members.
HasSubdirectories(S) ==
  ROOT \in S /\ \A d \in S : \A e \in Children(d) : e.dir => e.first \in S
Directories ==
  {c \in Cluster : \A S \in SUBSET Cluster : HasSubdirectories(S) => c \in S}

\* What fsck would check between two commands: every file has a well ended chain of
\* as many clusters as its size needs, no cluster belongs to two of them, no cluster
\* is marked used that belongs to none, and no directory has a name twice. It takes
\* every write, rm and mkdir, the failed ones too, to leave the volume like that.
Fsck ==
  pc = "idle" =>
    LET entries == UNION {{[at |-> d, e |-> x] : x \in Children(d)} : d \in Directories}
        used(x) == IF x.e.first = 0 THEN {} ELSE Chain(fat, x.e.first)
    IN /\ \A x \in entries :
            IF x.e.dir THEN WellEnded(fat, x.e.first) /\ Cardinality(used(x)) = 1
            ELSE /\ x.e.first # 0 => WellEnded(fat, x.e.first)
                 /\ Cardinality(used(x)) = Clusters(x.e.size)
       /\ \A x, y \in entries : x # y => used(x) \cap used(y) = {}
       /\ {c \in Cluster : fat[c] # FREE} = {ROOT} \union UNION {used(x) : x \in entries}
       /\ \A d \in Directories : \A i, j \in Visible(d) :
            (disk[d].entries[i].name = disk[d].entries[j].name /\ i # j)
              => disk[d].entries[i].name = "DEL"

\* A file that was written and not touched since is still there with its bytes, at
\* every step of every later call on another file, and after a reboot. Calls that fail
\* or are cut off by a loss of power are no exception: fat32_write and fat32_delete free
\* a chain before the entry that leads to it is changed, so such a call leaves an entry
\* of free clusters behind, which other files may be given; they keep their bytes until
\* that entry is written again or removed (Endangered).
FilesIntact ==
  \A e \in expect :
    /\ Slot(e.dir, e.name) # 0
    /\ LET x == EntryOf(e.dir, e.name) IN
       /\ x.size = Len(e.bytes) /\ ~x.dir
       /\ \A n \in 1 .. Clusters(Len(e.bytes)) :
            /\ Walk(fat, x.first)[n - 1] \in Cluster
            /\ disk[Walk(fat, x.first)[n - 1]].bytes = Chunk(e.bytes, n)

\* A cat that found its file has printed the file's bytes, however the file's
\* clusters and cat's 127-byte reads divide them.
ReadBack ==
  (pc = "idle" /\ last.op = "cat" /\ last.ok) =>
    \A e \in expect :
      (/\ e.name = Last(last.path.names)
       /\ e.dir = IF last.path.abs THEN ROOT ELSE current_dir_cluster)
        => got = e.bytes

\* The cached FAT sector is what is on disk, and the two copies of the FAT agree.
CacheCoherent ==
  /\ fat_sector_cache \in {NoCache, fat}
  /\ fat = fat2

\* The state of a volume without I/O errors: well formed, clean for fsck between
\* two commands, and the cached FAT sector and both copies of the FAT agree after
\* every step of fat32_set_fat_entry, fat32_alloc_chain and the commands.
VolumeInv == TypeOK /\ Fsck /\ CacheCoherent

\* The current directory is a directory of the volume.
CwdIsDirectory == pc = "idle" => current_dir_cluster \in Directories

\* Walking the path that pwd prints leads to the current directory.
PwdIsCwd ==
  pc = "idle" => DirWalk(ROOT, current_path)[Len(current_path)] = current_dir_cluster

\* What fat32_chdir keeps twice stays one thing: after any mkdir and write, and any cd to
\* one name or to an absolute path, the current cluster is a directory of the volume and
\* the printed path leads to it. (A relative path of several names: PwdIsCwd fails.)
DirectoryInv == CwdIsDirectory /\ PwdIsCwd

\* "allocate a chain of clusters (count consecutive entries in the fat)": when the
\* data is written the chain has as many clusters as the call asked for.
AllocatesCount == pc = "data" => Cardinality(Chain(fat, call.first)) = call.need

\* "scan the fat for a free cluster": the cluster given out is not the root
\* directory's and not that of an existing file.
AllocatesFree ==
  pc \in {"data", "newdir"} =>
    /\ call.first # ROOT
    /\ \A e \in expect : Slot(e.dir, e.name) # 0 =>
         call.first # EntryOf(e.dir, e.name).first

\* "fat32_delete handles current directory": a removed name is not in the current
\* directory any more.
RmIsLocal ==
  (pc = "idle" /\ last.op = "delete" /\ last.ok /\ ~last.path.abs)
    => Slot(current_dir_cluster, Last(last.path.names)) = 0

\* A mkdir that reported success has made the directory its path names.
MkdirCreates == (pc = "idle" /\ last.op = "mkdir" /\ last.ok) => Found(last.path)

\* The names rm, touch and echo are used with.
FileNames == {Last(w.path.names) : w \in WRITES} \union {Last(p.names) : p \in DELETES}

\* The sessions the theorems are about: no transfer fails, data fits a cluster, rm,
\* touch and echo are not aimed at directories, mkdir is not given a path, and cd is
\* given one name or a path from the root. AllocatesCount, MkdirCreates, PwdIsCwd and
\* CwdIsDirectory fail in sessions that are not.
PlainSession ==
  /\ ~IO_ERRORS /\ ~POWER_LOSS
  /\ ENTRIES >= 2
  /\ \A w \in WRITES : Len(w.bytes) <= CLUSTER_SIZE
  /\ \A p \in MKDIRS : Len(p.names) = 1 /\ p.names[1] \notin FileNames \union {".", ".."}
  /\ FileNames \cap {".", ".."} = {}
  /\ \A p \in CHDIRS :
       IF p.abs THEN \A i \in 1 .. Len(p.names) : p.names[i] \notin {".", ".."}
       ELSE Len(p.names) = 1
=============================================================================
