-------------------------------- MODULE Exec --------------------------------
(***************************************************************************)
(* The exec command: cmd_exec (shell/shell.c) loads an ELF file with       *)
(* elf_load_user_program (arch/elf.c), which reads it through fat32_open,  *)
(* fat32_read and fat32_close, and starts a user task with pages from the  *)
(* physical memory manager. Interrupts are off until the task exists, so   *)
(* running programs only act between two exec commands.                    *)
(*                                                                         *)
(* Memory is a cell per byte. Byte i of program g's file is <<g, i>>, so a *)
(* cell shows which byte of which file was loaded into it. A file is read  *)
(* cluster by cluster, and the transfer of any cluster may fail. Header    *)
(* fields are 64-bit numbers and their sums wrap. Only the addresses below *)
(* USER_LOAD_MAX are mapped: a write above them is a page fault, which     *)
(* halts the machine. The stack the loader itself runs on is taken to lie  *)
(* outside the segments.                                                   *)
(***************************************************************************)
EXTENDS Pmm, Sequences, FiniteSets, FiniteSetsExt

CONSTANTS
  PROGRAMS,       \* names of the program files
  FILE,           \* [PROGRAMS -> what is in the file]
  PAGE_SIZE,
  CLUSTER_SIZE,
  CHUNK,          \* ELF_SCRATCH_CHUNK
  HEADER, PHDR,   \* sizes of the file header and of a program header
  ADDRESS_LIMIT,  \* 2^64, where uint64_t wraps
  ELF_MAX_PHDRS,
  STACK_PAGES,    \* pages of a kernel stack (4 in the code)
  DATA_FAULTS,    \* whether reading a cluster may fail
  FAT_FAULTS,     \* whether looking up the next cluster may fail
  MAX_EXECS       \* bound: exec commands per behaviour

ASSUME ExecAssumption ==
  /\ PAGE_SIZE \in Nat \ {0} /\ CLUSTER_SIZE \in Nat \ {0} /\ CHUNK \in Nat \ {0}
  /\ HEADER \in Nat \ {0} /\ PHDR \in Nat \ {0} /\ ELF_MAX_PHDRS \in Nat
  /\ STACK_PAGES \in Nat \ {0} /\ MAX_EXECS \in Nat
  /\ DATA_FAULTS \in BOOLEAN /\ FAT_FAULTS \in BOOLEAN
  /\ ADDRESS_LIMIT \in Nat /\ ADDRESS_LIMIT > TOTAL_PAGES * PAGE_SIZE

\* What a file can hold: whatever fits in the header's fields.
uint64 == 0 .. ADDRESS_LIMIT - 1
ASSUME FileAssumption ==
  /\ PROGRAMS # {}
  /\ FILE \in [PROGRAMS -> [valid : BOOLEAN, entry : uint64, phoff : uint64, size : Nat,
                            phdrs : Seq([load : BOOLEAN, offset : uint64, vaddr : uint64,
                                         filesz : uint64, memsz : uint64])]]

USER_LOAD_MIN == RESERVED_PAGES * PAGE_SIZE
USER_LOAD_MAX == TOTAL_PAGES * PAGE_SIZE

\* The identity map.
Address == 0 .. USER_LOAD_MAX - 1

VARIABLES
  memory,      \* per address its contents
  open_file,   \* current cluster of the file's chain (from 0) and file_position
  pc,          \* where the loader is; "idle" between commands, "halted" after a fault
  prog,        \* the program being loaded
  seg,         \* the program header being read or loaded
  rd,          \* the read_exact or skip_bytes in progress
  tasks,       \* running tasks: [prog, stack]
  own,         \* history: what running programs have in the memory that is still theirs
  execs        \* counter for the bound

vars == <<pmm_bitmap, memory, open_file, pc, prog, seg, rd, tasks, own, execs>>

Closed == [cluster |-> -1, position |-> 0]
Opened == [cluster |-> 0, position |-> 0]

\* need: bytes still wanted; left: of those, in the current fat32_read; got: bytes
\* that call has read; to: where the next byte goes, 0 for the scratch buffer.
Reading(need, to) == [need |-> need, left |-> 0, got |-> 0, to |-> to]
NotReading == Reading(0, 0)

Zero == <<>>

Init ==
  /\ pmm_init
  /\ memory = [a \in Address |-> <<"initial">>]
  /\ open_file = Closed /\ pc = "idle"
  /\ prog = (CHOOSE g \in PROGRAMS : TRUE) /\ seg = 1 /\ rd = NotReading
  /\ tasks = {} /\ own = [a \in {} |-> Zero] /\ execs = 0

file == FILE[prog]
Phdr == file.phdrs[seg]
Cells(s) == s.vaddr .. s.vaddr + s.memsz - 1
LoadSegments(g) == {s \in Range(FILE[g].phdrs) : s.load}
ImageOf(g) == UNION {Cells(s) : s \in LoadSegments(g)}

----------------------------------------------------------------------------
(* Files *)

\* The clusters of a chain.
LastCluster == (file.size + CLUSTER_SIZE - 1) \div CLUSTER_SIZE - 1

\* fat32_open: the directory is read and searched.
Open(at, need, to) ==
  /\ open_file' = Opened
  /\ pc' = at /\ rd' = Reading(need, to)

\* The load gives up; an open file is closed first.
Fail ==
  /\ open_file' = Closed /\ pc' = "idle" /\ rd' = NotReading
  /\ UNCHANGED <<pmm_bitmap, memory, prog, seg, tasks, own, execs>>

\* What the next fat32_read is asked for, within the rest of the file.
Asked ==
  Min({rd.need, file.size - open_file.position} \union
      (IF pc \in {"seek_phdrs", "seek_segment"} THEN {CHUNK} ELSE {}))

\* Bytes left in the current fat32_read, or in the one that begins.
Count == IF rd.left = 0 THEN Asked ELSE rd.left

\* The call has ended; with nothing read it counts as failed.
ShortRead == [rd EXCEPT !.left = 0, !.got = 0]

\* The cells after n bytes of the current cluster were copied.
Copied(n) ==
  LET from == open_file.cluster * CLUSTER_SIZE + (open_file.position % CLUSTER_SIZE)
  IN IF rd.to = 0 THEN memory
     ELSE [a \in Address |-> IF a \in rd.to .. rd.to + n - 1
                             THEN <<prog, from + a - rd.to>> ELSE memory[a]]

\* Mutant of ToCopy: the end of the cluster is not minded.
ToCopyAll == Count

\* Within the cluster.
ToCopy == Min({Count, CLUSTER_SIZE - (open_file.position % CLUSTER_SIZE)})

\* At a cluster's end the chain is followed; at its end, and when the FAT cannot be
\* read (a header read from the wrong cluster is not considered), the call ends.
NextClusters ==
  IF open_file.cluster = LastCluster THEN {-1}
  ELSE {open_file.cluster + 1} \union
       (IF FAT_FAULTS /\ pc = "load_segment" THEN {-1} ELSE {})

\* The page fault handler prints the address and stops everything.
page_fault_handler ==
  /\ pc' = "halted" /\ rd' = NotReading
  /\ UNCHANGED <<pmm_bitmap, prog, seg, tasks, own, execs>>

\* memcpy reaches an address that is not mapped.
CopyFaults == rd.to + ToCopy > USER_LOAD_MAX /\ rd.to # 0

\* One turn of fat32_read's loop.
ReadCluster ==
  /\ rd.need > 0 /\ Count > 0 /\ ~CopyFaults
  /\ memory' = Copied(ToCopy)
  /\ LET position == open_file.position + ToCopy
         after == [need |-> rd.need - ToCopy, left |-> Count - ToCopy,
                   got |-> rd.got + ToCopy,
                   to |-> IF rd.to = 0 THEN 0 ELSE rd.to + ToCopy]
         done == [after EXCEPT !.left = 0, !.got = 0]
     IN IF position % CLUSTER_SIZE # 0
        THEN /\ open_file' = [open_file EXCEPT !.position = position]
             /\ rd' = IF after.left = 0 THEN done ELSE after
        ELSE \E next \in NextClusters :
               IF next = -1
               THEN open_file' = [open_file EXCEPT !.position = position] /\ rd' = done
               ELSE /\ open_file' = [cluster |-> next, position |-> position]
                    /\ rd' = IF after.left = 0 THEN done ELSE after
  /\ UNCHANGED <<pmm_bitmap, pc, prog, seg, tasks, own, execs>>

ReadFaults ==
  /\ rd.need > 0 /\ Count > 0 /\ CopyFaults
  /\ memory' = Copied(ToCopy)
  /\ page_fault_handler /\ UNCHANGED open_file

\* The cluster cannot be read: fat32_read returns what it has; read_exact and
\* skip_bytes go on after a short read and fail after an empty one.
ReadFails ==
  /\ DATA_FAULTS /\ rd.need > 0 /\ Count > 0
  /\ IF rd.got = 0 THEN Fail
     ELSE /\ rd' = ShortRead
          /\ UNCHANGED <<pmm_bitmap, memory, open_file, pc, prog, seg, tasks, own, execs>>

\* Mutant of ReadPastEnd: an empty read is tried again.
ReadPastEndAgain == rd.need > 0 /\ Count = 0 /\ UNCHANGED vars

\* Nothing is left in the file.
ReadPastEnd == rd.need > 0 /\ Count = 0 /\ Fail

----------------------------------------------------------------------------
(* elf_load_user_program *)

Untouched == UNCHANGED <<pmm_bitmap, memory, prog, tasks, own, execs>>

\* The command. A file that cannot be opened ends it at once.
Start(g) ==
  /\ pc = "idle" /\ execs < MAX_EXECS
  /\ execs' = execs + 1 /\ prog' = g /\ seg' = 1
  /\ Open("header", HEADER, 0)
  /\ UNCHANGED <<pmm_bitmap, memory, tasks, own>>

OpenFails ==
  /\ pc = "idle" /\ DATA_FAULTS /\ execs < MAX_EXECS
  /\ execs' = execs + 1
  /\ UNCHANGED <<pmm_bitmap, memory, open_file, pc, prog, seg, rd, tasks, own>>

\* Magic, class, type, machine, the program header table and the entry point.
HeaderGood ==
  /\ file.valid
  /\ Len(file.phdrs) \in 1 .. ELF_MAX_PHDRS
  /\ file.entry \in USER_LOAD_MIN .. USER_LOAD_MAX - 1
  /\ open_file.position <= file.phoff

CheckHeader ==
  /\ pc = "header" /\ rd.need = 0
  /\ \/ ~HeaderGood /\ Fail
     \/ /\ HeaderGood
        /\ pc' = "seek_phdrs" /\ rd' = Reading(file.phoff - open_file.position, 0)
        /\ UNCHANGED <<open_file, seg>> /\ Untouched

ReadPhdr ==
  /\ pc \in {"seek_phdrs", "read_phdr"} /\ rd.need = 0
  /\ LET n == IF pc = "seek_phdrs" THEN 1 ELSE seg + 1
     IN IF n <= Len(file.phdrs)
        THEN seg' = n /\ pc' = "read_phdr" /\ rd' = Reading(PHDR, 0) /\ UNCHANGED open_file
        ELSE seg' = 1 /\ pc' = "segment" /\ rd' = NotReading /\ open_file' = Closed
  /\ Untouched

\* Mutant of SegmentGood: the end of the segment is not looked at.
SegmentGoodStart ==
  /\ Phdr.memsz >= Phdr.filesz
  /\ Phdr.vaddr >= USER_LOAD_MIN

SegmentGood ==
  /\ Phdr.memsz >= Phdr.filesz
  /\ Phdr.vaddr >= USER_LOAD_MIN
  /\ (Phdr.vaddr + Phdr.memsz) % ADDRESS_LIMIT < USER_LOAD_MAX

\* The next segment: skipped, refused, or the file is opened again for it.
NextSegment ==
  /\ pc = "segment" /\ seg <= Len(file.phdrs)
  /\ \/ ~Phdr.load /\ seg' = seg + 1 /\ UNCHANGED <<open_file, pc, rd>> /\ Untouched
     \/ Phdr.load /\ (~SegmentGood \/ DATA_FAULTS) /\ Fail
     \/ /\ Phdr.load /\ SegmentGood
        /\ Open("seek_segment", Phdr.offset, 0)
        /\ own' = [a \in DOMAIN own \ Cells(Phdr) |-> own[a]]
        /\ UNCHANGED <<pmm_bitmap, memory, prog, seg, tasks, execs>>

LoadSegment ==
  /\ pc = "seek_segment" /\ rd.need = 0
  /\ pc' = "load_segment" /\ rd' = Reading(Phdr.filesz, Phdr.vaddr)
  /\ UNCHANGED <<open_file, seg>> /\ Untouched

BssStart(s) == (s.vaddr + s.filesz) % ADDRESS_LIMIT

\* Mutant of BssCells: memsz bytes are cleared.
BssCellsTooMany(s) == BssStart(s) .. BssStart(s) + s.memsz - 1

BssCells(s) == BssStart(s) .. BssStart(s) + (s.memsz - s.filesz) - 1

\* The file is closed and the rest of the segment cleared, up to the first address
\* that is not mapped.
ClearBss ==
  /\ pc = "load_segment" /\ rd.need = 0
  /\ memory' = [a \in Address |-> IF a \in BssCells(Phdr) THEN Zero ELSE memory[a]]
  /\ open_file' = Closed
  /\ \/ /\ BssCells(Phdr) \subseteq Address
        /\ pc' = "segment" /\ seg' = seg + 1 /\ rd' = NotReading
        /\ UNCHANGED <<pmm_bitmap, prog, tasks, own, execs>>
     \/ ~(BssCells(Phdr) \subseteq Address) /\ page_fault_handler

----------------------------------------------------------------------------
(* The task *)

PageCells(p) == p * PAGE_SIZE .. (p + 1) * PAGE_SIZE - 1

\* The pages that n calls of pmm_alloc_page return.
FirstPages(n) ==
  {p \in FreePages : Cardinality({q \in FreePages : q <= p}) <= n}

\* scheduler_create_user_task: a kernel stack and a page of user stack; the pages
\* already taken are not returned when one is missing. The task's stacks are written.
\* The table has a free slot: MAX_EXECS is below MAX_TASKS.
CreateTask ==
  /\ pc = "segment" /\ seg > Len(file.phdrs)
  /\ LET pages == FirstPages(STACK_PAGES + 1)
         stack == UNION {PageCells(p) : p \in pages}
         ready == Cardinality(pages) = STACK_PAGES + 1
     IN /\ pmm_bitmap' = pmm_bitmap \union pages
        /\ memory' = [a \in Address |->
             IF ready /\ a \in stack THEN <<"stack">> ELSE memory[a]]
        /\ tasks' = IF ready THEN tasks \union {[prog |-> prog, stack |-> pages]} ELSE tasks
        /\ own' = [a \in {b \in DOMAIN own \union (IF ready THEN ImageOf(prog) ELSE {}) :
                           b \div PAGE_SIZE \notin pmm_bitmap'} |->
             IF a \in DOMAIN own THEN own[a] ELSE memory[a]]
  /\ pc' = "idle"
  /\ UNCHANGED <<open_file, prog, seg, rd, execs>>

\* A running program writes to its own memory.
TaskWrites ==
  /\ pc = "idle"
  /\ \E t \in tasks :
       LET written(f) == [a \in DOMAIN f |->
                            IF a \in ImageOf(t.prog) THEN <<"written">> ELSE f[a]]
       IN memory' = written(memory) /\ own' = written(own)
  /\ UNCHANGED <<pmm_bitmap, open_file, pc, prog, seg, rd, tasks, execs>>

\* It calls SYS_EXIT and is done with its memory; its pages are not returned. That
\* the scheduler goes on running the task is module Scheduler's matter.
TaskExits ==
  /\ pc = "idle"
  /\ \E t \in tasks :
       LET left == tasks \ {t}
       IN /\ tasks' = left
          /\ own' = [a \in DOMAIN own \intersect UNION {ImageOf(u.prog) : u \in left} |-> own[a]]
  /\ UNCHANGED <<pmm_bitmap, memory, open_file, pc, prog, seg, rd, execs>>

LoaderStep ==
  \/ ReadCluster \/ ReadFaults \/ ReadFails \/ ReadPastEnd
  \/ CheckHeader \/ ReadPhdr \/ NextSegment \/ LoadSegment \/ ClearBss \/ CreateTask

Next ==
  \/ \E g \in PROGRAMS : Start(g)
  \/ OpenFails \/ LoaderStep \/ TaskWrites \/ TaskExits

\* The loader runs with interrupts off.
Spec == Init /\ [][Next]_vars /\ WF_vars(LoaderStep)

----------------------------------------------------------------------------
(* Properties *)

Places == {"idle", "header", "seek_phdrs", "read_phdr", "segment", "seek_segment",
           "load_segment", "halted"}

\* The type invariant. A program header is only looked at where there is one, and a
\* fat32_read never asks for more than the file has left.
ExecTypeOK ==
  /\ pmm_bitmap \subseteq Page
  /\ DOMAIN memory = Address
  /\ pc \in Places /\ prog \in PROGRAMS
  /\ seg \in 1 .. Len(file.phdrs) + 1
  /\ pc \in {"seek_segment", "load_segment"} => seg <= Len(file.phdrs)
  /\ open_file \in [cluster : Nat \union {-1}, position : 0 .. file.size]
  /\ rd \in [need : Nat, left : Nat, got : Nat, to : Nat]
  /\ rd.left <= rd.need /\ rd.left <= file.size - open_file.position
  /\ tasks \subseteq [prog : PROGRAMS, stack : SUBSET Managed]
  /\ execs \in 0 .. MAX_EXECS

\* A segment inside the window, and what the code's check takes for one: vaddr + memsz
\* may also be beyond ADDRESS_LIMIT.
Loadable(s) ==
  s.memsz >= s.filesz /\ s.vaddr >= USER_LOAD_MIN /\ s.vaddr + s.memsz < USER_LOAD_MAX
Wraps(s) ==
  s.memsz >= s.filesz /\ s.vaddr >= USER_LOAD_MIN /\ s.vaddr + s.memsz >= ADDRESS_LIMIT
Passed(g, s) == FILE[g].valid /\ s \in LoadSegments(g) /\ (Loadable(s) \/ Wraps(s))

FileByte(s, a) == <<prog, s.offset + a - s.vaddr>>
Loaded(s) ==
  \A a \in Cells(s) : memory[a] = IF a < s.vaddr + s.filesz THEN FileByte(s, a) ELSE Zero

\* Over cluster ends, chunks of skipped bytes, short reads and their retries, every
\* byte lands where it belongs: when elf_load_user_program returns 0, each PT_LOAD
\* segment holds its bytes of the file and zeros after them.
LoadsImage ==
  pc = "segment" /\ seg > Len(file.phdrs) =>
    \A s \in LoadSegments(prog) : Loaded(s)

\* Loading, wherever it stops, writes nothing outside the segments of a program that
\* passes the checks, and never below USER_LOAD_MIN, not even when the sum in the check
\* wraps and the machine halts at the end of memory; the rest is task stacks.
WritesInSegments ==
  \A a \in Address : memory[a] # <<"initial">> =>
    \/ a \div PAGE_SIZE \in pmm_bitmap \intersect Managed
    \/ \E g \in PROGRAMS : \E s \in LoadSegments(g) : a \in Cells(s) /\ Passed(g, s)

\* There is one file slot for the whole kernel: whichever way an exec ends, it has
\* given it back, and it only reads from a file it has open.
FileClosed ==
  /\ pc \in {"idle", "segment"} => open_file = Closed
  /\ IF pc \in {"idle", "segment", "halted"} THEN rd = NotReading
     ELSE open_file.cluster >= 0

\* Nothing is loaded before it was checked, and no load gets past a segment that is not
\* inside the window: the segments behind the loader and those of the programs that run
\* are, although the check also lets a sum through that wraps.
CheckedFirst ==
  /\ pc \notin {"idle", "header"} => file.valid
  /\ pc \in {"segment", "seek_segment", "load_segment"} =>
       \A i \in 1 .. seg - 1 : file.phdrs[i].load => Loadable(file.phdrs[i])
  /\ pc \in {"seek_segment", "load_segment"} => Phdr.load /\ Passed(prog, Phdr)
  /\ \A t \in tasks : \A s \in LoadSegments(t.prog) : Passed(t.prog, s) /\ Loadable(s)

\* Where read_exact puts its bytes: what is still to be read fills the segment, and
\* what was read is at addresses that did not wrap.
ReadsIntoSegment ==
  IF pc = "load_segment"
  THEN /\ rd.to >= Phdr.vaddr /\ rd.to < ADDRESS_LIMIT
       /\ rd.to + rd.need = Phdr.vaddr + Phdr.filesz
  ELSE rd.to = 0

\* The current cluster is the one file_position lies in, and the position is as far
\* into the segment as the destination is.
InCluster ==
  /\ open_file # Closed /\ open_file.position < file.size =>
       LET first == open_file.cluster * CLUSTER_SIZE
       IN first <= open_file.position /\ open_file.position < first + CLUSTER_SIZE
  /\ pc = "seek_segment" => open_file.position + rd.need = Phdr.offset
  /\ pc = "load_segment" => open_file.position = Phdr.offset + (rd.to - Phdr.vaddr)

\* The linker gives the segments of a program different addresses.
SegmentsApart(g) ==
  \A i, j \in 1 .. Len(FILE[g].phdrs) :
    i # j /\ FILE[g].phdrs[i].load /\ FILE[g].phdrs[j].load =>
      Cells(FILE[g].phdrs[i]) \intersect Cells(FILE[g].phdrs[j]) = {}

\* The segments behind the loader are complete, the one it is in up to where it is.
LoadedSoFar ==
  /\ pc \in {"segment", "seek_segment", "load_segment"} =>
       \A i \in 1 .. seg - 1 : file.phdrs[i].load => Loaded(file.phdrs[i])
  /\ pc = "load_segment" =>
       \A a \in Phdr.vaddr .. rd.to - 1 : memory[a] = FileByte(Phdr, a)

\* No page is ever returned, so the pages in use are the first ones.
PagesInOrder ==
  \E k \in RESERVED_PAGES .. TOTAL_PAGES :
    /\ pmm_bitmap = 0 .. k - 1
    /\ k <= RESERVED_PAGES
            + (IF pc = "idle" THEN execs ELSE execs - 1) * (STACK_PAGES + 1)

\* What a running program keeps of its memory: not the pages that were handed out, and
\* not the segment that is being loaded.
OwnCells ==
  /\ DOMAIN own \subseteq UNION {ImageOf(t.prog) : t \in tasks}
  /\ \A a \in DOMAIN own : a \div PAGE_SIZE \notin pmm_bitmap
  /\ pc \in {"seek_segment", "load_segment"} => DOMAIN own \intersect Cells(Phdr) = {}

\* The loader's state after every step: it writes only inside segments that passed
\* its checks, gives the one file slot back on every path, and knows where it is in
\* the file as long as the FAT can be read.
ExecInv ==
  /\ ExecTypeOK /\ WritesInSegments /\ FileClosed
  /\ CheckedFirst /\ ReadsIntoSegment /\ PagesInOrder /\ OwnCells
  /\ ~FAT_FAULTS => InCluster /\ (SegmentsApart(prog) => LoadedSoFar)

\* A running program loses memory in two ways only: a program that is started later,
\* itself again included, has a segment there, or the allocator hands a page of it out
\* for a stack. Whatever else is loaded, wherever that stops, leaves it as it was.
RunningIntact == \A a \in DOMAIN own : memory[a] = own[a]

\* It loses nothing. The code does not see to that (ExecLowAddress.cfg).
NothingTaken == DOMAIN own = UNION {ImageOf(t.prog) : t \in tasks}

\* A load ends, with a task, an error or a halt. Reads that come back short do not keep
\* it going for ever.
LoadEnds == (pc # "idle") ~> (pc \in {"idle", "halted"})
=============================================================================
