# XOS / phobos in TLA+

Specifications of the parts of the phobos kernel (`src/src/kernel`) whose
correctness depends on order: interrupts between two instructions, a page
allocator that runs dry in the middle of a call, rings shared with an interrupt
handler or a network card, a disk that fills up, fails or answers late. TLC checks them
on small instances; for the scheduler, the heap, the two rings, the disk driver with the
mount and accesses above it, the program loader, the terminal and the network card's driver
and frames, TLAPS proves the invariants, action properties and refinements for every
instance.

## The system

One CPU, one address space. `kernel_main` initialises the drivers, mounts the
FAT32 partition, creates one kernel task, the shell, and calls
`scheduler_start`, which never returns. From then on the code that runs is the
shell, the user tasks it starts with `usermode` and `exec`, and the handlers of
IRQ0 (timer), IRQ1 (keyboard) and int 0x80.

| component | state | operations | hard because |
|---|---|---|---|
| scheduler (`sched/`) | task table, `current_task_id`, `TSS.rsp0` | create kernel task, create user task, tick, yield, start | ticks arrive inside creation; the switch happens inside an interrupt handler |
| timer and PIC (`drivers/timer/pit.c`, `idt.c`) | `pit_ticks`, IRQ0 in service | IRQ0, `pit_init`, `pit_sleep_ms` | the EOI is sent after the handler, the switch inside it |
| system calls (`arch/syscall.c`) | none of its own | yield, exit, write | interrupt gate: IF is off until a yield turns it on |
| page allocator (`mm/pmm.c`) | bitmap | alloc, free | several clients, no contiguity guarantee |
| heap (`mm/heap.c`) | cursor and remaining bytes | malloc | failure leaves part of the state behind; size_t arithmetic |
| serial port (`drivers/serial/`) | transmit ring | putchar, write, flush in IRQ0 | writer and interrupt drain the same ring |
| keyboard (`drivers/input/`) | character ring, modifiers, prefix | IRQ1, getchar with poll | ring not locked; interrupt and poll read the same controller |
| FAT32 (`fs/fat32.c`) | FAT copies and cache, directories, cwd, open file | write, delete, mkdir, chdir, open, read | several disk writes per command, each may fail; disk full; path bookkeeping |
| ATA driver (`drivers/storage/ata.c`) | none of its own; the drive's status, command and cache | read, write, flush | bounded polls against a drive that errs, is slow, or drops commands |
| partitions and mount (`fs/partition.c`, `fat32_mount`) | partition list, geometry, FAT cache | detect, mount, FAT lookup and update, cluster transfer | offsets from five numbers on the disk; several sectors per access |
| ELF loader (`arch/elf.c`, `cmd_exec`) | the open file, the memory it fills | load, start | short reads, one file slot, memory shared with the page allocator |
| console (`drivers/display/vga.c`) | screen, cursor, scrollback ring, saved screen | put, scroll, view, flush | the view, the live screen and the ring are three copies of the same lines |
| shell (`shell/shell.c`) | history, line buffer, drafts | line editing, word splitting, the commands | drives all the others |
| network (`drivers/network/`, `cmd_ping`, `cmd_arp`) | descriptors, buffers, card registers | PCI scan, card start, send | the card works on its own, in memory the driver gave it |
| printf, debug log, boot | | | see "Not modelled" |

They interact by calls (shell to file system, scheduler and drivers; scheduler and
heap to the page allocator), by interrupts (IRQ0 into the scheduler and the serial
ring, IRQ1 into the keyboard ring) and through RFLAGS.IF, which `cmd_exec`, the
serial driver, the yields and the interrupt gates all change.

What makes each component correct: the scheduler runs only complete tasks, one at a
time, in turn, each on its own stack, and does not lose the interrupt flag or the
EOI; the heap hands out disjoint blocks of memory it owns; the rings are FIFOs; a key
is decoded once; a file keeps its bytes until it is written or removed, no cluster is
lost or shared, and `pwd` says where the shell is; a disk request returns what the disk
holds or fails, and a completed write survives a power cut; what the shell shows is what
it will run; a program in memory is the file's image, and nothing else touches it; a frame
goes out once, in order, whole and with a right checksum.

## Modules

| module | what it is |
|---|---|
| `Pmm` | the page allocator; extended by `Scheduler`, `Heap`, `Exec` and `Net` |
| `Scheduler` | scheduler, timer, PIC, system calls and the shell commands that start tasks, composed on one CPU |
| `CpuRing` | abstract specification: a ring of slots that passes the CPU round-robin. `Scheduler` implements it (`ImplementsRing`) |
| `SchedulerProofs` | the inductive invariant and the theorems |
| `Heap` | malloc and its other clients at the page allocator |
| `BoundedFifo` | abstract specification of a driver's ring: of characters, or of frames |
| `Serial`, `Keyboard` | the two drivers; each implements `BoundedFifo` (`ImplementsFifo`) |
| `RingTheorems` | what reading and writing at the ends of a ring does to the sequence it holds; division; induction over sets of numbers |
| `KeyboardProofs` | the theorems about `Keyboard`, on `RingTheorems` |
| `Fat32` | the file system under the shell's file commands, the disk, reboots |
| `Fat32Proofs` | its theorems, for sessions without I/O errors |
| `BlockDevice` | abstract specification of a disk: requests served sector by sector, or failed |
| `Ata` | the ATA driver and the drive; implements `BlockDevice` (`ServesBlocks`) |
| `Storage` | `Ata` with the partition table, the mount and the disk accesses of `fat32.c` on top: what `Fat32` takes as one step |
| `StorageProofs` | the theorems about `Ata` and `Storage` |
| `Console` | the VGA text console, as functions on its state |
| `Terminal` | the shell's line editor, history and word splitting, on `Console` |
| `TerminalProofs` | the theorems about the two ways out: `Console` and `Terminal`, and `Serial` |
| `Exec` | the `exec` command: ELF loader, file reads, task creation, on `Pmm` |
| `MemoryProofs` | the theorems about `Heap` and `Exec`, the two that live on the page allocator |
| `Net` | PCI scan, card start and the frames of `ping` and `arp`, on `Pmm`; its descriptor ring implements `BoundedFifo` (`SendsInOrder`) |
| `NetProofs` | its theorems, on `RingTheorems` |
| `MC...` | the instances TLC runs |

Definitions keep the names of the C functions where one action is one function.
`PROJECT.json` maps every definition to its lines. A definition called a mutant in its
comment is a plausible bug used to see that a property can fail; no specification
uses it.

### Scheduler

A step is a stretch of code no interrupt can divide. Code that runs with IF = 0 is one
step however long it is; creation, which `cmd_usermode` runs with IF = 1, is cut at
every page it allocates and at every change of the table a tick could see. A saved
context is abstracted to where its rip points: the entry, after `context_switch` in
`scheduler_yield`, or after it below `pit_irq_handler`. The last two differ in what
happens next: `sti` and return, or the EOI and `iretq`. `irq0_in_service` is the PIC's
in-service bit: while it is set neither IRQ0 nor IRQ1 is delivered. `exec` (cli), its
error path (sti), `usermode`, `ping`'s sleep, `SYS_YIELD`, `SYS_EXIT` and a fault of a
user program are actions. `exited` and `driver_pages` are history and parameter.

### Heap, Serial, Keyboard

`Heap` names an address by page and offset and keeps size_t arithmetic modulo
`SIZE_LIMIT`. `Serial` has the writer, cut after every instruction that touches the
ring, and the flush of the timer interrupt, enabled whenever IF is set. `Keyboard` has
the person, the controller with its output buffer and the IRQ1 latch (external), the
interrupt handler and the reader, which may have interrupts on or off at each call;
the alphabet is one letter, the two modifiers and an arrow key. IRQ0 may be in service
when the reader is at its prompt (`Timer`, external: what `Scheduler` shows of a switch
below the timer interrupt), and then the PIC holds IRQ1 back.

### Fat32

A command is a sequence of steps, one per disk transfer that changes something. A FAT
is a function from clusters to the next cluster, `FREE` or `EOC`, in two copies and a
cached sector; a cluster holds entries or bytes. With `IO_ERRORS` every transfer may
fail: a failed FAT read returns 0, as in `fat32_next_cluster`; a failed write may or
may not have reached the disk. With `POWER_LOSS` the machine may restart between any
two transfers; only the disk survives. `expect` is history: the files whose last write
succeeded and that no command has been changing since. A command that fails or is cut off
after it freed a chain leaves an entry that leads to free clusters. When that entry is
written again or removed the code frees what is at those clusters by then; a file that was
given one of them is struck from `expect` at that moment (`Endangered`), and only then.
`SCAN_ERRORS` has the FAT sector that is searched for a free cluster fail too. Names are valid 8.3 names, a
directory is one cluster and the FAT one sector, as on the image of
`scripts/create_storage_image.py` for small volumes. When `fat32_mkdir` goes on after a
failed path walk with uninitialised variables, the parent is any cluster of the volume
and the name any valid or invalid one (a value outside the volume is left out).

### Ata, Storage

The drive is external: a command makes it busy, then it asks for or offers one sector at a
time, or reports an error, which stays in the status register until the next command (so
that after one error every later call fails in `ata_wait_bsy_clear` without issuing one).
A poll that runs out of patience is a step the driver may take while a slow drive is still
busy. Drives differ in what they do with a command that comes too early: one that replaces
the old command is what makes the driver's flush between the sectors of a write end the
write after its first sector; it then fails, which the file system sees as an error.
`Storage` mounts partition 0 of disk 1, the primary slave, as `kernel_main` does, over good and bad
tables and boot sectors, and then makes any sequence of the accesses of `fat32.c`: the
lookup of a FAT entry through the one-sector cache, the update of every FAT copy, a cluster
read or written. `before`, `image`, `outcome` and `torn` are history. `WritesInOrder` is
the contract `Fat32` builds its failures on.

### Console, Terminal

A console is a record and each function of `vga.c` a function on it, so that a key is one
step: what the shell prints for it, the cursor update, and the buffers of `sh_readline`.
`paper` is history: the same output on an endless sheet; `draft` is the line as last seen
below the history. Between two keys a user program may print (`UserWrite`, `SYS_WRITE`): what
it prints ends a look at the scrollback and goes to the cursor, in the middle of a line too.
From then on the line on the screen is not the one in the buffer, until the next prompt
(`written`). The line with its prompt fits the screen (5 + 255 of 2000 cells), an
assumption of the module; a longer one could rub out past the first row. Cells are
characters without colours.

### Exec

Byte i of a program's file is the pair of program and i, so that a memory cell tells where
its contents came from. `fat32_read` is cut at every cluster, each of which may fail; the
loader's `elf_read_exact` and `elf_skip_bytes` loop over it. The fields of the headers are
any 64-bit numbers (`ADDRESS_LIMIT` of them) and their sums wrap as in elf.c:198, so that a
segment with an enormous `p_memsz` passes the check; copying or clearing past the end of the
identity map then faults and `page_fault_handler` halts. Any program may be started again,
or lie where another one or a stack does. `own` is history: what running programs have in the
memory that is still theirs. A cell leaves it when a segment that passed the check is opened
over it, or its page is handed out for a stack.

### Net

The bus scan, the start of the card (receive ring, one buffer per descriptor), and
`rtl8139_send_packet` cut where the card can act: the OWN bit is looked at, the frame is
copied, the descriptor is handed over, the index advances. The card is external and as
`rtl8139.h` describes it: it sends the frames of the descriptors it owns in order and
clears the bit, or has no link and never does. Its reset ends in time. `ping` sleeps between
two frames until the timer interrupt has counted the ticks (`PitTicks`); nothing says that it
will. Nothing is received: neither `rtl8139_handle_interrupt` nor `net_handle_packet` has a caller. Headers
are 16-bit words, so the checksum is computed and folded as in `net_checksum`; its branch
for odd lengths is never taken. The sequence number of an echo request wraps at 16 bits.

## Runs

| run | shows | bounds |
|---|---|---|
| `scheduler_safety` | the table, the stacks, IF and the EOI, the inductive invariant, and the refinement of `CpuRing` | 4 slots, 26 pages, 6 creations: the table fills up and creation then fails, three user tasks exist at once. The drivers take 1 to 22 pages at boot, so that memory also runs out inside a creation, the shell's own included |
| `scheduler_liveness` | `ShellRegainsCpu`, `NoStarvation` | 3 slots |
| `heap_safety` | disjoint, owned blocks; pages never shared | 3 managed pages of 24 bytes, sizes up to a page, 5 blocks: pages fill, the allocator fails and recovers |
| `serial_ring` | FIFO refinement, the caller's IF | ring of 3, strings up to 3, 6 characters: full, empty and wrapped rings |
| `keyboard_input` | FIFO refinement, each scancode decoded once, Ctrl+C noticed, input drains unless IRQ0 stays in service | ring of 3, 5 strokes, 1 serial byte: the ring overflows and wraps, modifiers overlap |
| `fat_shell` | `VolumeInv` (a clean fsck, coherent FAT copies and cache), `FilesIntact`, `ReadBack`, `DirectoryInv` (cwd and pwd) | 6 clusters, 3 entries per directory, a three-cluster file, 5 commands: disk full, directory full, overwrite, reuse of freed clusters, a subdirectory |
| `fat_faults` | no damage to other files under I/O errors and power loss (`FilesIntact`) | 5 clusters, a three-cluster file and one free cluster, `echo` to two files, `touch`, `rm`, `mkdir` and `cat`, 4 commands, a restart counted as one: an overwrite fails or is cut off after its chain was freed, another file is given the clusters, the entry left behind is used again. All transfers fail except the search for a free cluster (`FatReadError.cfg`) |
| `storage` | the driver implements `BlockDevice`, FAT updates and cluster writes fail only in order, every access stays in its region, what was written is permanent, every access returns | two drives and none, five disks; a volume of 3 clusters of 2 sectors with two FATs of two sectors; 3 accesses and 1 drive error: both FAT sectors are cached in turn, an update fails between the copies |
| `terminal` | screen, scrollback, cursor and line buffer agree, words, history, the draft | screen of 2 by 3, scrollback 3, lines up to 2 characters, history of 2; 3 lines, or 2 and a text of a user program between any two keys after the first line: wraps, scrolls, overwrites the ring, fills the history, prints into a line and over the scrollback. Lines put together of three are split into at most 2 words |
| `exec` | a started program is the image of its file, nothing is written outside checked segments, running programs lose only what a later load or stack takes, the file slot is given back, a load ends | pages of 2, clusters of 3 bytes, addresses of 6 bits, 9 files, 3 commands, any cluster read may fail: two programs side by side, one in the allocator's memory, one that is all bss, one that ends at the edge of the window, two whose end wraps, one longer than its file, one that is no ELF file; any of them twice, while others run or have exited. A creation that runs out of pages is `scheduler_safety`'s |
| `network` | the scan finds the first card, its memory is private, addresses, checksums, frames in order or dropped, commands end | 2 descriptors, 4 buses, 7 typed addresses, counts 0, 1 and 3, 2 commands: the ring wraps and is found full |

An invariant whose name ends in `Inv` is the conjunction of its module's type invariant and
of the named invariants beside it.

Two limits of `fat_shell` follow from the findings below: data written fits a cluster
(`echo` writes at most 255 bytes, a cluster has at least 512), and `rm` and `echo` are not
aimed at directories. `fat_faults` allocates no data cluster, because one failed read of
the FAT breaks the allocator. `exec` has its programs above the
pages the allocator has handed out and starts none twice, `storage` has no drive that
drops the flush or a late command: those cases are in the second table below. Deadlock is
checked for `serial_ring` and `terminal`; elsewhere the system may stop: a person may
stop typing, a fatal exception halts the machine, a mount fails, the bound on commands is
reached.

### Where the code disagrees with what is said of it

TLC must find the first of these violated in every check.

| run | the code | what is said |
|---|---|---|
| `scheduler_preemption` | a task switched to below IRQ0 that is fresh or resumes in a yield runs with IRQ0 in service; it is never preempted | README: "preemptive multitasking" |

The others are not in the list of runs. `tlc -config X.cfg M` shows each counterexample; a
configuration that is also a run's is to be changed first as the table says, and to be left
with the property named there alone.

| configuration (change), module | the code | what is said or expected |
|---|---|---|
| `SchedulerExit.cfg`, `MCScheduler` | an exited task runs on | syscall.c:59 "mark the task as dead" |
| `SchedulerPreemption.cfg`, `MCScheduler` | after the lost EOI `pit_sleep_ms` waits for ever (`SleepEnds`) | pit.c:91 |
| `HeapLargeBlock.cfg`, `MCHeap` | one page whatever the size | heap.c:38 "grabs new pages ... as needed" |
| `KeyboardRightCtrl.cfg`, `MCKeyboard` | the E0 prefix of right Ctrl stays set | keyboard.c:130 |
| `FatChain.cfg`, `MCFat32` | two clusters requested, one allocated | fat32.c:275 |
| `FatReadError.cfg`, `MCFat32` | an unreadable FAT gives out the root directory | fat32.c:248 |
| `FatRemoveDir.cfg`, `MCFat32` | `rm` frees the current directory | fat32.c:849 "delete a file" |
| `FatPwd.cfg`, `MCFat32` | `cd a/b` tracks only `b` | fat32.c:1340 |
| `FatRmLocal.cfg`, `MCFat32` | `rm` works on the root only | shell.c:450 |
| `FatMkdirLost.cfg`, `MCFat32` | `mkdir` below a missing directory uses uninitialised variables | shell.c:465 |
| `StorageLateAnswer.cfg`, `MCStorage` | the poll before a command looks at BSY and not at DRQ: a drive that still offers the sector of a call that timed out gives it to the next one (`ServesBlocks`) | ata.c:81 |
| `StorageDurable.cfg`, `MCStorage` | the flush is issued while the drive may still be busy; a drive that drops it keeps the sector in its cache (`DurableAlways`) | ata.c:310 |
| `TerminalEditing.cfg`, `MCTerminal` | with a full history every new line goes to slot 0, while Up starts at the last slot (`RecallsNewest`) | shell.c:57, shell.c:766 |
| `TerminalEditing.cfg`, `MCTerminal` | the view is a screen further back than its offset says (`ViewIsOffsetBack`) | vga.c:243 |
| `TerminalEditing.cfg`, `MCTerminal` | once the scrollback was shown the cursor stays disabled (`CursorShown`) | vga.c:268 |
| `TerminalEditing.cfg`, `MCTerminal` | the Ctrl+C and Ctrl+X branches are nested in the backspace branch (`CtrlCAborts`) | shell.c:782 |
| `ExecLowAddress.cfg`, `MCExec` | the shipped programs are linked at 0x210000, inside the memory the allocator hands out from 0x200000, and a program started again is loaded over the running one (`NothingTaken`) | Makefile:164, pmm.c:62, shell.c:640 |
| `ExecLoad.cfg` (`FAT_FAULTS = TRUE`), `MCExec` | when the lookup of the next cluster fails the retry reads the old cluster again (`LoadsImage`) | fat32.c:683 |
| `NetAddress.cfg`, `MCNet` | address bytes go out in the processor's order (`ReachesTarget`) | net.c:130 "to the target ip" |

## Fairness

Scheduler: strong fairness for the steps of each thread (a thread that gets the CPU
again and again makes progress, although a tick may take it away in between), strong
fairness for IRQ0 (the PIT raises it every 10 ms and the PIC latches a request it cannot
deliver), weak fairness for `SYS_YIELD` of user programs, because both shipped programs
are loops around it. Nobody has to type. Keyboard: weak fairness for the controller and the
reader, the shell does nothing but read; strong fairness for IRQ1, which the PIC latches.
Nothing is assumed of the person, or of the timer's EOI: `InputDrains` says that input is
consumed again and again, or IRQ0 stays in service for ever with interrupts on.
Storage: weak fairness for the driver (its loops are bounded and nothing blocks them), for
the drive finishing what it works on, and for the code above it going on with an access it
has begun; nobody has to begin one. Exec: weak fairness for the loader, which runs with
interrupts off. Net: weak fairness for the kernel's steps, none for the card, which may have
no link, and none for the ticks that end a sleep: `CommandsEnd` says that every command ends,
or a `ping` sleeps for ever.

## Proofs

Every theorem holds for all values of the constants that satisfy the named assumptions of
its module; what else a theorem needs is in its statement. Each invariant proved is the one
its run checks: TLC has seen it on the small instance, the proof shows it inductive.

`SchedulerProofs`: `Spec => []IInv` for every `MAX_TASKS`, number of pages, driver pages and
user programs (assumptions `PageAssumption`, `SchedulerAssumption`). The properties are
not inductive: that a published task's stacks are disjoint from all others rests on what
the create call in progress holds. `IInv` adds `UsedIsPrefix` (first fit and no free: the
used pages are a prefix of memory, so four pages in a row are consecutive),
`CreateInProgress` (what the call holds at each of its places), `BootPhase` and `TaskCode`
(only the shell runs kernel code of its own, so only one create call is in progress),
`StackTops`. One lemma per action shows it preserved, with one step per conjunct the
action can disturb; the theorems for `TypeOK`, `OneRunning`, `RunnableIsComplete`,
`StacksAreOwned`, `Rsp0IsCurrents`, `InterruptsRestored`, `EoiIsOwed` are consequences.
`SchedulerImplementsRing` is the refinement of `CpuRing`, step by step.

`MemoryProofs`, the heap: `HeapSpec => []IInv` under `AtMostAPage` (every size, rounded, fits a page; what a
larger one does is shown by `HeapLargeBlock.cfg`). `CursorInPage` is the strengthening: the remaining
count belongs to the page of the cursor, and that page's blocks end at the cursor.

`TerminalProofs` (the serial driver), `KeyboardProofs`: the rings are FIFOs of every size. What has to be known
besides the ring is where the code is: `FlagIsSaved` and `SentIsAtHead` (the writer's saved
flag, the character the drain has sent and not yet removed), `ReadIsAtTail` and
`ScancodeWaits` (the character read and not yet removed, the scancode that waits at the
controller). `InStep` says that the decoder's shift, Ctrl and prefix flags are those of the
keys down after the scancodes processed; `DecodesWhatWasTyped` follows. It assumes a
keyboard without right Ctrl, whose prefix the code leaves set (`KeyboardRightCtrl.cfg`).

`StorageProofs`: one inductive invariant for the drive, the driver and the file system.
`AtaInv` has the drive in step with the driver (`DriveInStep`: what a drive works on or
offers inside a call is that call's request at sector `n`, or the flush; `Transferred`;
`Flushed`). `BootInOrder` says what `kernel_main` knows at each stage, `AccessInOrder`
which call an access waits for and by which sectors the disk differs from `before`,
`FatCacheTracks` what the cached FAT sector is during an access. The geometry needs the
arithmetic of the mount: the copies of the FAT and the data are apart (`RegionsApart`),
the sector of an entry lies in its copy (`FatSectorInRegion`), a cluster in the data
region (`ClusterInRegion`). From it follow `StorageInvariance`, `WritesAreDurable`
and, step by step, `StorageWritesInOrder` and `AtaServesBlocks`, the
implementation of `BlockDevice`. Assumed: `StorageAssumption`, that a disk with a
signature has the layout the image builder gives it (the mount checks none of it; disks
without one, or without a partition, are included), and `AnswerInTime`, that a drive
which drops a command that comes too early answers within the polls (what others do is
shown by `StorageLateAnswer.cfg`). Drive errors and slow drives that replace the old
command are included.

`MemoryProofs`, the loader: `ExecInv` for all programs with 64-bit headers, page and cluster
sizes and numbers of commands, segments whose end wraps included. That the loader writes only
inside checked segments needs to know what it has checked (`CheckedFirst`) and where it reads
to (`ReadsIntoSegment`); `PagesInOrder` bounds the pages that stacks take. `LoadsItsImage`
assumes `~FAT_FAULTS` and that a program's segments do not overlap: `InCluster` (the current
cluster is the one the position lies in) and `LoadedSoFar` carry the file's bytes to their
place over cluster ends and retries. `RunningProgramsIntact` assumes nothing: `OwnCells` says
that no cell that is still a running program's lies in the segment being loaded or in a page
of a stack. That such cells may become few is in the second table above. `MCExec` and
`MCStorage` satisfy the hypotheses, so that they are not empty.

`NetProofs`: `NetInv` for every bus with up to eight functions a slot, and any number of
receive pages, descriptors, addresses and commands. `ScanFindsCard` rests on `ScanInOrder`
(no card lies before the function looked at). That the card's pages are contiguous and
nobody else's, which `rtl8139_init` only hopes for, rests on `PagesInOrder` (first fit, and
the card is the first to allocate) and `CardStarted` (what each register was given).
`RingInStep` ties driver and card together: the card owns a run of descriptors from its own
on, all with complete frames, and the driver's next one follows the run; the card may send
in the middle of `rtl8139_send_packet`, so the run is counted from the card's side and
`NextDesc` looks through the gap between handing over and advancing. From it follows
`NetImplementsFifo`: looking at the current descriptor alone is enough to know that the
ring is full. Both assume `EnoughPages` (see the half-initialised card below); `MCNet`
satisfies it.

`ParsesAddressHolds` is about any typed text: after each character `parse_ip4` has refused
the text, and then it is no address, or holds the numbers before the dots read so far and the
one being read (`Going`, `Refusing`). `FramesVerifyHolds`: swapping the bytes of a word
multiplies it by 256 modulo 2^16 - 1, folding the carries changes nothing modulo 2^16 - 1 and
ends below 2^16 for headers of up to 10 words, so the receiver's sum over the words in wire
order is 0. The proof needs the sequence number to be a 16-bit word.

`TerminalProofs`, the terminal: `TerminalInv`, `LineOnScreen`, `SplitsIntoWords` and `DraftReturns` for
screens, rings, histories and prompts of every size, as long as the prompt and the longest
line fit the screen (`TerminalAssumption`). The inductive invariant is `TerminalIInv`: the
screen and the ring are a window on the endless paper, which ends with the prompt and the
buffer (`OnScreen`, with the cursor so far from the start that no backspace of the line can
leave the screen), the history is made of entered lines, and a line left for the history is
kept (`DraftKept`). Output of a user program leaves the room for the backspaces (`HasRoom`) and the
buffer alone, so everything but the picture of the line survives it. A key prints a text, so what `vga_putchar` does to the window, wrapping
and scrolling included, is proved for a character and lifted to texts by induction;
`clear_line` is the same backwards. The loop that splits a line is followed from its end.

`Fat32Proofs`: `VolumeInv`, `FilesIntact`, `ReadBack` and `DirectoryInv` for volumes,
clusters, directories, images and sessions of every size, at every step of every command,
reboots between commands included. None is inductive: while a chain is freed or allocated,
the FAT and the directory disagree. The inductive invariant `FatIInv` says who owns a cluster
that is in use (`Ownership`): the root, exactly one entry, or the call in progress, which
holds what it has taken from an entry and not freed yet, or allocated and not yet entered.
`Tree` has the shape of the directories (unique names, end markers last, `.` and `..` that
lead back), `InCall` what each call has done at each of its places, `Kept` the files that
must have their bytes, `Here` the current directory at the end of its path, `Reading` how
far `cat` has come. Because a call writes only to clusters it owns, other files keep their
entry, chain and bytes; because only `mkdir` extends the tree, and only after the new
directory is on the disk, paths lead where they led. The set of reachable directories is the
least one closed under subdirectories, which is what the proofs use of it.

The four theorems assume `PlainSession`, which `FatShell.cfg` satisfies (`ShellIsPlain`, an
assumption TLC evaluates). Each part is there because of something the code does:

- no I/O errors and no power loss: one failed read of the FAT gives out the root directory
  (`FatReadError.cfg`);
- data fits a cluster (`echo` writes at most 255 bytes): the allocator finds the same cluster
  twice (`FatChain.cfg`);
- `rm`, `touch` and `echo` are not given the name of a directory: they treat it as a file
  (`FatRemoveDir.cfg`);
- `mkdir` is given one name, not a path: below a missing directory it goes on with
  uninitialised variables (`FatMkdirLost.cfg`);
- `cd` is given one name, or a path from the root without dots: otherwise the tracked path
  is wrong (`FatPwd.cfg`);
- a directory has room for `.` and `..`.

`Fat32Assumption` asks for an image file that is not empty and fits the volume, as
`create_storage_image.py` makes it, and for paths with a name in them (the shell
refuses an empty argument; of `/` alone only `cd` is modelled).

Texts, headers, chains, paths and the walks over them are recursive functions. The library's induction
theorems take an operator and cannot be used here, so `RingTheorems` proves induction over a
set of numbers (`SetInduction`) from the well-foundedness of the naturals, and each proof
shows that the recursive function satisfies its equation.

Only model-checked: liveness (`ShellRegainsCpu`, `NoStarvation`, `InputDrains`,
`EveryAccessReturns`, `LoadEnds`, `CommandsEnd`), which is out of the prover's reach; and
`FilesIntact` under I/O errors and power loss (`fat_faults`): with them the invariants above
fail in the middle of a call, and which clusters a chain has then is a different argument.
Without the exception for an entry left behind (`Endangered`) TLC finds a file lost: an
overwrite fails after its chain was freed, a second file is given the cluster, the overwrite
is tried again and frees it, a third file is given it.

## Not modelled

- Boot loader, page tables and the contents of the GDT: straight-line set-up before
  anything runs beside it.
- `printf` and the debug log: formatting; `debug_log_dump` has no caller.
- `ata_detect_device`, `ata_get_device`, `net_handle_packet` and
  `rtl8139_handle_interrupt`: no callers, so no state of the running kernel depends on them.
- The half-initialised card (`rtl8139_init` returns for want of a page, rtl8139.c:227):
  256 MB are free when it runs; `network` and the theorems about `Net` have `EnoughPages`.
- Stack depth: directory buffers of 16 KB on kernel stacks of 16 KB (fat32.c:993) are a
  question of bytes; the stacks here are whole pages.
- The bytes of a serial escape sequence arriving apart (keyboard.c:222): whether they do
  depends on the line speed, and nothing says what should happen then.
- `ping -c 3` without a host reads an `argv` slot that was never set (shell.c:248);
  whatever it points to is pinged or refused as a typed address is.
- A tick between two instructions of `vga_putchar` while the shell prints (vga.c:145): a key's
  output is one step of `Terminal`, and user programs print between keys only.
- The loader's own stack, which lies outside the segments it loads; a program linked over the
  shell's stack is left out.
- The shell's commands that only print (`help`, `meminfo`, `tasks`, `uptime`, `xfetch`,
  `pci`), colours and the log switch.

## Plan

Done: all components with state that changes while the kernel runs, and the proofs above.
What is left is proof: `FilesIntact` on a disk that fails.
