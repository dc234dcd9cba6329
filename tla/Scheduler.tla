----------------------------- MODULE Scheduler -----------------------------
(***************************************************************************)
(* The multitasking core of XOS: the task table and the round-robin switch *)
(* (sched/scheduler.c, context_switch.asm, task_bootstrap.asm), the timer  *)
(* interrupt that drives it (drivers/timer/pit.c, idt.c, the 8259 PIC),    *)
(* the int 0x80 system calls (arch/syscall.c) and the two shell commands   *)
(* that start user tasks (shell/shell.c), running on one CPU.              *)
(*                                                                         *)
(* One step is a stretch of code no interrupt can divide: code that runs   *)
(* with IF = 0 is one step however long it is, code that runs with IF = 1  *)
(* is cut wherever a tick in between would see a different task table.     *)
(* A context is abstracted to the place its saved rip points at.           *)
(***************************************************************************)
EXTENDS Pmm

CONSTANTS
  MAX_TASKS,     \* 8 in the code
  DRIVER_PAGES,  \* how many pages the network driver may have taken at boot
                 \* (6 with a NIC present, 0 without)
  SLEEP_TICKS,   \* ticks pit_sleep_ms waits for in the ping command
  USER_CALLS,    \* what user programs do (the shipped ones: SYS_YIELD)
  MAX_CREATES    \* bound: task creations per behaviour

STACK_PAGES == 4            \* TASK_STACK_SIZE / PAGE_SIZE

ASSUME SchedulerAssumption ==
  /\ MAX_TASKS \in Nat \ {0}
  /\ DRIVER_PAGES \subseteq 0 .. TOTAL_PAGES - RESERVED_PAGES
  /\ SLEEP_TICKS \in Nat
  /\ MAX_CREATES \in Nat
  /\ USER_CALLS \subseteq {"SYS_YIELD", "SYS_EXIT", "FAULT"}

Slot == 0 .. MAX_TASKS - 1
BOOT == -1                  \* kernel_main, before any task runs
SHELL == 0                  \* the slot scheduler_start starts from
Thread == Slot \union {BOOT}

VARIABLES
  driver_pages,     \* pages taken before scheduler_init; never changes
  tasks,            \* the task table
  current_task_id,  \* -1 until scheduler_start
  next_task_id,
  rsp0,             \* TSS.rsp0: the stack an interrupt from ring 3 switches to
  intr,             \* RFLAGS.IF of the CPU
  irq0_in_service,  \* PIC: IRQ0 delivered and not yet acknowledged by an EOI
  pit_on,           \* pit_init has registered pit_irq_handler
  pc,               \* where each thread is in its own code
  mk,               \* locals of the create call in progress
  line,             \* a complete command line is in the keyboard queue
  sleep,            \* target - pit_ticks of pit_sleep_ms
  exited            \* history: tasks that called SYS_EXIT

vars == <<pmm_bitmap, driver_pages, tasks, current_task_id, next_task_id, rsp0,
          intr, irq0_in_service, pit_on, pc, mk, line, sleep, exited>>

State == {"UNUSED", "READY", "RUNNING", "BLOCKED", "DEAD"}
\* Where ctx.rip points: nowhere yet, the task's entry, after context_switch in
\* scheduler_yield, or after context_switch below pit_irq_handler.
Ctx == {"none", "entry", "yield", "irq"}
Creating == {"alloc", "ustack", "ctx", "ready"}
PC == {"create", "start", "idle", "off", "pit_init", "prompt", "call_yield",
       "sleep", "user", "syscall", "sysret", "halted"} \union Creating

unusedTask == [state |-> "UNUSED", id |-> 0, is_user |-> FALSE,
               stack_top |-> 0, user_stack_top |-> 0, ctx |-> "none"]

\* The pages that are in use when the scheduler starts.
BootPages == 0 .. RESERVED_PAGES + driver_pages - 1

\* scheduler_init, reached from kernel_main after the drivers are up.
Init ==
  /\ driver_pages \in DRIVER_PAGES
  /\ pmm_bitmap = BootPages
  /\ tasks = [s \in Slot |-> unusedTask]
  /\ current_task_id = BOOT
  /\ next_task_id = 0
  /\ rsp0 = 0
  /\ intr = TRUE
  /\ irq0_in_service = FALSE
  /\ pit_on = FALSE
  /\ pc = [t \in Thread |-> IF t = BOOT THEN "create" ELSE "off"]
  /\ mk = [cmd |-> "boot", slot |-> 0, pages |-> 0, bottom |-> 0]
  /\ line = FALSE
  /\ sleep = 0
  /\ exited = {}

----------------------------------------------------------------------------
(* The switch *)

ReadySlots == {s \in Slot : tasks[s].state = "READY"}

\* Mutant of Distance: the search always starts at slot 0.
DistanceFromZero(s) == s

\* How far slot s is from the slot after the current one, going round.
Distance(s) == (s - (current_task_id + 1)) % MAX_TASKS

\* Mutant of find_next_ready_task: the index does not wrap round.
find_next_no_wrap(s) ==
  /\ s \in ReadySlots
  /\ s > current_task_id
  /\ \A r \in ReadySlots : r > current_task_id => s <= r

\* find_next_ready_task returns s.
find_next_ready_task(s) ==
  /\ s \in ReadySlots
  /\ \A r \in ReadySlots : Distance(s) <= Distance(r)

\* scheduler_tick returns without switching.
NoSwitch == \A s \in Slot \ {current_task_id} : ~find_next_ready_task(s)

\* Where a thread suspended inside scheduler_yield, or one that comes back from
\* it, continues.
AfterYield(p) == IF p = "syscall" THEN "sysret" ELSE "prompt"

\* What the resumed task does before interrupts are on again: a fresh user task
\* goes through user_task_bootstrap and iretq, a yielder returns to the sti of
\* scheduler_yield, an interrupted one to the EOI and iretq of its interrupt.
ResumePc(n) ==
  IF tasks[n].ctx = "irq" THEN pc[n]
  ELSE IF tasks[n].ctx = "yield" THEN AfterYield(pc[n])
  ELSE IF tasks[n].is_user THEN "user" ELSE "pit_init"

\* Mutant of SwitchTo: a task interrupted by IRQ0 comes back without an EOI.
SwitchWithoutEoi(n, how, at, inService) ==
  LET old == current_task_id IN
  /\ tasks' = [tasks EXCEPT ![old].state = "READY", ![old].ctx = how,
                            ![n].state = "RUNNING"]
  /\ current_task_id' = n
  /\ rsp0' = tasks[n].stack_top
  /\ pc' = [pc EXCEPT ![old] = at, ![n] = ResumePc(n)]
  /\ intr' = (tasks[n].is_user \/ tasks[n].ctx # "entry")
  /\ irq0_in_service' = inService

\* scheduler_tick switches to n: the old task's context is saved with its rip at
\* "how" and its own code at "at"; inService is IRQ0's in-service bit on entry.
\* The end-of-interrupt is sent only on the path below pit_irq_handler.
SwitchTo(n, how, at, inService) ==
  LET old == current_task_id IN
  /\ tasks' = [tasks EXCEPT ![old].state = "READY", ![old].ctx = how,
                            ![n].state = "RUNNING"]
  /\ current_task_id' = n
  /\ rsp0' = tasks[n].stack_top
  /\ pc' = [pc EXCEPT ![old] = at, ![n] = ResumePc(n)]
  /\ intr' = (tasks[n].is_user \/ tasks[n].ctx # "entry")
  /\ irq0_in_service' = (inService /\ tasks[n].ctx # "irq")

\* scheduler_yield: cli; scheduler_tick; sti.
scheduler_yield(at) ==
  /\ \/ \E n \in Slot \ {current_task_id} :
          find_next_ready_task(n) /\ SwitchTo(n, "yield", at, irq0_in_service)
     \/ /\ NoSwitch
        /\ pc' = [pc EXCEPT ![current_task_id] = AfterYield(at)]
        /\ intr' = TRUE
        /\ UNCHANGED <<tasks, current_task_id, rsp0, irq0_in_service>>
  /\ UNCHANGED <<pmm_bitmap, driver_pages, next_task_id, pit_on, mk, line,
                 sleep>>

\* pit_ticks++, seen from the thread that waits for its target.
TickSleep == IF sleep > 0 THEN sleep - 1 ELSE 0

\* IRQ0 with pit_irq_handler registered: count the tick, scheduler_tick, and the
\* EOI of interrupt_handler once the handler has returned. (Before pit_init no
\* handler is registered, interrupt_handler just sends the EOI, and no state of
\* this module changes.)
PitTick ==
  /\ intr /\ ~irq0_in_service /\ pit_on
  /\ sleep' = TickSleep
  /\ \/ \E n \in Slot \ {current_task_id} :
          /\ find_next_ready_task(n)
          /\ SwitchTo(n, "irq", pc[current_task_id], TRUE)
     \/ /\ NoSwitch
        /\ UNCHANGED <<tasks, current_task_id, rsp0, pc, intr, irq0_in_service>>
  /\ UNCHANGED <<pmm_bitmap, driver_pages, next_task_id, pit_on, mk, line,
                 exited>>

\* IRQ1: the keystroke that completes a line is queued. The PIC holds it back
\* while IRQ0, which has priority, is in service.
KeyboardIrq ==
  /\ intr /\ ~irq0_in_service
  /\ ~line
  /\ line' = TRUE
  /\ UNCHANGED <<pmm_bitmap, driver_pages, tasks, current_task_id, next_task_id,
                 rsp0, intr, irq0_in_service, pit_on, pc, mk, sleep, exited>>

----------------------------------------------------------------------------
(* Creating a task: scheduler_create_task (cmd "boot"), and                *)
(* scheduler_create_user_task called by cmd_usermode with interrupts on    *)
(* and by cmd_exec with interrupts off.                                    *)

\* Mutant of Return: cmd_exec forgets the sti of its return paths.
ReturnWithoutSti(ok) ==
  /\ pc' = [pc EXCEPT ![current_task_id] =
              IF mk.cmd = "boot" THEN "start"
              ELSE IF ok THEN "call_yield" ELSE "prompt"]
  /\ UNCHANGED intr

\* The create call returns: kernel_main ignores the result, the commands yield
\* on success and go back to the prompt on failure; cmd_exec does its sti.
Return(ok) ==
  /\ pc' = [pc EXCEPT ![current_task_id] =
              IF mk.cmd = "boot" THEN "start"
              ELSE IF ok THEN "call_yield" ELSE "prompt"]
  /\ intr' = (intr \/ mk.cmd = "exec")

\* The first slot that is free: none when every slot was used once, because no
\* code ever marks a task DEAD.
IsFreeSlot(s) ==
  /\ tasks[s].state \in {"UNUSED", "DEAD"}
  /\ \A r \in Slot : r < s => tasks[r].state \notin {"UNUSED", "DEAD"}

\* Mutant of ClaimedTask: the slot is made READY before it is set up.
ClaimedReady(s) ==
  [tasks[s] EXCEPT !.id = next_task_id, !.state = "READY",
                   !.is_user = (mk.cmd # "boot")]

\* The slot's record once it has its id; it stays UNUSED while it is set up.
ClaimedTask(s) ==
  [tasks[s] EXCEPT !.id = next_task_id, !.state = "UNUSED",
                   !.is_user = (mk.cmd # "boot")]

\* Take the slot, give it an id, leave it UNUSED while it is being set up.
TakeSlot ==
  /\ pc[current_task_id] = "create"
  /\ next_task_id < MAX_CREATES
  /\ \/ \E s \in Slot :
          /\ IsFreeSlot(s)
          /\ tasks' = [tasks EXCEPT ![s] = ClaimedTask(s)]
          /\ next_task_id' = next_task_id + 1
          /\ mk' = [cmd |-> mk.cmd, slot |-> s, pages |-> 0, bottom |-> NULL]
          /\ pc' = [pc EXCEPT ![current_task_id] = "alloc"]
          /\ exited' = exited \ {s}
          /\ UNCHANGED intr
     \/ /\ \A s \in Slot : ~IsFreeSlot(s)
        /\ Return(FALSE)
        /\ UNCHANGED <<tasks, next_task_id, mk, exited>>
  /\ UNCHANGED <<pmm_bitmap, driver_pages, current_task_id, rsp0,
                 irq0_in_service, pit_on, line, sleep>>

\* One page of the kernel stack. Only the first page's address is kept: the four
\* pages are taken to be consecutive. On failure the pages already taken leak.
AllocStackPage ==
  /\ pc[current_task_id] = "alloc"
  /\ \/ \E p \in Managed :
          /\ pmm_alloc_page(p)
          /\ mk' = [cmd |-> mk.cmd, slot |-> mk.slot, pages |-> mk.pages + 1,
                    bottom |-> IF mk.pages = 0 THEN p ELSE mk.bottom]
          /\ pc' = [pc EXCEPT ![current_task_id] =
                      IF mk.pages + 1 < STACK_PAGES THEN "alloc"
                      ELSE IF mk.cmd = "boot" THEN "ctx" ELSE "ustack"]
          /\ tasks' = [tasks EXCEPT ![mk.slot].stack_top =
                         IF mk.pages + 1 < STACK_PAGES THEN @
                         ELSE mk'.bottom + STACK_PAGES]
          /\ UNCHANGED intr
     \/ /\ pmm_alloc_fails
        /\ Return(FALSE)
        /\ UNCHANGED <<mk, tasks>>
  /\ UNCHANGED <<driver_pages, current_task_id, next_task_id, rsp0,
                 irq0_in_service, pit_on, line, sleep, exited>>

\* Mutant of AllocUserStack: a failed allocation is not noticed.
AllocUserStackUnchecked ==
  /\ pc[current_task_id] = "ustack"
  /\ \/ \E p \in Managed :
          /\ pmm_alloc_page(p)
          /\ tasks' = [tasks EXCEPT ![mk.slot].user_stack_top = p + 1]
     \/ /\ pmm_alloc_fails
        /\ tasks' = [tasks EXCEPT ![mk.slot].user_stack_top = NULL + 1]
  /\ pc' = [pc EXCEPT ![current_task_id] = "ctx"]
  /\ UNCHANGED <<driver_pages, current_task_id, next_task_id, rsp0, intr,
                 irq0_in_service, pit_on, mk, line, sleep, exited>>

\* The separate 4 KB stack of a user task.
AllocUserStack ==
  /\ pc[current_task_id] = "ustack"
  /\ \/ \E p \in Managed :
          /\ pmm_alloc_page(p)
          /\ tasks' = [tasks EXCEPT ![mk.slot].user_stack_top = p + 1]
          /\ pc' = [pc EXCEPT ![current_task_id] = "ctx"]
          /\ UNCHANGED intr
     \/ /\ pmm_alloc_fails
        /\ Return(FALSE)
        /\ UNCHANGED tasks
  /\ UNCHANGED <<driver_pages, current_task_id, next_task_id, rsp0,
                 irq0_in_service, pit_on, mk, line, sleep, exited>>

\* The initial frame and the saved registers.
InitContext ==
  /\ pc[current_task_id] = "ctx"
  /\ tasks' = [tasks EXCEPT ![mk.slot].ctx = "entry"]
  /\ pc' = [pc EXCEPT ![current_task_id] = "ready"]
  /\ UNCHANGED <<pmm_bitmap, driver_pages, current_task_id, next_task_id, rsp0,
                 intr, irq0_in_service, pit_on, mk, line, sleep, exited>>

\* state = TASK_READY, only after everything is initialised, and the return.
Publish ==
  /\ pc[current_task_id] = "ready"
  /\ tasks' = [tasks EXCEPT ![mk.slot].state = "READY"]
  /\ Return(TRUE)
  /\ UNCHANGED <<pmm_bitmap, driver_pages, current_task_id, next_task_id, rsp0,
                 irq0_in_service, pit_on, mk, line, sleep, exited>>

CreateStep ==
  TakeSlot \/ AllocStackPage \/ AllocUserStack \/ InitContext \/ Publish

----------------------------------------------------------------------------
(* The boot thread and the shell *)

\* scheduler_start: cli, current_task_id = -1, the first READY slot, RUNNING
\* slots back to READY, and the one-way jump of scheduler_start_first_task,
\* which does sti. Without a READY task it returns and kernel_main halts.
scheduler_start ==
  /\ pc[current_task_id] = "start"
  /\ \/ \E n \in ReadySlots :
          /\ \A r \in ReadySlots : n <= r
          /\ tasks' = [s \in Slot |->
                         [tasks[s] EXCEPT !.state =
                            IF s = n THEN "RUNNING"
                            ELSE IF @ = "RUNNING" THEN "READY" ELSE @]]
          /\ current_task_id' = n
          /\ rsp0' = tasks[n].stack_top
          /\ pc' = [pc EXCEPT ![BOOT] = "off", ![n] = "pit_init"]
     \/ /\ ReadySlots = {}
        /\ pc' = [pc EXCEPT ![current_task_id] = "idle"]
        /\ UNCHANGED <<tasks, current_task_id, rsp0>>
  /\ intr' = TRUE
  /\ UNCHANGED <<pmm_bitmap, driver_pages, next_task_id, irq0_in_service, pit_on,
                 mk, line, sleep, exited>>

\* shell_run begins with pit_init(100), which registers pit_irq_handler.
pit_init ==
  /\ pc[current_task_id] = "pit_init"
  /\ pit_on' = TRUE
  /\ pc' = [pc EXCEPT ![current_task_id] = "prompt"]
  /\ UNCHANGED <<pmm_bitmap, driver_pages, tasks, current_task_id, next_task_id,
                 rsp0, intr, irq0_in_service, mk, line, sleep, exited>>

\* keyboard_getchar also polls COM1: input arrives without an interrupt.
\* The shell is the only thread that reads input.
PollSerial ==
  /\ pc[current_task_id] = "prompt"
  /\ ~line
  /\ line' = TRUE
  /\ UNCHANGED <<pmm_bitmap, driver_pages, tasks, current_task_id, next_task_id,
                 rsp0, intr, irq0_in_service, pit_on, pc, mk, sleep, exited>>

\* A command line is taken: cmd_usermode, cmd_exec (cli, then the program is
\* loaded or the load fails and the sti of the error path runs), or cmd_ping.
RunCommand(cmd) ==
  /\ pc[current_task_id] = "prompt"
  /\ line
  /\ line' = FALSE
  /\ \/ /\ cmd \in {"usermode", "exec"}
        /\ next_task_id < MAX_CREATES
        /\ mk' = [mk EXCEPT !.cmd = cmd]
        /\ pc' = [pc EXCEPT ![current_task_id] = "create"]
        /\ intr' = (intr /\ cmd # "exec")
        /\ UNCHANGED sleep
     \/ /\ cmd = "exec_fails"
        /\ intr' = TRUE
        /\ UNCHANGED <<mk, pc, sleep>>
     \/ /\ cmd = "ping"
        /\ pc' = [pc EXCEPT ![current_task_id] = "sleep"]
        /\ sleep' = SLEEP_TICKS
        /\ UNCHANGED <<mk, intr>>
  /\ UNCHANGED <<pmm_bitmap, driver_pages, tasks, current_task_id, next_task_id,
                 rsp0, irq0_in_service, pit_on, exited>>

\* pit_sleep_ms: hlt until pit_ticks reaches the target.
SleepDone ==
  /\ pc[current_task_id] = "sleep"
  /\ sleep = 0
  /\ pc' = [pc EXCEPT ![current_task_id] = "prompt"]
  /\ UNCHANGED <<pmm_bitmap, driver_pages, tasks, current_task_id, next_task_id,
                 rsp0, intr, irq0_in_service, pit_on, mk, line, sleep, exited>>

\* The scheduler_yield at the end of cmd_usermode and cmd_exec.
ShellYield ==
  /\ pc[current_task_id] = "call_yield"
  /\ scheduler_yield("call_yield")
  /\ UNCHANGED exited

----------------------------------------------------------------------------
(* User tasks. int 0x80 is an interrupt gate: the handler runs with IF = 0 *)
(* until a scheduler_yield inside it does sti. SYS_WRITE and an unknown    *)
(* number return to ring 3 with none of this state changed.                *)

\* SYS_YIELD
UserYield ==
  /\ pc[current_task_id] = "user"
  /\ "SYS_YIELD" \in USER_CALLS
  /\ scheduler_yield("syscall")
  /\ UNCHANGED exited

\* SYS_EXIT: prints, and yields.
UserExit ==
  /\ pc[current_task_id] = "user"
  /\ "SYS_EXIT" \in USER_CALLS
  /\ scheduler_yield("syscall")
  /\ exited' = exited \union {current_task_id}

\* The return from int 0x80 after a yield: iretq to ring 3.
SysRet ==
  /\ pc[current_task_id] = "sysret"
  /\ pc' = [pc EXCEPT ![current_task_id] = "user"]
  /\ intr' = TRUE
  /\ UNCHANGED <<pmm_bitmap, driver_pages, tasks, current_task_id, next_task_id,
                 rsp0, irq0_in_service, pit_on, mk, line, sleep, exited>>

\* An exception in ring 3: page_fault_handler, gp_fault_handler and the default
\* of interrupt_handler all print and stop in a hlt loop with interrupts off.
UserFault ==
  /\ pc[current_task_id] = "user"
  /\ "FAULT" \in USER_CALLS
  /\ pc' = [pc EXCEPT ![current_task_id] = "halted"]
  /\ intr' = FALSE
  /\ UNCHANGED <<pmm_bitmap, driver_pages, tasks, current_task_id, next_task_id,
                 rsp0, irq0_in_service, pit_on, mk, line, sleep, exited>>

Commands == {"usermode", "exec", "exec_fails", "ping"}

\* The steps of the running thread that it takes without waiting for anyone.
ThreadStep ==
  \/ CreateStep \/ scheduler_start \/ pit_init
  \/ SleepDone \/ ShellYield \/ SysRet

Next ==
  \/ ThreadStep
  \/ PitTick \/ KeyboardIrq
  \/ PollSerial \/ (\E cmd \in Commands : RunCommand(cmd))
  \/ UserYield \/ UserExit \/ UserFault

Spec == Init /\ [][Next]_vars

StepOf(t) == current_task_id = t /\ ThreadStep

\* A thread that gets the CPU again and again makes progress (a tick comes every
\* 10 ms), a user program keeps calling SYS_YIELD as the shipped ones do, and the
\* timer keeps raising IRQ0: the PIC latches a request it cannot deliver, so a
\* tick is not lost because interrupts happened to be off. Nobody has to type.
Fairness ==
  /\ \A t \in Thread : SF_vars(StepOf(t))
  /\ WF_vars(UserYield)
  /\ SF_vars(PitTick)

FairSpec == Spec /\ Fairness

----------------------------------------------------------------------------
(* Properties *)

TaskRecord == [state : State, id : Nat, is_user : BOOLEAN, stack_top : Nat,
               user_stack_top : Nat, ctx : Ctx]

\* The type invariant of the task table, the CPU and the threads.
TypeOK ==
  /\ pmm_bitmap \subseteq Page
  /\ driver_pages \in DRIVER_PAGES
  /\ tasks \in [Slot -> TaskRecord]
  /\ current_task_id \in Thread
  /\ next_task_id \in Nat
  /\ rsp0 \in Nat
  /\ intr \in BOOLEAN
  /\ irq0_in_service \in BOOLEAN
  /\ pit_on \in BOOLEAN
  /\ pc \in [Thread -> PC]
  /\ mk \in [cmd : {"boot", "usermode", "exec"}, slot : Slot,
             pages : 0 .. STACK_PAGES, bottom : Nat]
  /\ line \in BOOLEAN
  /\ sleep \in Nat
  /\ exited \subseteq Slot

Live(s) == tasks[s].state \in {"READY", "RUNNING"}
KernelStack(s) == tasks[s].stack_top - STACK_PAGES .. tasks[s].stack_top - 1
UserStack(s) ==
  IF tasks[s].is_user THEN {tasks[s].user_stack_top - 1} ELSE {}
Stacks(s) == KernelStack(s) \union UserStack(s)

\* scheduler_tick and scheduler_start keep exactly one task RUNNING, the one
\* current_task_id names, through every interleaving of ticks, yields and
\* creations.
OneRunning == \A s \in Slot : tasks[s].state = "RUNNING" <=> s = current_task_id

\* "mark task runnable only after everything is initialized": a tick in the
\* middle of a create call never finds a runnable task without a context, a
\* kernel stack or (in ring 3) a user stack.
RunnableIsComplete ==
  \A s \in Slot : Live(s) =>
    /\ tasks[s].ctx # "none"
    /\ KernelStack(s) \subseteq Managed
    /\ UserStack(s) \subseteq Managed

\* The four pages of a stack are taken one by one, with ticks in between, and
\* assumed consecutive: the pages of every runnable task are pages the allocator
\* gave out, are not the network driver's, and belong to no other task.
StacksAreOwned ==
  \A s \in Slot : Live(s) =>
    /\ Stacks(s) \subseteq pmm_bitmap \ BootPages
    /\ KernelStack(s) \intersect UserStack(s) = {}
    /\ \A r \in Slot \ {s} : Live(r) => Stacks(s) \intersect Stacks(r) = {}

\* An interrupt or system call from ring 3 lands on the kernel stack of the task
\* that was interrupted, however the CPU came to that task.
Rsp0IsCurrents ==
  current_task_id # BOOT => rsp0 = tasks[current_task_id].stack_top

\* Interrupts stay off only inside cmd_exec and after a fatal exception: every
\* other path, the error returns of the create calls included, turns them on.
\* After a fatal exception they stay off, so nothing runs any more.
InterruptsRestored ==
  /\ ~intr =>
       \/ mk.cmd = "exec" /\ pc[current_task_id] \in Creating \union {"create"}
       \/ pc[current_task_id] = "halted"
  /\ pc[current_task_id] = "halted" => ~intr

\* IRQ0 left in service by a switch below pit_irq_handler is always owed its EOI
\* by some suspended task: resuming that task is the only way the timer and the
\* keyboard come back.
EoiIsOwed ==
  irq0_in_service => \E s \in ReadySlots : tasks[s].ctx = "irq"

\* The task table implements the abstract ring of CpuRing: the CPU passes only
\* round-robin between published tasks, and a published task stays published.
Ring == INSTANCE CpuRing WITH
  Size <- MAX_TASKS,
  owner <- current_task_id,
  admitted <- {s \in Slot : Live(s)}
ImplementsRing == Ring!RingSpec

\* The shell gets the CPU back after it starts user programs that yield, with or
\* without the timer.
ShellRegainsCpu ==
  tasks[SHELL].state = "READY" ~> tasks[SHELL].state = "RUNNING"

\* find_next_ready_task is a rotation: as long as the CPU keeps changing hands
\* no READY task is passed over for ever.
NoStarvation ==
  []<><<current_task_id' # current_task_id>>_vars =>
    \A s \in Slot : tasks[s].state = "READY" ~> tasks[s].state = "RUNNING"

\* README.md: "preemptive multitasking": a READY task eventually runs because
\* the timer takes the CPU away from whoever has it.
EveryReadyTaskRuns ==
  \A s \in Slot : tasks[s].state = "READY" ~> tasks[s].state = "RUNNING"

\* pit.c: pit_sleep_ms waits "for approximately the given number of
\* milliseconds": it ends.
SleepEnds == pc[SHELL] = "sleep" ~> pc[SHELL] # "sleep"

\* syscall.c: SYS_EXIT is to "mark the task as dead".
ExitedIsDead == \A s \in exited : tasks[s].state = "DEAD"

----------------------------------------------------------------------------
(* The inductive invariant behind the theorems of SchedulerProofs          *)

KernelPC == {"create", "start", "idle", "pit_init", "prompt", "call_yield",
             "sleep"} \union Creating

\* First fit without a free: the used pages are a prefix of memory.
UsedIsPrefix ==
  /\ BootPages \subseteq pmm_bitmap
  /\ \A p \in pmm_bitmap : \A q \in 0 .. p : q \in pmm_bitmap

\* Until scheduler_start, kernel_main is the only thread, no task runs, and the
\* timer interrupt does not reach the scheduler.
BootPhase ==
  IF current_task_id = BOOT
  THEN /\ ~pit_on /\ ~irq0_in_service /\ intr
       /\ mk.cmd = "boot"
       /\ pc[BOOT] \in {"create", "start", "idle"} \union (Creating \ {"ustack"})
       /\ \A s \in Slot : ~tasks[s].is_user /\ pc[s] = "off"
       /\ \A s, r \in Slot : Live(s) /\ Live(r) => s = r
       /\ pc[BOOT] \notin {"start", "idle"} => \A s \in Slot : ~Live(s)
  ELSE pc[BOOT] = "off"

\* After boot exactly one task, the shell, runs kernel code of its own; it has
\* started. A user task that has not run yet is "off".
TaskCode ==
  current_task_id # BOOT =>
    /\ \A s \in Slot :
         /\ ~Live(s) => pc[s] = "off"
         /\ Live(s) /\ ~tasks[s].is_user =>
              /\ pc[s] \in KernelPC \ {"idle", "start"}
              /\ s # current_task_id => tasks[s].ctx \in {"yield", "irq"}
         /\ Live(s) /\ tasks[s].is_user =>
              \/ s = current_task_id /\ pc[s] \in {"user", "sysret", "halted"}
              \/ /\ s # current_task_id
                 /\ <<tasks[s].ctx, pc[s]>> \in
                      {<<"entry", "off">>, <<"yield", "syscall">>,
                       <<"irq", "user">>, <<"irq", "sysret">>}
         /\ pc[s] \in Creating \union {"create"} => mk.cmd # "boot"
    /\ \A s, r \in Slot :
         Live(s) /\ Live(r) /\ ~tasks[s].is_user /\ ~tasks[r].is_user => s = r

\* The pages a set of live tasks must not touch while they belong to the create
\* call in progress.
Unclaimed(pages) ==
  /\ pages \subseteq pmm_bitmap \ BootPages
  /\ \A s \in Slot : Live(s) => Stacks(s) \intersect pages = {}

\* What the create call in progress holds when its code is at p.
CreateHolds(p) ==
  LET s == mk.slot IN
  /\ ~Live(s)
  /\ tasks[s].is_user = (mk.cmd # "boot")
  /\ p = "alloc" =>
       /\ mk.pages < STACK_PAGES
       /\ mk.pages > 0 =>
            /\ Unclaimed(mk.bottom .. mk.bottom + mk.pages - 1)
            /\ \A q \in pmm_bitmap : q < mk.bottom + mk.pages
  /\ p # "alloc" =>
       /\ tasks[s].stack_top >= STACK_PAGES
       /\ Unclaimed(KernelStack(s))
  /\ p \in {"ctx", "ready"} =>
       /\ mk.cmd # "boot" => tasks[s].user_stack_top > 0
       /\ Unclaimed(UserStack(s))
       /\ KernelStack(s) \intersect UserStack(s) = {}
  /\ p = "ready" => tasks[s].ctx = "entry"

CreateInProgress ==
  \A t \in Thread : pc[t] \in Creating => CreateHolds(pc[t])

\* A runnable task's stack_top is above a whole stack.
StackTops ==
  \A s \in Slot : Live(s) =>
    /\ tasks[s].stack_top >= STACK_PAGES
    /\ tasks[s].is_user => tasks[s].user_stack_top > 0

\* The inductive invariant: each create call, preempted or not, holds pages that
\* no runnable task has, and only the shell can be in one.
IInv ==
  /\ TypeOK /\ OneRunning /\ RunnableIsComplete /\ StacksAreOwned
  /\ Rsp0IsCurrents /\ InterruptsRestored /\ EoiIsOwed
  /\ UsedIsPrefix /\ BootPhase /\ TaskCode /\ CreateInProgress /\ StackTops
=============================================================================
