-------------------------- MODULE SchedulerProofs --------------------------
(***************************************************************************)
(* Proofs, for every number of slots and pages, that the scheduler's       *)
(* invariants hold in every reachable state. IInv of Scheduler is shown    *)
(* inductive, one lemma per group of actions.                              *)
(***************************************************************************)
EXTENDS Scheduler, TLAPS

(* The part of the invariant that a switch can disturb, and the part that  *)
(* depends on which tasks are live.                                        *)

\* What SwitchTo does to the task table and the program counters.
SwitchEffect(n, how, at) ==
  /\ current_task_id \in Slot
  /\ tasks' \in [Slot -> TaskRecord]
  /\ \A s \in Slot :
       /\ tasks'[s].id = tasks[s].id
       /\ tasks'[s].is_user = tasks[s].is_user
       /\ tasks'[s].stack_top = tasks[s].stack_top
       /\ tasks'[s].user_stack_top = tasks[s].user_stack_top
       /\ tasks'[s].ctx = IF s = current_task_id THEN how ELSE tasks[s].ctx
       /\ tasks'[s].state = IF s = n THEN "RUNNING"
                            ELSE IF s = current_task_id THEN "READY"
                            ELSE tasks[s].state
  /\ tasks[n].state = "READY"
  /\ tasks[current_task_id].state = "RUNNING"
  /\ Live(n) /\ Live(current_task_id)
  /\ \A s \in Slot : Live(s)' <=> Live(s)
  /\ \A s \in Slot : KernelStack(s)' = KernelStack(s)
  /\ \A s \in Slot : UserStack(s)' = UserStack(s)
  /\ \A s \in Slot : Stacks(s)' = Stacks(s)
  /\ pc' \in [Thread -> PC]
  /\ \A t \in Thread :
       pc'[t] = IF t = n THEN ResumePc(n)
                ELSE IF t = current_task_id THEN at ELSE pc[t]

\* A switch between two live tasks leaves the set of live tasks, their stacks,
\* and the create call in progress as they were.
LEMMA SwitchFacts ==
  ASSUME IInv,
         NEW n \in Slot \ {current_task_id}, n \in ReadySlots,
         current_task_id # BOOT,
         NEW how \in {"yield", "irq"}, NEW at \in PC, NEW isv \in BOOLEAN,
         SwitchTo(n, how, at, isv)
  PROVE  SwitchEffect(n, how, at)
  <1> DEFINE c == current_task_id
  <1>1. c \in Slot /\ n \in Slot /\ n # c /\ tasks \in [Slot -> TaskRecord]
        /\ pc \in [Thread -> PC]
    BY DEF IInv, TypeOK, Thread
  <1>2. tasks' = [tasks EXCEPT ![c].state = "READY", ![c].ctx = how,
                               ![n].state = "RUNNING"]
    BY DEF SwitchTo
  <1>3. /\ tasks' \in [Slot -> TaskRecord]
        /\ \A s \in Slot :
              /\ tasks'[s].id = tasks[s].id
              /\ tasks'[s].is_user = tasks[s].is_user
              /\ tasks'[s].stack_top = tasks[s].stack_top
              /\ tasks'[s].user_stack_top = tasks[s].user_stack_top
              /\ tasks'[s].ctx = IF s = c THEN how ELSE tasks[s].ctx
              /\ tasks'[s].state = IF s = n THEN "RUNNING"
                                   ELSE IF s = c THEN "READY"
                                   ELSE tasks[s].state
    BY <1>1, <1>2 DEF TaskRecord, State, Ctx
  <1>4. tasks[n].state = "READY" /\ tasks[c].state = "RUNNING"
    BY <1>1 DEF IInv, OneRunning, ReadySlots
  <1>5. /\ Live(n) /\ Live(c)
        /\ \A s \in Slot : Live(s)' <=> Live(s)
    BY <1>1, <1>3, <1>4 DEF Live
  <1>6. /\ \A s \in Slot : KernelStack(s)' = KernelStack(s)
        /\ \A s \in Slot : UserStack(s)' = UserStack(s)
        /\ \A s \in Slot : Stacks(s)' = Stacks(s)
    BY <1>3 DEF KernelStack, UserStack, Stacks
  <1>7. ResumePc(n) \in PC
    BY <1>1 DEF ResumePc, AfterYield, PC, Thread, TaskRecord, Ctx
  <1>8. /\ pc' \in [Thread -> PC]
        /\ \A t \in Thread :
              pc'[t] = IF t = n THEN ResumePc(n) ELSE IF t = c THEN at ELSE pc[t]
    <2>1. pc' = [pc EXCEPT ![c] = at, ![n] = ResumePc(n)]
      BY DEF SwitchTo
    <2> QED BY <1>1, <1>7, <2>1 DEF Thread
  <1> QED BY <1>1, <1>3, <1>4, <1>5, <1>6, <1>8 DEF SwitchEffect

\* Everything of IInv that a switch can disturb holds after it, whoever caused it.
LEMMA SwitchKeepsInv ==
  ASSUME IInv,
         NEW n \in Slot \ {current_task_id}, n \in ReadySlots,
         current_task_id # BOOT,
         NEW how \in {"yield", "irq"}, NEW at \in PC, NEW isv \in BOOLEAN,
         SwitchTo(n, how, at, isv),
         isv => how = "irq" \/ irq0_in_service,
         tasks[current_task_id].is_user =>
           <<how, at>> \in {<<"yield", "syscall">>, <<"irq", "user">>,
                            <<"irq", "sysret">>},
         ~tasks[current_task_id].is_user =>
           \/ at = pc[current_task_id]
           \/ at = "call_yield",
         UNCHANGED <<pmm_bitmap, driver_pages, next_task_id, pit_on, mk, line>>,
         sleep' \in Nat, exited' \subseteq Slot
  PROVE  IInv'
  <1> DEFINE c == current_task_id
  <1>f. SwitchEffect(n, how, at)
    BY SwitchFacts
  <1>x. /\ c \in Slot /\ n \in Slot /\ n # c
    BY <1>f DEF SwitchEffect
  <1>y. BOOT \notin Slot
    BY SchedulerAssumption DEF Slot, BOOT
  <1>z. /\ current_task_id' = n /\ rsp0' = tasks[n].stack_top
        /\ intr' = (tasks[n].is_user \/ tasks[n].ctx # "entry")
        /\ irq0_in_service' = (isv /\ tasks[n].ctx # "irq")
    BY Zenon DEF SwitchTo
  <1>0. /\ c \in Slot /\ n \in Slot /\ n # c /\ BOOT \notin Slot
        /\ current_task_id' = n /\ rsp0' = tasks[n].stack_top
        /\ intr' = (tasks[n].is_user \/ tasks[n].ctx # "entry")
        /\ irq0_in_service' = (isv /\ tasks[n].ctx # "irq")
        /\ pmm_bitmap' = pmm_bitmap /\ mk' = mk /\ driver_pages' = driver_pages
    BY <1>x, <1>y, <1>z
  <1>a. /\ tasks \in [Slot -> TaskRecord] /\ pc \in [Thread -> PC]
        /\ intr \in BOOLEAN /\ irq0_in_service \in BOOLEAN
    BY DEF IInv, TypeOK
  <1>b. tasks[n].stack_top \in Nat /\ tasks[n].is_user \in BOOLEAN
    BY <1>0, <1>a DEF TaskRecord
  <1> USE <1>f DEF SwitchEffect
  <1>1. TypeOK'
    BY <1>0, <1>a, <1>b DEF IInv, TypeOK, Thread
  <1>2. OneRunning'
    BY <1>0 DEF OneRunning, IInv
  <1>3. RunnableIsComplete'
    <2> SUFFICES ASSUME NEW s \in Slot, Live(s)'
                 PROVE  /\ tasks'[s].ctx # "none"
                        /\ KernelStack(s)' \subseteq Managed
                        /\ UserStack(s)' \subseteq Managed
      BY DEF RunnableIsComplete, Managed
    <2> QED BY <1>0 DEF RunnableIsComplete, IInv
  <1>4. StacksAreOwned'
    BY <1>0 DEF StacksAreOwned, IInv, BootPages
  <1>5. Rsp0IsCurrents'
    BY <1>0 DEF Rsp0IsCurrents
  <1>6. tasks[n].ctx # "entry" \/ tasks[n].is_user
    BY <1>0, <1>a DEF IInv, TaskCode
  <1>7. InterruptsRestored'
    <2>1. pc'[n] # "halted"
      BY <1>0, <1>a, <1>b DEF IInv, TaskCode, ResumePc, AfterYield, KernelPC,
                              Creating, Thread
    <2> QED BY <1>0, <1>6, <2>1 DEF InterruptsRestored
  <1>8. EoiIsOwed'
    <2> SUFFICES ASSUME isv, tasks[n].ctx # "irq"
                 PROVE  \E s \in Slot : tasks'[s].state = "READY" /\ tasks'[s].ctx = "irq"
      BY <1>0 DEF EoiIsOwed, ReadySlots
    <2>1. CASE how = "irq"
      BY <1>0, <2>1
    <2>2. CASE irq0_in_service
      <3>1. PICK s \in Slot : tasks[s].state = "READY" /\ tasks[s].ctx = "irq"
        BY <2>2 DEF IInv, EoiIsOwed, ReadySlots
      <3>2. s # n /\ s # c
        BY <3>1, <1>0
      <3> QED BY <3>1, <3>2, <1>0
    <2> QED BY <2>1, <2>2
  <1>9. UsedIsPrefix'
    BY <1>0 DEF UsedIsPrefix, IInv, BootPages
  <1>10. BootPhase'
    <2>1. pc[BOOT] = "off" BY DEF IInv, BootPhase
    <2> QED BY <1>0, <2>1 DEF BootPhase, Thread
  <1>11. TaskCode'
    <2>1. \A s \in Slot :
            /\ ~Live(s)' => pc'[s] = "off"
            /\ Live(s)' /\ ~tasks'[s].is_user =>
                 /\ pc'[s] \in KernelPC \ {"idle", "start"}
                 /\ s # current_task_id' => tasks'[s].ctx \in {"yield", "irq"}
            /\ Live(s)' /\ tasks'[s].is_user =>
                 \/ s = current_task_id' /\ pc'[s] \in {"user", "sysret", "halted"}
                 \/ /\ s # current_task_id'
                    /\ <<tasks'[s].ctx, pc'[s]>> \in
                         {<<"entry", "off">>, <<"yield", "syscall">>,
                          <<"irq", "user">>, <<"irq", "sysret">>}
            /\ pc'[s] \in Creating \union {"create"} => mk'.cmd # "boot"
      <3> TAKE s \in Slot
      <3>0. s \in Thread BY DEF Thread
      <3>1. CASE s = n
        BY <3>0, <3>1, <1>0, <1>6, <1>a, <1>b
           DEF IInv, TaskCode, ResumePc, AfterYield, KernelPC, Creating
      <3>2. CASE s = c
        BY <3>0, <3>2, <1>0, <1>a DEF IInv, TaskCode, KernelPC, Creating
      <3>3. CASE s # n /\ s # c
        BY <3>0, <3>3, <1>0, <1>a DEF IInv, TaskCode
      <3> QED BY <3>1, <3>2, <3>3
    <2>2. \A s, r \in Slot :
            Live(s)' /\ Live(r)' /\ ~tasks'[s].is_user /\ ~tasks'[r].is_user => s = r
      BY <1>0 DEF IInv, TaskCode
    <2> QED BY <2>1, <2>2 DEF TaskCode
  <1>12. CreateInProgress'
    <2> SUFFICES ASSUME NEW t \in Thread, pc'[t] \in Creating
                 PROVE  CreateHolds(pc[t])'
      BY DEF CreateInProgress
    <2>1. pc'[t] = pc[t]
      BY <1>0, <1>a DEF ResumePc, AfterYield, Creating, IInv, TaskCode, Thread
    <2>2. CreateHolds(pc[t])
      BY <2>1 DEF IInv, CreateInProgress
    <2>3. mk.slot \in Slot /\ mk.slot # c
      BY <2>2, <1>0 DEF IInv, TypeOK, CreateHolds
    <2>4. \A pages : Unclaimed(pages)' <=> Unclaimed(pages)
      BY <1>0 DEF Unclaimed, BootPages
    <2> QED BY <2>1, <2>2, <2>3, <2>4, <1>0 DEF CreateHolds
  <1>13. StackTops'
    BY <1>0 DEF StackTops, IInv
  <1> QED BY <1>1, <1>2, <1>3, <1>4, <1>5, <1>7, <1>8, <1>9, <1>10, <1>11,
             <1>12, <1>13 DEF IInv

\* At any time at most one thread runs kernel code of its own, so the thread that
\* is in a create call, if any, is the current one whenever a kernel thread is.
LEMMA OneKernelThread ==
  ASSUME IInv, pc[current_task_id] \in KernelPC
  PROVE  /\ \A t \in Thread \ {current_task_id} : pc[t] \notin Creating \union {"create"}
         /\ current_task_id # BOOT =>
              /\ current_task_id \in Slot
              /\ Live(current_task_id) /\ ~tasks[current_task_id].is_user
  <1>1. CASE current_task_id = BOOT
    BY <1>1 DEF IInv, BootPhase, Thread, Creating
  <1>2. CASE current_task_id # BOOT
    <2>1. current_task_id \in Slot
      BY <1>2 DEF IInv, TypeOK, Thread
    <2>2. Live(current_task_id)
      BY <2>1 DEF IInv, OneRunning, Live
    <2>3. ~tasks[current_task_id].is_user
      BY <1>2, <2>1, <2>2 DEF IInv, TaskCode, KernelPC, Creating
    <2>4. ASSUME NEW t \in Slot, t # current_task_id
          PROVE  pc[t] \notin Creating \union {"create"}
      <3>1. CASE ~Live(t)
        BY <1>2, <3>1 DEF IInv, TaskCode, Creating
      <3>2. CASE Live(t)
        <4>1. tasks[t].is_user
          BY <1>2, <2>1, <2>2, <2>3, <2>4, <3>2 DEF IInv, TaskCode
        <4> QED BY <1>2, <2>4, <3>2, <4>1 DEF IInv, TaskCode, Creating
      <3> QED BY <3>1, <3>2
    <2>5. pc[BOOT] = "off"
      BY <1>2 DEF IInv, BootPhase
    <2> QED BY <2>1, <2>2, <2>3, <2>4, <2>5 DEF Thread, Creating
  <1> QED BY <1>1, <1>2

\* A step of the shell that moves it to p, outside a create call, and touches
\* neither the task table nor memory.
LEMMA ShellStepKeepsInv ==
  ASSUME IInv, current_task_id # BOOT, pc[current_task_id] \in KernelPC,
         NEW p \in KernelPC \ (Creating \union {"idle", "start"}),
         pc' = [pc EXCEPT ![current_task_id] = p],
         mk' \in [cmd : {"boot", "usermode", "exec"}, slot : Slot,
                  pages : 0 .. STACK_PAGES, bottom : Nat],
         p = "create" => mk'.cmd # "boot",
         intr' \in BOOLEAN, ~intr' => mk'.cmd = "exec" /\ p = "create",
         UNCHANGED <<pmm_bitmap, driver_pages, tasks, current_task_id,
                     next_task_id, rsp0, irq0_in_service>>,
         exited' \subseteq Slot,
         pit_on' \in BOOLEAN, line' \in BOOLEAN, sleep' \in Nat
  PROVE  IInv'
  <1> DEFINE c == current_task_id
  <1>1. /\ c \in Slot /\ Live(c) /\ ~tasks[c].is_user
        /\ \A t \in Thread \ {c} : pc[t] \notin Creating \union {"create"}
    BY OneKernelThread
  <1>2. /\ pc \in [Thread -> PC] /\ p \in PC /\ c \in Thread /\ BOOT \in Thread
        /\ Slot \subseteq Thread
    BY <1>1 DEF IInv, TypeOK, KernelPC, PC, Creating, Thread
  <1>3. /\ pc' \in [Thread -> PC]
        /\ pc'[c] = p
        /\ \A t \in Thread \ {c} : pc'[t] = pc[t]
    BY <1>2
  <1>4. \A t \in Thread : pc'[t] \notin Creating
    BY <1>1, <1>2, <1>3
  <1>5. TypeOK'
    BY <1>3 DEF IInv, TypeOK
  <1>6. /\ \A s \in Slot : Live(s)' = Live(s)
        /\ \A s \in Slot : KernelStack(s)' = KernelStack(s)
        /\ \A s \in Slot : UserStack(s)' = UserStack(s)
        /\ \A s \in Slot : Stacks(s)' = Stacks(s)
        /\ BootPages' = BootPages /\ ReadySlots' = ReadySlots
    BY DEF Live, KernelStack, UserStack, Stacks, BootPages, ReadySlots
  <1>7. /\ OneRunning' /\ RunnableIsComplete' /\ StacksAreOwned'
        /\ Rsp0IsCurrents' /\ EoiIsOwed' /\ UsedIsPrefix' /\ StackTops'
    BY <1>6 DEF IInv, OneRunning, RunnableIsComplete, StacksAreOwned,
                Rsp0IsCurrents, EoiIsOwed, UsedIsPrefix, StackTops
  <1>8. InterruptsRestored'
    BY <1>3 DEF InterruptsRestored, KernelPC, Creating
  <1>9. BootPhase'
    BY <1>2, <1>3 DEF IInv, BootPhase
  <1>10. TaskCode'
    BY <1>1, <1>2, <1>3, <1>6 DEF IInv, TaskCode
  <1>11. CreateInProgress'
    BY <1>4 DEF CreateInProgress
  <1> QED BY <1>5, <1>7, <1>8, <1>9, <1>10, <1>11 DEF IInv

\* A step of a user task that moves it to p and touches nothing but the CPU.
LEMMA UserStepKeepsInv ==
  ASSUME IInv, current_task_id # BOOT,
         pc[current_task_id] \in {"user", "sysret", "halted"},
         NEW p \in {"user", "sysret", "halted"},
         pc' = [pc EXCEPT ![current_task_id] = p],
         intr' \in BOOLEAN, intr' <=> p # "halted",
         UNCHANGED <<pmm_bitmap, driver_pages, tasks, current_task_id,
                     next_task_id, rsp0, irq0_in_service, pit_on, mk, line,
                     sleep>>,
         exited' \subseteq Slot
  PROVE  IInv'
  <1> DEFINE c == current_task_id
  <1>1. c \in Slot /\ c \in Thread /\ pc \in [Thread -> PC] /\ p \in PC
        /\ BOOT \in Thread /\ Slot \subseteq Thread /\ c # BOOT
    BY DEF IInv, TypeOK, Thread, PC
  <1>2. Live(c) /\ tasks[c].is_user
    BY <1>1 DEF IInv, OneRunning, Live, TaskCode, KernelPC, Creating
  <1>3. /\ pc' \in [Thread -> PC]
        /\ pc'[c] = p
        /\ \A t \in Thread \ {c} : pc'[t] = pc[t]
    BY <1>1
  <1>5. TypeOK'
    BY <1>3 DEF IInv, TypeOK
  <1>6. /\ \A s \in Slot : Live(s)' = Live(s)
        /\ \A s \in Slot : KernelStack(s)' = KernelStack(s)
        /\ \A s \in Slot : UserStack(s)' = UserStack(s)
        /\ \A s \in Slot : Stacks(s)' = Stacks(s)
        /\ BootPages' = BootPages /\ ReadySlots' = ReadySlots
        /\ \A q : CreateHolds(q)' = CreateHolds(q)
    BY DEF Live, KernelStack, UserStack, Stacks, BootPages, ReadySlots,
           CreateHolds, Unclaimed
  <1>7. /\ OneRunning' /\ RunnableIsComplete' /\ StacksAreOwned'
        /\ Rsp0IsCurrents' /\ EoiIsOwed' /\ UsedIsPrefix' /\ StackTops'
    BY <1>6 DEF IInv, OneRunning, RunnableIsComplete, StacksAreOwned,
                Rsp0IsCurrents, EoiIsOwed, UsedIsPrefix, StackTops
  <1>8. InterruptsRestored'
    BY <1>3 DEF InterruptsRestored
  <1>9. BootPhase'
    BY <1>1, <1>3 DEF IInv, BootPhase
  <1>10. TaskCode'
    BY <1>1, <1>2, <1>3, <1>6 DEF IInv, TaskCode, Creating
  <1>11. CreateInProgress'
    <2> SUFFICES ASSUME NEW t \in Thread, pc'[t] \in Creating
                 PROVE  CreateHolds(pc[t])'
      BY DEF CreateInProgress
    <2>1. pc'[t] = pc[t]
      BY <1>1, <1>3 DEF Creating
    <2>2. CreateHolds(pc[t])
      BY <2>1 DEF IInv, CreateInProgress
    <2> QED BY <2>1, <2>2 DEF CreateHolds, Live, KernelStack, UserStack, Stacks, Unclaimed, BootPages
  <1> QED BY <1>5, <1>7, <1>8, <1>9, <1>10, <1>11 DEF IInv

\* First fit on a prefix: the page given out is the one right above it.
LEMMA AllocFacts ==
  ASSUME IInv, NEW p \in Managed, pmm_alloc_page(p),
         UNCHANGED driver_pages
  PROVE  /\ pmm_bitmap' = pmm_bitmap \union {p}
         /\ p \in Nat /\ p \in Page /\ p \notin pmm_bitmap
         /\ p \notin BootPages
         /\ \A q \in pmm_bitmap : q \in Nat /\ q < p
         /\ \A q \in 0 .. p - 1 : q \in pmm_bitmap
         /\ pmm_bitmap' \subseteq Page
         /\ UsedIsPrefix'
  <1> USE PageAssumption
  <1>1. /\ pmm_bitmap' = pmm_bitmap \union {p} /\ p \notin pmm_bitmap
        /\ \A q \in Managed \ pmm_bitmap : p <= q
    BY DEF pmm_alloc_page, FreePages
  <1>2. p \in Nat /\ p \in Page /\ RESERVED_PAGES <= p
    BY DEF Managed, Page
  <1>3. pmm_bitmap \subseteq Page /\ driver_pages \in Nat
    BY SchedulerAssumption DEF IInv, TypeOK
  <1>4. BootPages \subseteq pmm_bitmap /\ \A r \in pmm_bitmap : \A q \in 0 .. r : q \in pmm_bitmap
    BY DEF IInv, UsedIsPrefix
  <1>5. \A q \in pmm_bitmap : q \in Nat /\ q < p
    <2> SUFFICES ASSUME NEW q \in pmm_bitmap, ~(q < p) PROVE FALSE
      BY <1>3 DEF Page
    <2>1. p \in 0 .. q BY <1>2, <1>3 DEF Page
    <2> QED BY <2>1, <1>1, <1>4
  <1>6. \A q \in 0 .. p - 1 : q \in pmm_bitmap
    <2> SUFFICES ASSUME NEW q \in 0 .. p - 1, q \notin pmm_bitmap PROVE FALSE
      OBVIOUS
    <2>1. CASE q < RESERVED_PAGES
      BY <2>1, <1>3, <1>4 DEF BootPages
    <2>2. CASE ~(q < RESERVED_PAGES)
      <3>1. q \in Managed BY <2>2, <1>2 DEF Managed, Page
      <3> QED BY <3>1, <1>1, <1>2
    <2> QED BY <2>1, <2>2
  <1>7. UsedIsPrefix'
    <2>1. BootPages' \subseteq pmm_bitmap'
      BY <1>1, <1>4 DEF BootPages
    <2>2. \A r \in pmm_bitmap' : \A q \in 0 .. r : q \in pmm_bitmap'
      <3> SUFFICES ASSUME NEW r \in pmm_bitmap', NEW q \in 0 .. r
                   PROVE  q \in pmm_bitmap \union {p}
        BY <1>1
      <3>1. CASE r = p
        BY <3>1, <1>2, <1>6
      <3>2. CASE r # p
        BY <3>2, <1>1, <1>4
      <3> QED BY <3>1, <3>2
    <2> QED BY <2>1, <2>2 DEF UsedIsPrefix
  <1> QED BY <1>1, <1>2, <1>3, <1>4, <1>5, <1>6, <1>7

\* A create call gives up and returns: kernel_main goes on to scheduler_start,
\* the shell back to its prompt.
LEMMA ReturnKeepsInv ==
  ASSUME IInv, pc[current_task_id] \in Creating \union {"create"}, Return(FALSE),
         UNCHANGED <<pmm_bitmap, driver_pages, tasks, current_task_id,
                     next_task_id, rsp0, irq0_in_service, pit_on, mk, line,
                     sleep, exited>>
  PROVE  IInv'
  <1>1. CASE current_task_id # BOOT
    <2>1. current_task_id \in Slot /\ mk.cmd # "boot"
      BY <1>1 DEF IInv, TypeOK, Thread, TaskCode
    <2>2. pc' = [pc EXCEPT ![current_task_id] = "prompt"]
      BY <2>1 DEF Return
    <2>3. intr' = TRUE
      BY DEF Return, IInv, TypeOK, InterruptsRestored, Creating
    <2>4. "prompt" \in KernelPC \ (Creating \union {"idle", "start"})
          /\ pc[current_task_id] \in KernelPC
      BY DEF KernelPC, Creating
    <2> QED BY <1>1, <2>2, <2>3, <2>4, ShellStepKeepsInv DEF IInv, TypeOK
  <1>2. CASE current_task_id = BOOT
    <2>1. mk.cmd = "boot" /\ intr
      BY <1>2 DEF IInv, BootPhase
    <2>2. pc' = [pc EXCEPT ![BOOT] = "start"] /\ intr'
      BY <1>2, <2>1 DEF Return
    <2>3. pc \in [Thread -> PC] /\ BOOT \in Thread /\ Slot \subseteq Thread /\ BOOT \notin Slot
      BY SchedulerAssumption DEF IInv, TypeOK, Thread, Slot, BOOT
    <2>4. /\ pc' \in [Thread -> PC] /\ pc'[BOOT] = "start"
          /\ \A s \in Slot : pc'[s] = pc[s]
      BY <2>2, <2>3 DEF PC
    <2>5. TypeOK'
      BY <2>2, <2>4 DEF IInv, TypeOK, Return
    <2>6. /\ \A s \in Slot : Live(s)' = Live(s)
          /\ \A s \in Slot : KernelStack(s)' = KernelStack(s)
          /\ \A s \in Slot : UserStack(s)' = UserStack(s)
          /\ \A s \in Slot : Stacks(s)' = Stacks(s)
          /\ BootPages' = BootPages /\ ReadySlots' = ReadySlots
      BY DEF Live, KernelStack, UserStack, Stacks, BootPages, ReadySlots
    <2>7. /\ OneRunning' /\ RunnableIsComplete' /\ StacksAreOwned'
          /\ Rsp0IsCurrents' /\ EoiIsOwed' /\ UsedIsPrefix' /\ StackTops'
      BY <2>6 DEF IInv, OneRunning, RunnableIsComplete, StacksAreOwned,
                  Rsp0IsCurrents, EoiIsOwed, UsedIsPrefix, StackTops
    <2>8. InterruptsRestored'
      BY <1>2, <2>2, <2>4 DEF InterruptsRestored
    <2>9. BootPhase'
      BY <1>2, <2>1, <2>2, <2>4, <2>6 DEF IInv, BootPhase
    <2>10. TaskCode'
      BY <1>2 DEF TaskCode
    <2>11. CreateInProgress'
      <3>1. \A t \in Thread : pc'[t] \notin Creating
        BY <1>2, <2>4 DEF IInv, BootPhase, Thread, Creating
      <3> QED BY <3>1 DEF CreateInProgress
    <2> QED BY <2>5, <2>7, <2>8, <2>9, <2>10, <2>11 DEF IInv
  <1> QED BY <1>1, <1>2

\* A step of a create call that fills in the record of a slot that is not live
\* and goes on to p, holding what CreateHolds asks for at p.
LEMMA BuildStepKeepsInv ==
  ASSUME IInv, pc[current_task_id] \in Creating \union {"create"},
         NEW s \in Slot, ~Live(s),
         NEW rec \in TaskRecord, rec.state \notin {"READY", "RUNNING"},
         rec.is_user = (mk.cmd # "boot"),
         tasks' = [tasks EXCEPT ![s] = rec],
         NEW p \in Creating, mk.cmd = "boot" => p # "ustack",
         pc' = [pc EXCEPT ![current_task_id] = p],
         mk' \in [cmd : {"boot", "usermode", "exec"}, slot : Slot,
                  pages : 0 .. STACK_PAGES, bottom : Nat],
         mk'.cmd = mk.cmd,
         pmm_bitmap \subseteq pmm_bitmap', pmm_bitmap' \subseteq Page, UsedIsPrefix',
         next_task_id' \in Nat, exited' \subseteq Slot,
         UNCHANGED <<driver_pages, current_task_id, rsp0, intr, irq0_in_service,
                     pit_on, line, sleep>>,
         CreateHolds(p)'
  PROVE  IInv'
  <1> DEFINE c == current_task_id
  <1>1. /\ pc \in [Thread -> PC] /\ p \in PC /\ c \in Thread /\ BOOT \in Thread
        /\ Slot \subseteq Thread /\ BOOT \notin Slot /\ tasks \in [Slot -> TaskRecord]
    BY SchedulerAssumption DEF IInv, TypeOK, PC, Creating, Thread, Slot, BOOT
  <1>2. /\ pc' \in [Thread -> PC]
        /\ pc'[c] = p
        /\ \A t \in Thread \ {c} : pc'[t] = pc[t]
    BY <1>1
  <1>3. /\ tasks' \in [Slot -> TaskRecord]
        /\ tasks'[s] = rec
        /\ \A q \in Slot \ {s} : tasks'[q] = tasks[q]
    BY <1>1
  <1>4. TypeOK'
    BY <1>2, <1>3 DEF IInv, TypeOK
  <1>5. \A q \in Slot : Live(q)' <=> Live(q)
    BY <1>3 DEF Live
  <1>6. /\ \A q \in Slot : Live(q) => q # s
        /\ \A q \in Slot : Live(q) => tasks'[q] = tasks[q]
        /\ \A q \in Slot : Live(q) => KernelStack(q)' = KernelStack(q)
        /\ \A q \in Slot : Live(q) => UserStack(q)' = UserStack(q)
        /\ \A q \in Slot : Live(q) => Stacks(q)' = Stacks(q)
        /\ BootPages' = BootPages
    BY <1>3 DEF KernelStack, UserStack, Stacks, BootPages
  <1>7. \A q \in Slot : Live(q) => tasks'[q].state = tasks[q].state /\ tasks'[q].ctx = tasks[q].ctx
    BY <1>6
  <1>8. OneRunning'
    BY <1>3, <1>5, <1>7 DEF IInv, OneRunning, Live
  <1>9. RunnableIsComplete'
    BY <1>5, <1>6 DEF IInv, RunnableIsComplete, Managed
  <1>10. StacksAreOwned'
    BY <1>5, <1>6 DEF IInv, StacksAreOwned
  <1>11. Rsp0IsCurrents'
    <2>1. CASE c = BOOT BY <2>1 DEF Rsp0IsCurrents
    <2>2. CASE c # BOOT
      <3>1. c \in Slot /\ Live(c)
        BY <2>2 DEF IInv, TypeOK, Thread, OneRunning, Live
      <3> QED BY <2>2, <3>1, <1>6 DEF IInv, Rsp0IsCurrents
    <2> QED BY <2>1, <2>2
  <1>12. InterruptsRestored'
    BY <1>1, <1>2 DEF IInv, InterruptsRestored, Creating
  <1>13. EoiIsOwed'
    <2> SUFFICES ASSUME irq0_in_service
                 PROVE  \E q \in Slot : tasks'[q].state = "READY" /\ tasks'[q].ctx = "irq"
      BY DEF EoiIsOwed, ReadySlots
    <2>1. PICK q \in Slot : tasks[q].state = "READY" /\ tasks[q].ctx = "irq"
      BY DEF IInv, EoiIsOwed, ReadySlots
    <2> QED BY <2>1, <1>7 DEF Live
  <1>14. BootPhase'
    <2>1. CASE c = BOOT
      <3>1. mk.cmd = "boot" /\ mk'.cmd = "boot" /\ \A q \in Slot : ~Live(q)
        BY <2>1 DEF IInv, BootPhase, Creating
      <3>2. \A q \in Slot : ~tasks'[q].is_user /\ pc'[q] = "off"
        BY <2>1, <3>1, <1>1, <1>2, <1>3 DEF IInv, BootPhase
      <3> QED BY <2>1, <3>1, <3>2, <1>2, <1>5 DEF IInv, BootPhase
    <2>2. CASE c # BOOT
      BY <2>2, <1>1, <1>2 DEF IInv, BootPhase
    <2> QED BY <2>1, <2>2
  <1>15. TaskCode'
    <2>1. CASE c = BOOT BY <2>1 DEF TaskCode
    <2>2. CASE c # BOOT
      <3>1. /\ c \in Slot /\ Live(c) /\ ~tasks[c].is_user
        BY <2>2, OneKernelThread DEF KernelPC
      <3>2. mk.cmd # "boot"
        BY <2>2, <3>1 DEF IInv, TaskCode
      <3>3. ASSUME NEW q \in Slot
            PROVE /\ ~Live(q)' => pc'[q] = "off"
                  /\ Live(q)' /\ ~tasks'[q].is_user =>
                       /\ pc'[q] \in KernelPC \ {"idle", "start"}
                       /\ q # current_task_id' => tasks'[q].ctx \in {"yield", "irq"}
                  /\ Live(q)' /\ tasks'[q].is_user =>
                       \/ q = current_task_id' /\ pc'[q] \in {"user", "sysret", "halted"}
                       \/ /\ q # current_task_id'
                          /\ <<tasks'[q].ctx, pc'[q]>> \in
                               {<<"entry", "off">>, <<"yield", "syscall">>,
                                <<"irq", "user">>, <<"irq", "sysret">>}
                  /\ pc'[q] \in Creating \union {"create"} => mk'.cmd # "boot"
        <4>1. CASE q = c
          BY <4>1, <3>1, <3>2, <1>2, <1>5, <1>6 DEF KernelPC, Creating
        <4>2. CASE q # c
          BY <4>2, <2>2, <3>2, <1>1, <1>2, <1>5, <1>6 DEF IInv, TaskCode
        <4> QED BY <4>1, <4>2
      <3>4. \A q, r \in Slot :
              Live(q)' /\ Live(r)' /\ ~tasks'[q].is_user /\ ~tasks'[r].is_user => q = r
        BY <2>2, <1>5, <1>6 DEF IInv, TaskCode
      <3> QED BY <3>3, <3>4 DEF TaskCode
    <2> QED BY <2>1, <2>2
  <1>16. CreateInProgress'
    <2> SUFFICES ASSUME NEW t \in Thread, pc'[t] \in Creating
                 PROVE  CreateHolds(pc[t])'
      BY DEF CreateInProgress
    <2>1. pc[c] \in KernelPC BY DEF KernelPC
    <2>2. t = c BY <2>1, <1>2, OneKernelThread
    <2> QED BY <2>2, <1>2
  <1>17. StackTops'
    BY <1>5, <1>6 DEF IInv, StackTops
  <1> QED BY <1>4, <1>8, <1>9, <1>10, <1>11, <1>12, <1>13, <1>14, <1>15, <1>16,
             <1>17 DEF IInv

\* Claiming a slot leaves it out of reach of every tick, since it stays UNUSED.
LEMMA TakeSlotKeepsInv == ASSUME IInv, TakeSlot PROVE IInv'
  <1> DEFINE c == current_task_id
  <1>0. pc[c] \in Creating \union {"create"} BY DEF TakeSlot
  <1>1. ASSUME NEW s \in Slot, IsFreeSlot(s),
               tasks' = [tasks EXCEPT ![s] = ClaimedTask(s)],
               next_task_id' = next_task_id + 1,
               mk' = [cmd |-> mk.cmd, slot |-> s, pages |-> 0, bottom |-> NULL],
               pc' = [pc EXCEPT ![c] = "alloc"],
               exited' = exited \ {s}, UNCHANGED intr
        PROVE  IInv'
    <2> DEFINE rec == ClaimedTask(s)
    <2>1. /\ tasks \in [Slot -> TaskRecord] /\ next_task_id \in Nat
          /\ mk \in [cmd : {"boot", "usermode", "exec"}, slot : Slot,
                     pages : 0 .. STACK_PAGES, bottom : Nat]
          /\ exited \subseteq Slot /\ pmm_bitmap \subseteq Page
      BY DEF IInv, TypeOK
    <2>2. /\ rec \in TaskRecord /\ rec.state = "UNUSED"
          /\ rec.is_user = (mk.cmd # "boot")
      <3>1. PICK task \in TaskRecord : task = tasks[s]
        BY <1>1, <2>1
      <3>2. PICK user \in BOOLEAN : user = (mk.cmd # "boot")
        OBVIOUS
      <3>3. rec = [task EXCEPT !.id = next_task_id, !.state = "UNUSED", !.is_user = user]
        BY <3>1, <3>2 DEF ClaimedTask
      <3> HIDE DEF rec
      <3> QED BY <2>1, <3>1, <3>2, <3>3 DEF TaskRecord, State
    <2>3. ~Live(s)
      BY <1>1 DEF IsFreeSlot, Live
    <2>4. /\ mk' \in [cmd : {"boot", "usermode", "exec"}, slot : Slot,
                      pages : 0 .. STACK_PAGES, bottom : Nat]
          /\ mk'.cmd = mk.cmd /\ mk'.slot = s /\ mk'.pages = 0
      BY <1>1, <2>1 DEF STACK_PAGES, NULL
    <2>5. UNCHANGED <<pmm_bitmap, driver_pages, current_task_id, rsp0,
                      irq0_in_service, pit_on, line, sleep>>
      BY DEF TakeSlot
    <2>6. UsedIsPrefix'
      BY <2>5 DEF IInv, UsedIsPrefix, BootPages
    <2>7. tasks'[s] = rec
      BY <1>1, <2>1
    <2>8. CreateHolds("alloc")'
      BY <2>2, <2>4, <2>7 DEF CreateHolds, Live, STACK_PAGES
    <2>9. "alloc" \in Creating /\ "alloc" # "ustack" BY DEF Creating
    <2>10. exited' \subseteq Slot /\ next_task_id' \in Nat /\ pmm_bitmap' \subseteq Page
           /\ pmm_bitmap \subseteq pmm_bitmap' /\ rec.state \notin {"READY", "RUNNING"}
      BY <1>1, <2>1, <2>2, <2>5
    <2> HIDE DEF rec
    <2> QED BY <1>0, <1>1, <2>2, <2>3, <2>4, <2>5, <2>6, <2>8, <2>9, <2>10,
               BuildStepKeepsInv DEF rec
  <1>2. ASSUME Return(FALSE), UNCHANGED <<tasks, next_task_id, mk, exited>>
        PROVE  IInv'
    <2>1. UNCHANGED <<pmm_bitmap, driver_pages, tasks, current_task_id,
                      next_task_id, rsp0, irq0_in_service, pit_on, mk, line,
                      sleep, exited>>
      BY <1>2 DEF TakeSlot
    <2> QED BY <1>0, <1>2, <2>1, ReturnKeepsInv
  <1> QED BY <1>1, <1>2 DEF TakeSlot

\* Writing the initial frame and registers of the claimed slot.
LEMMA InitContextKeepsInv == ASSUME IInv, InitContext PROVE IInv'
  <1> DEFINE c == current_task_id
             s == mk.slot
             rec == [tasks[s] EXCEPT !.ctx = "entry"]
  <1>1. /\ pc[c] = "ctx" /\ tasks' = [tasks EXCEPT ![s].ctx = "entry"]
        /\ pc' = [pc EXCEPT ![c] = "ready"]
        /\ UNCHANGED <<pmm_bitmap, driver_pages, current_task_id, next_task_id,
                       rsp0, intr, irq0_in_service, pit_on, mk, line, sleep,
                       exited>>
    BY DEF InitContext
  <1>2. /\ tasks \in [Slot -> TaskRecord] /\ s \in Slot /\ c \in Thread
        /\ pmm_bitmap \subseteq Page /\ next_task_id \in Nat /\ exited \subseteq Slot
        /\ mk \in [cmd : {"boot", "usermode", "exec"}, slot : Slot,
                   pages : 0 .. STACK_PAGES, bottom : Nat]
    BY DEF IInv, TypeOK
  <1>3. CreateHolds("ctx")
    BY <1>1, <1>2 DEF IInv, CreateInProgress, Creating
  <1>4. /\ rec \in TaskRecord /\ rec.ctx = "entry"
        /\ rec.state = tasks[s].state /\ rec.is_user = tasks[s].is_user
        /\ rec.stack_top = tasks[s].stack_top
        /\ rec.user_stack_top = tasks[s].user_stack_top
    BY <1>2 DEF TaskRecord, Ctx
  <1>5. tasks' = [tasks EXCEPT ![s] = rec] /\ tasks'[s] = rec
        /\ \A q \in Slot \ {s} : tasks'[q] = tasks[q]
    BY <1>1, <1>2
  <1>6. ~Live(s) /\ rec.is_user = (mk.cmd # "boot")
        /\ rec.state \notin {"READY", "RUNNING"}
    BY <1>3, <1>4 DEF CreateHolds, Live
  <1>7. CreateHolds("ready")'
    <2> HIDE DEF rec
    <2>1. /\ KernelStack(s)' = KernelStack(s) /\ UserStack(s)' = UserStack(s)
          /\ Live(s)' = Live(s)
      BY <1>1, <1>4, <1>5 DEF KernelStack, UserStack, Live
    <2>2. ASSUME NEW pages, Unclaimed(pages) PROVE Unclaimed(pages)'
      BY <1>1, <1>5, <1>6, <2>1, <2>2
         DEF Unclaimed, BootPages, Live, Stacks, KernelStack, UserStack
    <2> QED BY <1>1, <1>3, <1>4, <1>5, <2>1, <2>2 DEF CreateHolds
  <1>8. UsedIsPrefix'
    BY <1>1 DEF IInv, UsedIsPrefix, BootPages
  <1>9. pc[c] \in Creating \union {"create"} /\ "ready" \in Creating
    BY <1>1 DEF Creating
  <1>10. /\ mk' = mk /\ mk'.cmd = mk.cmd /\ "ready" # "ustack"
         /\ pmm_bitmap \subseteq pmm_bitmap' /\ pmm_bitmap' \subseteq Page
         /\ next_task_id' \in Nat /\ exited' \subseteq Slot
    BY <1>1, <1>2
  <1>11. mk' \in [cmd : {"boot", "usermode", "exec"}, slot : Slot,
                  pages : 0 .. STACK_PAGES, bottom : Nat]
    BY <1>2, <1>10
  <1> HIDE DEF rec, s
  <1>12. /\ s \in Slot /\ rec \in TaskRecord /\ tasks' = [tasks EXCEPT ![s] = rec]
         /\ pc' = [pc EXCEPT ![c] = "ready"]
         /\ UNCHANGED <<driver_pages, current_task_id, rsp0, intr, irq0_in_service,
                        pit_on, line, sleep>>
    BY <1>1, <1>2, <1>4, <1>5
  <1> QED BY <1>6, <1>7, <1>8, <1>9, <1>10, <1>11, <1>12, BuildStepKeepsInv

\* Taking one more page of the kernel stack: it is the page right above the ones
\* already taken, since nobody else allocates in between.
LEMMA AllocStackPageKeepsInv == ASSUME IInv, AllocStackPage PROVE IInv'
  <1> DEFINE c == current_task_id
  <1>s. PICK s \in Slot : s = mk.slot
    BY DEF IInv, TypeOK
  <1>0. /\ pc[c] = "alloc"
        /\ UNCHANGED <<driver_pages, current_task_id, next_task_id, rsp0,
                       irq0_in_service, pit_on, line, sleep, exited>>
    BY DEF AllocStackPage
  <1>a. /\ tasks \in [Slot -> TaskRecord] /\ mk.slot = s /\ c \in Thread
        /\ pmm_bitmap \subseteq Page /\ next_task_id \in Nat /\ exited \subseteq Slot
        /\ mk \in [cmd : {"boot", "usermode", "exec"}, slot : Slot,
                   pages : 0 .. STACK_PAGES, bottom : Nat]
    BY <1>s DEF IInv, TypeOK
  <1>b. CreateHolds("alloc")
    BY <1>0, <1>a DEF IInv, CreateInProgress, Creating
  <1>c. pc[c] \in Creating \union {"create"}
    BY <1>0 DEF Creating
  <1>1. ASSUME NEW p \in Managed, pmm_alloc_page(p),
               mk' = [cmd |-> mk.cmd, slot |-> mk.slot, pages |-> mk.pages + 1,
                      bottom |-> IF mk.pages = 0 THEN p ELSE mk.bottom],
               pc' = [pc EXCEPT ![c] =
                        IF mk.pages + 1 < STACK_PAGES THEN "alloc"
                        ELSE IF mk.cmd = "boot" THEN "ctx" ELSE "ustack"],
               tasks' = [tasks EXCEPT ![mk.slot].stack_top =
                           IF mk.pages + 1 < STACK_PAGES THEN @
                           ELSE mk'.bottom + STACK_PAGES],
               UNCHANGED intr
        PROVE  IInv'
    <2> DEFINE top == IF mk.pages + 1 < STACK_PAGES THEN tasks[s].stack_top
                      ELSE mk'.bottom + STACK_PAGES
               rec == [tasks[s] EXCEPT !.stack_top = top]
    <2>1. /\ pmm_bitmap' = pmm_bitmap \union {p}
          /\ p \in Nat /\ p \in Page /\ p \notin pmm_bitmap
          /\ p \notin BootPages
          /\ \A r \in pmm_bitmap : r \in Nat /\ r < p
          /\ \A r \in 0 .. p - 1 : r \in pmm_bitmap
          /\ pmm_bitmap' \subseteq Page
          /\ UsedIsPrefix'
      BY <1>0, <1>1, AllocFacts
    <2>2. mk.pages \in Nat /\ mk.pages < STACK_PAGES /\ mk.bottom \in Nat
          /\ STACK_PAGES = 4
      BY <1>a, <1>b DEF CreateHolds, STACK_PAGES
    <2>3. /\ mk' \in [cmd : {"boot", "usermode", "exec"}, slot : Slot,
                      pages : 0 .. STACK_PAGES, bottom : Nat]
          /\ mk'.cmd = mk.cmd /\ mk'.slot = s /\ mk'.pages = mk.pages + 1
          /\ mk'.bottom = (IF mk.pages = 0 THEN p ELSE mk.bottom)
      BY <1>1, <1>a, <2>1, <2>2
    <2>4. mk'.bottom \in Nat /\ top \in Nat
      BY <1>a, <2>2, <2>3 DEF TaskRecord
    <2>5. /\ rec \in TaskRecord /\ rec.stack_top = top
          /\ rec.state = tasks[s].state /\ rec.is_user = tasks[s].is_user
          /\ rec.ctx = tasks[s].ctx
      BY <1>a, <2>4 DEF TaskRecord
    <2>6. /\ tasks' = [tasks EXCEPT ![s] = rec] /\ tasks'[s] = rec
          /\ \A r \in Slot \ {s} : tasks'[r] = tasks[r]
      BY <1>1, <1>a
    <2>7. /\ ~Live(s) /\ rec.is_user = (mk.cmd # "boot")
          /\ rec.state \notin {"READY", "RUNNING"}
      BY <1>a, <1>b, <2>5 DEF CreateHolds, Live
    <2>8. PICK q \in Creating :
            q = IF mk.pages + 1 < STACK_PAGES THEN "alloc"
                ELSE IF mk.cmd = "boot" THEN "ctx" ELSE "ustack"
      BY DEF Creating
    <2>b. PICK b \in Nat : b = mk'.bottom
      BY <2>4
    <2>k. PICK k \in 1 .. 4 : k = mk'.pages
      BY <2>2, <2>3
    <2> DEFINE got == b .. b + k - 1
    \* The new page continues the run of pages the call already holds.
    <2>9. mk.pages > 0 => p = mk.bottom + mk.pages
      <3> SUFFICES ASSUME mk.pages > 0 PROVE p = mk.bottom + mk.pages
        OBVIOUS
      <3>1. /\ mk.bottom .. mk.bottom + mk.pages - 1 \subseteq pmm_bitmap
            /\ \A r \in pmm_bitmap : r < mk.bottom + mk.pages
        BY <1>b DEF CreateHolds, Unclaimed
      <3>2. mk.bottom + mk.pages - 1 < p
        BY <3>1, <2>1, <2>2
      <3>3. ~(mk.bottom + mk.pages < p)
        BY <3>1, <2>1, <2>2
      <3> QED BY <3>2, <3>3, <2>1, <2>2
    <2>10. b + k - 1 = p
      BY <2>1, <2>2, <2>3, <2>9, <2>b, <2>k
    <2>11. /\ got \subseteq pmm_bitmap' \ BootPages
           /\ \A r \in Slot : Live(r) => Stacks(r) \intersect got = {}
      <3>1. \A r \in Slot : Live(r) => Stacks(r) \subseteq pmm_bitmap
        BY DEF IInv, StacksAreOwned
      <3>2. CASE mk.pages = 0
        <4>1. got = {p} BY <3>2, <2>1, <2>3, <2>10, <2>b, <2>k
        <4> QED BY <4>1, <3>1, <2>1
      <3>3. CASE mk.pages > 0
        <4>1. got = (mk.bottom .. mk.bottom + mk.pages - 1) \union {p}
          BY <3>3, <2>1, <2>2, <2>3, <2>9, <2>b, <2>k
        <4>2. Unclaimed(mk.bottom .. mk.bottom + mk.pages - 1)
          BY <3>3, <1>b DEF CreateHolds
        <4> QED BY <4>1, <4>2, <3>1, <2>1 DEF Unclaimed
      <3> QED BY <3>2, <3>3, <2>2
    <2>12. \A r \in pmm_bitmap' : r < b + k
      BY <2>1, <2>10
    <2> HIDE DEF rec
    <2>13. \A r \in Slot : /\ Live(r)' <=> Live(r)
                           /\ Live(r) => Stacks(r)' = Stacks(r)
      BY <2>5, <2>6, <2>7 DEF Live, Stacks, KernelStack, UserStack
    <2>14. BootPages' = BootPages
      BY <1>0 DEF BootPages
    <2>15. ASSUME NEW pages, pages \subseteq pmm_bitmap' \ BootPages,
                  \A r \in Slot : Live(r) => Stacks(r) \intersect pages = {}
           PROVE  Unclaimed(pages)'
      BY <2>13, <2>14, <2>15 DEF Unclaimed
    <2>16. CreateHolds(q)'
      <3>1. Unclaimed(got)' BY <2>11, <2>15
      <3>2. ~Live(s)' /\ tasks'[s].is_user = (mk'.cmd # "boot") /\ mk'.slot = s
        BY <1>a, <2>3, <2>6, <2>7, <2>13
      <3>3. CASE mk.pages + 1 < STACK_PAGES
        <4>1. q = "alloc" BY <3>3, <2>8
        <4>2. mk'.pages < STACK_PAGES BY <3>3, <2>3
        <4> QED BY <4>1, <4>2, <3>1, <3>2, <2>12, <2>b, <2>k DEF CreateHolds
      <3>4. CASE ~(mk.pages + 1 < STACK_PAGES)
        <4>1. k = 4 BY <3>4, <2>2, <2>3, <2>k
        <4>2. tasks'[s].stack_top = b + 4
          BY <3>4, <2>2, <2>5, <2>6, <2>b
        <4>3. KernelStack(s)' = got /\ tasks'[s].stack_top >= STACK_PAGES
          BY <4>1, <4>2, <2>2 DEF KernelStack
        <4>4. q # "alloc" /\ q # "ready" /\ (q = "ctx" => mk.cmd = "boot")
          BY <3>4, <2>8
        <4>5. q = "ctx" => UserStack(s)' = {} /\ mk'.cmd = "boot"
          BY <4>4, <3>2, <2>3 DEF UserStack
        <4>6. Unclaimed({})' BY <2>15
        <4> QED BY <4>3, <4>4, <4>5, <4>6, <3>1, <3>2 DEF CreateHolds
      <3> QED BY <3>3, <3>4
    <2>17. pmm_bitmap \subseteq pmm_bitmap' BY <2>1
    <2>18. pc' = [pc EXCEPT ![c] = q] /\ (mk.cmd = "boot" => q # "ustack")
      BY <1>1, <2>8
    <2>19. /\ UNCHANGED <<driver_pages, current_task_id, rsp0, intr,
                          irq0_in_service, pit_on, line, sleep>>
           /\ next_task_id' \in Nat /\ exited' \subseteq Slot
           /\ pmm_bitmap' \subseteq Page /\ UsedIsPrefix'
      BY <1>0, <1>1, <1>a, <2>1
    <2>20. /\ tasks' = [tasks EXCEPT ![s] = rec] /\ rec \in TaskRecord
           /\ mk' \in [cmd : {"boot", "usermode", "exec"}, slot : Slot,
                       pages : 0 .. STACK_PAGES, bottom : Nat]
           /\ mk'.cmd = mk.cmd
      BY <2>3, <2>5, <2>6
    <2> QED BY <1>c, <2>7, <2>16, <2>17, <2>18, <2>19, <2>20, BuildStepKeepsInv
  <1>2. ASSUME pmm_alloc_fails, Return(FALSE), UNCHANGED <<mk, tasks>>
        PROVE  IInv'
    BY <1>0, <1>2, <1>c, ReturnKeepsInv DEF pmm_alloc_fails
  <1> QED BY <1>1, <1>2 DEF AllocStackPage

\* Taking the user stack: a page above the finished kernel stack.
LEMMA AllocUserStackKeepsInv == ASSUME IInv, AllocUserStack PROVE IInv'
  <1> DEFINE c == current_task_id
  <1>s. PICK s \in Slot : s = mk.slot
    BY DEF IInv, TypeOK
  <1>0. /\ pc[c] = "ustack"
        /\ UNCHANGED <<driver_pages, current_task_id, next_task_id, rsp0,
                       irq0_in_service, pit_on, mk, line, sleep, exited>>
    BY DEF AllocUserStack
  <1>a. /\ tasks \in [Slot -> TaskRecord] /\ mk.slot = s /\ c \in Thread
        /\ pmm_bitmap \subseteq Page /\ next_task_id \in Nat /\ exited \subseteq Slot
        /\ mk \in [cmd : {"boot", "usermode", "exec"}, slot : Slot,
                   pages : 0 .. STACK_PAGES, bottom : Nat]
    BY <1>s DEF IInv, TypeOK
  <1>b. CreateHolds("ustack")
    BY <1>0, <1>a DEF IInv, CreateInProgress, Creating
  <1>c. pc[c] \in Creating \union {"create"}
    BY <1>0 DEF Creating
  <1>1. ASSUME NEW p \in Managed, pmm_alloc_page(p),
               tasks' = [tasks EXCEPT ![mk.slot].user_stack_top = p + 1],
               pc' = [pc EXCEPT ![c] = "ctx"], UNCHANGED intr
        PROVE  IInv'
    <2> DEFINE rec == [tasks[s] EXCEPT !.user_stack_top = p + 1]
    <2>1. /\ pmm_bitmap' = pmm_bitmap \union {p}
          /\ p \in Nat /\ p \notin pmm_bitmap /\ p \notin BootPages
          /\ pmm_bitmap' \subseteq Page
          /\ UsedIsPrefix'
      BY <1>0, <1>1, AllocFacts
    <2>2. /\ rec \in TaskRecord /\ rec.user_stack_top = p + 1
          /\ rec.state = tasks[s].state /\ rec.is_user = tasks[s].is_user
          /\ rec.stack_top = tasks[s].stack_top
      BY <1>a, <2>1 DEF TaskRecord
    <2>3. /\ tasks' = [tasks EXCEPT ![s] = rec] /\ tasks'[s] = rec
          /\ \A r \in Slot \ {s} : tasks'[r] = tasks[r]
      BY <1>1, <1>a
    <2>4. /\ ~Live(s) /\ rec.is_user = (mk.cmd # "boot")
          /\ rec.state \notin {"READY", "RUNNING"}
      BY <1>a, <1>b, <2>2 DEF CreateHolds, Live
    <2> HIDE DEF rec
    <2>5. /\ \A r \in Slot : /\ Live(r)' <=> Live(r)
                             /\ Live(r) => Stacks(r)' = Stacks(r)
          /\ KernelStack(s)' = KernelStack(s)
          /\ BootPages' = BootPages
      BY <1>0, <2>2, <2>3, <2>4
         DEF Live, Stacks, KernelStack, UserStack, BootPages
    <2>6. ASSUME NEW pages, pages \subseteq pmm_bitmap' \ BootPages,
                 \A r \in Slot : Live(r) => Stacks(r) \intersect pages = {}
          PROVE  Unclaimed(pages)'
      BY <2>5, <2>6 DEF Unclaimed
    <2>7. KernelStack(s) \subseteq pmm_bitmap \ BootPages
          /\ \A r \in Slot : Live(r) => Stacks(r) \intersect KernelStack(s) = {}
      BY <1>a, <1>b DEF CreateHolds, Unclaimed
    <2>8. PICK ks : ks = KernelStack(s) OBVIOUS
    <2>9. Unclaimed(KernelStack(s))'
      <3>1. Unclaimed(ks)' BY <2>1, <2>6, <2>7, <2>8
      <3> QED BY <3>1, <2>5, <2>8 DEF Unclaimed
    <2>10. Unclaimed({p})'
      <3>1. \A r \in Slot : Live(r) => Stacks(r) \subseteq pmm_bitmap
        BY DEF IInv, StacksAreOwned
      <3> QED BY <3>1, <2>1, <2>6
    <2>11. tasks'[s].is_user /\ mk'.cmd # "boot"
      <3>1. mk.cmd # "boot"
        BY <1>0, <1>a DEF IInv, TaskCode, BootPhase, Creating, Thread
      <3> QED BY <3>1, <1>0, <2>3, <2>4
    <2>12. UserStack(s)' \in {{p}, {}}
      BY <2>1, <2>2, <2>3 DEF UserStack
    <2>13. UserStack(s)' = {p}
      BY <2>1, <2>2, <2>3, <2>11 DEF UserStack
    <2>14. CreateHolds("ctx")'
      <3>1. mk'.slot = s /\ ~Live(s)' BY <1>0, <1>a, <2>4, <2>5
      <3>2. tasks'[s].is_user = (mk'.cmd # "boot") BY <1>0, <2>3, <2>4
      <3>3. tasks'[s].stack_top >= STACK_PAGES
        BY <1>a, <1>b, <2>2, <2>3 DEF CreateHolds
      <3>4. tasks'[s].user_stack_top > 0 BY <2>1, <2>2, <2>3
      <3>5. Unclaimed(UserStack(s))' BY <2>10, <2>13 DEF Unclaimed
      <3>6. (KernelStack(s) \intersect UserStack(s))' = {}
        BY <2>1, <2>5, <2>7, <2>13
      <3> QED BY <3>1, <3>2, <3>3, <3>4, <3>5, <3>6, <2>9 DEF CreateHolds
    <2>15. /\ UNCHANGED <<driver_pages, current_task_id, rsp0, intr,
                          irq0_in_service, pit_on, line, sleep>>
           /\ next_task_id' \in Nat /\ exited' \subseteq Slot
           /\ pmm_bitmap' \subseteq Page /\ UsedIsPrefix'
           /\ pmm_bitmap \subseteq pmm_bitmap'
           /\ pc' = [pc EXCEPT ![c] = "ctx"] /\ "ctx" \in Creating
      BY <1>0, <1>1, <1>a, <2>1 DEF Creating
    <2>16. /\ tasks' = [tasks EXCEPT ![s] = rec] /\ rec \in TaskRecord
           /\ mk' \in [cmd : {"boot", "usermode", "exec"}, slot : Slot,
                       pages : 0 .. STACK_PAGES, bottom : Nat]
           /\ mk'.cmd = mk.cmd
      BY <1>0, <1>a, <2>2, <2>3
    <2> QED BY <1>c, <2>4, <2>14, <2>15, <2>16, BuildStepKeepsInv
  <1>2. ASSUME pmm_alloc_fails, Return(FALSE), UNCHANGED tasks
        PROVE  IInv'
    BY <1>0, <1>2, <1>c, ReturnKeepsInv DEF pmm_alloc_fails
  <1> QED BY <1>1, <1>2 DEF AllocUserStack

\* Making the finished slot READY: its stacks were claimed by nobody else.
LEMMA PublishKeepsInv == ASSUME IInv, Publish PROVE IInv'
  <1> DEFINE c == current_task_id
  <1>s. PICK s \in Slot : s = mk.slot
    BY DEF IInv, TypeOK
  <1>0. /\ pc[c] = "ready" /\ tasks' = [tasks EXCEPT ![s].state = "READY"]
        /\ Return(TRUE)
        /\ UNCHANGED <<pmm_bitmap, driver_pages, current_task_id, next_task_id,
                       rsp0, irq0_in_service, pit_on, mk, line, sleep, exited>>
    BY <1>s DEF Publish
  <1>a. /\ tasks \in [Slot -> TaskRecord] /\ mk.slot = s /\ c \in Thread
        /\ pc \in [Thread -> PC] /\ BOOT \in Thread /\ Slot \subseteq Thread
        /\ BOOT \notin Slot /\ intr \in BOOLEAN
    BY <1>s, SchedulerAssumption DEF IInv, TypeOK, Thread, Slot, BOOT
  <1>b. CreateHolds("ready")
    BY <1>0, <1>a DEF IInv, CreateInProgress, Creating
  <1>c. PICK p \in {"start", "call_yield"} :
          /\ p = IF mk.cmd = "boot" THEN "start" ELSE "call_yield"
          /\ pc' = [pc EXCEPT ![c] = p]
    BY <1>0 DEF Return
  <1>d. intr'
    BY <1>0 DEF Return, IInv, InterruptsRestored, Creating
  <1>e. /\ tasks' \in [Slot -> TaskRecord]
        /\ \A r \in Slot : tasks'[r].state = IF r = s THEN "READY" ELSE tasks[r].state
        /\ \A r \in Slot : /\ tasks'[r].is_user = tasks[r].is_user
                           /\ tasks'[r].stack_top = tasks[r].stack_top
                           /\ tasks'[r].user_stack_top = tasks[r].user_stack_top
                           /\ tasks'[r].ctx = tasks[r].ctx
    BY <1>0, <1>a DEF TaskRecord, State
  <1>f. /\ pc' \in [Thread -> PC] /\ pc'[c] = p
        /\ \A t \in Thread \ {c} : pc'[t] = pc[t]
    BY <1>a, <1>c DEF PC
  <1>g. ~Live(s) /\ s # c
    BY <1>a, <1>b DEF CreateHolds, Live, IInv, OneRunning
  <1>h. /\ \A r \in Slot : Live(r)' <=> (Live(r) \/ r = s)
        /\ \A r \in Slot : KernelStack(r)' = KernelStack(r)
        /\ \A r \in Slot : UserStack(r)' = UserStack(r)
        /\ \A r \in Slot : Stacks(r)' = Stacks(r)
        /\ BootPages' = BootPages
    BY <1>0, <1>e DEF Live, KernelStack, UserStack, Stacks, BootPages
  <1>i. /\ tasks[s].ctx = "entry" /\ tasks[s].is_user = (mk.cmd # "boot")
        /\ tasks[s].stack_top >= STACK_PAGES
        /\ Unclaimed(KernelStack(s)) /\ Unclaimed(UserStack(s))
        /\ KernelStack(s) \intersect UserStack(s) = {}
        /\ mk.cmd # "boot" => tasks[s].user_stack_top > 0
    BY <1>a, <1>b DEF CreateHolds
  <1>1. TypeOK'
    BY <1>0, <1>d, <1>e, <1>f DEF IInv, TypeOK
  <1>2. OneRunning'
    BY <1>0, <1>e, <1>g DEF IInv, OneRunning
  <1>3. RunnableIsComplete'
    <2>1. pmm_bitmap \ BootPages \subseteq Managed
      BY PageAssumption, SchedulerAssumption
         DEF IInv, TypeOK, Page, Managed, BootPages
    <2> QED BY <2>1, <1>e, <1>h, <1>i DEF IInv, RunnableIsComplete, Unclaimed, Managed
  <1>4. StacksAreOwned'
    <2>1. /\ Stacks(s) \subseteq pmm_bitmap \ BootPages
          /\ \A r \in Slot : Live(r) => Stacks(s) \intersect Stacks(r) = {}
      BY <1>i DEF Unclaimed, Stacks
    <2> SUFFICES ASSUME NEW q \in Slot, Live(q)'
                 PROVE  /\ Stacks(q) \subseteq pmm_bitmap \ BootPages
                        /\ KernelStack(q) \intersect UserStack(q) = {}
                        /\ \A r \in Slot \ {q} :
                             Live(r)' => Stacks(q) \intersect Stacks(r) = {}
      BY <1>0, <1>h DEF StacksAreOwned
    <2>2. CASE q = s
      BY <2>1, <2>2, <1>h, <1>i
    <2>3. CASE q # s
      BY <2>1, <2>3, <1>h DEF IInv, StacksAreOwned
    <2> QED BY <2>2, <2>3
  <1>5. Rsp0IsCurrents'
    BY <1>0, <1>a, <1>e DEF IInv, Rsp0IsCurrents, Thread
  <1>6. InterruptsRestored'
    BY <1>0, <1>d, <1>f DEF InterruptsRestored
  <1>7. EoiIsOwed'
    BY <1>0, <1>e DEF IInv, EoiIsOwed, ReadySlots
  <1>8. UsedIsPrefix' /\ StackTops'
    BY <1>0, <1>e, <1>h, <1>i DEF IInv, UsedIsPrefix, StackTops
  <1>9. CASE c = BOOT
    <2>1. /\ mk.cmd = "boot" /\ \A r \in Slot : ~Live(r)
      BY <1>9, <1>0 DEF IInv, BootPhase
    <2>2. BootPhase'
      BY <1>9, <2>1, <1>0, <1>a, <1>c, <1>d, <1>e, <1>f, <1>h DEF IInv, BootPhase
    <2>3. TaskCode'
      BY <1>9, <1>0 DEF TaskCode
    <2>4. CreateInProgress'
      <3>1. \A t \in Thread : pc'[t] \notin Creating
        BY <1>9, <1>c, <1>f DEF IInv, BootPhase, Thread, Creating
      <3> QED BY <3>1 DEF CreateInProgress
    <2> QED BY <2>2, <2>3, <2>4, <1>1, <1>2, <1>3, <1>4, <1>5, <1>6, <1>7, <1>8 DEF IInv
  <1>10. CASE c # BOOT
    <2>1. /\ c \in Slot /\ Live(c) /\ ~tasks[c].is_user
          /\ \A t \in Thread \ {c} : pc[t] \notin Creating \union {"create"}
      BY <1>10, <1>0, OneKernelThread DEF KernelPC, Creating
    <2>2. mk.cmd # "boot" /\ p = "call_yield" /\ tasks[s].is_user /\ pc[s] = "off"
      BY <1>10, <2>1, <1>0, <1>c, <1>g, <1>i DEF IInv, TaskCode, Creating
    <2>3. BootPhase'
      BY <1>10, <1>0, <1>a, <1>f DEF IInv, BootPhase
    <2>4. TaskCode'
      <3>1. ASSUME NEW q \in Slot
            PROVE /\ ~Live(q)' => pc'[q] = "off"
                  /\ Live(q)' /\ ~tasks'[q].is_user =>
                       /\ pc'[q] \in KernelPC \ {"idle", "start"}
                       /\ q # current_task_id' => tasks'[q].ctx \in {"yield", "irq"}
                  /\ Live(q)' /\ tasks'[q].is_user =>
                       \/ q = current_task_id' /\ pc'[q] \in {"user", "sysret", "halted"}
                       \/ /\ q # current_task_id'
                          /\ <<tasks'[q].ctx, pc'[q]>> \in
                               {<<"entry", "off">>, <<"yield", "syscall">>,
                                <<"irq", "user">>, <<"irq", "sysret">>}
                  /\ pc'[q] \in Creating \union {"create"} => mk'.cmd # "boot"
        <4>1. CASE q = c
          BY <4>1, <2>1, <2>2, <1>0, <1>e, <1>f, <1>h DEF KernelPC, Creating
        <4>2. CASE q = s
          BY <4>2, <2>2, <1>0, <1>a, <1>e, <1>f, <1>g, <1>i DEF Creating
        <4>3. CASE q # c /\ q # s
          BY <4>3, <1>10, <2>2, <1>0, <1>a, <1>e, <1>f, <1>h DEF IInv, TaskCode
        <4> QED BY <4>1, <4>2, <4>3
      <3>2. \A q, r \in Slot :
              Live(q)' /\ Live(r)' /\ ~tasks'[q].is_user /\ ~tasks'[r].is_user => q = r
        BY <1>10, <2>2, <1>e, <1>h DEF IInv, TaskCode
      <3> QED BY <3>1, <3>2 DEF TaskCode
    <2>5. CreateInProgress'
      <3>1. \A t \in Thread : pc'[t] \notin Creating
        BY <2>1, <2>2, <1>a, <1>f DEF Creating
      <3> QED BY <3>1 DEF CreateInProgress
    <2> QED BY <2>3, <2>4, <2>5, <1>1, <1>2, <1>3, <1>4, <1>5, <1>6, <1>7, <1>8 DEF IInv
  <1> QED BY <1>9, <1>10

\* scheduler_start hands the CPU from kernel_main to the one task there is.
LEMMA StartKeepsInv == ASSUME IInv, scheduler_start PROVE IInv'
  <1>0. /\ pc[current_task_id] = "start" /\ intr'
        /\ UNCHANGED <<pmm_bitmap, driver_pages, next_task_id, irq0_in_service,
                       pit_on, mk, line, sleep, exited>>
    BY DEF scheduler_start
  <1>a. /\ tasks \in [Slot -> TaskRecord] /\ pc \in [Thread -> PC]
        /\ BOOT \in Thread /\ Slot \subseteq Thread /\ BOOT \notin Slot
        /\ current_task_id \in Thread
    BY SchedulerAssumption DEF IInv, TypeOK, Thread, Slot, BOOT
  <1>b. current_task_id = BOOT
    BY <1>0, <1>a DEF IInv, TaskCode, Thread, KernelPC, Creating, OneRunning, Live
  <1>c. /\ ~pit_on /\ ~irq0_in_service /\ mk.cmd = "boot"
        /\ \A s \in Slot : ~tasks[s].is_user /\ pc[s] = "off"
        /\ \A s, r \in Slot : Live(s) /\ Live(r) => s = r
    BY <1>b DEF IInv, BootPhase
  <1>d. \A s \in Slot : tasks[s].state # "RUNNING"
    BY <1>a, <1>b DEF IInv, OneRunning
  <1>1. ASSUME NEW n \in ReadySlots,
               tasks' = [s \in Slot |->
                           [tasks[s] EXCEPT !.state =
                              IF s = n THEN "RUNNING"
                              ELSE IF tasks[s].state = "RUNNING" THEN "READY"
                              ELSE tasks[s].state]],
               current_task_id' = n, rsp0' = tasks[n].stack_top,
               pc' = [pc EXCEPT ![BOOT] = "off", ![n] = "pit_init"]
        PROVE  IInv'
    <2>1. n \in Slot /\ tasks[n].state = "READY" /\ Live(n)
      BY DEF ReadySlots, Live
    <2>2. /\ tasks' \in [Slot -> TaskRecord]
          /\ \A s \in Slot : tasks'[s].state = IF s = n THEN "RUNNING" ELSE tasks[s].state
          /\ \A s \in Slot : /\ tasks'[s].is_user = tasks[s].is_user
                             /\ tasks'[s].stack_top = tasks[s].stack_top
                             /\ tasks'[s].user_stack_top = tasks[s].user_stack_top
                             /\ tasks'[s].ctx = tasks[s].ctx
      BY <1>1, <1>a, <1>d DEF TaskRecord, State
    <2>3. /\ pc' \in [Thread -> PC] /\ pc'[BOOT] = "off" /\ pc'[n] = "pit_init"
          /\ \A s \in Slot \ {n} : pc'[s] = "off"
      BY <1>1, <1>a, <1>c, <2>1 DEF PC
    <2>4. /\ \A s \in Slot : Live(s)' <=> Live(s)
          /\ \A s \in Slot : Live(s) => s = n
          /\ \A s \in Slot : KernelStack(s)' = KernelStack(s)
          /\ \A s \in Slot : UserStack(s)' = UserStack(s)
          /\ \A s \in Slot : Stacks(s)' = Stacks(s)
          /\ BootPages' = BootPages
      BY <1>0, <1>c, <2>1, <2>2 DEF Live, KernelStack, UserStack, Stacks, BootPages
    <2>5. TypeOK'
      <3>1. tasks[n].stack_top \in Nat BY <1>a, <2>1 DEF TaskRecord
      <3> QED BY <3>1, <1>0, <1>1, <1>a, <2>1, <2>2, <2>3 DEF IInv, TypeOK
    <2>6. OneRunning'
      BY <1>1, <1>d, <2>1, <2>2 DEF OneRunning
    <2>7. RunnableIsComplete' /\ StacksAreOwned' /\ StackTops'
      BY <1>0, <2>2, <2>4 DEF IInv, RunnableIsComplete, StacksAreOwned, StackTops, Managed
    <2>8. Rsp0IsCurrents'
      BY <1>1, <2>1, <2>2 DEF Rsp0IsCurrents
    <2>9. InterruptsRestored' /\ EoiIsOwed'
      BY <1>0, <1>1, <1>c, <2>3 DEF InterruptsRestored, EoiIsOwed
    <2>10. UsedIsPrefix'
      BY <1>0, <2>4 DEF IInv, UsedIsPrefix
    <2>11. BootPhase'
      BY <1>1, <1>a, <2>1, <2>3 DEF BootPhase
    <2>12. TaskCode'
      <3>1. ASSUME NEW q \in Slot
            PROVE /\ ~Live(q)' => pc'[q] = "off"
                  /\ Live(q)' /\ ~tasks'[q].is_user =>
                       /\ pc'[q] \in KernelPC \ {"idle", "start"}
                       /\ q # current_task_id' => tasks'[q].ctx \in {"yield", "irq"}
                  /\ ~tasks'[q].is_user
                  /\ pc'[q] \notin Creating \union {"create"}
        BY <1>1, <1>c, <2>1, <2>2, <2>3, <2>4 DEF KernelPC, Creating
      <3>2. \A q, r \in Slot : Live(q)' /\ Live(r)' => q = r
        BY <1>c, <2>4
      <3> QED BY <3>1, <3>2 DEF TaskCode
    <2>13. CreateInProgress'
      <3>1. \A t \in Thread : pc'[t] \notin Creating
        BY <2>1, <2>3 DEF Creating, Thread
      <3> QED BY <3>1 DEF CreateInProgress
    <2> QED BY <2>5, <2>6, <2>7, <2>8, <2>9, <2>10, <2>11, <2>12, <2>13 DEF IInv
  <1>2. ASSUME pc' = [pc EXCEPT ![current_task_id] = "idle"],
               UNCHANGED <<tasks, current_task_id, rsp0>>
        PROVE  IInv'
    <2>1. /\ pc' \in [Thread -> PC] /\ pc'[BOOT] = "idle"
          /\ \A s \in Slot : pc'[s] = "off"
      BY <1>2, <1>a, <1>b, <1>c DEF PC
    <2>2. TypeOK'
      BY <1>0, <1>2, <2>1 DEF IInv, TypeOK
    <2>3. /\ \A s \in Slot : Live(s)' = Live(s)
          /\ \A s \in Slot : KernelStack(s)' = KernelStack(s)
          /\ \A s \in Slot : UserStack(s)' = UserStack(s)
          /\ \A s \in Slot : Stacks(s)' = Stacks(s)
          /\ BootPages' = BootPages
      BY <1>0, <1>2 DEF Live, KernelStack, UserStack, Stacks, BootPages
    <2>4. /\ OneRunning' /\ RunnableIsComplete' /\ StacksAreOwned'
          /\ Rsp0IsCurrents' /\ UsedIsPrefix' /\ StackTops'
      BY <1>0, <1>2, <2>3 DEF IInv, OneRunning, RunnableIsComplete,
                  StacksAreOwned, Rsp0IsCurrents, UsedIsPrefix, StackTops
    <2>5. InterruptsRestored' /\ EoiIsOwed' /\ TaskCode'
      BY <1>0, <1>2, <1>b, <1>c, <2>1 DEF InterruptsRestored, EoiIsOwed, TaskCode
    <2>6. BootPhase'
      BY <1>0, <1>2, <1>b, <1>c, <2>1, <2>3 DEF BootPhase
    <2>7. CreateInProgress'
      BY <2>1 DEF CreateInProgress, Creating, Thread
    <2> QED BY <2>2, <2>4, <2>5, <2>6, <2>7 DEF IInv
  <1> QED BY <1>1, <1>2 DEF scheduler_start

\* scheduler_yield called by the current task with its own code left at "at".
LEMMA YieldKeepsInv ==
  ASSUME IInv, current_task_id # BOOT,
         NEW at \in {"call_yield", "syscall"},
         \/ at = "call_yield" /\ pc[current_task_id] = "call_yield"
         \/ at = "syscall" /\ pc[current_task_id] = "user",
         scheduler_yield(at), exited' \subseteq Slot
  PROVE  IInv'
  <1> DEFINE c == current_task_id
  <1>0. UNCHANGED <<pmm_bitmap, driver_pages, next_task_id, pit_on, mk, line, sleep>>
    BY DEF scheduler_yield
  <1>a. /\ c \in Slot /\ Live(c) /\ irq0_in_service \in BOOLEAN /\ sleep \in Nat
        /\ at \in PC /\ exited \subseteq Slot
    BY DEF IInv, TypeOK, Thread, OneRunning, Live, PC
  <1>b. tasks[c].is_user <=> at = "syscall"
    BY <1>a DEF IInv, TypeOK, TaskRecord, TaskCode, KernelPC, Creating
  <1>1. ASSUME NEW n \in Slot \ {c}, find_next_ready_task(n),
               SwitchTo(n, "yield", at, irq0_in_service)
        PROVE  IInv'
    <2>1. n \in ReadySlots BY <1>1 DEF find_next_ready_task
    <2>2. /\ tasks[c].is_user => at = "syscall"
          /\ ~tasks[c].is_user => at = "call_yield"
      BY <1>b
    <2> QED BY <1>0, <1>1, <1>a, <2>1, <2>2, SwitchKeepsInv
  <1>2. ASSUME pc' = [pc EXCEPT ![c] = AfterYield(at)], intr' = TRUE,
               UNCHANGED <<tasks, current_task_id, rsp0, irq0_in_service>>
        PROVE  IInv'
    <2>1. CASE at = "call_yield"
      <3>1. pc' = [pc EXCEPT ![c] = "prompt"]
        BY <1>2, <2>1 DEF AfterYield
      <3>2. /\ "prompt" \in KernelPC \ (Creating \union {"idle", "start"})
            /\ pc[c] \in KernelPC
        BY <2>1 DEF KernelPC, Creating
      <3>3. /\ mk' \in [cmd : {"boot", "usermode", "exec"}, slot : Slot,
                        pages : 0 .. STACK_PAGES, bottom : Nat]
            /\ pit_on' \in BOOLEAN /\ line' \in BOOLEAN /\ sleep' \in Nat
        BY <1>0 DEF IInv, TypeOK
      <3> QED BY <1>0, <1>2, <3>1, <3>2, <3>3, ShellStepKeepsInv
    <2>2. CASE at = "syscall"
      <3>1. pc' = [pc EXCEPT ![c] = "sysret"] /\ pc[c] = "user"
        BY <1>2, <2>2 DEF AfterYield
      <3> QED BY <1>0, <1>2, <3>1, UserStepKeepsInv
    <2> QED BY <2>1, <2>2
  <1> QED BY <1>1, <1>2 DEF scheduler_yield

\* A step that touches only the keyboard line, the sleep target or pit_ticks.
LEMMA QuietStepKeepsInv ==
  ASSUME IInv, line' \in BOOLEAN, sleep' \in Nat,
         UNCHANGED <<pmm_bitmap, driver_pages, tasks, current_task_id,
                     next_task_id, rsp0, intr, irq0_in_service, pit_on, pc, mk,
                     exited>>
  PROVE  IInv'
  <1>1. TypeOK'
    BY DEF IInv, TypeOK
  <1>2. /\ OneRunning' /\ RunnableIsComplete' /\ StacksAreOwned'
        /\ Rsp0IsCurrents' /\ UsedIsPrefix' /\ StackTops'
    BY DEF IInv, OneRunning, RunnableIsComplete, StacksAreOwned, Rsp0IsCurrents,
           UsedIsPrefix, StackTops, Live, Stacks, KernelStack, UserStack, BootPages
  <1>3. InterruptsRestored' /\ EoiIsOwed' /\ BootPhase' /\ TaskCode'
    BY DEF IInv, InterruptsRestored, EoiIsOwed, ReadySlots, BootPhase, TaskCode, Live
  <1>4. CreateInProgress'
    BY DEF IInv, CreateInProgress, CreateHolds, Unclaimed, Live, Stacks,
           KernelStack, UserStack, BootPages
  <1> QED BY <1>1, <1>2, <1>3, <1>4 DEF IInv

\* The timer interrupt, with or without a switch.
LEMMA PitTickKeepsInv == ASSUME IInv, PitTick PROVE IInv'
  <1> DEFINE c == current_task_id
  <1>0. /\ intr /\ ~irq0_in_service /\ pit_on /\ sleep' = TickSleep
        /\ UNCHANGED <<pmm_bitmap, driver_pages, next_task_id, pit_on, mk, line,
                       exited>>
    BY DEF PitTick
  <1>a. /\ c # BOOT /\ c \in Slot /\ c \in Thread /\ Live(c)
        /\ pc \in [Thread -> PC] /\ exited \subseteq Slot
    BY <1>0 DEF IInv, TypeOK, BootPhase, Thread, OneRunning, Live
  <1>b. sleep' \in Nat
    BY <1>0 DEF TickSleep, IInv, TypeOK
  <1>1. ASSUME NEW n \in Slot \ {c}, find_next_ready_task(n),
               SwitchTo(n, "irq", pc[c], TRUE)
        PROVE  IInv'
    <2>1. n \in ReadySlots BY <1>1 DEF find_next_ready_task
    <2>2. PICK at \in PC : at = pc[c] BY <1>a
    \* Interrupts are on, so a user task is in ring 3 or on its way back to it.
    <2>3. tasks[c].is_user => at \in {"user", "sysret"}
      <3>1. tasks[c].is_user => at \in {"user", "sysret", "halted"}
        BY <1>a, <2>2 DEF IInv, TaskCode
      <3>2. at # "halted"
        BY <1>0, <1>a, <2>2 DEF IInv, InterruptsRestored
      <3> QED BY <3>1, <3>2
    <2>4. SwitchTo(n, "irq", at, TRUE) BY <1>1, <2>2
    <2> QED BY <1>0, <1>a, <1>b, <2>1, <2>2, <2>3, <2>4, SwitchKeepsInv
  <1>2. ASSUME UNCHANGED <<tasks, current_task_id, rsp0, pc, intr, irq0_in_service>>
        PROVE  IInv'
    BY <1>0, <1>2, <1>b, QuietStepKeepsInv DEF IInv, TypeOK
  <1> QED BY <1>1, <1>2 DEF PitTick

\* The commands of the shell.
LEMMA RunCommandKeepsInv ==
  ASSUME IInv, NEW cmd \in Commands, RunCommand(cmd) PROVE IInv'
  <1> DEFINE c == current_task_id
  <1>0. /\ pc[c] = "prompt" /\ line' = FALSE
        /\ UNCHANGED <<pmm_bitmap, driver_pages, tasks, current_task_id,
                       next_task_id, rsp0, irq0_in_service, pit_on, exited>>
    BY DEF RunCommand
  <1>a. /\ pc[c] \in KernelPC /\ c # BOOT /\ intr /\ c \in Thread
        /\ pc \in [Thread -> PC]
    BY <1>0 DEF IInv, TypeOK, BootPhase, KernelPC, InterruptsRestored, Creating
  <1>b. /\ mk \in [cmd : {"boot", "usermode", "exec"}, slot : Slot,
                   pages : 0 .. STACK_PAGES, bottom : Nat]
        /\ pit_on' \in BOOLEAN /\ line' \in BOOLEAN /\ sleep \in Nat
        /\ exited' \subseteq Slot
    BY <1>0 DEF IInv, TypeOK
  <1>1. ASSUME cmd \in {"usermode", "exec"}, mk' = [mk EXCEPT !.cmd = cmd],
               pc' = [pc EXCEPT ![c] = "create"],
               intr' = (intr /\ cmd # "exec"), UNCHANGED sleep
        PROVE  IInv'
    <2>1. /\ mk' \in [cmd : {"boot", "usermode", "exec"}, slot : Slot,
                      pages : 0 .. STACK_PAGES, bottom : Nat]
          /\ mk'.cmd = cmd
      BY <1>1, <1>b
    <2>2. "create" \in KernelPC \ (Creating \union {"idle", "start"})
      BY DEF KernelPC, Creating
    <2>3. intr' \in BOOLEAN /\ (~intr' => mk'.cmd = "exec") /\ sleep' \in Nat
          /\ mk'.cmd # "boot"
      BY <1>1, <1>a, <1>b, <2>1
    <2> QED BY <1>0, <1>1, <1>a, <1>b, <2>1, <2>2, <2>3, ShellStepKeepsInv
  <1>2. ASSUME intr' = TRUE, UNCHANGED <<mk, pc, sleep>> PROVE IInv'
    <2>1. pc' = [pc EXCEPT ![c] = "prompt"]
      BY <1>0, <1>2, <1>a
    <2>2. "prompt" \in KernelPC \ (Creating \union {"idle", "start"})
      BY DEF KernelPC, Creating
    <2> QED BY <1>0, <1>2, <1>a, <1>b, <2>1, <2>2, ShellStepKeepsInv
  <1>3. ASSUME pc' = [pc EXCEPT ![c] = "sleep"], sleep' = SLEEP_TICKS,
               UNCHANGED <<mk, intr>>
        PROVE  IInv'
    <2>1. "sleep" \in KernelPC \ (Creating \union {"idle", "start"}) /\ sleep' \in Nat
      BY <1>3, SchedulerAssumption DEF KernelPC, Creating
    <2> QED BY <1>0, <1>3, <1>a, <1>b, <2>1, ShellStepKeepsInv
  <1> QED BY <1>1, <1>2, <1>3 DEF RunCommand

\* IInv is inductive.
LEMMA NextKeepsInv == ASSUME IInv, [Next]_vars PROVE IInv'
  <1> DEFINE c == current_task_id
  <1>t. /\ pc \in [Thread -> PC] /\ c \in Thread /\ line \in BOOLEAN /\ sleep \in Nat
        /\ exited \subseteq Slot /\ pit_on \in BOOLEAN
        /\ mk \in [cmd : {"boot", "usermode", "exec"}, slot : Slot,
                   pages : 0 .. STACK_PAGES, bottom : Nat]
    BY DEF IInv, TypeOK
  <1>k. "prompt" \in KernelPC \ (Creating \union {"idle", "start"})
    BY DEF KernelPC, Creating
  <1>1. CASE CreateStep
    BY <1>1, TakeSlotKeepsInv, AllocStackPageKeepsInv, AllocUserStackKeepsInv,
       InitContextKeepsInv, PublishKeepsInv DEF CreateStep
  <1>2. CASE scheduler_start
    BY <1>2, StartKeepsInv
  <1>3. CASE pit_init
    <2>1. c # BOOT /\ pc[c] \in KernelPC /\ intr
      BY <1>3 DEF pit_init, IInv, BootPhase, KernelPC, Creating, InterruptsRestored
    <2> QED BY <1>3, <1>t, <1>k, <2>1, ShellStepKeepsInv DEF pit_init
  <1>4. CASE SleepDone
    <2>1. c # BOOT /\ pc[c] \in KernelPC /\ intr
      BY <1>4 DEF SleepDone, IInv, BootPhase, KernelPC, Creating, InterruptsRestored
    <2> QED BY <1>4, <1>t, <1>k, <2>1, ShellStepKeepsInv DEF SleepDone
  <1>5. CASE ShellYield
    <2>1. c # BOOT /\ pc[c] = "call_yield" /\ exited' \subseteq Slot
          /\ scheduler_yield("call_yield")
      BY <1>5, <1>t DEF ShellYield, IInv, BootPhase, Creating
    <2> QED BY <2>1, YieldKeepsInv
  <1>6. CASE UserYield \/ UserExit
    <2>1. c # BOOT /\ pc[c] = "user" /\ scheduler_yield("syscall")
      BY <1>6 DEF UserYield, UserExit, IInv, BootPhase, Creating
    <2>2. exited' \subseteq Slot
      BY <1>6, <1>t, <2>1 DEF UserYield, UserExit, Thread
    <2> QED BY <2>1, <2>2, YieldKeepsInv
  <1>7. CASE SysRet
    <2>1. c # BOOT /\ pc[c] = "sysret"
      BY <1>7 DEF SysRet, IInv, BootPhase, Creating
    <2> QED BY <1>7, <1>t, <2>1, UserStepKeepsInv DEF SysRet
  <1>8. CASE UserFault
    <2>1. c # BOOT /\ pc[c] = "user"
      BY <1>8 DEF UserFault, IInv, BootPhase, Creating
    <2> QED BY <1>8, <1>t, <2>1, UserStepKeepsInv DEF UserFault
  <1>9. CASE PitTick
    BY <1>9, PitTickKeepsInv
  <1>10. CASE KeyboardIrq \/ PollSerial
    BY <1>10, <1>t, QuietStepKeepsInv DEF KeyboardIrq, PollSerial
  <1>11. CASE \E cmd \in Commands : RunCommand(cmd)
    BY <1>11, RunCommandKeepsInv
  <1>12. CASE UNCHANGED vars
    BY <1>12, <1>t, QuietStepKeepsInv DEF vars
  <1> QED BY <1>1, <1>2, <1>3, <1>4, <1>5, <1>6, <1>7, <1>8, <1>9, <1>10, <1>11,
             <1>12 DEF Next, ThreadStep

\* scheduler_init establishes IInv.
LEMMA InitEstablishesInv == ASSUME Init PROVE IInv
  <1>0. /\ \A s \in Slot : tasks[s] = unusedTask
        /\ current_task_id = BOOT /\ BOOT \notin Slot /\ BOOT \in Thread
        /\ Slot \subseteq Thread /\ 0 \in Slot
        /\ pc[BOOT] = "create" /\ \A s \in Slot : pc[s] = "off"
    BY SchedulerAssumption DEF Init, Slot, Thread, BOOT
  <1>1. TypeOK
    <2>1. unusedTask \in TaskRecord
      BY DEF unusedTask, TaskRecord, State, Ctx
    <2>2. pmm_bitmap \subseteq Page
      BY PageAssumption, SchedulerAssumption DEF Init, BootPages, Page
    <2>3. pc \in [Thread -> PC]
      BY DEF Init, PC
    <2>4. tasks \in [Slot -> TaskRecord]
      BY <2>1 DEF Init
    <2>5. mk \in [cmd : {"boot", "usermode", "exec"}, slot : Slot,
                  pages : 0 .. STACK_PAGES, bottom : Nat]
      BY <1>0 DEF Init, STACK_PAGES
    <2>6. /\ driver_pages \in DRIVER_PAGES /\ current_task_id \in Thread
          /\ next_task_id \in Nat /\ rsp0 \in Nat /\ intr \in BOOLEAN
          /\ irq0_in_service \in BOOLEAN /\ pit_on \in BOOLEAN
          /\ line \in BOOLEAN /\ sleep \in Nat /\ exited \subseteq Slot
      BY <1>0 DEF Init
    <2> QED BY <2>2, <2>3, <2>4, <2>5, <2>6 DEF TypeOK
  <1>2. \A s \in Slot : ~Live(s) /\ tasks[s].state # "RUNNING" /\ ~tasks[s].is_user
    BY <1>0 DEF Live, unusedTask
  <1>3. OneRunning /\ RunnableIsComplete /\ StacksAreOwned /\ StackTops
    BY <1>0, <1>2 DEF OneRunning, RunnableIsComplete, StacksAreOwned, StackTops
  <1>4. Rsp0IsCurrents /\ InterruptsRestored /\ EoiIsOwed /\ TaskCode /\ BootPhase
    BY <1>0, <1>2 DEF Init, Rsp0IsCurrents, InterruptsRestored, EoiIsOwed, TaskCode,
                      BootPhase
  <1>5. UsedIsPrefix
    BY PageAssumption, SchedulerAssumption DEF Init, UsedIsPrefix, BootPages
  <1>6. CreateInProgress
    BY <1>0 DEF CreateInProgress, Creating, Thread
  <1> QED BY <1>1, <1>3, <1>4, <1>5, <1>6 DEF IInv

\* Every reachable state of the scheduler, for any number of slots and pages,
\* satisfies IInv.
THEOREM Invariance == Spec => []IInv
  <1>1. Init => IInv BY InitEstablishesInv
  <1>2. IInv /\ [Next]_vars => IInv' BY NextKeepsInv
  <1> QED BY <1>1, <1>2, PTL DEF Spec

\* The task table, the CPU state and the locals of a create call keep their types.
THEOREM TypeCorrect == Spec => []TypeOK
  <1>1. IInv => TypeOK BY DEF IInv
  <1> QED BY <1>1, Invariance, PTL

\* Exactly the task current_task_id names is RUNNING.
THEOREM OneRunningHolds == Spec => []OneRunning
  <1>1. IInv => OneRunning BY DEF IInv
  <1> QED BY <1>1, Invariance, PTL

\* No tick ever finds a READY task that a create call has not finished.
THEOREM RunnableIsCompleteHolds == Spec => []RunnableIsComplete
  <1>1. IInv => RunnableIsComplete BY DEF IInv
  <1> QED BY <1>1, Invariance, PTL

\* The pages of the runnable tasks' stacks are consecutive, allocated, and
\* pairwise disjoint, although they are taken one at a time.
THEOREM StacksAreOwnedHolds == Spec => []StacksAreOwned
  <1>1. IInv => StacksAreOwned BY DEF IInv
  <1> QED BY <1>1, Invariance, PTL

\* TSS.rsp0 is the kernel stack of the task that runs.
THEOREM Rsp0IsCurrentsHolds == Spec => []Rsp0IsCurrents
  <1>1. IInv => Rsp0IsCurrents BY DEF IInv
  <1> QED BY <1>1, Invariance, PTL

\* Interrupts are off only inside cmd_exec and after a fatal exception.
THEOREM InterruptsRestoredHolds == Spec => []InterruptsRestored
  <1>1. IInv => InterruptsRestored BY DEF IInv
  <1> QED BY <1>1, Invariance, PTL

\* An IRQ0 in service is owed its EOI by a suspended task.
THEOREM EoiIsOwedHolds == Spec => []EoiIsOwed
  <1>1. IInv => EoiIsOwed BY DEF IInv
  <1> QED BY <1>1, Invariance, PTL

(* The scheduler implements the ring of CpuRing.                           *)

Admitted == {s \in Slot : Live(s)}

\* A switch, by a tick or by a yield, passes the CPU to the admitted slot that is
\* nearest ahead of the current one.
LEMMA SwitchIsPass ==
  ASSUME IInv, current_task_id # BOOT,
         NEW n \in Slot \ {current_task_id}, find_next_ready_task(n),
         NEW how \in {"yield", "irq"}, NEW at \in PC, NEW isv \in BOOLEAN,
         SwitchTo(n, how, at, isv)
  PROVE  Ring!Pass
  <1> DEFINE c == current_task_id
  <1>1. n \in ReadySlots BY DEF find_next_ready_task
  <1>2. SwitchEffect(n, how, at) BY <1>1, SwitchFacts
  <1>3. Admitted' = Admitted
    BY <1>2 DEF SwitchEffect, Admitted
  <1>4. c \in Admitted /\ n \in Admitted \ {c} /\ c' = n
    BY <1>2 DEF SwitchEffect, Admitted, SwitchTo
  <1>5. ASSUME NEW s \in Admitted \ {c}
        PROVE  s \in ReadySlots
    BY <1>5 DEF Admitted, Live, ReadySlots, IInv, OneRunning
  <1>6. \A s \in Admitted \ {c} :
          (n - (c + 1)) % MAX_TASKS <= (s - (c + 1)) % MAX_TASKS
    BY <1>5 DEF find_next_ready_task, Distance
  <1> HIDE DEF c
  <1> QED BY <1>3, <1>4, <1>6 DEF Ring!Pass, Ring!Ahead, Admitted, c

\* A step that leaves every slot's state and the current task alone.
LEMMA StatesUnchanged ==
  ASSUME \A s \in Slot : tasks'[s].state = tasks[s].state, current_task_id' = current_task_id
  PROVE  UNCHANGED <<current_task_id, Admitted>>
  BY DEF Admitted, Live

\* Of the steps of a create call only the last one, which marks the task READY,
\* changes who may run.
LEMMA CreateStepIsAdmit ==
  ASSUME IInv, CreateStep
  PROVE  Ring!Admit \/ UNCHANGED <<current_task_id, Admitted>>
  <1>t. /\ tasks \in [Slot -> TaskRecord] /\ mk.slot \in Slot
        /\ current_task_id \in Thread
    BY DEF IInv, TypeOK
  <1>1. CASE TakeSlot
    <2>1. current_task_id' = current_task_id
      BY <1>1 DEF TakeSlot
    <2>2. ASSUME NEW s \in Slot, IsFreeSlot(s), tasks' = [tasks EXCEPT ![s] = ClaimedTask(s)]
          PROVE  Admitted' = Admitted
      <3>1. /\ ClaimedTask(s).state = "UNUSED" /\ ~Live(s)
            /\ \A r \in Slot : tasks'[r] = IF r = s THEN ClaimedTask(s) ELSE tasks[r]
        BY <1>t, <2>2 DEF ClaimedTask, IsFreeSlot, Live, TaskRecord
      <3>2. \A r \in Slot : tasks'[r].state \in {"READY", "RUNNING"} <=> Live(r)
        BY <3>1 DEF Live
      <3> QED BY <3>2 DEF Admitted, Live
    <2>3. ASSUME UNCHANGED tasks
          PROVE  Admitted' = Admitted
      BY <2>3 DEF Admitted, Live
    <2> QED BY <1>1, <2>1, <2>2, <2>3 DEF TakeSlot
  <1>2. CASE AllocStackPage \/ AllocUserStack \/ InitContext
    <2>1. current_task_id' = current_task_id
      BY <1>2 DEF AllocStackPage, AllocUserStack, InitContext
    <2>2. \A s \in Slot : tasks'[s].state = tasks[s].state
      <3>1. \/ UNCHANGED tasks
            \/ \E v : tasks' = [tasks EXCEPT ![mk.slot].stack_top = v]
            \/ \E v : tasks' = [tasks EXCEPT ![mk.slot].user_stack_top = v]
            \/ tasks' = [tasks EXCEPT ![mk.slot].ctx = "entry"]
        <4>1. CASE AllocStackPage
          BY <4>1 DEF AllocStackPage
        <4>2. CASE AllocUserStack
          BY <4>2 DEF AllocUserStack
        <4>3. CASE InitContext
          BY <4>3 DEF InitContext
        <4> QED BY <1>2, <4>1, <4>2, <4>3
      <3>2. ASSUME NEW v, tasks' = [tasks EXCEPT ![mk.slot].stack_top = v]
            PROVE  \A s \in Slot : tasks'[s].state = tasks[s].state
        BY <1>t, <3>2 DEF TaskRecord
      <3>3. ASSUME NEW v, tasks' = [tasks EXCEPT ![mk.slot].user_stack_top = v]
            PROVE  \A s \in Slot : tasks'[s].state = tasks[s].state
        BY <1>t, <3>3 DEF TaskRecord
      <3>4. ASSUME tasks' = [tasks EXCEPT ![mk.slot].ctx = "entry"]
            PROVE  \A s \in Slot : tasks'[s].state = tasks[s].state
        BY <1>t, <3>4 DEF TaskRecord
      <3> QED BY <3>1, <3>2, <3>3, <3>4
    <2> QED BY <2>1, <2>2, StatesUnchanged
  <1>3. CASE Publish
    <2>1. /\ tasks' = [tasks EXCEPT ![mk.slot].state = "READY"]
          /\ current_task_id' = current_task_id
          /\ pc[current_task_id] = "ready"
      BY <1>3 DEF Publish
    <2>2. ~Live(mk.slot)
      <3>1. "ready" \in Creating BY DEF Creating
      <3> QED BY <1>t, <2>1, <3>1 DEF IInv, CreateInProgress, CreateHolds
    <2>3. \A s \in Slot : tasks'[s].state = IF s = mk.slot THEN "READY" ELSE tasks[s].state
      BY <1>t, <2>1 DEF TaskRecord
    <2>4. Admitted' = Admitted \union {mk.slot}
      BY <1>t, <2>3 DEF Admitted, Live
    <2>5. mk.slot \in Ring!RingSlot \ Admitted
      BY <1>t, <2>2 DEF Ring!RingSlot, Admitted, Slot
    <2> QED BY <2>1, <2>4, <2>5 DEF Ring!Admit, Admitted
  <1> QED BY <1>1, <1>2, <1>3 DEF CreateStep

\* scheduler_start gives the CPU to the lowest admitted slot.
LEMMA StartIsStart ==
  ASSUME IInv, scheduler_start
  PROVE  Ring!Start \/ UNCHANGED <<current_task_id, Admitted>>
  <1>a. /\ tasks \in [Slot -> TaskRecord] /\ BOOT \notin Slot
        /\ current_task_id \in Thread /\ pc[current_task_id] = "start"
    BY SchedulerAssumption DEF IInv, TypeOK, Slot, BOOT, scheduler_start
  <1>b. current_task_id = BOOT
    BY <1>a DEF IInv, TaskCode, Thread, KernelPC, Creating, OneRunning, Live
  <1>c. Admitted = ReadySlots
    BY <1>a, <1>b DEF IInv, OneRunning, Admitted, Live, ReadySlots
  <1>1. ASSUME NEW n \in ReadySlots, \A r \in ReadySlots : n <= r,
               tasks' = [s \in Slot |->
                           [tasks[s] EXCEPT !.state =
                              IF s = n THEN "RUNNING"
                              ELSE IF tasks[s].state = "RUNNING" THEN "READY"
                              ELSE tasks[s].state]],
               current_task_id' = n
        PROVE  Ring!Start
    <2>1. \A s \in Slot : tasks'[s].state = IF s = n THEN "RUNNING"
                            ELSE IF tasks[s].state = "RUNNING" THEN "READY"
                            ELSE tasks[s].state
      BY <1>1, <1>a DEF TaskRecord
    <2>2. Admitted' = Admitted
      BY <1>1, <2>1 DEF Admitted, Live, ReadySlots
    <2> QED BY <1>1, <1>b, <1>c, <2>2 DEF Ring!Start, Admitted, BOOT
  <1>2. ASSUME UNCHANGED <<tasks, current_task_id>>
        PROVE  UNCHANGED <<current_task_id, Admitted>>
    BY <1>2 DEF Admitted, Live
  <1> QED BY <1>1, <1>2 DEF scheduler_start

\* The scheduler implements CpuRing: through every interleaving of ticks, yields,
\* system calls and creations the CPU passes round-robin between published tasks,
\* and a published task stays published.
THEOREM SchedulerImplementsRing == Spec => ImplementsRing
  <1>1. Init => Ring!RingInit
    <2> SUFFICES ASSUME Init PROVE Ring!RingInit
      OBVIOUS
    <2>1. \A s \in Slot : ~Live(s)
      BY DEF Init, Live, unusedTask
    <2> QED BY <2>1 DEF Init, Ring!RingInit, BOOT
  <1>2. IInv /\ [Next]_vars =>
          [Ring!RingNext]_<<current_task_id, {s \in Slot : Live(s)}>>
    <2> SUFFICES ASSUME IInv, [Next]_vars
                 PROVE  Ring!RingNext \/ UNCHANGED <<current_task_id, Admitted>>
      BY DEF Admitted
    <2>t. pc \in [Thread -> PC] /\ current_task_id \in Thread /\ irq0_in_service \in BOOLEAN
      BY DEF IInv, TypeOK
    <2>u. UNCHANGED <<tasks, current_task_id>> => UNCHANGED <<current_task_id, Admitted>>
      BY StatesUnchanged
    <2>1. ASSUME NEW at \in {"call_yield", "syscall"}, scheduler_yield(at),
                 current_task_id # BOOT
          PROVE  Ring!Pass \/ UNCHANGED <<current_task_id, Admitted>>
      <3>1. at \in PC BY DEF PC
      <3> QED BY <2>1, <2>t, <2>u, <3>1, SwitchIsPass DEF scheduler_yield
    <2>2. CASE CreateStep
      BY <2>2, CreateStepIsAdmit DEF Ring!RingNext
    <2>3. CASE scheduler_start
      BY <2>3, StartIsStart DEF Ring!RingNext
    <2>4. CASE ShellYield
      <3>1. current_task_id # BOOT /\ scheduler_yield("call_yield")
        BY <2>4 DEF ShellYield, IInv, BootPhase, Creating
      <3> QED BY <2>1, <3>1 DEF Ring!RingNext
    <2>5. CASE UserYield \/ UserExit
      <3>1. current_task_id # BOOT /\ scheduler_yield("syscall")
        BY <2>5 DEF UserYield, UserExit, IInv, BootPhase, Creating
      <3> QED BY <2>1, <3>1 DEF Ring!RingNext
    <2>6. CASE PitTick
      <3>1. current_task_id # BOOT
        BY <2>6 DEF PitTick, IInv, BootPhase
      <3>2. PICK at \in PC : at = pc[current_task_id]
        BY <2>t
      <3>3. ASSUME NEW n \in Slot \ {current_task_id}, find_next_ready_task(n),
                   SwitchTo(n, "irq", at, TRUE)
            PROVE  Ring!Pass
        BY <3>1, <3>3, SwitchIsPass
      <3> QED BY <2>6, <2>u, <3>2, <3>3 DEF PitTick, Ring!RingNext
    <2>7. CASE pit_init \/ SleepDone \/ SysRet \/ KeyboardIrq \/ PollSerial \/ UserFault
      BY <2>7, <2>u DEF pit_init, SleepDone, SysRet, KeyboardIrq, PollSerial, UserFault
    <2>8. ASSUME NEW cmd \in Commands, RunCommand(cmd)
          PROVE  UNCHANGED <<current_task_id, Admitted>>
      BY <2>8, <2>u DEF RunCommand
    <2>9. CASE UNCHANGED vars
      BY <2>9, <2>u DEF vars
    <2> QED BY <2>2, <2>3, <2>4, <2>5, <2>6, <2>7, <2>8, <2>9 DEF Next, ThreadStep
  <1> QED BY <1>1, <1>2, Invariance, PTL DEF Spec, ImplementsRing, Ring!RingSpec
=============================================================================
