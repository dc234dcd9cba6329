---------------------------- MODULE MCScheduler ----------------------------
(***************************************************************************)
(* Instances of Scheduler for TLC: three task slots (the shell and two     *)
(* user tasks), a page pool that is large enough or that runs out in the   *)
(* middle of a create call.                                                *)
(***************************************************************************)
EXTENDS Scheduler

\* Every slot can be filled and the third creation fails for want of a slot;
\* with fewer pages than 14 + NIC_PAGES one fails for want of memory.
YieldingPrograms == {"SYS_YIELD"}
AllPrograms == {"SYS_YIELD", "SYS_EXIT", "FAULT"}
ExitingPrograms == {"SYS_YIELD", "SYS_EXIT"}
=============================================================================
