------------------------------- MODULE KernelCore -------------------------------
(***************************************************************************)
(* The core of the kernel: the two halves of kernel-c/src/scheduler.c,     *)
(* tasks and timers, and the boot sequence of kernel.c with the trace ring *)
(* of trace.c.  They share no data (tasks and timers share the lock), so   *)
(* that the core is their conjunction.                                     *)
(***************************************************************************)
EXTENDS KernelScheduler, KernelTimer, KernelBoot

CoreSpec == Spec /\ TimerSpec /\ BootSpec

-----------------------------------------------------------------------------
(* No finished task changes and the most urgent queued task is taken first    *)
(* (drain_queue()); a timer fires at most once, not early, not after it was   *)
(* cancelled in the list, and a firing loop leaves none behind that was due   *)
(* when it began (ify_timer_once()).                                          *)
TakenInOrder ==
    /\ TerminalFinal /\ HighestFirst
    /\ []TimerTypeOK /\ FiresOnceWhenDue /\ CallFiresAllDue
================================================================================
