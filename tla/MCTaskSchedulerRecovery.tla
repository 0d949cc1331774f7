------------------------ MODULE MCTaskSchedulerRecovery ------------------------
(* An instance of TaskSchedulerRecovery for TLC: a task without prerequisites *)
(* or retries, and one that waits for t1 and is retried once.                 *)
EXTENDS TaskSchedulerRecovery

CONSTANTS t1, t2, dA

MCSpecs ==
    {[dim |-> dA, priority |-> 1, max_attempts |-> 1, deps |-> {}],
     [dim |-> dA, priority |-> 1, max_attempts |-> 2, deps |-> {t1}]}

MCQuotas == {[max_concurrent |-> 1, max_queued |-> 2]}
================================================================================
