---------------------------- MODULE MCTaskScheduler ----------------------------
(* An instance of TaskScheduler for TLC: independent tasks of one dimension,  *)
(* made from a template and retried once, and a less urgent task of another   *)
(* dimension that waits for two of them and may run while theirs is full.     *)
EXTENDS TaskScheduler

CONSTANTS t1, t2, t3, dA, dB

MCSpecs ==
    {[dim |-> dB, priority |-> 0, max_attempts |-> 1, deps |-> {t1, t2}]}

MCTemplates == {[priority |-> 1, max_attempts |-> 2]}

MCQuotas == {[max_concurrent |-> 1, max_queued |-> 2]}
================================================================================
