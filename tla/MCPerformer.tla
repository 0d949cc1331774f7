------------------------------ MODULE MCPerformer ------------------------------
(* An instance for TLC of the orchestrator with the action log, and of the    *)
(* executor.  The code does not connect them (orchestrator.rs:20 leaves it to *)
(* deployments): each behaviour of the run exercises one.                     *)
EXTENDS Orchestrator, Executor

CONSTANTS th1, th2, t1, t2, watcher, r1, r2

VARIABLE part

MCThreads == {th1, th2}

MCTasks == {t1, t2}

MCFollowers == {watcher}

MCRunners == {r1, r2}

MCInit == Init /\ ExecInit /\ part \in {"orchestrator", "executor"}

MCNext ==
    \/ part = "orchestrator" /\ Next /\ UNCHANGED <<exec_vars, part>>
    \/ part = "executor" /\ ExecNext /\ UNCHANGED <<vars, part>>

MCSpec == MCInit /\ [][MCNext]_<<vars, exec_vars, part>> /\ Fairness
================================================================================
