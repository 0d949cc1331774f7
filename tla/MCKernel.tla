-------------------------------- MODULE MCKernel --------------------------------
(* An instance for TLC of the kernel: its core, and its two tables, the        *)
(* services and the replicas.  A behaviour of the kernel, seen by one of its   *)
(* parts, is a behaviour of that part, as they share no data: each behaviour   *)
(* of the run exercises one part; a behaviour of the trace ring has all the     *)
(* spans and one boot, and one of the boot sequence all the boots and two spans. *)
EXTENDS KernelCore, ServiceRegistry, Replication

CONSTANTS th1, th2, f, a, b

VARIABLE part

all_vars == <<vars, timer_vars, kernel_vars, svc_vars, rep_vars, part>>

MCThreads == {th1, th2}

MCNames == {a, b}

MCInit ==
    /\ Init /\ TimerInit /\ BootInit /\ SvcInit /\ RepInit
    /\ part \in {"tasks", "timers", "trace", "boot", "services", "replicas"}
    /\ part # "tasks" => limit = 1

MCNext ==
    \/ part = "tasks" /\ Next /\ UNCHANGED <<timer_vars, kernel_vars, svc_vars, rep_vars, part>>
    \/ part = "timers" /\ TimerNext /\ UNCHANGED <<vars, kernel_vars, svc_vars, rep_vars, part>>
    \/ /\ part \in {"trace", "boot"} /\ BootNext
       /\ UNCHANGED <<vars, timer_vars, svc_vars, rep_vars, part>>
       /\ part = "trace" => boots' <= 1
       /\ part = "boot" => span_seq' <= 2
    \/ part = "services" /\ SvcNext /\ UNCHANGED <<vars, timer_vars, kernel_vars, rep_vars, part>>
    \/ part = "replicas" /\ RepNext /\ UNCHANGED <<vars, timer_vars, kernel_vars, svc_vars, part>>

(* Task functions and callbacks return, and sleeps end.                        *)
MCSpec ==
    /\ MCInit
    /\ [][MCNext]_all_vars
    /\ Fairness
    /\ \A th \in SvcThreads : WF_svc_vars(CallbackReturns(th))

(* A shutdown that has ended leaves nothing up, and if callbacks return, no    *)
(* service stays Starting.                                                     *)
ServicesEnd == ShutdownStopsAll /\ StartEnds
================================================================================
