------------------------------- MODULE KernelBoot -------------------------------
(***************************************************************************)
(* The kernel's lifecycle, kernel-c/src/kernel.c: ify_kernel_init() and    *)
(* ify_kernel_shutdown(), called by several threads, which claim the state *)
(* word with a compare-exchange and then start or stop the subsystems one  *)
(* by one with no lock held, while other threads trace.                    *)
(*                                                                         *)
(* A step is one subsystem call or one access to the state word.  Of the   *)
(* service registry only its initialised flag is kept (ServiceRegistry     *)
(* models the rest); the granted capabilities are left out.                *)
(***************************************************************************)
EXTENDS KernelTrace

CONSTANT MaxBoots  (* bound on the number of calls of ify_kernel_init() that claim *)

ASSUME KernelBootAssumption == MaxBoots \in Nat

VARIABLES
    kstate,    (* g_kernel.state                                             *)
    boot,      (* where each thread is in an init or a shutdown              *)
    registry,  (* g_svc_initialized                                          *)
    boots,     (* the number of inits so far                                 *)
    raced      (* a shutdown has claimed the state word during an init       *)

boot_vars == <<kstate, boot, registry, boots, raced>>

kernel_vars == <<trace_vars, boot_vars>>

BootTypeOK ==
    /\ TraceTypeOK
    /\ kstate \in {"UNINIT", "RUNNING", "SHUTDOWN"}
    /\ boot \in [Tracers -> {"none", "registry init", "trace init", "undo", "fail",
                             "trace shutdown", "registry shutdown", "done"}]
    /\ registry \in BOOLEAN
    /\ boots \in 0..MaxBoots
    /\ raced \in BOOLEAN

BootInit ==
    /\ TraceStart
    /\ kstate = "UNINIT"
    /\ boot = [th \in Tracers |-> "none"]
    /\ registry = FALSE
    /\ boots = 0
    /\ raced = FALSE

At(th, here, next) ==
    /\ boot[th] = here
    /\ boot' = [boot EXCEPT ![th] = next]

Initialising == \E th \in Tracers : boot[th] \in {"registry init", "trace init", "undo", "fail"}

-----------------------------------------------------------------------------
(* ify_kernel_init() and start_subsystems().                                   *)
KernelInit(th) ==
    /\ kstate = "UNINIT"
    /\ boots < MaxBoots
    /\ boots' = boots + 1
    /\ local[th] = Idle
    /\ At(th, "none", "registry init")
    /\ kstate' = "RUNNING"
    /\ UNCHANGED <<trace_vars, registry, raced>>

InitRegistry(th) ==
    /\ At(th, "registry init", "trace init")
    /\ registry' = TRUE
    /\ UNCHANGED <<trace_vars, kstate, boots, raced>>

InitTrace(th) ==
    /\ At(th, "trace init", "none")
    /\ TraceInit
    /\ UNCHANGED <<kstate, registry, boots, raced>>

(* ify_trace_init() returns an error: it is initialised already, or calloc()   *)
(* fails.                                                                      *)
InitTraceFailsSilently(th) ==
    /\ At(th, "trace init", "none")
    /\ UNCHANGED <<trace_vars, kstate, registry, boots, raced>>

InitTraceFails(th) ==
    /\ At(th, "trace init", "undo")
    /\ UNCHANGED <<trace_vars, kstate, registry, boots, raced>>

UndoRegistry(th) ==
    /\ At(th, "undo", "fail")
    /\ registry' = FALSE
    /\ UNCHANGED <<trace_vars, kstate, boots, raced>>

InitFails(th) ==
    /\ At(th, "fail", "none")
    /\ kstate' = "UNINIT"
    /\ UNCHANGED <<trace_vars, registry, boots, raced>>

(* ify_kernel_shutdown().                                                      *)
KernelShutdown(th) ==
    /\ kstate = "RUNNING"
    /\ local[th] = Idle
    /\ At(th, "none", "trace shutdown")
    /\ kstate' = "SHUTDOWN"
    /\ raced' = (raced \/ Initialising)
    /\ UNCHANGED <<trace_vars, registry, boots>>

ShutdownTrace(th) ==
    /\ At(th, "trace shutdown", "registry shutdown")
    /\ TraceShutdown
    /\ UNCHANGED <<kstate, registry, boots, raced>>

ShutdownRegistry(th) ==
    /\ At(th, "registry shutdown", "done")
    /\ registry' = FALSE
    /\ UNCHANGED <<trace_vars, kstate, boots, raced>>

ShutdownDone(th) ==
    /\ At(th, "done", "none")
    /\ kstate' = "UNINIT"
    /\ UNCHANGED <<trace_vars, registry, boots, raced>>

BootNext ==
    \E th \in Tracers :
       \/ boot[th] = "none" /\ Trace(th) /\ UNCHANGED boot_vars
       \/ KernelInit(th)
       \/ InitRegistry(th)
       \/ InitTrace(th)
       \/ InitTraceFails(th)
       \/ UndoRegistry(th)
       \/ InitFails(th)
       \/ KernelShutdown(th)
       \/ ShutdownTrace(th)
       \/ ShutdownRegistry(th)
       \/ ShutdownDone(th)

BootSpec == BootInit /\ [][BootNext]_kernel_vars

-----------------------------------------------------------------------------
Quiet == \A th \in Tracers : boot[th] = "none"

UpTogether ==
    /\ kstate = "RUNNING" => registry /\ initialized
    /\ kstate # "RUNNING" => ~registry /\ ~initialized

(* When no init or shutdown is under way, a RUNNING kernel has both of its    *)
(* subsystems and any other kernel neither, through failed initialisations    *)
(* and competing calls, as long as no shutdown has overtaken an init.         *)
BootConsistent == Quiet /\ ~raced => UpTogether

(* Through every boot and shutdown, also overtaken ones, the trace ring holds *)
(* exactly the newest spans, each span is stored and emitted at most once,    *)
(* and the readers get the spans in order (trace.c).                          *)
TraceExact == BootTypeOK /\ RingHoldsNewest /\ StoredOnce /\ ReadInOrder
================================================================================
