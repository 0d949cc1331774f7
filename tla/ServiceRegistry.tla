---------------------------- MODULE ServiceRegistry ----------------------------
(***************************************************************************)
(* The kernel's service registry, kernel-c/src/service_registry.c: a table *)
(* of services under one lock, g_svc_lock, which is released around every  *)
(* start and stop callback and around the back-off sleeps of a restart.    *)
(*                                                                         *)
(* A step is one section that holds the lock.  A thread that is inside a   *)
(* callback or asleep has a call record that holds what the code keeps in  *)
(* local variables over the unlocked stretch.                              *)
(*                                                                         *)
(* Names are model values.  Every registration gets a number of its own,   *)
(* `inst`, which stands for the descriptor's callbacks and context: it is  *)
(* what a callback acts on, and it tells apart two services that are given *)
(* the same id, as ids start again from 1 when the registry is             *)
(* re-initialised.  The length of a back-off is left out.                  *)
(***************************************************************************)
EXTENDS Integers, FiniteSets

CONSTANTS
    SvcThreads,         (* the threads that call the registry                 *)
    Names,              (* the names of services                              *)
    ServiceMax,         (* IFY_SERVICE_MAX                                    *)
    Restarts,           (* the max_restarts values in use                     *)
    MaxRegistrations    (* bound on the number of registrations               *)

ASSUME RegistryAssumption ==
    /\ ServiceMax \in Nat
    /\ Restarts \subseteq Nat
    /\ MaxRegistrations \in Nat

VARIABLES
    slots,        (* g_svc                                                    *)
    next_id,      (* g_svc_next_id                                            *)
    svc_initialized, (* g_svc_initialized                                     *)
    lock_leaked,  (* a call has returned without releasing g_svc_lock         *)
    calls,        (* what each thread is in the middle of                     *)
    next_inst,    (* the number of registrations so far                       *)
    up,           (* the instances that a start callback has brought up and   *)
                  (* no stop callback has taken down                          *)
    bad_stop,     (* a stop callback was called for an instance that is not   *)
                  (* up, or through a slot that has been cleared              *)
    overlapped    (* a shutdown and another call have been under way at once  *)

svc_vars == <<slots, next_id, svc_initialized, lock_leaked, calls, next_inst, up, bad_stop,
          overlapped>>

SvcState == {"Unregistered", "Registered", "Starting", "Running", "Stopping", "Failed",
             "Stopped"}

Slots == 1..ServiceMax

Instances == 1..MaxRegistrations

NoName == "no name"

(* A slot after memset().                                                     *)
Cleared == [id |-> 0, inst |-> 0, name |-> NoName, state |-> "Unregistered",
            max_restarts |-> 0, restart_count |-> 0]

(* The local variables of a call: what it does, the id and the descriptor it  *)
(* has read, the attempts it has made, and the slot a shutdown is at.         *)
Call(op, id, inst, max_restarts, slot) ==
    [op |-> op, id |-> id, inst |-> inst, max_restarts |-> max_restarts, attempt |-> 0,
     slot |-> slot]

SvcIdle == Call("idle", 0, 0, 0, 0)

SvcTypeOK ==
    /\ slots \in [Slots -> [id : Nat, inst : 0..MaxRegistrations, name : Names \cup {NoName},
                            state : SvcState, max_restarts : Nat, restart_count : Nat]]
    /\ \A i \in Slots : slots[i].state = "Unregistered" => slots[i] = Cleared
    /\ next_id \in 1..(MaxRegistrations + 1)
    /\ svc_initialized \in BOOLEAN
    /\ lock_leaked \in BOOLEAN
    /\ \A th \in SvcThreads :
          /\ calls[th].op \in {"idle", "starting", "sleeping", "stopping", "shutdown",
                               "shutdown stopping"}
          /\ calls[th].inst \in 0..MaxRegistrations
          /\ calls[th].slot \in 0..ServiceMax
    /\ next_inst \in 0..MaxRegistrations
    /\ up \subseteq Instances
    /\ bad_stop \in BOOLEAN
    /\ overlapped \in BOOLEAN

-----------------------------------------------------------------------------
(* slot_by_id() and slot_free(): the first slot that matches.                 *)
Matches(id) == {i \in Slots : slots[i].id = id /\ slots[i].state # "Unregistered"}

Free == {i \in Slots : slots[i].state = "Unregistered"}

First(S) == CHOOSE i \in S : \A j \in S : i <= j

Last(S) == CHOOSE i \in S : \A j \in S : i >= j

SetState(i, s) == slots' = [slots EXCEPT ![i].state = s]

CanLock(th, op) == ~lock_leaked /\ calls[th].op = op

(* Clients call the registry of an initialised kernel.                        *)
ShuttingDown == \E th \in SvcThreads : calls[th].op \in {"shutdown", "shutdown stopping"}

Client(th) ==
    /\ CanLock(th, "idle")
    /\ svc_initialized
    /\ overlapped' = (overlapped \/ ShuttingDown)

SvcInit ==
    /\ slots = [i \in Slots |-> Cleared]
    /\ next_id = 1
    /\ svc_initialized = TRUE
    /\ lock_leaked = FALSE
    /\ calls = [th \in SvcThreads |-> SvcIdle]
    /\ next_inst = 0
    /\ up = {}
    /\ bad_stop = FALSE
    /\ overlapped = FALSE

-----------------------------------------------------------------------------
(* ify_service_registry_init(), which ify_kernel_init() calls when the kernel *)
(* is not running.                                                            *)
RegistryInit(th) ==
    /\ CanLock(th, "idle")
    /\ ~svc_initialized
    /\ slots' = [i \in Slots |-> Cleared]
    /\ next_id' = 1
    /\ svc_initialized' = TRUE
    /\ UNCHANGED <<lock_leaked, calls, next_inst, up, bad_stop, overlapped>>

(* ify_service_register().                                                    *)
NameIsFree(name) == \A i \in Slots : slots[i].state # "Unregistered" => slots[i].name # name

Register(th, name, restarts) ==
    /\ Client(th)
    /\ NameIsFree(name)
    /\ Free # {}
    /\ next_inst < MaxRegistrations
    /\ next_inst' = next_inst + 1
    /\ slots' = [slots EXCEPT ![First(Free)] =
                    [id |-> next_id, inst |-> next_inst + 1, name |-> name,
                     state |-> "Registered", max_restarts |-> restarts, restart_count |-> 0]]
    /\ next_id' = next_id + 1
    /\ UNCHANGED <<svc_initialized, lock_leaked, calls, up, bad_stop>>

(* ify_service_unregister().                                                  *)
UnregisterAny(th, id) ==
    /\ Client(th)
    /\ Matches(id) # {}
    /\ slots' = [slots EXCEPT ![First(Matches(id))] = Cleared]
    /\ UNCHANGED <<next_id, svc_initialized, lock_leaked, calls, next_inst, up, bad_stop>>

UnregisterKeepsFields(th, id) ==
    /\ Client(th)
    /\ Matches(id) # {}
    /\ slots[First(Matches(id))].state \notin {"Running", "Starting"}
    /\ SetState(First(Matches(id)), "Unregistered")
    /\ UNCHANGED <<next_id, svc_initialized, lock_leaked, calls, next_inst, up, bad_stop>>

Unregister(th, id) ==
    /\ Client(th)
    /\ Matches(id) # {}
    /\ slots[First(Matches(id))].state \notin {"Running", "Starting"}
    /\ slots' = [slots EXCEPT ![First(Matches(id))] = Cleared]
    /\ UNCHANGED <<next_id, svc_initialized, lock_leaked, calls, next_inst, up, bad_stop>>

-----------------------------------------------------------------------------
(* ify_service_start(), up to the first call of the start callback.           *)
StartableOrStarting == {"Registered", "Stopped", "Failed", "Starting"}

Startable == {"Registered", "Stopped", "Failed"}

Start(th, id) ==
    /\ Client(th)
    /\ Matches(id) # {}
    /\ LET i == First(Matches(id)) IN
          /\ slots[i].state \in Startable
          /\ slots' = [slots EXCEPT ![i].state = "Starting", ![i].restart_count = 0]
          /\ calls' = [calls EXCEPT
                ![th] = Call("starting", id, slots[i].inst, slots[i].max_restarts, 0)]
    /\ UNCHANGED <<next_id, svc_initialized, lock_leaked, next_inst, up, bad_stop>>

(* The slot is looked up again after every unlocked stretch; when it has gone *)
(* the call returns, with the lock held.                                      *)
ReturnHoldingLock(th) ==
    /\ lock_leaked' = TRUE
    /\ calls' = [calls EXCEPT ![th] = SvcIdle]
    /\ UNCHANGED <<slots, next_id, svc_initialized, next_inst, bad_stop, overlapped>>

RestartsLeft(c) == c.attempt < c.max_restarts

StartSucceeds(th) ==
    /\ CanLock(th, "starting")
    /\ up' = up \cup {calls[th].inst}
    /\ LET id == calls[th].id IN
          \/ Matches(id) = {} /\ ReturnHoldingLock(th)
          \/ /\ Matches(id) # {}
             /\ SetState(First(Matches(id)), "Running")
             /\ calls' = [calls EXCEPT ![th] = SvcIdle]
             /\ UNCHANGED <<next_id, svc_initialized, lock_leaked, next_inst, bad_stop, overlapped>>

GiveUpQuietly(th) ==
    /\ CanLock(th, "starting")
    /\ Matches(calls[th].id) # {}
    /\ calls' = [calls EXCEPT ![th] = SvcIdle]
    /\ UNCHANGED <<slots, next_id, svc_initialized, lock_leaked, next_inst, up, bad_stop,
                   overlapped>>

StartFails(th) ==
    /\ CanLock(th, "starting")
    /\ LET c == calls[th]
           i == First(Matches(c.id)) IN
          \/ Matches(c.id) = {} /\ ReturnHoldingLock(th)
          \/ /\ Matches(c.id) # {}
             /\ \/ /\ RestartsLeft(c)
                   /\ slots' = [slots EXCEPT ![i].restart_count = @ + 1]
                   /\ calls' = [calls EXCEPT ![th].op = "sleeping"]
                \/ /\ ~RestartsLeft(c)
                   /\ slots' = [slots EXCEPT ![i].restart_count = @ + 1, ![i].state = "Failed"]
                   /\ calls' = [calls EXCEPT ![th] = SvcIdle]
             /\ UNCHANGED <<next_id, svc_initialized, lock_leaked, next_inst, bad_stop, overlapped>>
    /\ UNCHANGED up

StartWakes(th) ==
    /\ CanLock(th, "sleeping")
    /\ \/ Matches(calls[th].id) = {} /\ ReturnHoldingLock(th)
       \/ /\ Matches(calls[th].id) # {}
          /\ calls' = [calls EXCEPT ![th].op = "starting", ![th].attempt = @ + 1]
          /\ UNCHANGED <<slots, next_id, svc_initialized, lock_leaked, next_inst, bad_stop,
                         overlapped>>
    /\ UNCHANGED up

-----------------------------------------------------------------------------
(* ify_service_stop().                                                        *)
StoppableOrStopping == {"Running", "Stopping"}

Stoppable == {"Running"}

Stop(th, id) ==
    /\ Client(th)
    /\ Matches(id) # {}
    /\ LET i == First(Matches(id)) IN
          /\ slots[i].state \in Stoppable
          /\ SetState(i, "Stopping")
          /\ calls' = [calls EXCEPT ![th] = Call("stopping", id, slots[i].inst, 0, 0)]
    /\ UNCHANGED <<next_id, svc_initialized, lock_leaked, next_inst, up, bad_stop>>

StopReturns(th) ==
    /\ CanLock(th, "stopping")
    /\ LET c == calls[th] IN
          /\ up' = up \ {c.inst}
          /\ bad_stop' = (bad_stop \/ c.inst \notin up)
          /\ IF Matches(c.id) # {} THEN SetState(First(Matches(c.id)), "Stopped")
                                   ELSE UNCHANGED slots
    /\ calls' = [calls EXCEPT ![th] = SvcIdle]
    /\ UNCHANGED <<next_id, svc_initialized, lock_leaked, next_inst, overlapped>>

-----------------------------------------------------------------------------
(* ify_service_registry_shutdown() walks the table from its end.  Scan(th, sl, *)
(* top) goes on below slot `top` with the table sl, to the next service to    *)
(* stop, or to the end, where it clears the table.                            *)
StartingOnly == {"Starting"}

ToStop == {"Running", "Starting"}

Scan(th, sl, top) ==
    LET busy == {i \in 1..(top - 1) : sl[i].state \in ToStop} IN
       \/ /\ busy # {}
          /\ slots' = [sl EXCEPT ![Last(busy)].state = "Stopping"]
          /\ calls' = [calls EXCEPT ![th] = Call("shutdown", 0, 0, 0, Last(busy))]
          /\ UNCHANGED svc_initialized
       \/ /\ busy = {}
          /\ slots' = [i \in Slots |-> Cleared]
          /\ calls' = [calls EXCEPT ![th] = SvcIdle]
          /\ svc_initialized' = FALSE

Shutdown(th) ==
    /\ CanLock(th, "idle")
    /\ svc_initialized
    /\ ~ShuttingDown
    /\ overlapped' = (overlapped \/ \E other \in SvcThreads : calls[other] # SvcIdle)
    /\ Scan(th, slots, ServiceMax + 1)
    /\ UNCHANGED <<next_id, lock_leaked, next_inst, up, bad_stop>>

(* With the lock released, the call reads the stop callback from the slot.    *)
ShutdownCalls(th) ==
    /\ calls[th].op = "shutdown"
    /\ LET inst == slots[calls[th].slot].inst IN
          /\ calls' = [calls EXCEPT ![th].op = "shutdown stopping", ![th].inst = inst]
          /\ bad_stop' = (bad_stop \/ inst \notin up)
    /\ UNCHANGED <<slots, next_id, svc_initialized, lock_leaked, next_inst, up, overlapped>>

ShutdownReturns(th) ==
    /\ CanLock(th, "shutdown stopping")
    /\ up' = up \ {calls[th].inst}
    /\ Scan(th, [slots EXCEPT ![calls[th].slot].state = "Stopped"], calls[th].slot)
    /\ UNCHANGED <<next_id, lock_leaked, next_inst, bad_stop, overlapped>>

-----------------------------------------------------------------------------
CallbackReturns(th) ==
    \/ StartSucceeds(th)
    \/ StartFails(th)
    \/ StartWakes(th)
    \/ StopReturns(th)
    \/ ShutdownCalls(th)
    \/ ShutdownReturns(th)

SvcNext ==
    \E th \in SvcThreads :
       \/ RegistryInit(th)
       \/ \E name \in Names, r \in Restarts : Register(th, name, r)
       \/ \E id \in 1..MaxRegistrations :
             Unregister(th, id) \/ Start(th, id) \/ Stop(th, id)
       \/ StartSucceeds(th)
       \/ StartFails(th)
       \/ StartWakes(th)
       \/ StopReturns(th)
       \/ Shutdown(th)
       \/ ShutdownCalls(th)
       \/ ShutdownReturns(th)

SvcSpec == SvcInit /\ [][SvcNext]_svc_vars

(* Callbacks return and sleeps end.                                           *)
SvcFairSpec == SvcSpec /\ \A th \in SvcThreads : WF_svc_vars(CallbackReturns(th))

-----------------------------------------------------------------------------
(* What follows holds as long as no shutdown overlaps another call, which the *)
(* code does not prevent.                                                     *)

(* No orphan: a service that is up is Running or Stopping in the table, or    *)
(* the thread that stops it is about to take it down; and a service is        *)
(* Running in the table only while it is up.                                  *)
UpIsTracked ==
    ~overlapped =>
       /\ \A x \in up :
             \/ \E i \in Slots : slots[i].inst = x /\ slots[i].state \in {"Running", "Stopping"}
             \/ \E th \in SvcThreads : calls[th].op = "stopping" /\ calls[th].inst = x
       /\ \A i \in Slots : slots[i].state = "Running" => slots[i].inst \in up

(* "Called once when the service is stopped" (service_registry.h:107): the    *)
(* stop callback is called only for a service that its start callback has     *)
(* brought up.                                                                *)
StopOncePerStart == ~overlapped => ~bad_stop

(* One start at a time: a service has at most one thread in its start         *)
(* callback or between two attempts, and is not up at that time.              *)
OneStarter ==
    ~overlapped =>
       \A a, b \in SvcThreads :
          calls[a].op \in {"starting", "sleeping"} =>
             /\ calls[a].inst \notin up
             /\ calls[b].op \in {"starting", "sleeping"} /\ a # b
                  => calls[a].inst # calls[b].inst

(* However starts, stops, restarts and shutdowns of the threads interleave,   *)
(* what is up has a slot that says so, is stopped once per start and has one  *)
(* starter (service_registry.c).                                              *)
ServicesSound == SvcTypeOK /\ UpIsTracked /\ StopOncePerStart /\ OneStarter

(* "Shut down the service registry, stopping all running services."           *)
(* (service_registry.h:164): when it has ended nothing is up.                 *)
ShutdownStopsAll == [][svc_initialized /\ ~svc_initialized' /\ ~overlapped' => up' = {}]_svc_vars

(* Liveness: if callbacks return, a service does not stay Starting, whatever  *)
(* other threads do to it while it starts.                                    *)
StartEnds ==
    \A i \in Slots :
       slots[i].state = "Starting" ~> slots[i].state # "Starting" \/ overlapped

-----------------------------------------------------------------------------
(* What the comments state beyond this.                                       *)

(* "Re-fetch slot in case the table changed during the unlock."               *)
(* (service_registry.c:195): the change is handled, and g_svc_lock is         *)
(* released on this return as on every other.                                 *)
LockReleased == ~lock_leaked
================================================================================
