------------------------------ MODULE Replication ------------------------------
(***************************************************************************)
(* Replica kernels, kernel-c/src/replication.c: a table of replicas under  *)
(* g_rep_lock, each of which owns an arena and a scheduler.  The lock is   *)
(* not held while the two are allocated, while they are destroyed, or      *)
(* while ify_replica_submit() is inside the scheduler.                     *)
(*                                                                         *)
(* A step is a section that holds the lock or one of the unlocked          *)
(* stretches between two of them.  Arena and scheduler of one creation     *)
(* have the same number; 0 is NULL.  The replica's dimension, owner and    *)
(* limits are left out; of the scheduler only its existence is modelled    *)
(* (KernelScheduler models the rest).                                      *)
(***************************************************************************)
EXTENDS Integers, FiniteSets

CONSTANTS
    RepThreads,       (* the threads that use replicas                        *)
    ReplicaMax,       (* IFY_REPLICA_MAX                                      *)
    MaxCreations      (* bound on the number of creations                     *)

ASSUME ReplicationAssumption == ReplicaMax \in Nat /\ MaxCreations \in Nat

VARIABLES
    replicas,    (* g_replicas                                                *)
    rep_next_id, (* g_rep_next_id                                             *)
    rep_calls,   (* what each thread is in the middle of                      *)
    created,     (* the number of allocations so far                          *)
    arenas,      (* the arenas that exist                                     *)
    schedulers,  (* the schedulers that exist                                 *)
    misuse,      (* "double free", "use after free"                           *)
    contended    (* the replicas destroyed while another call was using them  *)

rep_vars == <<replicas, rep_next_id, rep_calls, created, arenas, schedulers, misuse, contended>>

RepSlots == 1..ReplicaMax

Resources == 1..MaxCreations

ReplicaState == {"Free", "Created", "Running", "Draining", "Destroyed"}

NoReplica == [id |-> 0, state |-> "Free", auto_destroy |-> FALSE, arena |-> 0, scheduler |-> 0]

(* The local variables of a call.                                             *)
RepCall(op, slot, id, auto, arena, scheduler) ==
    [op |-> op, slot |-> slot, id |-> id, auto_destroy |-> auto, arena |-> arena,
     scheduler |-> scheduler]

RepIdle == RepCall("idle", 0, 0, FALSE, 0, 0)

RepTypeOK ==
    /\ replicas \in [RepSlots -> [id : 0..MaxCreations, state : ReplicaState,
                                  auto_destroy : BOOLEAN, arena : 0..MaxCreations,
                                  scheduler : 0..MaxCreations]]
    /\ rep_next_id \in 1..(MaxCreations + 1)
    /\ rep_calls \in [RepThreads -> [op : {"idle", "reserved", "allocated", "overflow",
                                            "destroying", "released", "submitting",
                                            "in scheduler"},
                                     slot : 0..ReplicaMax, id : 0..MaxCreations,
                                     auto_destroy : BOOLEAN, arena : 0..MaxCreations,
                                     scheduler : 0..MaxCreations]]
    /\ created \in 0..MaxCreations
    /\ arenas \subseteq 1..created
    /\ schedulers \subseteq 1..created
    /\ misuse \subseteq {"double free", "use after free"}
    /\ contended \subseteq 1..MaxCreations

-----------------------------------------------------------------------------
(* rep_find() and rep_free_slot(): the first slot that matches.               *)
Available(i) == replicas[i].state \in {"Free", "Destroyed"}

Found(id) == {i \in RepSlots : replicas[i].id = id /\ ~Available(i)}

FreeSlots == {i \in RepSlots : Available(i)}

FirstSlot(S) == CHOOSE i \in S : \A j \in S : i <= j

SetCall(th, c) == rep_calls' = [rep_calls EXCEPT ![th] = c]

RepInit ==
    /\ replicas = [i \in RepSlots |-> NoReplica]
    /\ rep_next_id = 1
    /\ rep_calls = [th \in RepThreads |-> RepIdle]
    /\ created = 0
    /\ arenas = {}
    /\ schedulers = {}
    /\ misuse = {}
    /\ contended = {}

-----------------------------------------------------------------------------
(* ify_replica_create() picks a slot and releases the lock without marking    *)
(* the slot, ...                                                              *)
Create(th, auto) ==
    /\ rep_calls[th] = RepIdle
    /\ FreeSlots # {}
    /\ created < MaxCreations
    /\ SetCall(th, RepCall("reserved", FirstSlot(FreeSlots), 0, auto, 0, 0))
    /\ UNCHANGED <<replicas, rep_next_id, created, arenas, schedulers, misuse, contended>>

(* ... allocates, either allocation failing or both succeeding, ...           *)
Allocate(th) ==
    /\ rep_calls[th].op = "reserved"
    /\ \/ /\ created < MaxCreations
          /\ created' = created + 1
          /\ arenas' = arenas \cup {created + 1}
          /\ schedulers' = schedulers \cup {created + 1}
          /\ rep_calls' = [rep_calls EXCEPT ![th].op = "allocated", ![th].arena = created + 1,
                                    ![th].scheduler = created + 1]
       \/ SetCall(th, RepIdle) /\ UNCHANGED <<created, arenas, schedulers>>
    /\ UNCHANGED <<replicas, rep_next_id, misuse, contended>>

(* ... and, the slot having been taken in the meantime, finds another, or     *)
(* gives up and frees what it has allocated after unlocking.                  *)
SlotUnchecked(c) == {c.slot}

SlotFor(c) ==
    IF Available(c.slot) THEN {c.slot}
    ELSE IF FreeSlots # {} THEN {FirstSlot(FreeSlots)} ELSE {}

Publish(th) ==
    LET c == rep_calls[th] IN
    /\ c.op = "allocated"
    /\ \E i \in SlotFor(c) :
          replicas' = [replicas EXCEPT ![i] =
              [id |-> rep_next_id, state |-> "Created", auto_destroy |-> c.auto_destroy,
               arena |-> c.arena, scheduler |-> c.scheduler]]
    /\ rep_next_id' = rep_next_id + 1
    /\ SetCall(th, RepIdle)
    /\ UNCHANGED <<created, arenas, schedulers, misuse, contended>>

NoSlotLeft(th) ==
    /\ rep_calls[th].op = "allocated"
    /\ SlotFor(rep_calls[th]) = {}
    /\ rep_calls' = [rep_calls EXCEPT ![th].op = "overflow"]
    /\ UNCHANGED <<replicas, rep_next_id, created, arenas, schedulers, misuse, contended>>

-----------------------------------------------------------------------------
(* ify_scheduler_destroy() and ify_arena_destroy() of what a call holds; both *)
(* take NULL for a no-op.                                                     *)
FreeHeld(c) ==
    /\ arenas' = arenas \ {c.arena}
    /\ schedulers' = schedulers \ {c.scheduler}
    /\ misuse' = misuse \cup
          IF c.arena \notin arenas \cup {0} \/ c.scheduler \notin schedulers \cup {0}
          THEN {"double free"} ELSE {}

GiveUp(th) ==
    /\ rep_calls[th].op = "overflow"
    /\ FreeHeld(rep_calls[th])
    /\ SetCall(th, RepIdle)
    /\ UNCHANGED <<replicas, rep_next_id, created, contended>>

(* ify_replica_destroy() takes the pointers out of the slot, frees them       *)
(* without the lock, and marks the slot, if it still finds it.                *)
Busy(id) == \E th \in RepThreads : rep_calls[th].op # "idle" /\ rep_calls[th].id = id

Contend(id) == contended' = IF Busy(id) THEN contended \cup {id} ELSE contended

DestroyKeepingPointers(th, id) ==
    /\ rep_calls[th] = RepIdle
    /\ Found(id) # {}
    /\ Contend(id)
    /\ LET s == replicas[FirstSlot(Found(id))] IN
          /\ replicas' = [replicas EXCEPT ![FirstSlot(Found(id))].state = "Draining"]
          /\ SetCall(th, RepCall("destroying", 0, id, FALSE, s.arena, s.scheduler))
    /\ UNCHANGED <<rep_next_id, created, arenas, schedulers, misuse>>

RepDestroy(th, id) ==
    /\ rep_calls[th] = RepIdle
    /\ Found(id) # {}
    /\ Contend(id)
    /\ LET s == replicas[FirstSlot(Found(id))] IN
          /\ replicas' = [replicas EXCEPT ![FirstSlot(Found(id))] =
                          [s EXCEPT !.state = "Draining", !.arena = 0, !.scheduler = 0]]
          /\ SetCall(th, RepCall("destroying", 0, id, FALSE, s.arena, s.scheduler))
    /\ UNCHANGED <<rep_next_id, created, arenas, schedulers, misuse>>

Release(th) ==
    /\ rep_calls[th].op = "destroying"
    /\ FreeHeld(rep_calls[th])
    /\ rep_calls' = [rep_calls EXCEPT ![th].op = "released"]
    /\ UNCHANGED <<replicas, rep_next_id, created, contended>>

Destroyed(th) ==
    /\ rep_calls[th].op = "released"
    /\ LET here == Found(rep_calls[th].id) IN
          replicas' = IF here # {} THEN [replicas EXCEPT ![FirstSlot(here)].state = "Destroyed"]
                      ELSE replicas
    /\ SetCall(th, RepIdle)
    /\ UNCHANGED <<rep_next_id, created, arenas, schedulers, misuse, contended>>

-----------------------------------------------------------------------------
(* ify_replica_submit() reads the scheduler's address under the lock and      *)
(* enters the scheduler without it; the scheduler is used again when the task *)
(* function returns into its drain loop.                                      *)
SubmittableOrDraining == {"Created", "Running", "Draining"}

Submittable == {"Created", "Running"}

RepSubmit(th, id) ==
    /\ rep_calls[th] = RepIdle
    /\ Found(id) # {}
    /\ LET i == FirstSlot(Found(id)) IN
          /\ replicas[i].state \in Submittable
          /\ replicas' = [replicas EXCEPT ![i].state = "Running"]
          /\ SetCall(th, RepCall("submitting", 0, id, FALSE, 0, replicas[i].scheduler))
    /\ UNCHANGED <<rep_next_id, created, arenas, schedulers, misuse, contended>>

Use(th) ==
    misuse' = misuse \cup
        IF rep_calls[th].scheduler \notin schedulers THEN {"use after free"} ELSE {}

EnterScheduler(th) ==
    /\ rep_calls[th].op = "submitting"
    /\ Use(th)
    /\ rep_calls' = [rep_calls EXCEPT ![th].op = "in scheduler"]
    /\ UNCHANGED <<replicas, rep_next_id, created, arenas, schedulers, contended>>

LeaveScheduler(th) ==
    /\ rep_calls[th].op = "in scheduler"
    /\ Use(th)
    /\ SetCall(th, RepIdle)
    /\ UNCHANGED <<replicas, rep_next_id, created, arenas, schedulers, contended>>

-----------------------------------------------------------------------------
RepNext ==
    \E th \in RepThreads :
       \/ \E auto \in BOOLEAN : Create(th, auto)
       \/ \E id \in 1..MaxCreations : RepDestroy(th, id) \/ RepSubmit(th, id)
       \/ Allocate(th)
       \/ Publish(th)
       \/ NoSlotLeft(th)
       \/ GiveUp(th)
       \/ Release(th)
       \/ Destroyed(th)
       \/ EnterScheduler(th)
       \/ LeaveScheduler(th)

RepSpec == RepInit /\ [][RepNext]_rep_vars

-----------------------------------------------------------------------------
Holders(r) ==
    {i \in RepSlots : replicas[i].scheduler = r} \cup
    {th \in RepThreads : rep_calls[th].op \in {"allocated", "overflow", "destroying"}
                        /\ rep_calls[th].scheduler = r}

(* Every scheduler that exists belongs to one replica of the table or to one  *)
(* call that has yet to publish or to free it, and so does its arena: none    *)
(* leaks when a slot is taken between the two halves of a creation, when the  *)
(* table is full or when an allocation fails.                                 *)
OneOwner ==
    /\ arenas = schedulers
    /\ \A r \in schedulers : Cardinality(Holders(r)) = 1

(* No resource is freed twice, although two threads may destroy the same      *)
(* replica at once and its slot may be reused before the second is done.      *)
FreedOnce == "double free" \notin misuse

(* As long as clients do not destroy a replica that is in use, nothing enters *)
(* a scheduler that has been destroyed, and a replica marked Destroyed has    *)
(* released its resources (replication.h:52).                                 *)
NoUseAfterFree ==
    contended = {} =>
       /\ "use after free" \notin misuse
       /\ \A i \in RepSlots, th \in RepThreads :
             replicas[i].state = "Destroyed" /\ rep_calls[th].op = "destroying"
               => rep_calls[th].id # replicas[i].id

(* Every arena and scheduler has exactly one owner, none is freed twice, and  *)
(* nothing uses a destroyed one, if no replica is destroyed while in use      *)
(* (replication.c).                                                           *)
ReplicasSound == RepTypeOK /\ OneOwner /\ FreedOnce /\ NoUseAfterFree
================================================================================
