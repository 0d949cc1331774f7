------------------------- MODULE TaskSchedulerRecovery -------------------------
(***************************************************************************)
(* Persistence of the task scheduler: snapshot() writes the task records   *)
(* to a JSON document, and restore() loads them into a scheduler, after a  *)
(* crash into the fresh one the new process makes with TaskScheduler::new, *)
(* or at any other time into the live one.                                 *)
(*                                                                         *)
(* A snapshot holds the records and nothing else: not the quotas, the      *)
(* templates, running_count, ready_queue or the sequence counter.          *)
(***************************************************************************)
EXTENDS TaskScheduler

CONSTANTS
    MaxCrashes,   (* bound on the number of crashes                           *)
    MaxEntries    (* bound on the ready_queue entries of one task             *)

ASSUME RecoveryAssumption == MaxCrashes \in Nat /\ MaxEntries \in Nat

VARIABLES
    disk,      (* the last snapshot                                           *)
    synced,    (* no crash separates the snapshot from the live scheduler     *)
    crashes    (* the number of crashes so far                                *)

rvars == <<vars, disk, synced, crashes>>

Live == [state |-> state, spec |-> spec, attempt |-> attempt, seq |-> seq,
         lease |-> lease]

InSnapshot == {t \in Tasks : disk.state[t] # "Absent"}

RecoveryInit ==
    /\ Init
    /\ disk = Live
    /\ synced = TRUE
    /\ crashes = 0

-----------------------------------------------------------------------------
Snapshot ==
    /\ disk' = Live
    /\ synced' = TRUE
    /\ UNCHANGED <<vars, crashes>>

(* The process ends and a new one makes a scheduler: everything but the       *)
(* snapshot is back to what TaskScheduler::new leaves.                        *)
Crash ==
    /\ crashes < MaxCrashes
    /\ crashes' = crashes + 1
    /\ state' = [t \in Tasks |-> "Absent"]
    /\ spec' = [t \in Tasks |-> NoSpec]
    /\ attempt' = [t \in Tasks |-> 0]
    /\ seq' = [t \in Tasks |-> 0]
    /\ lease' = [t \in Tasks |-> "None"]
    /\ next_seq' = 0
    /\ ready_queue' = [t \in Tasks |-> 0]
    /\ running_count' = [d \in Dims |-> 0]
    /\ quotas' = [d \in Dims |-> Unlimited]
    /\ templates' = {}
    /\ synced' = FALSE
    /\ UNCHANGED disk

(* A record whose id the scheduler does not hold is inserted as it was, its   *)
(* lease having expired or not in the meantime; a record whose id it holds is *)
(* ignored; and every record that the snapshot has as Queued gets an entry in *)
(* the ready queue, whichever of the two it was.                              *)
Inserted == {t \in InSnapshot : state[t] = "Absent"}

Merge(old, saved) == [t \in Tasks |-> IF t \in Inserted THEN saved[t] ELSE old[t]]

ReenqueuedOnlyPending == {t \in Tasks : disk.state[t] = "Pending"}

Reenqueued == {t \in Tasks : disk.state[t] = "Queued"}

ExpireSome(ls, past) ==
    [t \in Tasks |-> IF t \in past /\ ls[t] = "Valid" THEN "Expired" ELSE ls[t]]

Restore ==
    /\ synced \/ InState("Absent") = Tasks
    /\ \A t \in Reenqueued : ready_queue[t] < MaxEntries
    /\ state' = Merge(state, disk.state)
    /\ spec' = Merge(spec, disk.spec)
    /\ attempt' = Merge(attempt, disk.attempt)
    /\ seq' = Merge(seq, disk.seq)
    /\ \E past \in SUBSET Inserted :
          lease' = ExpireSome(Merge(lease, disk.lease), past)
    /\ ready_queue' =
          [t \in Tasks |-> IF t \in Reenqueued THEN ready_queue[t] + 1 ELSE ready_queue[t]]
    /\ synced' = TRUE
    /\ UNCHANGED <<next_seq, running_count, quotas, templates, disk, crashes>>

RecoveryNext ==
    \/ Next /\ UNCHANGED <<disk, synced, crashes>>
    \/ Snapshot
    \/ Crash
    \/ Restore

RecoverySpec == RecoveryInit /\ [][RecoveryNext]_rvars

(* Workers poll, whether a call hands out a task or swallows a stale entry,   *)
(* and the worker of a Running task reports.                                  *)
RecoveryFairness ==
    /\ WF_rvars((\E t \in Tasks : NextReady(t))
                  /\ UNCHANGED <<disk, synced, crashes>>)
    /\ \A t \in Tasks :
          WF_rvars((Complete(t) \/ Fail(t)) /\ UNCHANGED <<disk, synced, crashes>>)

FairRecoverySpec == RecoverySpec /\ RecoveryFairness

-----------------------------------------------------------------------------
(* Every Queued task has an entry in the ready queue: restore() rebuilds the  *)
(* queue from the records, and the duplicates that restoring into a live      *)
(* scheduler leaves are consumed without losing the entry of a task that has  *)
(* been queued again.                                                         *)
QueuedHasEntry ==
    \A t \in InState("Queued") : ready_queue[t] > 0

(* running_count restarts from zero while Running records come back, and      *)
(* decrement_running() saturates: the count may be too low, and is never too  *)
(* high, so that a restore never costs a dimension a slot.                    *)
NoSlotLost ==
    \A d \in Dims : running_count[d] <= Cardinality(RunningIn(d))

(* Through snapshots, crashes and restores, no Queued task is without an      *)
(* entry in the ready queue and no running_count is too high (scheduler.rs,   *)
(* restore()).                                                                *)
RestoredAccounted == QueuedHasEntry /\ NoSlotLost

(* Liveness: once the operator stops calling restore(), the stale entries it  *)
(* has left delay a Queued task by the polls that consume them and do not     *)
(* starve it.  (A restore() before every poll would: each adds an entry that  *)
(* the poll consumes.)                                                        *)
RestoredIsDispatched ==
    <>[][~Restore]_rvars
      => \A t \in Tasks : state[t] = "Queued" ~> state[t] # "Queued"

-----------------------------------------------------------------------------
(* What the documentation states beyond this.                                 *)

(* "restored to reconstruct scheduler state after a crash" (scheduler.rs:438) *)
(* and "Maximum number of concurrently running tasks for this dimension"      *)
(* (302): the restored scheduler enforces max_concurrent over the Running     *)
(* tasks it has restored.                                                     *)
RestoredQuotaRespected ==
    [][\A t \in Tasks : state[t] = "Queued" /\ state'[t] = "Running" =>
         Cardinality(RunningIn(spec[t].dim)') <= quotas[spec[t].dim].max_concurrent]_rvars
================================================================================
