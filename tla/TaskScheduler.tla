----------------------------- MODULE TaskScheduler -----------------------------
(***************************************************************************)
(* The performer runtime's task scheduler: struct TaskScheduler of         *)
(* ify-controller/src/scheduler.rs.  It is a passive, single-owner object: *)
(* every public method takes &mut self, so each method is one atomic step, *)
(* and the interleavings are those of the calls that clients (submit,      *)
(* cancel, pause, resume) and workers (next_ready, renew_lease, complete,  *)
(* fail) make in any order.                                                *)
(*                                                                         *)
(* A call that returns an error leaves the scheduler as it was, so an      *)
(* error return is a stuttering step and its condition is the negated      *)
(* guard of the action.                                                    *)
(*                                                                         *)
(* Abstractions: a task's kind, label, params and failure reason, and the  *)
(* ActionLog entry each method appends, are dropped; wall-clock time is    *)
(* reduced to what is_valid() tells apart, a lease that is still valid or  *)
(* has expired; and ready_queue, which the code re-sorts after every push, *)
(* is the bag of the task ids in it, its order being the sort key          *)
(* (priority descending, then seq).                                        *)
(***************************************************************************)
EXTENDS Integers, FiniteSets

CONSTANTS
    Tasks,        (* the TaskIds that clients may submit                     *)
    Dims,         (* the dimensions tasks run in                             *)
    OwnDim,       (* the scheduler's own dimension_id                        *)
    Specs,        (* the TaskSpecs that clients may submit                   *)
    Quotas,       (* the DimensionQuotas that may be configured              *)
    Templates,    (* the TaskTemplates that may be registered                *)
    U32Max,       (* u32::MAX, the limits of a dimension without a quota     *)
    MaxResumes    (* bound: resume() is not called past this attempt         *)

TaskSpec == [dim : Dims, priority : 0..3, max_attempts : Nat, deps : SUBSET Tasks]

TaskTemplate == [priority : 0..3, max_attempts : Nat]

DimensionQuota == [max_concurrent : Nat, max_queued : Nat]

ASSUME SchedulerAssumption ==
    /\ IsFiniteSet(Tasks)
    /\ OwnDim \in Dims
    /\ Specs \subseteq TaskSpec
    /\ Quotas \subseteq DimensionQuota
    /\ Templates \subseteq TaskTemplate
    /\ U32Max \in Nat
    /\ MaxResumes \in Nat

VARIABLES
    state,        (* TaskRecord.state, "Absent" when the id has no record    *)
    spec,         (* TaskRecord.spec                                         *)
    attempt,      (* TaskRecord.attempt                                      *)
    seq,          (* TaskRecord.seq                                          *)
    lease,        (* TaskRecord.lease: "None", "Valid" or "Expired"          *)
    next_seq,     (* TaskIndex.seq, the last sequence number handed out      *)
    ready_queue,  (* how many entries each task has in ready_queue           *)
    running_count,(* running_count, per dimension                            *)
    quotas,       (* quotas, with the unlimited default filled in            *)
    templates     (* the registered templates                                *)

records == <<spec, attempt, seq>>
vars == <<state, spec, attempt, seq, lease, next_seq, ready_queue,
          running_count, quotas, templates>>

TaskState ==
    {"Pending", "Queued", "Running", "Paused", "Completed", "Failed", "Cancelled"}

NoSpec == [dim |-> OwnDim, priority |-> 0, max_attempts |-> 0, deps |-> {}]

Unlimited == [max_concurrent |-> U32Max, max_queued |-> U32Max]

TypeOK ==
    /\ state \in [Tasks -> TaskState \cup {"Absent"}]
    /\ spec \in [Tasks -> TaskSpec]
    /\ attempt \in [Tasks -> Nat]
    /\ seq \in [Tasks -> Nat]
    /\ lease \in [Tasks -> {"None", "Valid", "Expired"}]
    /\ next_seq \in Nat
    /\ ready_queue \in [Tasks -> Nat]
    /\ running_count \in [Dims -> 0..Cardinality(Tasks)]
    /\ quotas \in [Dims -> DimensionQuota]
    /\ templates \subseteq Templates

-----------------------------------------------------------------------------
(* The validated transition graph, TaskState::can_transition_to.            *)
CancelAfterCompletion(from, to) ==
    \/ from \in {"Pending", "Paused", "Failed"} /\ to \in {"Queued", "Cancelled"}
    \/ from = "Queued"  /\ to \in {"Running", "Cancelled"}
    \/ from = "Running" /\ to \in {"Paused", "Completed", "Failed", "Cancelled"}
    \/ from = "Completed" /\ to = "Cancelled"

CanTransitionTo(from, to) ==
    \/ from = "Pending" /\ to \in {"Queued", "Cancelled"}
    \/ from = "Queued"  /\ to \in {"Running", "Cancelled"}
    \/ from = "Running" /\ to \in {"Paused", "Completed", "Failed", "Cancelled"}
    \/ from = "Paused"  /\ to \in {"Queued", "Cancelled"}
    \/ from = "Failed"  /\ to \in {"Queued", "Cancelled"}

InState(s) == {t \in Tasks : state[t] = s}

QueuedIn(d) == {t \in InState("Queued") : spec[t].dim = d}

RunningIn(d) == {t \in InState("Running") : spec[t].dim = d}

AllDepsCompleted(deps) == \A t \in deps : state[t] = "Completed"

(* sort_ready_queue(): higher priority first, then the older seq.           *)
SortsBefore(t, u) ==
    \/ spec[t].priority > spec[u].priority
    \/ spec[t].priority = spec[u].priority /\ seq[t] < seq[u]

Enqueue(t) == ready_queue' = [ready_queue EXCEPT ![t] = @ + 1]

Decrement(n) == IF n > 0 THEN n - 1 ELSE 0

IncrementRunning(d) == running_count' = [running_count EXCEPT ![d] = @ + 1]

DecrementRunning(d) == running_count' = [running_count EXCEPT ![d] = Decrement(@)]

SetState(t, s) == state' = [state EXCEPT ![t] = s]

Init ==
    /\ state = [t \in Tasks |-> "Absent"]
    /\ spec = [t \in Tasks |-> NoSpec]
    /\ attempt = [t \in Tasks |-> 0]
    /\ seq = [t \in Tasks |-> 0]
    /\ lease = [t \in Tasks |-> "None"]
    /\ next_seq = 0
    /\ ready_queue = [t \in Tasks |-> 0]
    /\ running_count = [d \in Dims |-> 0]
    /\ quotas = [d \in Dims |-> Unlimited]
    /\ templates = {}

-----------------------------------------------------------------------------
(* Configuration.                                                           *)
SetQuota(d, q) ==
    /\ quotas' = [quotas EXCEPT ![d] = q]
    /\ UNCHANGED <<state, records, lease, next_seq, ready_queue, running_count,
                   templates>>

RegisterTemplate(m) ==
    /\ templates' = templates \cup {m}
    /\ UNCHANGED <<state, records, lease, next_seq, ready_queue, running_count,
                   quotas>>

PrereqsKnown(deps) == \A p \in deps : state[p] # "Absent"

(* submit(): a fresh id, room under max_queued, every prerequisite known;    *)
(* the new task goes straight to the ready queue when its prerequisites are  *)
(* all Completed and waits as Pending otherwise.                             *)
Submit(t, sp) ==
    /\ state[t] = "Absent"
    /\ Cardinality(QueuedIn(sp.dim)) < quotas[sp.dim].max_queued
    /\ PrereqsKnown(sp.deps)
    /\ next_seq' = next_seq + 1
    /\ spec' = [spec EXCEPT ![t] = sp]
    /\ attempt' = [attempt EXCEPT ![t] = 0]
    /\ seq' = [seq EXCEPT ![t] = next_seq + 1]
    /\ lease' = [lease EXCEPT ![t] = "None"]
    /\ \/ AllDepsCompleted(sp.deps) /\ SetState(t, "Queued") /\ Enqueue(t)
       \/ ~AllDepsCompleted(sp.deps) /\ SetState(t, "Pending") /\ UNCHANGED ready_queue
    /\ UNCHANGED <<running_count, quotas, templates>>

(* submit_from_template(): instantiate() targets the scheduler's own         *)
(* dimension and declares no prerequisite.                                   *)
Instantiate(m) ==
    [dim |-> OwnDim, priority |-> m.priority, max_attempts |-> m.max_attempts, deps |-> {}]

SubmitFromTemplate(m, t) == m \in templates /\ Submit(t, Instantiate(m))

-----------------------------------------------------------------------------
(* Workers.  next_ready() walks the sorted queue to the first entry whose    *)
(* dimension has a free slot, removes it, and hands it out if the task is    *)
(* (still) Queued; an entry whose task is in another state makes the call    *)
(* return None after the entry has been removed.                             *)
HasSlotLoosely(t) ==
    /\ state[t] # "Absent"
    /\ running_count[spec[t].dim] <= quotas[spec[t].dim].max_concurrent

HasSlot(t) ==
    /\ state[t] # "Absent"
    /\ running_count[spec[t].dim] < quotas[spec[t].dim].max_concurrent

FirstReadyByPriority(t) ==
    /\ ready_queue[t] > 0
    /\ HasSlot(t)
    /\ \A u \in Tasks :
          ready_queue[u] > 0 /\ HasSlot(u) => spec[u].priority <= spec[t].priority

FirstReady(t) ==
    /\ ready_queue[t] > 0
    /\ HasSlot(t)
    /\ \A u \in Tasks : ready_queue[u] > 0 /\ HasSlot(u) => ~SortsBefore(u, t)

Dispatch(t) ==
    /\ FirstReady(t)
    /\ CanTransitionTo(state[t], "Running")
    /\ ready_queue' = [ready_queue EXCEPT ![t] = @ - 1]
    /\ SetState(t, "Running")
    /\ IncrementRunning(spec[t].dim)
    /\ attempt' = [attempt EXCEPT ![t] = @ + 1]
    /\ lease' = [lease EXCEPT ![t] = "Valid"]
    /\ UNCHANGED <<spec, seq, next_seq, quotas, templates>>

DropStale(t) ==
    /\ FirstReady(t)
    /\ ~CanTransitionTo(state[t], "Running")
    /\ ready_queue' = [ready_queue EXCEPT ![t] = @ - 1]
    /\ UNCHANGED <<state, records, lease, next_seq, running_count, quotas,
                   templates>>

NextReady(t) ==
    IF CanTransitionTo(state[t], "Running") THEN Dispatch(t) ELSE DropStale(t)

(* renew_lease() succeeds for any task whose lease is valid, and moves only   *)
(* the expiry, which the abstraction does not see; the passing of time        *)
(* expires a valid lease.                                                     *)
RenewLease(t) ==
    /\ state[t] # "Absent"
    /\ lease[t] = "Valid"
    /\ lease' = [lease EXCEPT ![t] = "Valid"]
    /\ UNCHANGED <<state, records, next_seq, ready_queue, running_count, quotas,
                   templates>>

LeaseExpires(t) ==
    /\ lease[t] = "Valid"
    /\ lease' = [lease EXCEPT ![t] = "Expired"]
    /\ UNCHANGED <<state, records, next_seq, ready_queue, running_count, quotas,
                   templates>>

(* promote_pending_tasks(), after `done` has become Completed: every Pending  *)
(* task whose prerequisites are now all Completed is queued.                  *)
PromotesNothing(done) == {}

PromotesDependents(done) == {u \in InState("Pending") : done \in spec[u].deps}

Promoted(done) ==
    {u \in InState("Pending") : AllDepsCompleted(spec[u].deps \ {done})}

(* complete(): transition, free the slot, promote the dependents.             *)
Complete(t) ==
    /\ CanTransitionTo(state[t], "Completed")
    /\ state' = [u \in Tasks |-> IF u = t THEN "Completed"
                                 ELSE IF u \in Promoted(t) THEN "Queued" ELSE state[u]]
    /\ ready_queue' = [u \in Tasks |-> IF u \in Promoted(t) THEN ready_queue[u] + 1
                                       ELSE ready_queue[u]]
    /\ DecrementRunning(spec[t].dim)
    /\ UNCHANGED <<records, lease, next_seq, quotas, templates>>

(* fail(): with attempts left the task passes through Failed back to Queued   *)
(* in the same call, at once; otherwise it ends as Failed.                    *)
RetriesRemain(t) == attempt[t] < spec[t].max_attempts

FailKeepingSlot(t) ==
    /\ CanTransitionTo(state[t], "Failed")
    /\ IF RetriesRemain(t)
       THEN SetState(t, "Queued") /\ Enqueue(t)
       ELSE SetState(t, "Failed") /\ UNCHANGED ready_queue
    /\ UNCHANGED <<records, lease, next_seq, running_count, quotas, templates>>

Fail(t) ==
    /\ CanTransitionTo(state[t], "Failed")
    /\ DecrementRunning(spec[t].dim)
    /\ \/ /\ RetriesRemain(t)
          /\ SetState(t, "Queued") /\ Enqueue(t)
       \/ /\ ~RetriesRemain(t)
          /\ SetState(t, "Failed") /\ UNCHANGED ready_queue
    /\ UNCHANGED <<records, lease, next_seq, quotas, templates>>

-----------------------------------------------------------------------------
(* Control.  cancel() frees the slot only when the task was Running and       *)
(* retains the other ids' entries in the ready queue.                         *)
CancelLeavingEntry(t) ==
    /\ CanTransitionTo(state[t], "Cancelled")
    /\ SetState(t, "Cancelled")
    /\ IF state[t] = "Running" THEN DecrementRunning(spec[t].dim)
                               ELSE UNCHANGED running_count
    /\ UNCHANGED <<records, lease, next_seq, ready_queue, quotas, templates>>

Cancel(t) ==
    /\ CanTransitionTo(state[t], "Cancelled")
    /\ SetState(t, "Cancelled")
    /\ IF state[t] = "Running" THEN DecrementRunning(spec[t].dim)
                               ELSE UNCHANGED running_count
    /\ ready_queue' = [ready_queue EXCEPT ![t] = 0]
    /\ UNCHANGED <<records, lease, next_seq, quotas, templates>>

(* pause() frees the slot; resume() queues the task again.                     *)
PauseKeepingSlot(t) ==
    /\ CanTransitionTo(state[t], "Paused")
    /\ SetState(t, "Paused")
    /\ UNCHANGED <<records, lease, next_seq, ready_queue, running_count, quotas,
                   templates>>

Pause(t) ==
    /\ CanTransitionTo(state[t], "Paused")
    /\ SetState(t, "Paused")
    /\ DecrementRunning(spec[t].dim)
    /\ UNCHANGED <<records, lease, next_seq, ready_queue, quotas, templates>>

(* resume() is transition(Queued), which the graph allows from Paused, and    *)
(* also from Pending and from Failed.                                         *)
Resume(t) ==
    /\ CanTransitionTo(state[t], "Queued")
    /\ attempt[t] <= MaxResumes
    /\ SetState(t, "Queued")
    /\ Enqueue(t)
    /\ UNCHANGED <<records, lease, next_seq, running_count, quotas, templates>>

Next ==
    \/ \E d \in Dims, q \in Quotas : SetQuota(d, q)
    \/ \E m \in Templates : RegisterTemplate(m)
    \/ \E t \in Tasks, sp \in Specs : Submit(t, sp)
    \/ \E t \in Tasks, m \in Templates : SubmitFromTemplate(m, t)
    \/ \E t \in Tasks :
          \/ NextReady(t)
          \/ RenewLease(t)
          \/ LeaseExpires(t)
          \/ Complete(t)
          \/ Fail(t)
          \/ Cancel(t)
          \/ Pause(t)
          \/ Resume(t)

Spec == Init /\ [][Next]_vars

(* Workers keep polling next_ready(), and the worker of a running task        *)
(* eventually reports complete() or fail().                                   *)
Fairness ==
    /\ WF_vars(\E t \in Tasks : NextReady(t))
    /\ \A t \in Tasks : WF_vars(Complete(t) \/ Fail(t))

FairSpec == Spec /\ Fairness

-----------------------------------------------------------------------------
(* Safety.                                                                    *)

(* running_count is a cache of the number of Running records of a dimension,  *)
(* maintained by increments and saturating decrements spread over next_ready, *)
(* complete, fail, cancel and pause: in every order of the calls it is exact, *)
(* so no slot leaks and no decrement is swallowed by the saturation.          *)
RunningCountExact ==
    \A d \in Dims : running_count[d] = Cardinality(RunningIn(d))

(* The ready queue is a second copy of the Queued state: a task has exactly   *)
(* one entry while it is Queued and none otherwise, through promotion, retry, *)
(* resume and cancellation.                                                   *)
QueueExact ==
    \A t \in Tasks : ready_queue[t] = IF state[t] = "Queued" THEN 1 ELSE 0

Started == {"Queued", "Running", "Paused", "Completed", "Failed"}

(* Prerequisites are awaited: submit(), the promotion in complete() and the   *)
(* retry in fail() let a task into the queue only when all its prerequisites  *)
(* have Completed, however many there are and in whatever order they end.     *)
(* Only a client's resume() may take a task out of Pending earlier.           *)
DepsAwaited ==
    [][\A t \in Tasks :
         state[t] \notin Started /\ state'[t] \in Started /\ ~Resume(t)
           => \A p \in spec'[t].deps : state'[p] = "Completed"]_vars

(* No missed promotion: a task is left Pending only while some prerequisite   *)
(* has yet to complete, whatever the order in which complete() is called on   *)
(* its prerequisites and submit() on it.                                      *)
NoMissedPromotion ==
    \A t \in InState("Pending") : ~AllDepsCompleted(spec[t].deps)

(* A step that raises the number of Running tasks of a dimension leaves it    *)
(* within the dimension's max_concurrent; set_quota() may lower the limit     *)
(* below the current number, which then only shrinks.                         *)
QuotaRespected ==
    [][\A d \in Dims :
         Cardinality(RunningIn(d)') > Cardinality(RunningIn(d))
           => Cardinality(RunningIn(d)') <= quotas[d].max_concurrent]_vars

(* next_ready() never passes over a more urgent task: when a task is          *)
(* dispatched, every other Queued task that sorts before it belongs to a      *)
(* dimension whose running tasks fill its quota.                              *)
UrgentFirst ==
    [][\A t, u \in Tasks :
         (/\ state[t] = "Queued" /\ state'[t] = "Running"
          /\ state[u] = "Queued" /\ SortsBefore(u, t))
         => Cardinality(RunningIn(spec[u].dim)) >= quotas[spec[u].dim].max_concurrent]_vars

(* The outcome of a task is final: Completed and Cancelled are never left.    *)
OutcomeFinal ==
    [][\A t \in Tasks : state[t] \in {"Completed", "Cancelled"} => state'[t] = state[t]]_vars

(* The scheduler keeps its contract: told by the states of the tasks alone,    *)
(* every call is a step that TaskContract allows, although starts are decided  *)
(* by the ready queue and running_count, and retries pass through Failed.      *)
Contract == INSTANCE TaskContract WITH
    Offers <- Specs \cup {Instantiate(m) : m \in Templates}

ImplementsContract == Contract!Spec

(* What the documentation states beyond this.                                 *)

(* "a task only moves to Queued when all prerequisite tasks have completed"   *)
(* (scheduler.rs:16): a task that is queued, or has been, has only Completed  *)
(* prerequisites.                                                             *)
DepsRespected ==
    \A t \in Tasks : state[t] \in Started => AllDepsCompleted(spec[t].deps)

-----------------------------------------------------------------------------
(* Liveness: with workers polling and reporting, a Queued task does not wait  *)
(* forever; a slot lost by any path would starve it.                          *)
QueuedIsDispatched ==
    \A t \in Tasks : state[t] = "Queued" ~> state[t] # "Queued"
================================================================================
