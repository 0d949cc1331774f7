-------------------------- MODULE TaskSchedulerProofs --------------------------
(***************************************************************************)
(* Proofs about TaskScheduler and its persistence, for every set of tasks, *)
(* dimensions, task specifications, quotas and templates.                  *)
(***************************************************************************)
EXTENDS TaskSchedulerRecovery, FiniteSetTheorems, TLAPS

(* TypeOK without the upper bound on running_count, which needs the exactness *)
(* of the count.                                                              *)
TypeInv ==
    /\ state \in [Tasks -> TaskState \cup {"Absent"}]
    /\ spec \in [Tasks -> TaskSpec]
    /\ attempt \in [Tasks -> Nat]
    /\ seq \in [Tasks -> Nat]
    /\ lease \in [Tasks -> {"None", "Valid", "Expired"}]
    /\ next_seq \in Nat
    /\ ready_queue \in [Tasks -> Nat]
    /\ running_count \in [Dims -> Nat]
    /\ quotas \in [Dims -> DimensionQuota]
    /\ templates \subseteq Templates

(* Every value that the initial state and the actions write has its type.     *)
LEMMA TypeInvInit == Init => TypeInv
  BY SchedulerAssumption
     DEF Init, TypeInv, NoSpec, Unlimited, TaskSpec, DimensionQuota, TaskState

(* Submitting a task keeps the types, whichever way its specification was made. *)
LEMMA SubmitType ==
  ASSUME TypeInv, NEW t \in Tasks, NEW sp \in TaskSpec, Submit(t, sp)
  PROVE  TypeInv'
  <1>1. state' \in [Tasks -> TaskState \cup {"Absent"}] /\ ready_queue' \in [Tasks -> Nat]
    <2>1. CASE AllDepsCompleted(sp.deps)
      BY <2>1 DEF TypeInv, Submit, SetState, Enqueue, TaskState
    <2>2. CASE ~AllDepsCompleted(sp.deps)
      BY <2>2 DEF TypeInv, Submit, SetState, TaskState
    <2> QED BY <2>1, <2>2
  <1>2. spec' \in [Tasks -> TaskSpec]
    BY DEF TypeInv, Submit
  <1> QED BY <1>1, <1>2 DEF TypeInv, Submit

(* The type invariant is preserved by every step.                             *)
LEMMA TypeInvStep == TypeInv /\ [Next]_vars => TypeInv'
  <1> SUFFICES ASSUME TypeInv, [Next]_vars PROVE TypeInv'
    OBVIOUS
  <1>1. ASSUME NEW d \in Dims, NEW q \in Quotas, SetQuota(d, q) PROVE TypeInv'
    BY <1>1, SchedulerAssumption DEF TypeInv, SetQuota, records
  <1>2. ASSUME NEW m \in Templates, RegisterTemplate(m) PROVE TypeInv'
    BY <1>2 DEF TypeInv, RegisterTemplate, records
  <1>3. ASSUME NEW t \in Tasks, NEW sp \in Specs, Submit(t, sp) PROVE TypeInv'
    BY <1>3, SubmitType, SchedulerAssumption
  <1>4. ASSUME NEW t \in Tasks, NEW m \in Templates, SubmitFromTemplate(m, t) PROVE TypeInv'
    <2>1. Instantiate(m) \in TaskSpec
      BY SchedulerAssumption DEF Instantiate, TaskSpec, TaskTemplate
    <2> QED BY <1>4, <2>1, SubmitType DEF SubmitFromTemplate
  <1>5. ASSUME NEW t \in Tasks, Dispatch(t) PROVE TypeInv'
    <2>1. spec[t].dim \in Dims
      BY DEF TypeInv, TaskSpec
    <2> QED BY <1>5, <2>1 DEF TypeInv, Dispatch, FirstReady, SetState, IncrementRunning, TaskState
  <1>6. ASSUME NEW t \in Tasks, DropStale(t) PROVE TypeInv'
    BY <1>6 DEF TypeInv, DropStale, FirstReady, records
  <1>7. ASSUME NEW t \in Tasks, RenewLease(t) PROVE TypeInv'
    BY <1>7 DEF TypeInv, RenewLease, records
  <1>8. ASSUME NEW t \in Tasks, LeaseExpires(t) PROVE TypeInv'
    BY <1>8 DEF TypeInv, LeaseExpires, records
  <1>9. ASSUME NEW t \in Tasks, Complete(t) PROVE TypeInv'
    <2>1. running_count' \in [Dims -> Nat]
      BY <1>9 DEF TypeInv, Complete, DecrementRunning, Decrement, TaskSpec
    <2> QED BY <1>9, <2>1 DEF TypeInv, Complete, records, TaskState
  <1>10. ASSUME NEW t \in Tasks, Fail(t) PROVE TypeInv'
    <2>1. running_count' \in [Dims -> Nat]
      BY <1>10 DEF TypeInv, Fail, DecrementRunning, Decrement, TaskSpec
    <2> QED BY <1>10, <2>1 DEF TypeInv, Fail, records, SetState, Enqueue, TaskState
  <1>11. ASSUME NEW t \in Tasks, Cancel(t) PROVE TypeInv'
    <2>1. running_count' \in [Dims -> Nat]
      BY <1>11 DEF TypeInv, Cancel, DecrementRunning, Decrement, TaskSpec
    <2> QED BY <1>11, <2>1 DEF TypeInv, Cancel, records, SetState, TaskState
  <1>12. ASSUME NEW t \in Tasks, Pause(t) PROVE TypeInv'
    <2>1. running_count' \in [Dims -> Nat]
      BY <1>12 DEF TypeInv, Pause, DecrementRunning, Decrement, TaskSpec
    <2> QED BY <1>12, <2>1 DEF TypeInv, Pause, records, SetState, TaskState
  <1>13. ASSUME NEW t \in Tasks, Resume(t) PROVE TypeInv'
    BY <1>13 DEF TypeInv, Resume, records, SetState, Enqueue, TaskState
  <1>14. CASE UNCHANGED vars
    BY <1>14 DEF TypeInv, vars
  <1> QED
    BY <1>1, <1>2, <1>3, <1>4, <1>5, <1>6, <1>7, <1>8, <1>9, <1>10, <1>11, <1>12,
       <1>13, <1>14 DEF Next, NextReady

-----------------------------------------------------------------------------
(* running_count: the three ways a step may change the set of Running tasks.  *)

(* The running tasks of a dimension are finitely many, at most all the tasks. *)
LEMMA RunningFinite ==
  ASSUME NEW d
  PROVE  /\ IsFiniteSet(RunningIn(d))
         /\ Cardinality(RunningIn(d)) \in 0..Cardinality(Tasks)
  <1>1. RunningIn(d) \in SUBSET Tasks
    BY DEF RunningIn, InState
  <1>2. IsFiniteSet(Tasks)
    BY SchedulerAssumption
  <1>3. IsFiniteSet(RunningIn(d)) /\ Cardinality(RunningIn(d)) <= Cardinality(Tasks)
    BY <1>1, <1>2, FS_Subset
  <1>4. Cardinality(RunningIn(d)) \in Nat /\ Cardinality(Tasks) \in Nat
    BY <1>2, <1>3, FS_CardinalityType
  <1> QED BY <1>3, <1>4

(* A step that starts, ends and re-labels no running task keeps the count.    *)
LEMMA RunningKept ==
  ASSUME RunningCountExact, UNCHANGED running_count,
         \A u \in Tasks : state'[u] = "Running" <=> state[u] = "Running",
         \A u \in Tasks : state[u] = "Running" => spec'[u] = spec[u]
  PROVE  RunningCountExact'
  <1>1. ASSUME NEW d \in Dims PROVE RunningIn(d)' = RunningIn(d)
    BY DEF RunningIn, InState
  <1> QED BY <1>1 DEF RunningCountExact

(* A step that starts one task raises the count of its dimension by one.      *)
LEMMA RunningStarts ==
  ASSUME TypeInv, RunningCountExact, NEW t \in Tasks,
         state[t] # "Running", state'[t] = "Running",
         \A u \in Tasks \ {t} : state'[u] = "Running" <=> state[u] = "Running",
         UNCHANGED spec, IncrementRunning(spec[t].dim)
  PROVE  RunningCountExact'
  <1> SUFFICES ASSUME NEW d \in Dims
               PROVE  running_count'[d] = Cardinality(RunningIn(d)')
    BY DEF RunningCountExact
  <1>1. running_count[d] = Cardinality(RunningIn(d)) /\ running_count[d] \in Nat
    BY DEF RunningCountExact, TypeInv
  <1>2. CASE d = spec[t].dim
    <2>1. RunningIn(d)' = RunningIn(d) \cup {t} /\ t \notin RunningIn(d)
      BY <1>2 DEF RunningIn, InState
    <2>2. Cardinality(RunningIn(d) \cup {t}) = Cardinality(RunningIn(d)) + 1
      BY <2>1, RunningFinite, FS_AddElement
    <2>3. running_count'[d] = running_count[d] + 1
      BY <1>2 DEF IncrementRunning, TypeInv
    <2> QED BY <1>1, <2>1, <2>2, <2>3
  <1>3. CASE d # spec[t].dim
    <2>1. RunningIn(d)' = RunningIn(d)
      BY <1>3 DEF RunningIn, InState
    <2>2. running_count'[d] = running_count[d]
      BY <1>3 DEF IncrementRunning, TypeInv
    <2> QED BY <1>1, <2>1, <2>2
  <1> QED BY <1>2, <1>3

(* A step that stops one running task lowers the count of its dimension by    *)
(* one, and the decrement never saturates.                                    *)
LEMMA RunningStops ==
  ASSUME TypeInv, RunningCountExact, NEW t \in Tasks,
         state[t] = "Running", state'[t] # "Running",
         \A u \in Tasks \ {t} : state'[u] = "Running" <=> state[u] = "Running",
         UNCHANGED spec, DecrementRunning(spec[t].dim)
  PROVE  RunningCountExact'
  <1> SUFFICES ASSUME NEW d \in Dims
               PROVE  running_count'[d] = Cardinality(RunningIn(d)')
    BY DEF RunningCountExact
  <1>1. running_count[d] = Cardinality(RunningIn(d)) /\ running_count[d] \in Nat
    BY DEF RunningCountExact, TypeInv
  <1>2. CASE d = spec[t].dim
    <2>1. RunningIn(d)' = RunningIn(d) \ {t} /\ t \in RunningIn(d)
      BY <1>2 DEF RunningIn, InState
    <2>2. Cardinality(RunningIn(d) \ {t}) = Cardinality(RunningIn(d)) - 1
      BY <2>1, RunningFinite, FS_RemoveElement
    <2>3. IsFiniteSet(RunningIn(d) \ {t})
      BY RunningFinite, FS_RemoveElement
    <2>4. Cardinality(RunningIn(d) \ {t}) \in Nat
      BY <2>3, FS_CardinalityType
    <2>5. running_count'[d] = Decrement(running_count[d])
      BY <1>2 DEF DecrementRunning, TypeInv
    <2>6. running_count[d] > 0
      BY <1>1, <2>2, <2>4
    <2> QED BY <1>1, <2>1, <2>2, <2>5, <2>6 DEF Decrement
  <1>3. CASE d # spec[t].dim
    <2>1. RunningIn(d)' = RunningIn(d)
      BY <1>3 DEF RunningIn, InState
    <2>2. running_count'[d] = running_count[d]
      BY <1>3 DEF DecrementRunning, TypeInv
    <2> QED BY <1>1, <2>1, <2>2
  <1> QED BY <1>2, <1>3

(* Submit() adds a record that is Pending or Queued.                          *)
LEMMA SubmitKeepsRunning ==
  ASSUME TypeInv, NEW t \in Tasks, NEW sp, Submit(t, sp)
  PROVE  /\ \A u \in Tasks : state'[u] = "Running" <=> state[u] = "Running"
         /\ \A u \in Tasks : state[u] = "Running" => spec'[u] = spec[u]
  BY DEF TypeInv, Submit, SetState

(* Every step is of one of these three kinds.                                 *)
RunningSame ==
    /\ UNCHANGED running_count
    /\ \A u \in Tasks : state'[u] = "Running" <=> state[u] = "Running"
    /\ \A u \in Tasks : state[u] = "Running" => spec'[u] = spec[u]

RunningGains(t) ==
    /\ state[t] # "Running" /\ state'[t] = "Running"
    /\ \A u \in Tasks \ {t} : state'[u] = "Running" <=> state[u] = "Running"
    /\ UNCHANGED spec /\ IncrementRunning(spec[t].dim)

RunningLoses(t) ==
    /\ state[t] = "Running" /\ state'[t] # "Running"
    /\ \A u \in Tasks \ {t} : state'[u] = "Running" <=> state[u] = "Running"
    /\ UNCHANGED spec /\ DecrementRunning(spec[t].dim)

LEMMA RunningStep ==
  ASSUME TypeInv, [Next]_vars
  PROVE  RunningSame \/ \E t \in Tasks : RunningGains(t) \/ RunningLoses(t)
  <1>1. ASSUME NEW d \in Dims, NEW q \in Quotas, SetQuota(d, q) PROVE RunningSame
    BY <1>1 DEF SetQuota, records, RunningSame
  <1>2. ASSUME NEW m \in Templates, RegisterTemplate(m) PROVE RunningSame
    BY <1>2 DEF RegisterTemplate, records, RunningSame
  <1>3. ASSUME NEW t \in Tasks, NEW sp, Submit(t, sp) PROVE RunningSame
    <2>1. UNCHANGED running_count
      BY <1>3 DEF Submit
    <2> QED BY <1>3, <2>1, SubmitKeepsRunning DEF RunningSame
  <1>4. ASSUME NEW t \in Tasks, Dispatch(t) PROVE RunningGains(t)
    BY <1>4 DEF Dispatch, CanTransitionTo, SetState, TypeInv, RunningGains
  <1>5. ASSUME NEW t \in Tasks, DropStale(t) \/ RenewLease(t) \/ LeaseExpires(t) PROVE RunningSame
    BY <1>5 DEF DropStale, RenewLease, LeaseExpires, records, RunningSame
  <1>6. ASSUME NEW t \in Tasks, Complete(t) PROVE RunningLoses(t)
    BY <1>6 DEF Complete, CanTransitionTo, Promoted, InState, records, TypeInv, RunningLoses
  <1>7. ASSUME NEW t \in Tasks, Fail(t) PROVE RunningLoses(t)
    BY <1>7 DEF Fail, CanTransitionTo, SetState, records, TypeInv, RunningLoses
  <1>8. ASSUME NEW t \in Tasks, Cancel(t) PROVE RunningSame \/ RunningLoses(t)
    <2>1. /\ state'[t] # "Running" /\ UNCHANGED spec
          /\ \A u \in Tasks \ {t} : state'[u] = "Running" <=> state[u] = "Running"
      BY <1>8 DEF Cancel, SetState, records, TypeInv
    <2>2. CASE state[t] = "Running"
      <3>1. DecrementRunning(spec[t].dim)
        BY <1>8, <2>2 DEF Cancel
      <3> QED BY <2>1, <2>2, <3>1 DEF RunningLoses
    <2>3. CASE state[t] # "Running"
      <3>1. UNCHANGED running_count
        BY <1>8, <2>3 DEF Cancel
      <3> QED BY <2>1, <2>3, <3>1 DEF RunningSame
    <2> QED BY <2>2, <2>3
  <1>9. ASSUME NEW t \in Tasks, Pause(t) PROVE RunningLoses(t)
    BY <1>9 DEF Pause, CanTransitionTo, SetState, records, TypeInv, RunningLoses
  <1>10. ASSUME NEW t \in Tasks, Resume(t) PROVE RunningSame
    BY <1>10 DEF Resume, CanTransitionTo, SetState, records, TypeInv, RunningSame
  <1>11. CASE UNCHANGED vars
    BY <1>11 DEF vars, RunningSame
  <1> QED
    BY <1>1, <1>2, <1>3, <1>4, <1>5, <1>6, <1>7, <1>8, <1>9, <1>10, <1>11
       DEF Next, NextReady, SubmitFromTemplate

(* The count is exact after every step.                                       *)
LEMMA RunningCountStep ==
  TypeInv /\ RunningCountExact /\ [Next]_vars => RunningCountExact'
  <1> SUFFICES ASSUME TypeInv, RunningCountExact, [Next]_vars PROVE RunningCountExact'
    OBVIOUS
  <1>1. CASE RunningSame
    BY <1>1, RunningKept DEF RunningSame
  <1>2. ASSUME NEW t \in Tasks, RunningGains(t) PROVE RunningCountExact'
    BY <1>2, RunningStarts DEF RunningGains
  <1>3. ASSUME NEW t \in Tasks, RunningLoses(t) PROVE RunningCountExact'
    BY <1>3, RunningStops DEF RunningLoses
  <1> QED BY <1>1, <1>2, <1>3, RunningStep

(* Whatever the order of the calls of clients and workers, running_count is   *)
(* the number of Running records of each dimension: no slot leaks.            *)
THEOREM RunningCountCorrect == Spec => []RunningCountExact
  <1>1. Init => RunningCountExact
    <2> SUFFICES ASSUME Init, NEW d \in Dims
                 PROVE  running_count[d] = Cardinality(RunningIn(d))
      BY DEF RunningCountExact
    <2>1. RunningIn(d) = {} /\ running_count[d] = 0
      BY DEF Init, RunningIn, InState
    <2> QED BY <2>1, FS_EmptySet
  <1> QED BY <1>1, TypeInvInit, TypeInvStep, RunningCountStep, PTL DEF Spec

(* Every variable keeps its type, and running_count, a u32 in the code, never *)
(* exceeds the number of tasks.                                               *)
THEOREM TypeCorrect == Spec => []TypeOK
  <1>1. TypeInv /\ RunningCountExact => TypeOK
    <2> SUFFICES ASSUME TypeInv, RunningCountExact PROVE TypeOK
      OBVIOUS
    <2>1. running_count \in [Dims -> 0..Cardinality(Tasks)]
      BY RunningFinite DEF TypeInv, RunningCountExact
    <2> QED BY <2>1 DEF TypeInv, TypeOK
  <1>2. Spec => []TypeInv
    BY TypeInvInit, TypeInvStep, PTL DEF Spec
  <1> QED BY <1>1, <1>2, RunningCountCorrect, PTL

-----------------------------------------------------------------------------
(* The ready queue agrees with the Queued states after every step.            *)
LEMMA QueueStep == TypeInv /\ QueueExact /\ [Next]_vars => QueueExact'
  <1> SUFFICES ASSUME TypeInv, QueueExact, [Next]_vars PROVE QueueExact'
    OBVIOUS
  <1>1. ASSUME NEW d \in Dims, NEW q \in Quotas, SetQuota(d, q) PROVE QueueExact'
    BY <1>1 DEF QueueExact, SetQuota
  <1>2. ASSUME NEW m \in Templates, RegisterTemplate(m) PROVE QueueExact'
    BY <1>2 DEF QueueExact, RegisterTemplate
  <1>3. ASSUME NEW t \in Tasks, NEW sp, Submit(t, sp) PROVE QueueExact'
    <2>1. CASE AllDepsCompleted(sp.deps)
      BY <1>3, <2>1 DEF QueueExact, TypeInv, Submit, SetState, Enqueue
    <2>2. CASE ~AllDepsCompleted(sp.deps)
      BY <1>3, <2>2 DEF QueueExact, TypeInv, Submit, SetState
    <2> QED BY <2>1, <2>2
  <1>4. ASSUME NEW t \in Tasks, NEW m \in Templates, SubmitFromTemplate(m, t)
        PROVE  QueueExact'
    BY <1>3, <1>4 DEF SubmitFromTemplate
  <1>5. ASSUME NEW t \in Tasks, Dispatch(t) PROVE QueueExact'
    BY <1>5 DEF QueueExact, TypeInv, Dispatch, CanTransitionTo, SetState
  <1>6. ASSUME NEW t \in Tasks, DropStale(t) PROVE QueueExact'
    <2>1. state[t] = "Queued"
      BY <1>6 DEF QueueExact, DropStale, FirstReady
    <2> QED BY <1>6, <2>1 DEF DropStale, CanTransitionTo
  <1>7. ASSUME NEW t \in Tasks, RenewLease(t) \/ LeaseExpires(t) PROVE QueueExact'
    BY <1>7 DEF QueueExact, RenewLease, LeaseExpires
  <1>8. ASSUME NEW t \in Tasks, Complete(t) PROVE QueueExact'
    <2> SUFFICES ASSUME NEW u \in Tasks
                 PROVE  ready_queue'[u] = IF state'[u] = "Queued" THEN 1 ELSE 0
      BY DEF QueueExact
    <2>1. ready_queue[u] = IF state[u] = "Queued" THEN 1 ELSE 0
      BY DEF QueueExact
    <2>2. t \notin Promoted(t) /\ state[t] = "Running"
      BY <1>8 DEF Complete, CanTransitionTo, Promoted, InState
    <2>3. CASE u \in Promoted(t)
      <3>1. state[u] = "Pending" /\ state'[u] = "Queued" /\ ready_queue'[u] = ready_queue[u] + 1
        BY <1>8, <2>2, <2>3 DEF Complete, Promoted, InState
      <3> QED BY <2>1, <3>1
    <2>4. CASE u \notin Promoted(t)
      <3>1. /\ ready_queue'[u] = ready_queue[u]
            /\ IF u = t THEN state'[u] = "Completed" ELSE state'[u] = state[u]
        BY <1>8, <2>4 DEF Complete
      <3> QED BY <2>1, <2>2, <3>1
    <2> QED BY <2>3, <2>4
  <1>9. ASSUME NEW t \in Tasks, Fail(t) PROVE QueueExact'
    BY <1>9 DEF QueueExact, TypeInv, Fail, CanTransitionTo, SetState, Enqueue
  <1>10. ASSUME NEW t \in Tasks, Cancel(t) PROVE QueueExact'
    BY <1>10 DEF QueueExact, TypeInv, Cancel, SetState
  <1>11. ASSUME NEW t \in Tasks, Pause(t) PROVE QueueExact'
    BY <1>11 DEF QueueExact, TypeInv, Pause, CanTransitionTo, SetState
  <1>12. ASSUME NEW t \in Tasks, Resume(t) PROVE QueueExact'
    BY <1>12 DEF QueueExact, TypeInv, Resume, CanTransitionTo, SetState, Enqueue
  <1>13. CASE UNCHANGED vars
    BY <1>13 DEF QueueExact, vars
  <1> QED
    BY <1>1, <1>2, <1>3, <1>4, <1>5, <1>6, <1>7, <1>8, <1>9, <1>10, <1>11, <1>12,
       <1>13 DEF Next, NextReady

(* A task has exactly one ready-queue entry while it is Queued, and none      *)
(* otherwise: no task is dispatched twice and none is forgotten.              *)
THEOREM QueueCorrect == Spec => []QueueExact
  <1>1. Init => QueueExact
    BY DEF Init, QueueExact
  <1> QED BY <1>1, TypeInvInit, TypeInvStep, QueueStep, PTL DEF Spec

-----------------------------------------------------------------------------
(* Only next_ready() makes a task Running.                                    *)
LEMMA OnlyDispatchStarts ==
  ASSUME TypeInv, [Next]_vars, NEW t \in Tasks,
         state[t] # "Running", state'[t] = "Running"
  PROVE  Dispatch(t)
  <1>1. ASSUME NEW u \in Tasks, NEW sp, Submit(u, sp) PROVE FALSE
    BY <1>1 DEF Submit, SetState, TypeInv
  <1>2. ASSUME NEW u \in Tasks, Dispatch(u) PROVE Dispatch(t)
    BY <1>2 DEF Dispatch, SetState, TypeInv
  <1>3. ASSUME NEW u \in Tasks, Complete(u) PROVE FALSE
    BY <1>3 DEF Complete, TypeInv
  <1>4. ASSUME NEW u \in Tasks, Fail(u) \/ Cancel(u) \/ Pause(u) \/ Resume(u) PROVE FALSE
    BY <1>4 DEF Fail, Cancel, Pause, Resume, SetState, TypeInv
  <1>5. ASSUME UNCHANGED state PROVE FALSE
    BY <1>5
  <1>6. ASSUME NEW u \in Tasks, DropStale(u) \/ RenewLease(u) \/ LeaseExpires(u) PROVE FALSE
    BY <1>5, <1>6 DEF DropStale, RenewLease, LeaseExpires
  <1>7. ASSUME NEW d \in Dims, NEW q \in Quotas, SetQuota(d, q) PROVE FALSE
    BY <1>5, <1>7 DEF SetQuota
  <1>8. ASSUME NEW m \in Templates, RegisterTemplate(m) PROVE FALSE
    BY <1>5, <1>8 DEF RegisterTemplate
  <1>9. ASSUME UNCHANGED vars PROVE FALSE
    BY <1>5, <1>9 DEF vars
  <1> QED
    BY <1>1, <1>2, <1>3, <1>4, <1>6, <1>7, <1>8, <1>9 DEF Next, NextReady, SubmitFromTemplate

(* A running task keeps its specification.                                    *)
LEMMA SpecKept ==
  ASSUME TypeInv, [Next]_vars, NEW t \in Tasks, state[t] # "Absent"
  PROVE  spec'[t] = spec[t]
  <1>1. ASSUME NEW u \in Tasks, NEW sp, Submit(u, sp) PROVE spec'[t] = spec[t]
    BY <1>1 DEF Submit, TypeInv
  <1>2. ASSUME NEW u \in Tasks,
               \/ Dispatch(u) \/ DropStale(u) \/ RenewLease(u) \/ LeaseExpires(u)
               \/ Complete(u) \/ Fail(u) \/ Cancel(u) \/ Pause(u) \/ Resume(u)
        PROVE  spec' = spec
    BY <1>2 DEF Dispatch, DropStale, RenewLease, LeaseExpires, Complete, Fail,
                Cancel, Pause, Resume, records
  <1>3. ASSUME NEW d \in Dims, NEW q \in Quotas, SetQuota(d, q) PROVE spec' = spec
    BY <1>3 DEF SetQuota, records
  <1>4. ASSUME NEW m \in Templates, RegisterTemplate(m) PROVE spec' = spec
    BY <1>4 DEF RegisterTemplate, records
  <1>5. ASSUME UNCHANGED vars PROVE spec' = spec
    BY <1>5 DEF vars
  <1> QED BY <1>1, <1>2, <1>3, <1>4, <1>5 DEF Next, NextReady, SubmitFromTemplate

(* A step that leaves a dimension with more Running tasks than before leaves  *)
(* it within its max_concurrent: only next_ready() starts a task, it compares *)
(* running_count with the quota, and running_count is exact.                  *)
THEOREM QuotaCorrect == Spec => QuotaRespected
  <1> DEFINE Respected ==
        \A d \in Dims :
          Cardinality(RunningIn(d)') > Cardinality(RunningIn(d))
            => Cardinality(RunningIn(d)') <= quotas[d].max_concurrent
  <1>1. ASSUME TypeInv, RunningCountExact, [Next]_vars PROVE Respected
    <2> SUFFICES ASSUME NEW d \in Dims,
                        Cardinality(RunningIn(d)') > Cardinality(RunningIn(d))
                 PROVE  Cardinality(RunningIn(d)') <= quotas[d].max_concurrent
      OBVIOUS
    <2>1. TypeInv' /\ RunningCountExact'
      BY <1>1, TypeInvStep, RunningCountStep
    <2>2. PICK t \in RunningIn(d)' : t \notin RunningIn(d)
      <3>1. CASE RunningIn(d)' \subseteq RunningIn(d)
        <4>1. Cardinality(RunningIn(d)') <= Cardinality(RunningIn(d))
          BY <3>1, RunningFinite, FS_Subset
        <4>2. Cardinality(RunningIn(d)) \in Nat /\ Cardinality(RunningIn(d)') \in Nat
          BY <1>1, <2>1 DEF RunningCountExact, TypeInv
        <4> QED BY <4>1, <4>2
      <3> QED BY <3>1
    <2>3. t \in Tasks /\ state'[t] = "Running" /\ spec'[t].dim = d
      BY <2>2 DEF RunningIn, InState
    <2>4. state[t] # "Running"
      <3> SUFFICES ASSUME state[t] = "Running" PROVE FALSE
        OBVIOUS
      <3>1. spec'[t] = spec[t]
        BY <1>1, <2>3, SpecKept
      <3> QED BY <2>2, <2>3, <3>1 DEF RunningIn, InState
    <2>5. Dispatch(t)
      BY <1>1, <2>3, <2>4, OnlyDispatchStarts
    <2>6. spec[t].dim = d
      BY <2>3, <2>5 DEF Dispatch
    <2>7. running_count[d] < quotas[d].max_concurrent
      BY <2>5, <2>6 DEF Dispatch, FirstReady, HasSlot
    <2>8. running_count'[d] = running_count[d] + 1
      BY <1>1, <2>5, <2>6 DEF Dispatch, IncrementRunning, TypeInv
    <2>9. running_count'[d] = Cardinality(RunningIn(d)')
      BY <2>1 DEF RunningCountExact
    <2>10. running_count[d] \in Nat /\ quotas[d].max_concurrent \in Nat
      BY <1>1 DEF TypeInv, DimensionQuota
    <2> QED BY <2>7, <2>8, <2>9, <2>10
  <1>2. TypeInv /\ RunningCountExact /\ [Next]_vars => [Respected]_vars
    BY <1>1
  <1>3. Spec => []TypeInv
    BY TypeInvInit, TypeInvStep, PTL DEF Spec
  <1> QED BY <1>2, <1>3, RunningCountCorrect, PTL DEF Spec, QuotaRespected

-----------------------------------------------------------------------------
(* What a step does to the state of one task.  Only complete() makes a task   *)
(* Completed, and Completed and Cancelled are never left.                     *)
LEMMA StateStep ==
  ASSUME TypeInv, [Next]_vars, NEW t \in Tasks
  PROVE  /\ state[t] \in {"Completed", "Cancelled"} => state'[t] = state[t]
         /\ state'[t] = "Completed" /\ state[t] # "Completed" => Complete(t)
  <1> DEFINE P == /\ state[t] \in {"Completed", "Cancelled"} => state'[t] = state[t]
                  /\ state'[t] = "Completed" /\ state[t] # "Completed" => Complete(t)
  <1>1. ASSUME UNCHANGED state PROVE P
    BY <1>1
  <1>2. ASSUME NEW d \in Dims, NEW q \in Quotas, SetQuota(d, q) PROVE P
    BY <1>1, <1>2 DEF SetQuota
  <1>3. ASSUME NEW m \in Templates, RegisterTemplate(m) PROVE P
    BY <1>1, <1>3 DEF RegisterTemplate
  <1>4. ASSUME NEW u \in Tasks, NEW sp, Submit(u, sp) PROVE P
    BY <1>4 DEF Submit, SetState, TypeInv
  <1>5. ASSUME NEW u \in Tasks, DropStale(u) \/ RenewLease(u) \/ LeaseExpires(u) PROVE P
    BY <1>1, <1>5 DEF DropStale, RenewLease, LeaseExpires
  <1>6. ASSUME NEW u \in Tasks, Complete(u) PROVE P
    <2>1. CASE u = t
      BY <1>6, <2>1 DEF Complete, CanTransitionTo
    <2>2. CASE u # t
      BY <1>6, <2>2 DEF Complete, Promoted, InState
    <2> QED BY <2>1, <2>2
  <1>7. ASSUME NEW u \in Tasks, Dispatch(u) \/ Pause(u) \/ Resume(u) PROVE P
    BY <1>7 DEF Dispatch, Pause, Resume, SetState, CanTransitionTo, TypeInv
  <1>8. ASSUME NEW u \in Tasks, Fail(u) \/ Cancel(u) PROVE P
    BY <1>8 DEF Fail, Cancel, SetState, CanTransitionTo, TypeInv
  <1>9. ASSUME UNCHANGED vars PROVE P
    BY <1>1, <1>9 DEF vars
  <1>10. P
    BY <1>2, <1>3, <1>4, <1>5, <1>6, <1>7, <1>8, <1>9 DEF Next, NextReady, SubmitFromTemplate
  <1> QED BY <1>10

(* Completed and Cancelled are final.                                         *)
THEOREM OutcomeCorrect == Spec => OutcomeFinal
  <1>1. TypeInv /\ [Next]_vars =>
          [\A t \in Tasks :
             state[t] \in {"Completed", "Cancelled"} => state'[t] = state[t]]_vars
    BY StateStep
  <1>2. Spec => []TypeInv
    BY TypeInvInit, TypeInvStep, PTL DEF Spec
  <1> QED BY <1>1, <1>2, PTL DEF Spec, OutcomeFinal

(* A task that a step other than its resume() has started has only Completed  *)
(* prerequisites.                                                             *)
LEMMA StartedByStep ==
  ASSUME TypeInv, [Next]_vars, NEW t \in Tasks,
         state[t] \notin Started, state'[t] \in Started, ~Resume(t)
  PROVE  AllDepsCompleted(spec[t].deps)'
  <1>1. ASSUME UNCHANGED state PROVE FALSE
    BY <1>1
  <1>2. ASSUME NEW d \in Dims, NEW q \in Quotas, SetQuota(d, q) PROVE FALSE
    BY <1>1, <1>2 DEF SetQuota
  <1>3. ASSUME NEW m \in Templates, RegisterTemplate(m) PROVE FALSE
    BY <1>1, <1>3 DEF RegisterTemplate
  <1>4. ASSUME NEW u \in Tasks, NEW sp, Submit(u, sp)
        PROVE  AllDepsCompleted(spec[t].deps)'
    <2>1. u = t /\ spec'[t] = sp
      BY <1>4 DEF Submit, SetState, TypeInv
    <2>2. AllDepsCompleted(sp.deps)
      BY <1>4, <2>1 DEF Submit, SetState, TypeInv, Started
    <2>3. state[t] = "Absent" /\ \A p \in Tasks \ {t} : state'[p] = state[p]
      BY <1>4, <2>1 DEF Submit, SetState, TypeInv
    <2>4. sp.deps \subseteq Tasks
      <3>1. spec' \in [Tasks -> TaskSpec]
        BY TypeInvStep DEF TypeInv
      <3> QED BY <2>1, <3>1 DEF TaskSpec
    <2> QED BY <2>1, <2>2, <2>3, <2>4 DEF AllDepsCompleted
  <1>5. ASSUME NEW u \in Tasks, DropStale(u) \/ RenewLease(u) \/ LeaseExpires(u) PROVE FALSE
    BY <1>1, <1>5 DEF DropStale, RenewLease, LeaseExpires
  <1>6. ASSUME NEW u \in Tasks, Complete(u) PROVE AllDepsCompleted(spec[t].deps)'
    <2>1. state[u] = "Running" /\ u # t
      BY <1>6 DEF Complete, CanTransitionTo, Started
    <2>2. t \in Promoted(u)
      BY <1>6, <2>1 DEF Complete, Started
    <2>3. AllDepsCompleted(spec[t].deps \ {u}) /\ state'[u] = "Completed" /\ spec' = spec
      BY <1>6, <2>2 DEF Complete, Promoted, records
    <2>4. spec[t].deps \subseteq Tasks
      BY DEF TypeInv, TaskSpec
    <2> QED BY <2>3, <2>4, StateStep DEF AllDepsCompleted
  <1>7. ASSUME NEW u \in Tasks, Dispatch(u) \/ Pause(u) \/ Resume(u) PROVE FALSE
    <2>1. CASE Dispatch(u) \/ Pause(u)
      BY <2>1 DEF Dispatch, Pause, SetState, CanTransitionTo, TypeInv, Started
    <2>2. CASE Resume(u)
      <3>1. u # t
        BY <2>2
      <3> QED BY <2>2, <3>1 DEF Resume, SetState, TypeInv
    <2> QED BY <1>7, <2>1, <2>2
  <1>8. ASSUME NEW u \in Tasks, Fail(u) \/ Cancel(u) PROVE FALSE
    BY <1>8 DEF Fail, Cancel, SetState, CanTransitionTo, TypeInv, Started
  <1>9. ASSUME UNCHANGED vars PROVE FALSE
    BY <1>1, <1>9 DEF vars
  <1> QED
    BY <1>2, <1>3, <1>4, <1>5, <1>6, <1>7, <1>8, <1>9 DEF Next, NextReady, SubmitFromTemplate

(* Prerequisites are awaited: whatever the tasks, their prerequisites and the *)
(* order of the calls, only resume() lets a task into the queue before all of *)
(* its prerequisites have completed.                                          *)
THEOREM DependenciesCorrect == Spec => DepsAwaited
  <1>1. TypeInv /\ [Next]_vars =>
          [\A t \in Tasks :
             state[t] \notin Started /\ state'[t] \in Started /\ ~Resume(t)
               => \A p \in spec'[t].deps : state'[p] = "Completed"]_vars
    <2> SUFFICES ASSUME TypeInv, [Next]_vars, NEW t \in Tasks,
                        state[t] \notin Started, state'[t] \in Started, ~Resume(t)
                 PROVE  \A p \in spec'[t].deps : state'[p] = "Completed"
      OBVIOUS
    <2>1. AllDepsCompleted(spec[t].deps)'
      BY StartedByStep
    <2> QED BY <2>1 DEF AllDepsCompleted
  <1>2. Spec => []TypeInv
    BY TypeInvInit, TypeInvStep, PTL DEF Spec
  <1> QED BY <1>1, <1>2, PTL DEF Spec, DepsAwaited

(* A task is Pending after a step only if it was before, or has just been     *)
(* submitted with a prerequisite that has not completed.                      *)
LEMMA PendingStep ==
  ASSUME TypeInv, [Next]_vars, NEW t \in Tasks, state'[t] = "Pending", state[t] # "Pending"
  PROVE  ~AllDepsCompleted(spec[t].deps)'
  <1>1. ASSUME UNCHANGED state PROVE FALSE
    BY <1>1
  <1>2. ASSUME NEW d \in Dims, NEW q \in Quotas, SetQuota(d, q) PROVE FALSE
    BY <1>1, <1>2 DEF SetQuota
  <1>3. ASSUME NEW m \in Templates, RegisterTemplate(m) PROVE FALSE
    BY <1>1, <1>3 DEF RegisterTemplate
  <1>4. ASSUME NEW u \in Tasks, NEW sp, Submit(u, sp)
        PROVE  ~AllDepsCompleted(spec[t].deps)'
    <2>1. u = t /\ spec'[t] = sp /\ ~AllDepsCompleted(sp.deps)
      BY <1>4 DEF Submit, SetState, TypeInv
    <2>2. PICK p \in sp.deps : state[p] # "Completed"
      BY <2>1 DEF AllDepsCompleted
    <2>3. p \in Tasks
      <3>1. spec' \in [Tasks -> TaskSpec]
        BY TypeInvStep DEF TypeInv
      <3> QED BY <2>1, <2>2, <3>1 DEF TaskSpec
    <2>4. state'[p] # "Completed"
      BY <1>4, <2>1, <2>2, <2>3 DEF Submit, SetState, TypeInv
    <2> QED BY <2>1, <2>2, <2>4 DEF AllDepsCompleted
  <1>5. ASSUME NEW u \in Tasks, DropStale(u) \/ RenewLease(u) \/ LeaseExpires(u) PROVE FALSE
    BY <1>1, <1>5 DEF DropStale, RenewLease, LeaseExpires
  <1>6. ASSUME NEW u \in Tasks, Complete(u) PROVE FALSE
    BY <1>6 DEF Complete
  <1>7. ASSUME NEW u \in Tasks, Dispatch(u) \/ Pause(u) \/ Resume(u) PROVE FALSE
    BY <1>7 DEF Dispatch, Pause, Resume, SetState, TypeInv
  <1>8. ASSUME NEW u \in Tasks, Fail(u) \/ Cancel(u) PROVE FALSE
    BY <1>8 DEF Fail, Cancel, SetState, TypeInv
  <1>9. ASSUME UNCHANGED vars PROVE FALSE
    BY <1>1, <1>9 DEF vars
  <1> QED
    BY <1>2, <1>3, <1>4, <1>5, <1>6, <1>7, <1>8, <1>9 DEF Next, NextReady, SubmitFromTemplate

(* A task waits as Pending only while some prerequisite has not completed:    *)
(* complete() promotes at once whatever it unblocks, and nothing else can     *)
(* complete the last prerequisite of a waiting task.                          *)
THEOREM PromotionCorrect == Spec => []NoMissedPromotion
  <1>1. Init => NoMissedPromotion
    BY DEF Init, NoMissedPromotion, InState
  <1>2. ASSUME TypeInv, NoMissedPromotion, [Next]_vars PROVE NoMissedPromotion'
    <2> SUFFICES ASSUME NEW t \in Tasks, state'[t] = "Pending"
                 PROVE  ~AllDepsCompleted(spec[t].deps)'
      BY DEF NoMissedPromotion, InState
    <2>1. CASE state[t] # "Pending"
      BY <1>2, <2>1, PendingStep
    <2>2. CASE state[t] = "Pending"
      <3>1. spec'[t] = spec[t]
        BY <1>2, <2>2, SpecKept
      <3>2. spec[t].deps \in SUBSET Tasks
        BY <1>2 DEF TypeInv, TaskSpec
      <3>3. PICK p \in spec[t].deps : state[p] # "Completed"
        BY <1>2, <2>2 DEF NoMissedPromotion, InState, AllDepsCompleted
      <3>4. CASE state'[p] # "Completed"
        BY <3>1, <3>3, <3>4 DEF AllDepsCompleted
      <3>5. CASE state'[p] = "Completed"
        <4>1. Complete(p)
          BY <1>2, <3>2, <3>3, <3>5, StateStep
        <4>2. t \notin Promoted(p)
          BY <2>2, <4>1 DEF Complete, CanTransitionTo
        <4>3. PICK q \in spec[t].deps \ {p} : state[q] # "Completed"
          BY <2>2, <4>2 DEF Promoted, InState, AllDepsCompleted
        <4>4. state'[q] # "Completed"
          BY <3>2, <4>1, <4>3 DEF Complete
        <4> QED BY <3>1, <4>3, <4>4 DEF AllDepsCompleted
      <3> QED BY <3>4, <3>5
    <2> QED BY <2>1, <2>2
  <1>3. TypeInv /\ NoMissedPromotion /\ [Next]_vars => NoMissedPromotion'
    BY <1>2
  <1> QED BY <1>1, <1>3, TypeInvInit, TypeInvStep, PTL DEF Spec

(* When next_ready() hands out a task, every Queued task that sorts before it *)
(* waits because its own dimension is full: the queue holds every Queued task *)
(* and the count it compares with the quota is exact.                         *)
THEOREM UrgencyCorrect == Spec => UrgentFirst
  <1> DEFINE Urgent ==
        \A t, u \in Tasks :
          (/\ state[t] = "Queued" /\ state'[t] = "Running"
           /\ state[u] = "Queued" /\ SortsBefore(u, t))
          => Cardinality(RunningIn(spec[u].dim)) >= quotas[spec[u].dim].max_concurrent
  <1>1. ASSUME TypeInv, RunningCountExact, QueueExact, [Next]_vars PROVE Urgent
    <2> SUFFICES ASSUME NEW t \in Tasks, NEW u \in Tasks,
                        state[t] = "Queued", state'[t] = "Running",
                        state[u] = "Queued", SortsBefore(u, t)
                 PROVE  Cardinality(RunningIn(spec[u].dim)) >= quotas[spec[u].dim].max_concurrent
      OBVIOUS
    <2>1. Dispatch(t)
      BY <1>1, OnlyDispatchStarts
    <2>2. ready_queue[u] > 0
      BY <1>1 DEF QueueExact
    <2>3. ~HasSlot(u)
      BY <2>1, <2>2 DEF Dispatch, FirstReady
    <2>4. spec[u].dim \in Dims
      BY <1>1 DEF TypeInv, TaskSpec
    <2>5. /\ running_count[spec[u].dim] \in Nat
          /\ quotas[spec[u].dim].max_concurrent \in Nat
          /\ running_count[spec[u].dim] = Cardinality(RunningIn(spec[u].dim))
      BY <1>1, <2>4 DEF TypeInv, DimensionQuota, RunningCountExact
    <2> QED BY <2>3, <2>5 DEF HasSlot
  <1>2. TypeInv /\ RunningCountExact /\ QueueExact /\ [Next]_vars => [Urgent]_vars
    BY <1>1
  <1>3. Spec => []TypeInv
    BY TypeInvInit, TypeInvStep, PTL DEF Spec
  <1> QED BY <1>2, <1>3, RunningCountCorrect, QueueCorrect, PTL DEF Spec, UrgentFirst

-----------------------------------------------------------------------------
(* Persistence.  Of running_count only half remains: it is never too high.    *)
LEMMA SlotsStep ==
  ASSUME TypeInv, NoSlotLost, [Next]_vars
  PROVE  NoSlotLost'
  <1> SUFFICES ASSUME NEW d \in Dims
               PROVE  running_count'[d] <= Cardinality(RunningIn(d)')
    BY DEF NoSlotLost
  <1>1. /\ running_count[d] <= Cardinality(RunningIn(d)) /\ running_count[d] \in Nat
        /\ Cardinality(RunningIn(d)) \in Nat /\ IsFiniteSet(RunningIn(d))
    BY RunningFinite, FS_CardinalityType DEF NoSlotLost, TypeInv
  <1>2. CASE RunningSame
    <2>1. RunningIn(d)' = RunningIn(d) /\ running_count' = running_count
      BY <1>2 DEF RunningSame, RunningIn, InState
    <2> QED BY <1>1, <2>1
  <1>3. ASSUME NEW t \in Tasks, RunningGains(t)
        PROVE  running_count'[d] <= Cardinality(RunningIn(d)')
    <2>1. CASE d = spec[t].dim
      <3>1. RunningIn(d)' = RunningIn(d) \cup {t} /\ t \notin RunningIn(d)
        BY <1>3, <2>1 DEF RunningIn, InState, RunningGains
      <3>2. Cardinality(RunningIn(d) \cup {t}) = Cardinality(RunningIn(d)) + 1
        BY <1>1, <3>1, FS_AddElement
      <3>3. running_count'[d] = running_count[d] + 1
        BY <1>3, <2>1 DEF IncrementRunning, TypeInv, RunningGains
      <3> QED BY <1>1, <3>1, <3>2, <3>3
    <2>2. CASE d # spec[t].dim
      <3>1. RunningIn(d)' = RunningIn(d)
        BY <1>3, <2>2 DEF RunningIn, InState, RunningGains
      <3>2. running_count'[d] = running_count[d]
        BY <1>3, <2>2 DEF IncrementRunning, TypeInv, RunningGains
      <3> QED BY <1>1, <3>1, <3>2
    <2> QED BY <2>1, <2>2
  <1>4. ASSUME NEW t \in Tasks, RunningLoses(t)
        PROVE  running_count'[d] <= Cardinality(RunningIn(d)')
    <2>1. CASE d = spec[t].dim
      <3>1. RunningIn(d)' = RunningIn(d) \ {t} /\ t \in RunningIn(d)
        BY <1>4, <2>1 DEF RunningIn, InState, RunningLoses
      <3>2. Cardinality(RunningIn(d) \ {t}) = Cardinality(RunningIn(d)) - 1 /\ IsFiniteSet(RunningIn(d) \ {t})
        BY <1>1, <3>1, FS_RemoveElement
      <3>3. Cardinality(RunningIn(d) \ {t}) \in Nat
        BY <3>2, FS_CardinalityType
      <3>4. running_count'[d] = Decrement(running_count[d])
        BY <1>4, <2>1 DEF DecrementRunning, TypeInv, RunningLoses
      <3> QED BY <1>1, <3>1, <3>2, <3>3, <3>4 DEF Decrement
    <2>2. CASE d # spec[t].dim
      <3>1. RunningIn(d)' = RunningIn(d)
        BY <1>4, <2>2 DEF RunningIn, InState, RunningLoses
      <3>2. running_count'[d] = running_count[d]
        BY <1>4, <2>2 DEF DecrementRunning, TypeInv, RunningLoses
      <3> QED BY <1>1, <3>1, <3>2
    <2> QED BY <2>1, <2>2
  <1> QED BY <1>2, <1>3, <1>4, RunningStep

(* A Queued task keeps an entry, however many stale ones are dropped.         *)
LEMMA EntryStep ==
  ASSUME TypeInv, QueuedHasEntry, [Next]_vars
  PROVE  QueuedHasEntry'
  <1> USE DEF QueuedHasEntry, InState
  <1>1. ASSUME NEW d \in Dims, NEW q \in Quotas, SetQuota(d, q) PROVE QueuedHasEntry'
    BY <1>1 DEF SetQuota
  <1>2. ASSUME NEW m \in Templates, RegisterTemplate(m) PROVE QueuedHasEntry'
    BY <1>2 DEF RegisterTemplate
  <1>3. ASSUME NEW t \in Tasks, NEW sp, Submit(t, sp) PROVE QueuedHasEntry'
    <2>1. CASE AllDepsCompleted(sp.deps)
      BY <1>3, <2>1 DEF TypeInv, Submit, SetState, Enqueue
    <2>2. CASE ~AllDepsCompleted(sp.deps)
      BY <1>3, <2>2 DEF TypeInv, Submit, SetState
    <2> QED BY <2>1, <2>2
  <1>4. ASSUME NEW t \in Tasks, Dispatch(t) PROVE QueuedHasEntry'
    BY <1>4 DEF TypeInv, Dispatch, SetState
  <1>5. ASSUME NEW t \in Tasks, DropStale(t) PROVE QueuedHasEntry'
    <2>1. state[t] # "Queued"
      BY <1>5 DEF DropStale, CanTransitionTo
    <2> QED BY <1>5, <2>1 DEF TypeInv, DropStale
  <1>6. ASSUME NEW t \in Tasks, RenewLease(t) \/ LeaseExpires(t) PROVE QueuedHasEntry'
    BY <1>6 DEF RenewLease, LeaseExpires
  <1>7. ASSUME NEW t \in Tasks, Complete(t) PROVE QueuedHasEntry'
    BY <1>7 DEF TypeInv, Complete
  <1>8. ASSUME NEW t \in Tasks, Fail(t) PROVE QueuedHasEntry'
    BY <1>8 DEF TypeInv, Fail, SetState, Enqueue
  <1>9. ASSUME NEW t \in Tasks, Cancel(t) PROVE QueuedHasEntry'
    BY <1>9 DEF TypeInv, Cancel, SetState
  <1>10. ASSUME NEW t \in Tasks, Pause(t) PROVE QueuedHasEntry'
    BY <1>10 DEF TypeInv, Pause, SetState
  <1>11. ASSUME NEW t \in Tasks, Resume(t) PROVE QueuedHasEntry'
    BY <1>11 DEF TypeInv, Resume, SetState, Enqueue
  <1>12. CASE UNCHANGED vars
    BY <1>12 DEF vars
  <1> QED
    BY <1>1, <1>2, <1>3, <1>4, <1>5, <1>6, <1>7, <1>8, <1>9, <1>10, <1>11, <1>12
       DEF Next, NextReady, SubmitFromTemplate

(* A snapshot holds what the records held.                                    *)
DiskType ==
    /\ disk.state \in [Tasks -> TaskState \cup {"Absent"}]
    /\ disk.spec \in [Tasks -> TaskSpec]
    /\ disk.attempt \in [Tasks -> Nat]
    /\ disk.seq \in [Tasks -> Nat]
    /\ disk.lease \in [Tasks -> {"None", "Valid", "Expired"}]

RecoveryInv == TypeInv /\ DiskType /\ QueuedHasEntry /\ NoSlotLost

(* A scheduler with no tasks accounts for all of them.                        *)
LEMMA EmptyAccounted ==
  ASSUME state = [t \in Tasks |-> "Absent"], running_count = [d \in Dims |-> 0]
  PROVE  QueuedHasEntry /\ NoSlotLost
  <1>1. \A d \in Dims : running_count[d] = 0 /\ Cardinality(RunningIn(d)) \in Nat
    BY RunningFinite, FS_CardinalityType
  <1> QED BY <1>1 DEF QueuedHasEntry, InState, NoSlotLost

LEMMA CrashKeeps ==
  ASSUME RecoveryInv, Crash
  PROVE  RecoveryInv'
  <1>1. TypeInv' /\ DiskType'
    BY SchedulerAssumption DEF Crash, RecoveryInv, TypeInv, DiskType, NoSpec, Unlimited, TaskSpec,
         DimensionQuota, TaskState
  <1>2. state' = [t \in Tasks |-> "Absent"] /\ running_count' = [d \in Dims |-> 0]
    BY DEF Crash
  <1>3. QueuedHasEntry'
    BY <1>2 DEF QueuedHasEntry, InState
  <1>4. ASSUME NEW d \in Dims PROVE running_count'[d] <= Cardinality(RunningIn(d)')
    <2>1. RunningIn(d)' = {}
      BY <1>2 DEF RunningIn, InState
    <2> QED BY <1>2, <2>1, FS_EmptySet
  <1> QED BY <1>1, <1>3, <1>4 DEF RecoveryInv, NoSlotLost

LEMMA RestoreKeeps ==
  ASSUME RecoveryInv, Restore
  PROVE  RecoveryInv'
  <1>1. /\ state' = Merge(state, disk.state) /\ spec' = Merge(spec, disk.spec)
        /\ attempt' = Merge(attempt, disk.attempt) /\ seq' = Merge(seq, disk.seq)
        /\ ready_queue' =
              [t \in Tasks |-> IF t \in Reenqueued THEN ready_queue[t] + 1 ELSE ready_queue[t]]
        /\ UNCHANGED <<next_seq, running_count, quotas, templates, disk>>
    BY DEF Restore
  <1>2. PICK past \in SUBSET Inserted : lease' = ExpireSome(Merge(lease, disk.lease), past)
    BY DEF Restore
  <1>3. TypeInv /\ DiskType
    BY DEF RecoveryInv
  <1>4. state' \in [Tasks -> TaskState \cup {"Absent"}] /\ spec' \in [Tasks -> TaskSpec]
    BY <1>1, <1>3 DEF TypeInv, DiskType, Merge
  <1>5. attempt' \in [Tasks -> Nat] /\ seq' \in [Tasks -> Nat] /\ ready_queue' \in [Tasks -> Nat]
    BY <1>1, <1>3 DEF TypeInv, DiskType, Merge
  <1>6. lease' \in [Tasks -> {"None", "Valid", "Expired"}]
    BY <1>2, <1>3 DEF TypeInv, DiskType, Merge, ExpireSome
  <1>7. TypeInv' /\ DiskType'
    BY <1>1, <1>3, <1>4, <1>5, <1>6 DEF TypeInv, DiskType
  <1>8. QueuedHasEntry'
    <2> SUFFICES ASSUME NEW t \in Tasks, state'[t] = "Queued" PROVE ready_queue'[t] > 0
      BY DEF QueuedHasEntry, InState
    <2>1. ready_queue[t] \in Nat /\ ready_queue'[t] \in Nat /\ ready_queue'[t] >= ready_queue[t]
      BY <1>1, <1>3 DEF TypeInv
    <2>2. CASE t \in Inserted
      <3>1. t \in Reenqueued
        BY <1>1, <2>2 DEF Merge, Reenqueued
      <3> QED BY <1>1, <2>1, <3>1
    <2>3. CASE t \notin Inserted
      <3>1. state[t] = "Queued"
        BY <1>1, <2>3 DEF Merge
      <3>2. ready_queue[t] > 0
        BY <3>1 DEF RecoveryInv, QueuedHasEntry, InState
      <3> QED BY <2>1, <3>2
    <2> QED BY <2>2, <2>3
  <1>9. ASSUME NEW d \in Dims PROVE running_count'[d] <= Cardinality(RunningIn(d)')
    <2>1. RunningIn(d) \subseteq RunningIn(d)'
      BY <1>1 DEF RunningIn, InState, Merge, Inserted
    <2>2. RunningIn(d)' \in SUBSET Tasks
      BY DEF RunningIn, InState
    <2>3. IsFiniteSet(RunningIn(d)')
      BY <2>2, SchedulerAssumption, FS_Subset
    <2>4. /\ Cardinality(RunningIn(d)) <= Cardinality(RunningIn(d)')
          /\ IsFiniteSet(RunningIn(d)) /\ Cardinality(RunningIn(d)') \in Nat
      BY <2>1, <2>3, FS_Subset, FS_CardinalityType
    <2>5. Cardinality(RunningIn(d)) \in Nat
      BY <2>4, FS_CardinalityType
    <2>6. running_count'[d] \in Nat /\ running_count'[d] <= Cardinality(RunningIn(d))
      BY <1>1 DEF RecoveryInv, NoSlotLost, TypeInv
    <2> QED BY <2>4, <2>5, <2>6
  <1> QED BY <1>7, <1>8, <1>9 DEF RecoveryInv, NoSlotLost

(* Through snapshots, crashes and restores, into an empty scheduler or a live *)
(* one, every Queued task has a ready-queue entry and no slot is lost.        *)
THEOREM RestoredCorrect == RecoverySpec => []RestoredAccounted
  <1>1. RecoveryInit => RecoveryInv
    <2> SUFFICES ASSUME RecoveryInit PROVE RecoveryInv
      OBVIOUS
    <2>1. TypeInv
      BY TypeInvInit DEF RecoveryInit
    <2>2. DiskType
      BY <2>1 DEF RecoveryInit, Live, DiskType, TypeInv
    <2>3. QueuedHasEntry /\ NoSlotLost
      BY EmptyAccounted DEF RecoveryInit, Init
    <2> QED BY <2>1, <2>2, <2>3 DEF RecoveryInv
  <1>2. RecoveryInv /\ [RecoveryNext]_rvars => RecoveryInv'
    <2> SUFFICES ASSUME RecoveryInv, [RecoveryNext]_rvars PROVE RecoveryInv'
      OBVIOUS
    <2>1. CASE [Next]_vars /\ UNCHANGED disk
      <3>1. TypeInv' /\ QueuedHasEntry' /\ NoSlotLost'
        BY <2>1, TypeInvStep, EntryStep, SlotsStep DEF RecoveryInv
      <3>2. DiskType'
        BY <2>1 DEF RecoveryInv, DiskType
      <3> QED BY <3>1, <3>2 DEF RecoveryInv
    <2>2. CASE Snapshot
      <3>1. DiskType'
        BY <2>2 DEF Snapshot, Live, DiskType, RecoveryInv, TypeInv
      <3>2. TypeInv' /\ QueuedHasEntry' /\ NoSlotLost'
        <4>1. [Next]_vars
          BY <2>2 DEF Snapshot
        <4> QED BY <4>1, TypeInvStep, EntryStep, SlotsStep DEF RecoveryInv
      <3> QED BY <3>1, <3>2 DEF RecoveryInv
    <2>3. CASE Crash
      BY <2>3, CrashKeeps
    <2>4. CASE Restore
      BY <2>4, RestoreKeeps
    <2> QED BY <2>1, <2>2, <2>3, <2>4 DEF RecoveryNext, rvars
  <1>3. RecoveryInv => RestoredAccounted
    BY DEF RecoveryInv, RestoredAccounted
  <1> QED BY <1>1, <1>2, <1>3, PTL DEF RecoverySpec

-----------------------------------------------------------------------------
(***************************************************************************)
(* TaskScheduler implements TaskContract: the starts that it decides by    *)
(* its ready queue and running counts are starts that the states of the    *)
(* tasks alone would allow, because both caches are exact.                 *)
(***************************************************************************)
Exact == TypeInv /\ RunningCountExact /\ QueueExact

(* The caches are exact in every state.                                        *)
LEMMA AlwaysExact == Spec => []Exact
<1>1. Spec => []TypeInv
  BY TypeInvInit, TypeInvStep, PTL DEF Spec
<1> QED
  BY <1>1, RunningCountCorrect, QueueCorrect, PTL DEF Exact

(* running_count decides as the Running records do whether there is room.      *)
LEMMA RoomExact ==
  ASSUME Exact, NEW t \in Tasks, state[t] # "Absent"
  PROVE  HasSlot(t) <=> Contract!HasRoom(spec[t].dim)
<1>1. spec[t].dim \in Dims
  BY DEF Exact, TypeInv, TaskSpec
<1>2. Contract!Running(spec[t].dim) = RunningIn(spec[t].dim)
  BY DEF Contract!Running, RunningIn, InState
<1>3. Contract!Cardinality(RunningIn(spec[t].dim)) = Cardinality(RunningIn(spec[t].dim))
  BY Zenon DEF Cardinality, Contract!Cardinality
<1> QED
  BY <1>1, <1>2, <1>3 DEF Exact, RunningCountExact, HasSlot, Contract!HasRoom

(* next_ready() starts a task as the contract says.                            *)
LEMMA DispatchKeepsContract ==
  ASSUME Exact, NEW t \in Tasks, Dispatch(t)
  PROVE  Contract!Start(t)
<1>1. state[t] = "Queued"
  BY DEF Dispatch, CanTransitionTo
<1>2. Contract!HasRoom(spec[t].dim)
  BY <1>1, RoomExact DEF Dispatch, FirstReady
<1>3. ASSUME NEW u \in Tasks, state[u] = "Queued", Contract!HasRoom(spec[u].dim)
      PROVE  spec[u].priority <= spec[t].priority
  <2>1. ready_queue[u] > 0
    BY <1>3 DEF Exact, QueueExact
  <2>2. HasSlot(u)
    BY <1>3, RoomExact
  <2>3. ~SortsBefore(u, t)
    BY <2>1, <2>2 DEF Dispatch, FirstReady
  <2>4. spec[u].priority \in 0..3 /\ spec[t].priority \in 0..3
    BY DEF Exact, TypeInv, TaskSpec
  <2> QED
    BY <2>3, <2>4 DEF SortsBefore
<1> QED
  BY <1>1, <1>2, <1>3 DEF Contract!Start, Dispatch, SetState

(* submit() accepts a task as the contract says, queued or waiting.            *)
LEMMA SubmitKeepsContract ==
  ASSUME NEW t \in Tasks, NEW sp, Submit(t, sp)
  PROVE  Contract!Accept(t, sp)
<1>1. Contract!Done(sp.deps) <=> AllDepsCompleted(sp.deps)
  BY DEF Contract!Done, AllDepsCompleted
<1>2. state' = [state EXCEPT ![t] = IF Contract!Done(sp.deps) THEN "Queued" ELSE "Pending"]
  BY <1>1 DEF Submit, SetState
<1> QED
  BY <1>2 DEF Submit, Contract!Accept, PrereqsKnown

(* complete() queues those Pending tasks that the contract says.               *)
LEMMA CompleteKeepsContract ==
  ASSUME TypeInv, NEW t \in Tasks, Complete(t)
  PROVE  Contract!Finish(t)
<1>1. state[t] = "Running"
  BY DEF Complete, CanTransitionTo
<1>2. \A u \in Tasks : u \in Promoted(t) <=> state[u] = "Pending" /\ Contract!Done(spec[u].deps \ {t})
  BY DEF Promoted, InState, AllDepsCompleted, Contract!Done
<1>3. state' = [u \in Tasks |-> IF u = t THEN "Completed"
                                ELSE IF state[u] = "Pending" /\ Contract!Done(spec[u].deps \ {t})
                                THEN "Queued" ELSE state[u]]
  BY <1>2 DEF Complete
<1> QED
  BY <1>1, <1>3 DEF Contract!Finish, Complete, records

(* The calls that move one task otherwise.                                     *)
LEMMA MovesKeepContract ==
  ASSUME NEW t \in Tasks,
         Fail(t) \/ Cancel(t) \/ Pause(t) \/ Resume(t)
  PROVE  Contract!Next
<1>1. CASE Fail(t)
  <2>1. Contract!Move(t, {"Running"}, "Queued") \/ Contract!Move(t, {"Running"}, "Failed")
    BY <1>1 DEF Fail, CanTransitionTo, SetState, records, Contract!Move
  <2> QED
    BY <2>1 DEF Contract!Next
<1>2. CASE Cancel(t)
  <2>1. Contract!Move(t, {"Pending", "Queued", "Running", "Paused", "Failed"}, "Cancelled")
    BY <1>2 DEF Cancel, CanTransitionTo, SetState, records, Contract!Move
  <2> QED
    BY <2>1 DEF Contract!Next
<1>3. CASE Pause(t)
  <2>1. Contract!Move(t, {"Running"}, "Paused")
    BY <1>3 DEF Pause, CanTransitionTo, SetState, records, Contract!Move
  <2> QED
    BY <2>1 DEF Contract!Next
<1>4. CASE Resume(t)
  <2>1. Contract!Move(t, {"Pending", "Paused", "Failed"}, "Queued")
    BY <1>4 DEF Resume, CanTransitionTo, SetState, records, Contract!Move
  <2> QED
    BY <2>1 DEF Contract!Next
<1> QED
  BY <1>1, <1>2, <1>3, <1>4

(* For every set of tasks, dimensions, quotas and templates, the scheduler of  *)
(* scheduler.rs keeps its contract, whatever clients submit, pause, resume or  *)
(* cancel.                                                                     *)
THEOREM ContractKept == Spec => ImplementsContract
<1>1. Init => Contract!Init
  BY DEF Init, NoSpec, Unlimited, Contract!Init
<1>2. Exact /\ [Next]_vars => [Contract!Next]_(Contract!view)
  <2> SUFFICES ASSUME Exact, [Next]_vars
               PROVE  Contract!Next \/ UNCHANGED Contract!view
    OBVIOUS
  <2>1. CASE UNCHANGED vars
    BY <2>1 DEF vars, Contract!view
  <2>2. ASSUME NEW d \in Dims, NEW q \in Quotas, SetQuota(d, q)
        PROVE  Contract!Next
    <3>1. Contract!Limit(d, q)
      BY <2>2 DEF SetQuota, records, Contract!Limit
    <3> QED
      BY <3>1 DEF Contract!Next
  <2>3. ASSUME NEW m \in Templates, RegisterTemplate(m)
        PROVE  UNCHANGED Contract!view
    BY <2>3 DEF RegisterTemplate, records, Contract!view
  <2>4. ASSUME NEW t \in Tasks, NEW sp \in Specs, Submit(t, sp)
        PROVE  Contract!Next
    BY <2>4, SubmitKeepsContract DEF Contract!Next
  <2>5. ASSUME NEW t \in Tasks, NEW m \in Templates, SubmitFromTemplate(m, t)
        PROVE  Contract!Next
    <3>1. Contract!Accept(t, Instantiate(m))
      BY <2>5, SubmitKeepsContract DEF SubmitFromTemplate
    <3>2. Instantiate(m) \in Specs \cup {Instantiate(n) : n \in Templates}
      OBVIOUS
    <3> QED
      BY <3>1, <3>2 DEF Contract!Next
  <2>6. ASSUME NEW t \in Tasks, NextReady(t)
        PROVE  Contract!Next \/ UNCHANGED Contract!view
    <3>1. CASE Dispatch(t)
      BY <3>1, DispatchKeepsContract DEF Contract!Next
    <3>2. CASE DropStale(t)
      BY <3>2 DEF DropStale, records, Contract!view
    <3> QED
      BY <2>6, <3>1, <3>2 DEF NextReady
  <2>7. ASSUME NEW t \in Tasks, RenewLease(t) \/ LeaseExpires(t)
        PROVE  UNCHANGED Contract!view
    BY <2>7 DEF RenewLease, LeaseExpires, records, Contract!view
  <2>8. ASSUME NEW t \in Tasks, Complete(t)
        PROVE  Contract!Next
    <3>1. Contract!Finish(t)
      BY <2>8, CompleteKeepsContract DEF Exact
    <3> QED
      BY <3>1 DEF Contract!Next
  <2>9. ASSUME NEW t \in Tasks, Fail(t) \/ Cancel(t) \/ Pause(t) \/ Resume(t)
        PROVE  Contract!Next
    BY <2>9, MovesKeepContract
  <2> QED
    BY <2>1, <2>2, <2>3, <2>4, <2>5, <2>6, <2>7, <2>8, <2>9 DEF Next
<1> QED
  BY <1>1, <1>2, AlwaysExact, PTL DEF Spec, ImplementsContract, Contract!Spec
================================================================================
