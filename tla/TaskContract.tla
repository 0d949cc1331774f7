----------------------------- MODULE TaskContract -----------------------------
(* What the performer runtime's task scheduler promises its clients, told by   *)
(* the state of each task alone (ify-controller/src/scheduler.rs): no queue,   *)
(* running count, attempt, lease or sequence number.  A client may resume a     *)
(* task that is Pending, Paused or Failed; without a resume, a Pending task is  *)
(* released by the last of its prerequisites alone.                            *)
EXTENDS Integers, FiniteSets

CONSTANTS
    Tasks, Dims, OwnDim, U32Max,
    Quotas,  \* the limits that may be set
    Offers   \* the specifications that tasks are submitted with

VARIABLES state, spec, quotas

view == <<state, spec, quotas>>

Running(d) == {t \in Tasks : state[t] = "Running" /\ spec[t].dim = d}

HasRoom(d) == Cardinality(Running(d)) < quotas[d].max_concurrent

Done(deps) == \A t \in deps : state[t] = "Completed"

Init ==
    /\ state = [t \in Tasks |-> "Absent"]
    /\ spec = [t \in Tasks |-> [dim |-> OwnDim, priority |-> 0, max_attempts |-> 0, deps |-> {}]]
    /\ quotas = [d \in Dims |-> [max_concurrent |-> U32Max, max_queued |-> U32Max]]

(* A limit is set.                                                             *)
Limit(d, q) ==
    /\ quotas' = [quotas EXCEPT ![d] = q]
    /\ UNCHANGED <<state, spec>>

(* A task is accepted once its prerequisites have been, and waits for them.    *)
Accept(t, sp) ==
    /\ state[t] = "Absent" /\ \A p \in sp.deps : state[p] # "Absent"
    /\ spec' = [spec EXCEPT ![t] = sp]
    /\ state' = [state EXCEPT ![t] = IF Done(sp.deps) THEN "Queued" ELSE "Pending"]
    /\ UNCHANGED quotas

(* A task starts when its dimension has room, and no more urgent one could.    *)
Start(t) ==
    /\ state[t] = "Queued" /\ HasRoom(spec[t].dim)
    /\ \A u \in Tasks : state[u] = "Queued" /\ HasRoom(spec[u].dim) => spec[u].priority <= spec[t].priority
    /\ state' = [state EXCEPT ![t] = "Running"]
    /\ UNCHANGED <<spec, quotas>>

(* A task completes, and those that waited for it alone are queued.            *)
Finish(t) ==
    /\ state[t] = "Running"
    /\ state' = [u \in Tasks |-> IF u = t THEN "Completed"
                                 ELSE IF state[u] = "Pending" /\ Done(spec[u].deps \ {t}) THEN "Queued"
                                 ELSE state[u]]
    /\ UNCHANGED <<spec, quotas>>

(* A single task moves otherwise: an attempt fails, a client pauses, resumes   *)
(* or cancels.  Nothing leaves Completed or Cancelled.                         *)
Move(t, from, to) ==
    /\ state[t] \in from
    /\ state' = [state EXCEPT ![t] = to]
    /\ UNCHANGED <<spec, quotas>>

Next ==
    \/ \E d \in Dims, q \in Quotas : Limit(d, q)
    \/ \E t \in Tasks, sp \in Offers : Accept(t, sp)
    \/ \E t \in Tasks :
          \/ Start(t)
          \/ Finish(t)
          \/ Move(t, {"Running"}, "Queued")
          \/ Move(t, {"Running"}, "Failed")
          \/ Move(t, {"Running"}, "Paused")
          \/ Move(t, {"Pending", "Paused", "Failed"}, "Queued")
          \/ Move(t, {"Pending", "Queued", "Running", "Paused", "Failed"}, "Cancelled")

Spec == Init /\ [][Next]_view
================================================================================
