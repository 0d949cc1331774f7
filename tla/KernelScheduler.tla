---------------------------- MODULE KernelScheduler ----------------------------
(***************************************************************************)
(* The kernel's task scheduler, kernel-c/src/scheduler.c: one scheduler    *)
(* object shared by threads.  There are no worker threads: the thread that *)
(* submits a task drains the queue itself, releasing the lock for the time *)
(* a task function runs, so that tasks run on the stack of some submitter, *)
(* and a task function that submits nests one drain inside another.        *)
(*                                                                         *)
(* A step is one section of code that holds sched->lock, from the call or  *)
(* from the return of a task function to the next task function or the     *)
(* end of the call.  Between two steps of a thread any other thread may    *)
(* submit, cancel or destroy.                                              *)
(*                                                                         *)
(* A task is its index in tasks[], which is also its place in the order of *)
(* submission; as enqueue() appends in that order under the same lock, the *)
(* FIFO of each priority level is the set of the tasks in it.  A task's    *)
(* function and argument are abstracted to the status it returns.          *)
(***************************************************************************)
EXTENDS Integers, Sequences, FiniteSets

CONSTANTS
    Threads,             (* the threads that call the scheduler              *)
    Priorities,          (* the priorities clients pass                      *)
    MaxTasks,            (* IFY_SCHED_MAX_TASKS                              *)
    ConcurrencyOpts      (* the max_concurrent options; 0 asks for the default *)

DefaultConcurrent == 32

PrioMax == 7

ASSUME KernelSchedulerAssumption ==
    /\ Priorities \subseteq Nat
    /\ MaxTasks \in Nat
    /\ ConcurrencyOpts \subseteq Nat

VARIABLES
    alive,          (* the scheduler exists and has not been destroyed       *)
    limit,          (* sched->max_concurrent                                 *)
    task_count,     (* entries of tasks[] in use                             *)
    state,          (* task_entry.state                                      *)
    priority,       (* task_entry.priority, as enqueue() clamps it           *)
    cancel_flag,    (* task_entry.cancel_flag                                *)
    queue,          (* the tasks in the priority queues                      *)
    running_count,  (* sched->running_count                                  *)
    frames          (* the task functions on the stack of each thread        *)

vars == <<alive, limit, task_count, state, priority, cancel_flag, queue,
          running_count, frames>>

Tasks == 1..MaxTasks

TaskState == {"Queued", "Running", "Cancelled", "Failed", "Completed"}

TypeOK ==
    /\ alive \in BOOLEAN
    /\ limit \in Nat
    /\ task_count \in 0..MaxTasks
    /\ state \in [Tasks -> TaskState \cup {"Absent"}]
    /\ priority \in [Tasks -> 0..PrioMax]
    /\ cancel_flag \in [Tasks -> BOOLEAN]
    /\ queue \subseteq 1..task_count
    /\ running_count \in 0..limit
    /\ frames \in [Threads -> Seq(Tasks)]

-----------------------------------------------------------------------------
(* dequeue_highest(): the highest priority first, then the order of           *)
(* submission.                                                                *)
OldestFirst(t, u) == t < u

Before(t, u) ==
    \/ priority'[t] > priority'[u]
    \/ priority'[t] = priority'[u] /\ t < u

(* The queued tasks that drain_queue() does not skip.                         *)
EverythingRuns(q) == q

Runnable(q) == {t \in q : ~cancel_flag[t]}

HasRoomForOneMore(running) == running <= limit

HasRoom(running) == running < limit

(* drain_queue(), up to the next call of a task function or to its end, for a *)
(* thread whose stack is `stack`: skip the cancelled tasks ahead of the first *)
(* runnable one and start that, or else leave the loop.                       *)
Drain(th, q, stack, running, st) ==
    \/ /\ HasRoom(running)
       /\ \E t \in Runnable(q) :
             /\ \A u \in Runnable(q) \ {t} : Before(t, u)
             /\ queue' = {u \in q : Before(t, u)}
             /\ state' = [st EXCEPT ![t] = "Running"]
             /\ running_count' = running + 1
             /\ frames' = [frames EXCEPT ![th] = Append(stack, t)]
    \/ /\ ~(HasRoom(running) /\ Runnable(q) # {})
       /\ queue' = IF HasRoom(running) THEN {} ELSE q
       /\ state' = st
       /\ running_count' = running
       /\ frames' = [frames EXCEPT ![th] = stack]

Clamp(p) == IF p <= PrioMax THEN p ELSE PrioMax

-----------------------------------------------------------------------------
Init ==
    /\ alive = TRUE
    /\ limit \in {IF opt # 0 THEN opt ELSE DefaultConcurrent : opt \in ConcurrencyOpts}
    /\ task_count = 0
    /\ state = [t \in Tasks |-> "Absent"]
    /\ priority = [t \in Tasks |-> 0]
    /\ cancel_flag = [t \in Tasks |-> FALSE]
    /\ queue = {}
    /\ running_count = 0
    /\ frames = [th \in Threads |-> <<>>]

(* ify_scheduler_submit(), by an idle thread or by the task function that it  *)
(* is running.                                                                *)
Submit(th, p) ==
    /\ alive
    /\ task_count < MaxTasks
    /\ task_count' = task_count + 1
    /\ priority' = [priority EXCEPT ![task_count + 1] = Clamp(p)]
    /\ Drain(th, queue \cup {task_count + 1}, frames[th], running_count,
             [state EXCEPT ![task_count + 1] = "Queued"])
    /\ UNCHANGED <<alive, limit, cancel_flag>>

(* A task function returns into drain_queue(), which records the outcome and  *)
(* goes on draining.                                                          *)
ReturnWithoutDrain(th, rc) ==
    /\ alive
    /\ frames[th] # <<>>
    /\ LET t == frames[th][Len(frames[th])] IN
          state' = [state EXCEPT ![t] = IF rc = "IFY_OK" THEN "Completed" ELSE "Failed"]
    /\ frames' = [frames EXCEPT ![th] = SubSeq(@, 1, Len(@) - 1)]
    /\ running_count' = running_count - 1
    /\ UNCHANGED <<alive, limit, task_count, priority, cancel_flag, queue>>

Return(th, rc) ==
    /\ alive
    /\ frames[th] # <<>>
    /\ UNCHANGED priority
    /\ LET t == frames[th][Len(frames[th])] IN
          Drain(th, queue, SubSeq(frames[th], 1, Len(frames[th]) - 1), running_count - 1,
                [state EXCEPT ![t] = IF rc = "IFY_OK" THEN "Completed" ELSE "Failed"])
    /\ UNCHANGED <<alive, limit, task_count, cancel_flag>>

(* ify_scheduler_cancel() of a task that is not terminal: a queued task is    *)
(* Cancelled at once and keeps its place in the queue; a running one only     *)
(* gets the flag, which nothing reads again.                                  *)
CancelRunningToo(t) ==
    /\ alive
    /\ state[t] \in {"Queued", "Running"}
    /\ cancel_flag' = [cancel_flag EXCEPT ![t] = TRUE]
    /\ state' = [state EXCEPT ![t] = "Cancelled"]
    /\ UNCHANGED <<alive, limit, task_count, priority, queue, running_count, frames>>

Cancel(t) ==
    /\ alive
    /\ state[t] \in {"Queued", "Running"}
    /\ cancel_flag' = [cancel_flag EXCEPT ![t] = TRUE]
    /\ state' = IF state[t] = "Queued" THEN [state EXCEPT ![t] = "Cancelled"] ELSE state
    /\ UNCHANGED <<alive, limit, task_count, priority, queue, running_count, frames>>

(* ify_scheduler_destroy(): cancel what is queued and free everything.  A     *)
(* task function that is running then has nothing to return to: Return is not *)
(* defined on a freed scheduler.                                              *)
Destroy ==
    /\ alive
    /\ alive' = FALSE
    /\ state' = [t \in Tasks |-> IF t \in queue THEN "Cancelled" ELSE state[t]]
    /\ queue' = {}
    /\ UNCHANGED <<limit, task_count, priority, cancel_flag, running_count, frames>>

Next ==
    \/ \E th \in Threads, p \in Priorities : Submit(th, p)
    \/ \E th \in Threads, rc \in {"IFY_OK", "IFY_ERR"} : Return(th, rc)
    \/ \E t \in Tasks : Cancel(t)
    \/ Destroy

Spec == Init /\ [][Next]_vars

(* Task functions return.                                                     *)
Fairness == \A th \in Threads : WF_vars(\E rc \in {"IFY_OK", "IFY_ERR"} : Return(th, rc))

FairSpec == Spec /\ Fairness

-----------------------------------------------------------------------------
InState(s) == {t \in Tasks : state[t] = s}

OnStack(th) == {frames[th][i] : i \in 1..Len(frames[th])}

(* running_count, kept by increments and decrements on the two sides of every *)
(* unlocked call, is the number of Running tasks; the Running tasks are those *)
(* on the threads' stacks, each on one; and they stay within max_concurrent,  *)
(* however many threads submit and however deep the submissions nest.         *)
RunningExact ==
    /\ running_count = Cardinality(InState("Running"))
    /\ InState("Running") = UNION {OnStack(th) : th \in Threads}
    /\ \A a, b \in Threads : a # b => OnStack(a) \cap OnStack(b) = {}

(* Work conservation: there are no workers, so a task that its submitter      *)
(* leaves in the queue depends on some other thread's drain loop.  Whenever   *)
(* the lock is free, a Queued task is left waiting only because max_concurrent *)
(* tasks are running, each of which drains the queue when it returns.         *)
WorkConserving ==
    alive /\ InState("Queued") # {} => running_count >= limit

(* The state is typed, the count of running tasks is exact, and no task is    *)
(* queued beside a free slot (drain_queue()).                                 *)
TasksAccounted == TypeOK /\ RunningExact /\ WorkConserving

(* A task that was cancelled while it was queued never runs, although its     *)
(* entry stays in the queue; and a terminal state is never left.              *)
TerminalFinal ==
    [][\A t \in Tasks :
         state[t] \in {"Cancelled", "Failed", "Completed"} => state'[t] = state[t]]_vars

(* A task starts only when no Queued task has a higher priority or the same   *)
(* priority and an earlier submission.                                        *)
HighestFirst ==
    [][\A t, u \in Tasks :
         state[t] # "Running" /\ state'[t] = "Running" /\ state[u] = "Queued" /\ u # t
           => \/ priority'[t] > priority'[u]
              \/ priority'[t] = priority'[u] /\ t < u]_vars

(* Liveness: if task functions return, a Queued task is eventually run or     *)
(* cancelled, though the thread that submitted it may never come back.        *)
QueuedIsRun == \A t \in Tasks : state[t] = "Queued" ~> state[t] # "Queued"

================================================================================
