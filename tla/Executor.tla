-------------------------------- MODULE Executor --------------------------------
(***************************************************************************)
(* The task executor, ify-executor/src/lib.rs.  run_all() takes the whole  *)
(* queue and spawns its tasks under a semaphore of its own; several calls  *)
(* may overlap.  A task's state is an atomic byte that the spawned task    *)
(* stores to and that the clones of its handle compare-exchange, with no   *)
(* lock between them.                                                      *)
(*                                                                         *)
(* A step is one access to the queue, to the semaphore, to a state byte or *)
(* to a completion channel.  A future is abstracted to its end: it returns *)
(* Ok, returns Err or panics.                                              *)
(***************************************************************************)
EXTENDS Integers, Sequences, FiniteSets

CONSTANTS
    ExecTasks,      (* the tasks that are submitted                          *)
    Runners,        (* the calls of run_all() that may overlap               *)
    MaxConcurrent,  (* ExecutorConfig.max_concurrent                         *)
    QueueDepth      (* ExecutorConfig.queue_depth                            *)

ASSUME ExecutorAssumption ==
    IsFiniteSet(ExecTasks) /\ MaxConcurrent \in Nat /\ QueueDepth \in Nat

VARIABLES
    queue,       (* Executor.queue                                           *)
    state,       (* TaskInner.state                                          *)
    batch,       (* the tasks that a run_all() has taken and not spawned     *)
    spawned,     (* the tasks that a run_all() has spawned and not joined    *)
    permits,     (* the tasks that hold a permit of a run_all()'s semaphore  *)
    phase,       (* where a spawned task is                                  *)
    answer,      (* what the sender of a task's completion channel has done  *)
    awaiting,    (* the handles whose await_completion() has the receiver    *)
    cancelling   (* the tasks with a cancel() between its two exchanges      *)

exec_vars == <<queue, state, batch, spawned, permits, phase, answer, awaiting, cancelling>>

Phases ==
    {"none", "spawned", "running", "ok", "err", "completed", "failed", "panicked", "ended"}

ExecTypeOK ==
    /\ queue \in Seq(ExecTasks) /\ Len(queue) <= QueueDepth
    /\ state \in [ExecTasks -> {"Absent", "Queued", "Running", "Cancelled", "Failed", "Completed"}]
    /\ batch \in [Runners -> Seq(ExecTasks)]
    /\ spawned \in [Runners -> SUBSET ExecTasks]
    /\ permits \in [Runners -> SUBSET ExecTasks]
    /\ \A r \in Runners : Cardinality(permits[r]) <= MaxConcurrent
    /\ phase \in [ExecTasks -> Phases]
    /\ answer \in [ExecTasks -> {"none", "Ok", "TaskFailed", "dropped"}]
    /\ awaiting \in [ExecTasks -> {"no", "waiting", "answered"}]
    /\ cancelling \subseteq ExecTasks

ExecInit ==
    /\ queue = <<>>
    /\ state = [t \in ExecTasks |-> "Absent"]
    /\ batch = [r \in Runners |-> <<>>]
    /\ spawned = [r \in Runners |-> {}]
    /\ permits = [r \in Runners |-> {}]
    /\ phase = [t \in ExecTasks |-> "none"]
    /\ answer = [t \in ExecTasks |-> "none"]
    /\ awaiting = [t \in ExecTasks |-> "no"]
    /\ cancelling = {}

-----------------------------------------------------------------------------
ExecSubmit(t) ==
    /\ state[t] = "Absent"
    /\ Len(queue) < QueueDepth
    /\ queue' = Append(queue, t)
    /\ state' = [state EXCEPT ![t] = "Queued"]
    /\ UNCHANGED <<batch, spawned, permits, phase, answer, awaiting, cancelling>>

(* run_all(): take the queue; spawn the tasks in order, each when a permit is *)
(* free; join them.                                                           *)
TakeQueue(r) ==
    /\ batch[r] = <<>> /\ spawned[r] = {}
    /\ queue # <<>>
    /\ batch' = [batch EXCEPT ![r] = queue]
    /\ queue' = <<>>
    /\ UNCHANGED <<state, spawned, permits, phase, answer, awaiting, cancelling>>

PermitUnchecked(r) == TRUE

HasPermit(r) == Cardinality(permits[r]) < MaxConcurrent

Spawn(r) ==
    /\ batch[r] # <<>>
    /\ HasPermit(r)
    /\ LET t == Head(batch[r]) IN
          /\ batch' = [batch EXCEPT ![r] = Tail(@)]
          /\ spawned' = [spawned EXCEPT ![r] = @ \cup {t}]
          /\ permits' = [permits EXCEPT ![r] = @ \cup {t}]
          /\ phase' = [phase EXCEPT ![t] = "spawned"]
    /\ UNCHANGED <<queue, state, answer, awaiting, cancelling>>

Join(r) ==
    /\ batch[r] = <<>> /\ spawned[r] # {}
    /\ \A t \in spawned[r] : phase[t] = "ended"
    /\ spawned' = [spawned EXCEPT ![r] = {}]
    /\ UNCHANGED <<queue, state, batch, permits, phase, answer, awaiting, cancelling>>

(* The spawned task: mark it Running, run the future, drop the permit, store  *)
(* the outcome and then send it, so that others see the state before there is *)
(* an answer.  A panic drops the permit and the sender.                       *)
Run(t) ==
    /\ phase[t] = "spawned"
    /\ phase' = [phase EXCEPT ![t] = "running"]
    /\ state' = [state EXCEPT ![t] = "Running"]
    /\ UNCHANGED <<queue, batch, spawned, permits, answer, awaiting, cancelling>>

PermitKept(t) == UNCHANGED permits

DropPermit(t) == permits' = [r \in Runners |-> permits[r] \ {t}]

FutureEnds(t, outcome) ==
    /\ phase[t] = "running"
    /\ phase' = [phase EXCEPT ![t] = outcome]
    /\ DropPermit(t)
    /\ UNCHANGED <<queue, state, batch, spawned, answer, awaiting, cancelling>>

FuturePanics(t) ==
    /\ phase[t] = "running"
    /\ phase' = [phase EXCEPT ![t] = "panicked"]
    /\ DropPermit(t)
    /\ UNCHANGED <<queue, state, batch, spawned, answer, awaiting, cancelling>>

Finish(t) ==
    /\ phase[t] \in {"ok", "err"}
    /\ phase' = [phase EXCEPT ![t] = IF phase[t] = "ok" THEN "completed" ELSE "failed"]
    /\ state' = [state EXCEPT ![t] = IF phase[t] = "ok" THEN "Completed" ELSE "Failed"]
    /\ UNCHANGED <<queue, batch, spawned, permits, answer, awaiting, cancelling>>

SendAnswer(t) ==
    /\ phase[t] \in {"completed", "failed", "panicked"}
    /\ phase' = [phase EXCEPT ![t] = "ended"]
    /\ answer' = [answer EXCEPT ![t] = IF phase[t] = "completed" THEN "Ok"
                                       ELSE IF phase[t] = "failed" THEN "TaskFailed"
                                       ELSE "dropped"]
    /\ UNCHANGED <<queue, state, batch, spawned, permits, awaiting, cancelling>>

-----------------------------------------------------------------------------
(* cancel(): two compare-exchanges, from Running and then from Queued.        *)
Store(t, from) == [state EXCEPT ![t] = "Cancelled"]

CompareExchange(t, from) ==
    IF state[t] = from THEN [state EXCEPT ![t] = "Cancelled"] ELSE state

CancelRunning(t) ==
    /\ state[t] # "Absent"
    /\ t \notin cancelling
    /\ state' = CompareExchange(t, "Running")
    /\ cancelling' = cancelling \cup {t}
    /\ UNCHANGED <<queue, batch, spawned, permits, phase, answer, awaiting>>

CancelQueued(t) ==
    /\ t \in cancelling
    /\ state' = CompareExchange(t, "Queued")
    /\ cancelling' = cancelling \ {t}
    /\ UNCHANGED <<queue, batch, spawned, permits, phase, answer, awaiting>>

(* await_completion(): the first caller takes the receiver and waits.         *)
AwaitCompletion(t) ==
    /\ state[t] # "Absent"
    /\ awaiting[t] = "no"
    /\ awaiting' = [awaiting EXCEPT ![t] = "waiting"]
    /\ UNCHANGED <<queue, state, batch, spawned, permits, phase, answer, cancelling>>

Answered(t) ==
    /\ awaiting[t] = "waiting"
    /\ answer[t] # "none"
    /\ awaiting' = [awaiting EXCEPT ![t] = "answered"]
    /\ UNCHANGED <<queue, state, batch, spawned, permits, phase, answer, cancelling>>

-----------------------------------------------------------------------------
ExecNext ==
    \/ \E r \in Runners : TakeQueue(r) \/ Spawn(r) \/ Join(r)
    \/ \E t \in ExecTasks :
          \/ ExecSubmit(t)
          \/ Run(t)
          \/ \E outcome \in {"ok", "err"} : FutureEnds(t, outcome)
          \/ FuturePanics(t)
          \/ Finish(t)
          \/ SendAnswer(t)
          \/ CancelRunning(t)
          \/ CancelQueued(t)
          \/ AwaitCompletion(t)
          \/ Answered(t)

ExecSpec == ExecInit /\ [][ExecNext]_exec_vars

(* The async runtime polls what is ready, and futures end.  Nobody has to     *)
(* call run_all().                                                            *)
Proceeds(t) ==
    \/ Run(t)
    \/ \E outcome \in {"ok", "err"} : FutureEnds(t, outcome)
    \/ FuturePanics(t)
    \/ Finish(t)
    \/ SendAnswer(t)

Fairness ==
    /\ \A r \in Runners : WF_exec_vars(Spawn(r)) /\ WF_exec_vars(Join(r))
    /\ \A t \in ExecTasks : WF_exec_vars(Proceeds(t)) /\ WF_exec_vars(Answered(t))

FairSpec == ExecSpec /\ Fairness

-----------------------------------------------------------------------------
(* Where a task is in the queue, and in what the run_all()s have taken.       *)
Queued(t) == {i \in 1..Len(queue) : queue[i] = t}

Batched(t) ==
    {p \in Runners \X (1..Cardinality(ExecTasks)) :
        p[2] <= Len(batch[p[1]]) /\ batch[p[1]][p[2]] = t}

(* What await_completion() returns agrees for good with what state() says,    *)
(* although cancel() may exchange the byte at any time: no answer comes       *)
(* before its state, and a task that is Completed or Failed has that answer   *)
(* or is about to send it.  And a task is in one place, the queue or one      *)
(* run_all(), so that overlapping calls run it once.                          *)
AnswerMatchesState ==
    /\ ExecTypeOK
    /\ \A t \in ExecTasks :
          /\ answer[t] = "Ok" => state[t] = "Completed"
          /\ answer[t] = "TaskFailed" => state[t] = "Failed"
          /\ state[t] = "Completed" => answer[t] = "Ok" \/ phase[t] = "completed"
          /\ state[t] = "Failed" => answer[t] = "TaskFailed" \/ phase[t] = "failed"
    /\ \A t \in ExecTasks :
          Cardinality(Queued(t)) + Cardinality(Batched(t)) + (IF phase[t] = "none" THEN 0 ELSE 1)
            = IF state[t] = "Absent" THEN 0 ELSE 1

(* Liveness: once a run_all() has taken a task, whoever awaits it is          *)
(* answered, whether other tasks fail, panic or are cancelled.                *)
TakenIsAnswered ==
    \A t \in ExecTasks :
       awaiting[t] = "waiting" /\ Batched(t) # {} ~> awaiting[t] = "answered"

-----------------------------------------------------------------------------
(* What the documentation states beyond this.                                 *)

(* "The task is transitioned to [`TaskState::Cancelled`] and the execution    *)
(* future is aborted on the next `.await` point." (lib.rs:176-177): a task    *)
(* that is Cancelled stays so and is not run.                                 *)
CancelHolds == [][\A t \in ExecTasks : state[t] = "Cancelled" => state'[t] = "Cancelled"]_exec_vars
================================================================================
