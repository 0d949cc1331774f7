--------------------------- MODULE KernelCoreProofs ----------------------------
(*****************************************************************************)
(* Proofs about the kernel core, for any finite set of threads: about the    *)
(* tasks of scheduler.c (KernelScheduler), for any priorities, any size of   *)
(* the task table and any concurrency options; about its timers              *)
(* (KernelTimer), for any delays and any number of timers; and about the     *)
(* lifecycle and the tracing under it (KernelBoot, KernelTrace), for any     *)
(* size of the ring and of the table of open spans, any callbacks, and any   *)
(* number of spans and boots.                                                *)
(*****************************************************************************)
EXTENDS KernelCore, FiniteSetTheorems, SequenceTheorems, TLAPS

(* The queue holds every Queued task, and of the others only tasks that were  *)
(* cancelled in it, which is what drain_queue() tells by the flag; entries    *)
(* not yet in use are untouched.                                              *)
QueueSound ==
    /\ \A t \in Tasks : state[t] = "Queued" => t \in queue
    /\ \A t \in queue : state[t] = IF cancel_flag[t] THEN "Cancelled" ELSE "Queued"
    /\ \A t \in Tasks : t > task_count => state[t] = "Absent" /\ ~cancel_flag[t]

(* No task function is twice on one stack.                                    *)
StacksSound ==
    \A th \in Threads : \A i, j \in 1..Len(frames[th]) :
        frames[th][i] = frames[th][j] => i = j

(* The inductive invariant.                                                   *)
KernelInv == TypeOK /\ RunningExact /\ WorkConserving /\ QueueSound /\ StacksSound

-----------------------------------------------------------------------------
(* What appending to a stack and popping it do to the set of its tasks.       *)
SetOf(s) == {s[i] : i \in 1..Len(s)}

Once(s) == \A i, j \in 1..Len(s) : s[i] = s[j] => i = j

(* A push adds the task, and it is on the stack once if it was not there.     *)
LEMMA PushSet ==
  ASSUME NEW S, NEW s \in Seq(S), NEW x \in S
  PROVE  /\ Append(s, x) \in Seq(S)
         /\ SetOf(Append(s, x)) = SetOf(s) \cup {x}
         /\ Once(s) /\ x \notin SetOf(s) => Once(Append(s, x))
  BY DEF SetOf, Once

(* A prefix of a sequence.                                                    *)
LEMMA FrontSeq ==
  ASSUME NEW S, NEW s \in Seq(S), NEW n \in Nat, n <= Len(s)
  PROVE  /\ SubSeq(s, 1, n) \in Seq(S)
         /\ Len(SubSeq(s, 1, n)) = n
         /\ \A i \in 1..n : SubSeq(s, 1, n)[i] = s[i]
  <1>1. 1 \in Int /\ n \in Int /\ \A i \in 1..n : s[i] \in S
    OBVIOUS
  <1>2. /\ SubSeq(s, 1, n) \in Seq(S)
        /\ Len(SubSeq(s, 1, n)) = IF 1 <= n THEN n - 1 + 1 ELSE 0
        /\ \A i \in 1..(n - 1 + 1) : SubSeq(s, 1, n)[i] = s[1 + i - 1]
    BY <1>1, SubSeqProperties
  <1>3. n - 1 + 1 = n /\ (~(1 <= n) => n = 0) /\ \A i \in 1..n : 1 + i - 1 = i
    OBVIOUS
  <1> QED BY <1>2, <1>3

(* A pop takes out the task on top, and no other, if no task is there twice.  *)
LEMMA PopSet ==
  ASSUME NEW S, NEW s \in Seq(S), s # <<>>, Once(s)
  PROVE  /\ SubSeq(s, 1, Len(s) - 1) \in Seq(S)
         /\ SetOf(SubSeq(s, 1, Len(s) - 1)) = SetOf(s) \ {s[Len(s)]}
         /\ s[Len(s)] \in SetOf(s)
         /\ Once(SubSeq(s, 1, Len(s) - 1))
  <1>1. Len(s) \in Nat \ {0}
    OBVIOUS
  <1> DEFINE r == SubSeq(s, 1, Len(s) - 1)
  <1>2. /\ r \in Seq(S) /\ Len(r) = Len(s) - 1
        /\ \A i \in 1..(Len(s) - 1) : r[i] = s[i]
    <2>1. Len(s) - 1 \in Nat /\ Len(s) - 1 <= Len(s)
      BY <1>1
    <2> QED BY <2>1, FrontSeq
  <1> HIDE DEF r
  <1>3. SetOf(r) = SetOf(s) \ {s[Len(s)]}
    BY <1>1, <1>2 DEF SetOf, Once
  <1>4. Once(r)
    BY <1>1, <1>2 DEF Once
  <1>5. s[Len(s)] \in SetOf(s)
    BY <1>1 DEF SetOf
  <1> QED BY <1>2, <1>3, <1>4, <1>5 DEF r

(* Any set of tasks is finite.                                                *)
LEMMA TasksFinite ==
  ASSUME NEW S \in SUBSET Tasks
  PROVE  IsFiniteSet(S) /\ Cardinality(S) \in Nat
  <1>1. IsFiniteSet(Tasks)
    BY KernelSchedulerAssumption, FS_Interval DEF Tasks
  <1> QED BY <1>1, FS_Subset, FS_CardinalityType

-----------------------------------------------------------------------------
(* What the callers of drain_queue() owe it, in terms of the queue, stack,    *)
(* count and states with which they enter the loop: everything but work       *)
(* conservation, of which at most one free slot, or one queued task, may be   *)
(* missing.                                                                   *)
ReadyToDrain(th, q, stack, running, st) ==
    /\ q \subseteq Tasks
    /\ st \in [Tasks -> TaskState \cup {"Absent"}]
    /\ running \in 0..limit
    /\ stack \in Seq(Tasks) /\ Once(stack)
    /\ \A t \in Tasks : st[t] = "Queued" => t \in q
    /\ \A t \in q : st[t] = IF cancel_flag[t] THEN "Cancelled" ELSE "Queued"
    /\ running = Cardinality({t \in Tasks : st[t] = "Running"})
    /\ {t \in Tasks : st[t] = "Running"}
         = SetOf(stack) \cup UNION {OnStack(o) : o \in Threads \ {th}}
    /\ \A o \in Threads \ {th} : SetOf(stack) \cap OnStack(o) = {}
    /\ running + 1 >= limit \/ \E t \in Tasks : Runnable(q) \subseteq {t}

(* One step of the loop keeps the invariant: it starts the first runnable     *)
(* task while a slot is free, and drops only entries of cancelled tasks.      *)
LEMMA DrainKeeps ==
  ASSUME TypeOK, RunningExact, StacksSound, priority' \in [Tasks -> 0..PrioMax],
         NEW th \in Threads, NEW q, NEW stack, NEW running, NEW st,
         ReadyToDrain(th, q, stack, running, st),
         Drain(th, q, stack, running, st)
  PROVE  /\ queue' \subseteq q
         /\ state' \in [Tasks -> TaskState \cup {"Absent"}]
         /\ running_count' \in 0..limit
         /\ frames' \in [Threads -> Seq(Tasks)]
         /\ RunningExact' /\ StacksSound'
         /\ \A t \in Tasks : state'[t] = "Queued" => t \in queue'
         /\ \A t \in queue' : state'[t] = IF cancel_flag[t] THEN "Cancelled" ELSE "Queued"
         /\ \A t \in Tasks : st[t] = "Absent" => state'[t] = "Absent"
         /\ InState("Queued")' # {} => running_count' >= limit
  <1> DEFINE Run == {t \in Tasks : st[t] = "Running"}
  <1>0. /\ limit \in Nat /\ running \in Nat /\ frames \in [Threads -> Seq(Tasks)]
        /\ st \in [Tasks -> TaskState \cup {"Absent"}]
        /\ stack \in Seq(Tasks) /\ Once(stack) /\ q \subseteq Tasks
        /\ running <= limit /\ running = Cardinality(Run)
    BY DEF ReadyToDrain, TypeOK
  <1>1. CASE HasRoom(running) /\ Runnable(q) # {}
    <2>1. PICK t \in Runnable(q) :
             /\ \A u \in Runnable(q) \ {t} : Before(t, u)
             /\ queue' = {u \in q : Before(t, u)}
             /\ state' = [st EXCEPT ![t] = "Running"]
             /\ running_count' = running + 1
             /\ frames' = [frames EXCEPT ![th] = Append(stack, t)]
      BY <1>1 DEF Drain
    <2>2. t \in Tasks /\ t \in q /\ ~cancel_flag[t] /\ st[t] = "Queued"
      BY <1>0, <2>1 DEF Runnable, ReadyToDrain
    <2>3. t \notin Run /\ {u \in Tasks : state'[u] = "Running"} = Run \cup {t}
      BY <1>0, <2>1, <2>2
    <2>4. Cardinality(Run \cup {t}) = Cardinality(Run) + 1
      BY <2>3, TasksFinite, FS_AddElement
    <2>5. running_count' = Cardinality(InState("Running")')
      BY <1>0, <2>1, <2>3, <2>4 DEF InState
    <2>6. /\ frames' \in [Threads -> Seq(Tasks)]
          /\ OnStack(th)' = SetOf(stack) \cup {t}
          /\ \A o \in Threads \ {th} : OnStack(o)' = OnStack(o) /\ frames'[o] = frames[o]
          /\ frames'[th] = Append(stack, t)
      BY <1>0, <2>1, <2>2, PushSet DEF OnStack, SetOf
    <2>7. /\ Run = SetOf(stack) \cup UNION {OnStack(o) : o \in Threads \ {th}}
          /\ \A o \in Threads \ {th} : SetOf(stack) \cap OnStack(o) = {}
      BY DEF ReadyToDrain
    <2>8. InState("Running")' = UNION {OnStack(o)' : o \in Threads}
      <3>1. UNION {OnStack(o)' : o \in Threads}
              = OnStack(th)' \cup UNION {OnStack(o) : o \in Threads \ {th}}
        BY <2>6
      <3> QED BY <2>3, <2>6, <2>7, <3>1 DEF InState
    <2>9. \A a, b \in Threads : a # b => OnStack(a)' \cap OnStack(b)' = {}
      <3>1. \A o \in Threads \ {th} : t \notin OnStack(o)
        BY <2>3, <2>7
      <3>2. \A a, b \in Threads : a # b => OnStack(a) \cap OnStack(b) = {}
        BY DEF RunningExact
      <3> SUFFICES ASSUME NEW a \in Threads, NEW b \in Threads, a # b
                   PROVE  OnStack(a)' \cap OnStack(b)' = {}
        OBVIOUS
      <3>3. CASE a = th
        BY <2>6, <2>7, <3>1, <3>3
      <3>4. CASE b = th
        BY <2>6, <2>7, <3>1, <3>4
      <3>5. CASE a # th /\ b # th
        BY <2>6, <3>2, <3>5
      <3> QED BY <3>3, <3>4, <3>5
    <2>10. RunningExact'
      BY <2>5, <2>8, <2>9 DEF RunningExact
    <2>11. StacksSound'
      <3>1. t \notin SetOf(stack)
        BY <2>3, <2>7
      <3>2. Once(Append(stack, t))
        BY <1>0, <2>2, <3>1, PushSet
      <3> QED BY <2>6, <3>2 DEF StacksSound, Once
    <2>12. /\ queue' \subseteq q
           /\ \A u \in Tasks : u # t => state'[u] = st[u]
           /\ t \notin queue'
      <3>1. ~Before(t, t)
        BY <2>2 DEF Before, PrioMax, Tasks
      <3> QED BY <1>0, <2>1, <2>2, <3>1
    <2>13. \A u \in Tasks : state'[u] = "Queued" => u \in queue'
      BY <1>0, <2>1, <2>2, <2>12 DEF Runnable, ReadyToDrain
    <2>14. \A u \in queue' : state'[u] = IF cancel_flag[u] THEN "Cancelled" ELSE "Queued"
      BY <1>0, <2>12 DEF ReadyToDrain
    <2>15. InState("Queued")' # {} => running_count' >= limit
      <3> SUFFICES ASSUME NEW u \in Tasks, state'[u] = "Queued" PROVE running + 1 >= limit
        BY <2>1 DEF InState
      <3>1. u # t /\ u \in Runnable(q)
        BY <1>0, <2>1, <2>2, <2>12 DEF Runnable, ReadyToDrain
      <3> QED BY <2>1, <3>1 DEF ReadyToDrain
    <2>16. state' \in [Tasks -> TaskState \cup {"Absent"}] /\ running_count' \in 0..limit
      <3>1. running < limit
        BY <1>1 DEF HasRoom
      <3>2. running_count' \in 0..limit
        BY <1>0, <2>1, <3>1
      <3> QED BY <1>0, <2>1, <2>2, <3>2 DEF TaskState
    <2> QED BY <2>2, <2>6, <2>10, <2>11, <2>12, <2>13, <2>14, <2>15, <2>16
  <1>2. CASE ~(HasRoom(running) /\ Runnable(q) # {})
    <2>1. /\ queue' = IF HasRoom(running) THEN {} ELSE q
          /\ state' = st
          /\ running_count' = running
          /\ frames' = [frames EXCEPT ![th] = stack]
      BY <1>2 DEF Drain
    <2>2. /\ frames' \in [Threads -> Seq(Tasks)]
          /\ OnStack(th)' = SetOf(stack) /\ frames'[th] = stack
          /\ \A o \in Threads \ {th} : OnStack(o)' = OnStack(o) /\ frames'[o] = frames[o]
      BY <1>0, <2>1 DEF OnStack, SetOf
    <2>3. RunningExact'
      <3>1. UNION {OnStack(o)' : o \in Threads}
              = OnStack(th)' \cup UNION {OnStack(o) : o \in Threads \ {th}}
        BY <2>2
      <3>2. InState("Running")' = Run
        BY <2>1 DEF InState
      <3>3. InState("Running")' = UNION {OnStack(o)' : o \in Threads}
        BY <2>2, <3>1, <3>2 DEF ReadyToDrain
      <3>4. \A a, b \in Threads : a # b => OnStack(a)' \cap OnStack(b)' = {}
        <4>1. \A o \in Threads \ {th} : SetOf(stack) \cap OnStack(o) = {}
          BY DEF ReadyToDrain
        <4>2. \A a, b \in Threads : a # b => OnStack(a) \cap OnStack(b) = {}
          BY DEF RunningExact
        <4> SUFFICES ASSUME NEW a \in Threads, NEW b \in Threads, a # b
                     PROVE  OnStack(a)' \cap OnStack(b)' = {}
          OBVIOUS
        <4>3. CASE a = th
          BY <2>2, <4>1, <4>3
        <4>4. CASE b = th
          BY <2>2, <4>1, <4>4
        <4>5. CASE a # th /\ b # th
          BY <2>2, <4>2, <4>5
        <4> QED BY <4>3, <4>4, <4>5
      <3> QED BY <1>0, <2>1, <3>2, <3>3, <3>4 DEF RunningExact
    <2>4. StacksSound'
      BY <1>0, <2>2 DEF StacksSound, Once
    <2>5. HasRoom(running) => \A t \in Tasks : st[t] # "Queued"
      BY <1>0, <1>2 DEF Runnable, ReadyToDrain
    <2>6. InState("Queued")' # {} => running_count' >= limit
      BY <1>0, <2>1, <2>5 DEF InState, HasRoom
    <2> QED BY <1>0, <2>1, <2>2, <2>3, <2>4, <2>5, <2>6 DEF ReadyToDrain
  <1> QED BY <1>1, <1>2

-----------------------------------------------------------------------------
(* The scheduler starts with no task, and max_concurrent is a natural number. *)
LEMMA KernelInvInit == Init => KernelInv
  <1> SUFFICES ASSUME Init PROVE KernelInv
    OBVIOUS
  <1>1. InState("Running") = {} /\ InState("Queued") = {}
    BY DEF Init, InState
  <1>2. \A th \in Threads : OnStack(th) = {}
    BY DEF Init, OnStack
  <1>3. RunningExact
    BY <1>1, <1>2, FS_EmptySet DEF Init, RunningExact
  <1>4. TypeOK
    BY KernelSchedulerAssumption DEF Init, TypeOK, TaskState, DefaultConcurrent, PrioMax, Tasks
  <1>5. QueueSound /\ StacksSound /\ WorkConserving
    BY <1>1 DEF Init, QueueSound, StacksSound, WorkConserving
  <1> QED BY <1>3, <1>4, <1>5 DEF KernelInv

(* Outside a drain, the stack, the count and the states are those that the    *)
(* loop needs.                                                                *)
LEMMA OtherStacks ==
  ASSUME NEW th \in Threads
  PROVE  UNION {OnStack(o) : o \in Threads}
           = OnStack(th) \cup UNION {OnStack(o) : o \in Threads \ {th}}
  OBVIOUS

(* ify_scheduler_submit() enters the loop with the new task in the queue.     *)
LEMMA SubmitReady ==
  ASSUME KernelInv, NEW th \in Threads, NEW p \in Priorities, Submit(th, p)
  PROVE  /\ ReadyToDrain(th, queue \cup {task_count + 1}, frames[th], running_count,
                         [state EXCEPT ![task_count + 1] = "Queued"])
         /\ priority' \in [Tasks -> 0..PrioMax]
         /\ task_count + 1 \in Tasks /\ state[task_count + 1] = "Absent"
  <1> DEFINE new == task_count + 1
             q == queue \cup {new}
             st == [state EXCEPT ![new] = "Queued"]
  <1>0. TypeOK /\ RunningExact /\ WorkConserving /\ QueueSound /\ StacksSound
    BY DEF KernelInv
  <1>1. /\ new \in Tasks /\ new \in 1..task_count' /\ new \notin queue
        /\ task_count \in Nat /\ task_count' = new /\ task_count' \in 0..MaxTasks
        /\ queue \subseteq 1..task_count' /\ 1..task_count' \subseteq Tasks
        /\ q \subseteq Tasks /\ queue \subseteq Tasks
    BY <1>0, KernelSchedulerAssumption DEF Submit, TypeOK, Tasks
  <1>2. state[new] = "Absent" /\ ~cancel_flag[new]
    BY <1>0, <1>1 DEF QueueSound
  <1>3. st \in [Tasks -> TaskState \cup {"Absent"}]
    BY <1>0, <1>1 DEF TypeOK, TaskState
  <1>4. {t \in Tasks : st[t] = "Running"} = InState("Running")
    BY <1>0, <1>1, <1>2 DEF TypeOK, InState
  <1>5. frames[th] \in Seq(Tasks) /\ Once(frames[th]) /\ SetOf(frames[th]) = OnStack(th)
    BY <1>0 DEF TypeOK, StacksSound, Once, SetOf, OnStack
  <1>6. ReadyToDrain(th, q, frames[th], running_count, st)
    <2>1. \A t \in Tasks : st[t] = "Queued" => t \in q
      BY <1>0, <1>1 DEF TypeOK, QueueSound
    <2>2. \A t \in q : st[t] = IF cancel_flag[t] THEN "Cancelled" ELSE "Queued"
      BY <1>0, <1>1, <1>2 DEF TypeOK, QueueSound
    <2>3. running_count \in 0..limit
      BY <1>0 DEF TypeOK
    <2>4. /\ running_count = Cardinality({t \in Tasks : st[t] = "Running"})
          /\ {t \in Tasks : st[t] = "Running"}
               = SetOf(frames[th]) \cup UNION {OnStack(o) : o \in Threads \ {th}}
      BY <1>0, <1>4, <1>5, OtherStacks DEF RunningExact
    <2>5. \A o \in Threads \ {th} : SetOf(frames[th]) \cap OnStack(o) = {}
      BY <1>0, <1>5 DEF RunningExact
    <2>6. running_count + 1 >= limit \/ \E t \in Tasks : Runnable(q) \subseteq {t}
      <3>1. CASE InState("Queued") # {}
        <4>1. running_count >= limit
          BY <1>0, <3>1 DEF WorkConserving, Submit
        <4> QED BY <2>3, <4>1, <1>0 DEF TypeOK
      <3>2. CASE InState("Queued") = {}
        <4>1. Runnable(q) \subseteq {new}
          BY <1>0, <1>1, <3>2 DEF Runnable, QueueSound, InState
        <4> QED BY <1>1, <4>1
      <3> QED BY <3>1, <3>2
    <2> HIDE DEF q, st
    <2> QED BY <1>1, <1>3, <1>5, <2>1, <2>2, <2>3, <2>4, <2>5, <2>6 DEF ReadyToDrain
  <1>7. priority' \in [Tasks -> 0..PrioMax]
    BY <1>0, <1>1, KernelSchedulerAssumption DEF Submit, TypeOK, Clamp, PrioMax
  <1> QED BY <1>1, <1>2, <1>6, <1>7

(* ify_scheduler_submit() keeps the invariant.                                *)
LEMMA SubmitKeeps ==
  ASSUME KernelInv, NEW th \in Threads, NEW p \in Priorities, Submit(th, p)
  PROVE  KernelInv'
  <1> DEFINE new == task_count + 1
             q == queue \cup {new}
             st == [state EXCEPT ![new] = "Queued"]
  <1>0. TypeOK /\ RunningExact /\ WorkConserving /\ QueueSound /\ StacksSound
    BY DEF KernelInv
  <1>1. /\ new \in Tasks /\ new \in 1..task_count' /\ new \notin queue
        /\ task_count \in Nat /\ task_count' = new /\ task_count' \in 0..MaxTasks
        /\ queue \subseteq 1..task_count' /\ 1..task_count' \subseteq Tasks
        /\ q \subseteq Tasks /\ queue \subseteq Tasks
    BY <1>0, KernelSchedulerAssumption DEF Submit, TypeOK, Tasks
  <1>2. state[new] = "Absent" /\ ~cancel_flag[new]
    BY <1>0, <1>1 DEF QueueSound
  <1>7. ReadyToDrain(th, q, frames[th], running_count, st) /\ priority' \in [Tasks -> 0..PrioMax]
    BY SubmitReady
  <1>8. /\ Drain(th, q, frames[th], running_count, st)
        /\ alive' = alive /\ limit' = limit /\ cancel_flag' = cancel_flag
    BY DEF Submit
  <1>9. \A t \in Tasks : t > task_count' => st[t] = "Absent" /\ ~cancel_flag'[t]
    BY <1>0, <1>1, <1>8 DEF QueueSound, TypeOK, Tasks
  <1> HIDE DEF q, st
  <1>10. /\ queue' \subseteq q
         /\ state' \in [Tasks -> TaskState \cup {"Absent"}]
         /\ running_count' \in 0..limit
         /\ frames' \in [Threads -> Seq(Tasks)]
         /\ RunningExact' /\ StacksSound'
         /\ \A t \in Tasks : state'[t] = "Queued" => t \in queue'
         /\ \A t \in queue' : state'[t] = IF cancel_flag[t] THEN "Cancelled" ELSE "Queued"
         /\ \A t \in Tasks : st[t] = "Absent" => state'[t] = "Absent"
         /\ InState("Queued")' # {} => running_count' >= limit
    BY <1>0, <1>7, <1>8, DrainKeeps
  <1>11. q \subseteq 1..task_count'
    BY <1>1 DEF q
  <1>12. TypeOK'
    BY <1>0, <1>1, <1>7, <1>8, <1>10, <1>11 DEF TypeOK
  <1>13. QueueSound'
    BY <1>8, <1>9, <1>10 DEF QueueSound
  <1>14. WorkConserving'
    BY <1>8, <1>10 DEF WorkConserving
  <1> QED BY <1>10, <1>12, <1>13, <1>14 DEF KernelInv

(* A task function returns into the loop with its task off the stack.         *)
LEMMA ReturnReady ==
  ASSUME KernelInv, NEW th \in Threads, NEW rc, Return(th, rc),
         NEW t, t = frames[th][Len(frames[th])],
         NEW st, st = [state EXCEPT ![t] = IF rc = "IFY_OK" THEN "Completed" ELSE "Failed"]
  PROVE  /\ ReadyToDrain(th, queue, SubSeq(frames[th], 1, Len(frames[th]) - 1),
                         running_count - 1, st)
         /\ t \in Tasks /\ state[t] = "Running"
  <1> DEFINE stack == SubSeq(frames[th], 1, Len(frames[th]) - 1)
  <1>0. TypeOK /\ RunningExact /\ WorkConserving /\ QueueSound /\ StacksSound
    BY DEF KernelInv
  <1>1. frames[th] \in Seq(Tasks) /\ Once(frames[th]) /\ SetOf(frames[th]) = OnStack(th)
    BY <1>0 DEF TypeOK, StacksSound, Once, SetOf, OnStack
  <1>2. /\ stack \in Seq(Tasks) /\ SetOf(stack) = OnStack(th) \ {t}
        /\ t \in OnStack(th) /\ Once(stack)
    <2>1. frames[th] # <<>>
      BY DEF Return
    <2> QED BY <1>1, <2>1, PopSet
  <1>3. t \in Tasks /\ state[t] = "Running"
    BY <1>0, <1>2 DEF RunningExact, InState
  <1>4. {x \in Tasks : st[x] = "Running"} = InState("Running") \ {t}
    BY <1>0, <1>3 DEF TypeOK, InState
  <1>5. Cardinality(InState("Running") \ {t}) = Cardinality(InState("Running")) - 1
    <2>1. t \in InState("Running")
      BY <1>3 DEF InState
    <2>2. InState("Running") \in SUBSET Tasks
      BY DEF InState
    <2>3. IsFiniteSet(InState("Running"))
      BY <2>2, TasksFinite
    <2> QED BY <2>1, <2>3, FS_RemoveElement
  <1>6. running_count - 1 = Cardinality({x \in Tasks : st[x] = "Running"})
    BY <1>0, <1>4, <1>5 DEF RunningExact
  <1>7. running_count - 1 \in 0..limit
    <2>1. Cardinality({x \in Tasks : st[x] = "Running"}) \in Nat
      BY TasksFinite
    <2> QED BY <1>0, <1>6, <2>1 DEF TypeOK
  <1>8. {x \in Tasks : st[x] = "Running"}
          = SetOf(stack) \cup UNION {OnStack(o) : o \in Threads \ {th}}
    <2>1. \A o \in Threads \ {th} : t \notin OnStack(o)
      BY <1>0, <1>2 DEF RunningExact
    <2>2. InState("Running") = OnStack(th) \cup UNION {OnStack(o) : o \in Threads \ {th}}
      BY <1>0, OtherStacks DEF RunningExact
    <2> QED BY <1>2, <1>4, <2>1, <2>2
  <1>9. \A o \in Threads \ {th} : SetOf(stack) \cap OnStack(o) = {}
    BY <1>0, <1>2 DEF RunningExact
  <1>10. /\ st \in [Tasks -> TaskState \cup {"Absent"}]
         /\ \A x \in Tasks : st[x] = "Queued" => x \in queue
         /\ \A x \in queue : st[x] = IF cancel_flag[x] THEN "Cancelled" ELSE "Queued"
         /\ queue \subseteq Tasks
    <2>1. queue \subseteq Tasks
      BY <1>0, KernelSchedulerAssumption DEF TypeOK, Tasks
    <2>2. st \in [Tasks -> TaskState \cup {"Absent"}]
      BY <1>0, <1>3 DEF TypeOK, TaskState
    <2>3. st[t] # "Queued" /\ \A x \in Tasks : x # t => st[x] = state[x]
      BY <1>0, <1>3 DEF TypeOK
    <2>4. t \notin queue
      BY <1>0, <1>3 DEF QueueSound
    <2> QED BY <1>0, <2>1, <2>2, <2>3, <2>4 DEF QueueSound
  <1>11. (running_count - 1) + 1 >= limit \/ \E x \in Tasks : Runnable(queue) \subseteq {x}
    <2>1. CASE InState("Queued") # {}
      BY <1>0, <2>1 DEF WorkConserving, Return, TypeOK
    <2>2. CASE InState("Queued") = {}
      BY <1>0, <1>3, <1>10, <2>2 DEF Runnable, QueueSound, InState
    <2> QED BY <2>1, <2>2
  <1> HIDE DEF stack
  <1>12. ReadyToDrain(th, queue, stack, running_count - 1, st)
    BY <1>2, <1>6, <1>7, <1>8, <1>9, <1>10, <1>11 DEF ReadyToDrain
  <1> QED BY <1>3, <1>12 DEF stack

(* Recording an outcome and draining on keeps the invariant.                  *)
LEMMA ReturnKeeps ==
  ASSUME KernelInv, NEW th \in Threads, NEW rc, Return(th, rc)
  PROVE  KernelInv'
  <1> DEFINE t == frames[th][Len(frames[th])]
             st == [state EXCEPT ![t] = IF rc = "IFY_OK" THEN "Completed" ELSE "Failed"]
             stack == SubSeq(frames[th], 1, Len(frames[th]) - 1)
  <1>0. TypeOK /\ RunningExact /\ WorkConserving /\ QueueSound /\ StacksSound
    BY DEF KernelInv
  <1>1. /\ ReadyToDrain(th, queue, stack, running_count - 1, st)
        /\ t \in Tasks /\ state[t] = "Running"
    BY ReturnReady
  <1>2. /\ Drain(th, queue, stack, running_count - 1, st)
        /\ alive' = alive /\ limit' = limit /\ cancel_flag' = cancel_flag
        /\ task_count' = task_count /\ priority' = priority
    BY DEF Return
  <1>3. priority' \in [Tasks -> 0..PrioMax]
    BY <1>0, <1>2 DEF TypeOK
  <1>4. \A x \in Tasks : x > task_count => st[x] = "Absent" /\ ~cancel_flag[x]
    BY <1>0, <1>1 DEF QueueSound, TypeOK
  <1> HIDE DEF t, st, stack
  <1>5. /\ queue' \subseteq queue
        /\ state' \in [Tasks -> TaskState \cup {"Absent"}]
        /\ running_count' \in 0..limit
        /\ frames' \in [Threads -> Seq(Tasks)]
        /\ RunningExact' /\ StacksSound'
        /\ \A x \in Tasks : state'[x] = "Queued" => x \in queue'
        /\ \A x \in queue' : state'[x] = IF cancel_flag[x] THEN "Cancelled" ELSE "Queued"
        /\ \A x \in Tasks : st[x] = "Absent" => state'[x] = "Absent"
        /\ InState("Queued")' # {} => running_count' >= limit
    BY <1>0, <1>1, <1>2, <1>3, DrainKeeps
  <1>6. TypeOK'
    BY <1>0, <1>2, <1>3, <1>5 DEF TypeOK
  <1>7. QueueSound'
    BY <1>2, <1>4, <1>5 DEF QueueSound
  <1>8. WorkConserving'
    BY <1>2, <1>5 DEF WorkConserving
  <1> QED BY <1>5, <1>6, <1>7, <1>8 DEF KernelInv

(* ify_scheduler_cancel() keeps it: a task Cancelled in the queue is flagged, *)
(* and a running one stays Running.                                           *)
LEMMA CancelKeeps ==
  ASSUME KernelInv, NEW t \in Tasks, Cancel(t)
  PROVE  KernelInv'
  <1>0. TypeOK /\ RunningExact /\ WorkConserving /\ QueueSound /\ StacksSound
    BY DEF KernelInv
  <1>1. TypeOK'
    BY <1>0 DEF TypeOK, Cancel, TaskState
  <1>2. QueueSound'
    BY <1>0 DEF TypeOK, QueueSound, Cancel
  <1>3. InState("Running")' = InState("Running") /\ InState("Queued")' \subseteq InState("Queued")
    BY <1>0 DEF TypeOK, InState, Cancel
  <1>4. \A th \in Threads : OnStack(th)' = OnStack(th)
    BY DEF OnStack, Cancel
  <1>5. RunningExact' /\ WorkConserving' /\ StacksSound'
    BY <1>0, <1>3, <1>4 DEF RunningExact, WorkConserving, StacksSound, Cancel
  <1> QED BY <1>1, <1>2, <1>5 DEF KernelInv

(* ify_scheduler_destroy() keeps it: what is in the queue does not run.       *)
LEMMA DestroyKeeps ==
  ASSUME KernelInv, Destroy
  PROVE  KernelInv'
  <1>0. TypeOK /\ RunningExact /\ WorkConserving /\ QueueSound /\ StacksSound
    BY DEF KernelInv
  <1>1. TypeOK'
    BY <1>0 DEF TypeOK, Destroy, TaskState
  <1>2. QueueSound'
    BY <1>0 DEF TypeOK, QueueSound, Destroy, Tasks
  <1>3. InState("Running")' = InState("Running")
    BY <1>0 DEF TypeOK, QueueSound, InState, Destroy
  <1>4. \A th \in Threads : OnStack(th)' = OnStack(th)
    BY DEF OnStack, Destroy
  <1>5. RunningExact' /\ WorkConserving' /\ StacksSound'
    BY <1>0, <1>3, <1>4 DEF RunningExact, WorkConserving, StacksSound, Destroy
  <1> QED BY <1>1, <1>2, <1>5 DEF KernelInv

(* Every step of the scheduler keeps the invariant.                           *)
LEMMA KernelStep == KernelInv /\ [Next]_vars => KernelInv'
  <1> SUFFICES ASSUME KernelInv, [Next]_vars PROVE KernelInv'
    OBVIOUS
  <1>1. ASSUME NEW th \in Threads, NEW p \in Priorities, Submit(th, p) PROVE KernelInv'
    BY <1>1, SubmitKeeps
  <1>2. ASSUME NEW th \in Threads, NEW rc \in {"IFY_OK", "IFY_ERR"}, Return(th, rc)
        PROVE KernelInv'
    BY <1>2, ReturnKeeps
  <1>3. ASSUME NEW t \in Tasks, Cancel(t) PROVE KernelInv'
    BY <1>3, CancelKeeps
  <1>4. CASE Destroy
    BY <1>4, DestroyKeeps
  <1>5. CASE UNCHANGED vars
    <2>1. TypeOK' /\ QueueSound' /\ StacksSound'
      BY <1>5 DEF vars, KernelInv, TypeOK, QueueSound, StacksSound
    <2>2. \A s : InState(s)' = InState(s)
      BY <1>5 DEF vars, InState
    <2>3. \A th \in Threads : OnStack(th)' = OnStack(th)
      BY <1>5 DEF vars, OnStack
    <2>4. RunningExact' /\ WorkConserving'
      BY <1>5, <2>2, <2>3 DEF vars, KernelInv, RunningExact, WorkConserving
    <2> QED BY <2>1, <2>4 DEF KernelInv
  <1> QED BY <1>1, <1>2, <1>3, <1>4, <1>5 DEF Next

(* The invariant holds throughout.                                            *)
LEMMA KernelInvariant == Spec => []KernelInv
  BY KernelInvInit, KernelStep, PTL DEF Spec

(* For any number of threads and any nesting of submissions in task           *)
(* functions: running_count is the number of Running tasks, which are those   *)
(* on the stacks and at most max_concurrent; and no task waits beside a free  *)
(* slot, although no thread but a submitter ever drains the queue.            *)
THEOREM TasksAreAccounted == Spec => []TasksAccounted
  <1>1. KernelInv => TasksAccounted
    BY DEF KernelInv, TasksAccounted
  <1> QED BY <1>1, KernelInvariant, PTL

-----------------------------------------------------------------------------
(* What one step of the loop does to the states: it makes one Queued task     *)
(* Running, one that goes before every other runnable task, or nothing.       *)
LEMMA DrainStarts ==
  ASSUME NEW th \in Threads, NEW q, NEW stack, NEW running, NEW st,
         ReadyToDrain(th, q, stack, running, st),
         Drain(th, q, stack, running, st),
         NEW t \in Tasks, state'[t] # st[t]
  PROVE  /\ st[t] = "Queued" /\ state'[t] = "Running"
         /\ \A u \in Tasks \ {t} : st[u] = "Queued" => Before(t, u)
  <1>1. PICK x \in Runnable(q) :
           /\ \A u \in Runnable(q) \ {x} : Before(x, u)
           /\ state' = [st EXCEPT ![x] = "Running"]
    BY DEF Drain
  <1>2. x \in Tasks /\ st[x] = "Queued" /\ st \in [Tasks -> TaskState \cup {"Absent"}]
    BY DEF ReadyToDrain, Runnable
  <1>3. t = x /\ state'[t] = "Running"
    BY <1>1, <1>2
  <1>4. \A u \in Tasks : st[u] = "Queued" => u \in Runnable(q)
    BY DEF ReadyToDrain, Runnable
  <1> QED BY <1>1, <1>2, <1>3, <1>4

(* What a step does to the state of a task: a finished task keeps its         *)
(* outcome, and a task that starts is Queued or new, and goes first.          *)
LEMMA StateStep ==
  ASSUME KernelInv, [Next]_vars, NEW t \in Tasks
  PROVE  /\ state[t] \in {"Cancelled", "Failed", "Completed"} => state'[t] = state[t]
         /\ state[t] # "Running" /\ state'[t] = "Running"
              => \A u \in Tasks \ {t} : state[u] = "Queued" => Before(t, u)
  <1>0. state \in [Tasks -> TaskState \cup {"Absent"}]
    BY DEF KernelInv, TypeOK
  <1>1. ASSUME NEW th \in Threads, NEW p \in Priorities, Submit(th, p)
        PROVE  /\ state[t] \in {"Cancelled", "Failed", "Completed"} => state'[t] = state[t]
               /\ state[t] # "Running" /\ state'[t] = "Running"
                    => \A u \in Tasks \ {t} : state[u] = "Queued" => Before(t, u)
    <2> DEFINE new == task_count + 1
               st == [state EXCEPT ![new] = "Queued"]
    <2>1. /\ ReadyToDrain(th, queue \cup {new}, frames[th], running_count, st)
          /\ new \in Tasks /\ state[new] = "Absent"
      BY <1>1, SubmitReady
    <2>2. Drain(th, queue \cup {new}, frames[th], running_count, st)
      BY <1>1 DEF Submit
    <2>3. /\ \A u \in Tasks : u # new => st[u] = state[u]
          /\ st[new] = "Queued"
      BY <1>0, <2>1
    <2>4. \A u \in Tasks : state[u] = "Queued" => st[u] = "Queued"
      BY <2>3
    <2> HIDE DEF new, st
    <2>5. CASE state'[t] = st[t]
      BY <2>1, <2>3, <2>5
    <2>6. CASE state'[t] # st[t]
      <3>1. /\ st[t] = "Queued" /\ state'[t] = "Running"
            /\ \A u \in Tasks \ {t} : st[u] = "Queued" => Before(t, u)
        BY <2>1, <2>2, <2>6, DrainStarts
      <3> QED BY <2>1, <2>3, <2>4, <3>1
    <2> QED BY <2>5, <2>6
  <1>2. ASSUME NEW th \in Threads, NEW rc \in {"IFY_OK", "IFY_ERR"}, Return(th, rc)
        PROVE  /\ state[t] \in {"Cancelled", "Failed", "Completed"} => state'[t] = state[t]
               /\ state[t] # "Running" /\ state'[t] = "Running"
                    => \A u \in Tasks \ {t} : state[u] = "Queued" => Before(t, u)
    <2> DEFINE x == frames[th][Len(frames[th])]
               st == [state EXCEPT ![x] = IF rc = "IFY_OK" THEN "Completed" ELSE "Failed"]
               stack == SubSeq(frames[th], 1, Len(frames[th]) - 1)
    <2>1. /\ ReadyToDrain(th, queue, stack, running_count - 1, st)
          /\ x \in Tasks /\ state[x] = "Running"
      BY <1>2, ReturnReady
    <2>2. Drain(th, queue, stack, running_count - 1, st)
      BY <1>2 DEF Return
    <2>3. /\ \A u \in Tasks : u # x => st[u] = state[u]
          /\ st[x] \in {"Completed", "Failed"}
      BY <1>0, <2>1
    <2>4. \A u \in Tasks : state[u] = "Queued" => st[u] = "Queued"
      BY <2>1, <2>3
    <2> HIDE DEF x, st, stack
    <2>5. CASE state'[t] = st[t]
      BY <2>1, <2>3, <2>5
    <2>6. CASE state'[t] # st[t]
      <3>1. /\ st[t] = "Queued" /\ state'[t] = "Running"
            /\ \A u \in Tasks \ {t} : st[u] = "Queued" => Before(t, u)
        BY <2>1, <2>2, <2>6, DrainStarts
      <3> QED BY <2>1, <2>3, <2>4, <3>1
    <2> QED BY <2>5, <2>6
  <1>3. ASSUME NEW x \in Tasks, Cancel(x)
        PROVE  state'[t] = state[t] \/ (state[t] = "Queued" /\ state'[t] = "Cancelled")
    BY <1>0, <1>3 DEF Cancel
  <1>4. ASSUME Destroy
        PROVE  state'[t] = state[t] \/ (state[t] = "Queued" /\ state'[t] = "Cancelled")
    BY <1>4 DEF Destroy, KernelInv, QueueSound
  <1>5. CASE UNCHANGED vars
    BY <1>5 DEF vars
  <1> QED BY <1>1, <1>2, <1>3, <1>4, <1>5 DEF Next

(* A task that was cancelled in the queue never runs, although its entry      *)
(* stays there, and no outcome is ever replaced.                              *)
THEOREM OutcomesAreFinal == Spec => TerminalFinal
  <1>1. KernelInv /\ [Next]_vars
          => [\A t \in Tasks : state[t] \in {"Cancelled", "Failed", "Completed"}
                                 => state'[t] = state[t]]_vars
    BY StateStep
  <1> QED BY <1>1, KernelInvariant, PTL DEF Spec, TerminalFinal

(* Whichever thread drains, the task that starts goes before every Queued     *)
(* task, by priority and then by order of submission.                         *)
THEOREM MostUrgentStarts == Spec => HighestFirst
  <1>1. KernelInv /\ [Next]_vars
          => [\A t, u \in Tasks :
                state[t] # "Running" /\ state'[t] = "Running" /\ state[u] = "Queued" /\ u # t
                  => \/ priority'[t] > priority'[u]
                     \/ priority'[t] = priority'[u] /\ t < u]_vars
    BY StateStep DEF Before
  <1> QED BY <1>1, KernelInvariant, PTL DEF Spec, HighestFirst

-----------------------------------------------------------------------------
(***************************************************************************)
(* Timers.  The loops of nested and concurrent calls pop one list: what    *)
(* they have fired is out of it, what they have read of the clock is in    *)
(* the past, and a thread that asks for a timer has an id reserved.        *)
(***************************************************************************)
Askers == {th \in TimerThreads : asked[th] # None}

FramesPast ==
    \A th \in TimerThreads : \A i \in 1..Len(timer_frames[th]) : timer_frames[th][i] <= clock

TimerInv ==
    /\ TimerTypeOK
    /\ list \cap fired = {}
    /\ FramesPast
    /\ timer_seq + Cardinality(Askers) <= MaxTimers

(* The set of the threads that are asking is finite.                          *)
LEMMA AskersFinite ==
    /\ IsFiniteSet(Askers) /\ Cardinality(Askers) \in Nat
    /\ \A th \in Askers : Cardinality(Askers \ {th}) = Cardinality(Askers) - 1
<1>1. IsFiniteSet(Askers)
  BY KernelTimerAssumption, FS_Subset DEF Askers
<1>2. Cardinality(Askers) \in Nat
  BY <1>1, FS_CardinalityType
<1>3. \A th \in Askers : Cardinality(Askers \ {th}) = Cardinality(Askers) - 1
  BY <1>1, <1>2, FS_RemoveElement
<1> QED BY <1>1, <1>2, <1>3

(* What one round of the firing loop does, with the time it has read and the  *)
(* frames below it: the list keeps only timers it had, what it fires was in   *)
(* the list, due and not cancelled, and a round that calls nothing leaves     *)
(* nothing due.                                                               *)
FireOutcome(th, n, cur, stack) ==
    /\ list' \subseteq 1..n /\ fired' \subseteq 1..n
    /\ list' \cap fired' = {}
    /\ timer_frames' \in [TimerThreads -> Seq(0..MaxClock)]
    /\ \A other \in TimerThreads \ {th} : timer_frames'[other] = timer_frames[other]
    /\ \A i \in 1..Len(timer_frames'[th]) : timer_frames'[th][i] <= clock
    /\ \A x \in fired' \ fired : deadline'[x] <= cur /\ ~cancelled[x]
    /\ \/ Len(timer_frames'[th]) = Len(stack) + 1
       \/ /\ timer_frames'[th] = stack
          /\ \A y \in list' : deadline'[y] > cur

(* FireExpired() has that outcome.                                            *)
LEMMA FireRound ==
    ASSUME NEW th \in TimerThreads, NEW n \in Nat, NEW l \in SUBSET (1..n),
           NEW cur \in 0..MaxClock, NEW stack \in Seq(0..MaxClock),
           n <= MaxTimers, deadline' \in [Timers -> Nat],
           timer_frames \in [TimerThreads -> Seq(0..MaxClock)],
           fired \subseteq 1..n, l \cap fired = {},
           cur <= clock, \A i \in 1..Len(stack) : stack[i] <= clock,
           FireExpired(th, l, cur, stack)
    PROVE  FireOutcome(th, n, cur, stack)
<1>0. n \in Nat /\ MaxTimers \in Nat /\ MaxClock \in Nat /\ Timers = 1..MaxTimers
  BY KernelTimerAssumption DEF Timers
<1>1. \A x \in l : x \in Timers /\ deadline'[x] \in Nat
  BY <1>0
<1>2. CASE \E x \in Expired(l, cur) :
             /\ \A y \in Expired(l, cur) \ {x} : SortedBefore(x, y)
             /\ list' = {y \in l : SortedBefore(x, y)}
             /\ fired' = fired \cup {x}
             /\ timer_frames' = [timer_frames EXCEPT ![th] = Append(stack, cur)]
  <2>1. PICK x \in Expired(l, cur) :
             /\ list' = {y \in l : SortedBefore(x, y)}
             /\ fired' = fired \cup {x}
             /\ timer_frames' = [timer_frames EXCEPT ![th] = Append(stack, cur)]
    BY <1>2
  <2>2. x \in l /\ deadline'[x] <= cur /\ ~cancelled[x]
    BY <2>1 DEF Expired
  <2>3. ~SortedBefore(x, x)
    BY <2>2, <1>1 DEF SortedBefore
  <2>4. list' \subseteq 1..n /\ fired' \subseteq 1..n /\ list' \cap fired' = {}
    BY <2>1, <2>2, <2>3
  <2>5. /\ Append(stack, cur) \in Seq(0..MaxClock)
        /\ Len(Append(stack, cur)) = Len(stack) + 1
        /\ \A i \in 1..Len(Append(stack, cur)) : Append(stack, cur)[i] <= clock
    <3>1. /\ Append(stack, cur) \in Seq(0..MaxClock)
          /\ Len(Append(stack, cur)) = Len(stack) + 1 /\ Len(stack) \in Nat
          /\ \A i \in 1..Len(stack) : Append(stack, cur)[i] = stack[i]
          /\ Append(stack, cur)[Len(stack) + 1] = cur
      BY ONLY AppendProperties, LenProperties
    <3>2. \A i \in 1..(Len(stack) + 1) : i \in 1..Len(stack) \/ i = Len(stack) + 1
      BY ONLY <3>1
    <3> QED BY ONLY <3>1, <3>2, cur <= clock, \A i \in 1..Len(stack) : stack[i] <= clock
  <2>6. timer_frames'[th] = Append(stack, cur)
    BY <2>1
  <2>7. timer_frames' \in [TimerThreads -> Seq(0..MaxClock)]
    BY <2>1, <2>5
  <2>8. \A other \in TimerThreads \ {th} : timer_frames'[other] = timer_frames[other]
    BY <2>1
  <2>9. \A y \in fired' \ fired : deadline'[y] <= cur /\ ~cancelled[y]
    BY <2>1, <2>2
  <2> QED BY ONLY <2>4, <2>5, <2>6, <2>7, <2>8, <2>9 DEF FireOutcome
<1>3. CASE /\ Expired(l, cur) = {}
           /\ list' = {y \in l : deadline'[y] > cur}
           /\ timer_frames' = [timer_frames EXCEPT ![th] = stack]
           /\ UNCHANGED fired
  <2>1. timer_frames'[th] = stack
    BY <1>3
  <2>2. timer_frames' \in [TimerThreads -> Seq(0..MaxClock)]
    BY <1>3
  <2>3. \A other \in TimerThreads \ {th} : timer_frames'[other] = timer_frames[other]
    BY <1>3
  <2>4. list' \subseteq 1..n /\ fired' \subseteq 1..n /\ list' \cap fired' = {}
    BY <1>3
  <2>5. \A y \in fired' \ fired : deadline'[y] <= cur /\ ~cancelled[y]
    BY <1>3
  <2>6. \A y \in list' : deadline'[y] > cur
    BY <1>1, <1>3
  <2> QED BY <2>1, <2>2, <2>3, <2>4, <2>5, <2>6 DEF FireOutcome
<1> QED BY <1>2, <1>3 DEF FireExpired

(* The invariant holds initially.                                             *)
LEMMA TimerInvInit == TimerInit => TimerInv
<1> SUFFICES ASSUME TimerInit PROVE TimerInv
  OBVIOUS
<1> USE KernelTimerAssumption DEF TimerInit
<1>1. TimerTypeOK
  BY EmptySeq DEF TimerTypeOK, None
<1>2. Askers = {}
  BY DEF Askers
<1>3. FramesPast
  BY EmptySeq DEF FramesPast
<1> QED BY <1>1, <1>2, <1>3, FS_EmptySet DEF TimerInv

(* The deadline is computed before the lock is taken, with an id to spare.    *)
LEMMA TimerOnceKeeps ==
    ASSUME TimerInv, NEW th \in TimerThreads, NEW delay \in Delays, TimerOnce(th, delay)
    PROVE  TimerInv'
<1> USE KernelTimerAssumption DEF TimerInv, TimerOnce
<1>1. asked' \in [TimerThreads -> Nat \cup {None}]
  BY DEF TimerTypeOK
<1>2. TimerTypeOK'
  BY <1>1 DEF TimerTypeOK, Timers
<1>3. Askers' = Askers \cup {th} /\ th \notin Askers
  BY <1>1 DEF Askers, TimerTypeOK, None
<1>4. Cardinality(Askers') = Cardinality(Askers) + 1
  BY <1>3, AskersFinite, FS_AddElement
<1>5. timer_seq' + Cardinality(Askers') <= MaxTimers
  BY <1>4, AskersFinite DEF Askers, TimerTypeOK
<1> QED BY <1>2, <1>5 DEF FramesPast

(* Under the lock, the timer is inserted and the loop fires.                  *)
LEMMA InsertKeeps ==
    ASSUME TimerInv, NEW th \in TimerThreads, Insert(th)
    PROVE  /\ TimerInv'
           /\ \A x \in fired' \ fired : deadline'[x] <= clock /\ ~cancelled[x]
           /\ \A other \in TimerThreads \ {th} : timer_frames'[other] = timer_frames[other]
           /\ Len(timer_frames'[th]) >= Len(timer_frames[th])
<1> DEFINE n == timer_seq + 1
           l == list \cup {n}
           stack == timer_frames[th]
<1>0. th \in Askers
  BY DEF Insert, Askers
<1>1. n <= MaxTimers /\ n \in 1..MaxTimers /\ timer_seq \in Nat
  <2>1. Cardinality(Askers) \in Nat /\ Cardinality(Askers) # 0
    BY <1>0, AskersFinite, FS_EmptySet
  <2> QED BY <2>1, KernelTimerAssumption DEF TimerInv, TimerTypeOK
<1>2. asked[th] \in Nat
  BY DEF Insert, TimerInv, TimerTypeOK
<1>3. deadline' \in [Timers -> Nat]
  BY <1>1, <1>2 DEF Insert, TimerInv, TimerTypeOK, Timers
<1>4. asked' \in [TimerThreads -> Nat \cup {None}]
  BY DEF Insert, TimerInv, TimerTypeOK
<1>5. l \in SUBSET (1..n) /\ fired \subseteq 1..n /\ l \cap fired = {}
  BY <1>1 DEF TimerInv, TimerTypeOK
<1>6. /\ clock \in 0..MaxClock /\ clock <= clock /\ stack \in Seq(0..MaxClock)
      /\ \A i \in 1..Len(stack) : stack[i] <= clock
      /\ timer_frames \in [TimerThreads -> Seq(0..MaxClock)]
  BY KernelTimerAssumption DEF TimerInv, TimerTypeOK, FramesPast
<1>7. FireExpired(th, l, clock, stack)
  BY DEF Insert
<1>8. n \in Nat
  BY <1>1
<1> HIDE DEF n, l, stack
<1>9. /\ list' \subseteq 1..n /\ fired' \subseteq 1..n
      /\ list' \cap fired' = {}
      /\ timer_frames' \in [TimerThreads -> Seq(0..MaxClock)]
      /\ \A other \in TimerThreads \ {th} : timer_frames'[other] = timer_frames[other]
      /\ \A i \in 1..Len(timer_frames'[th]) : timer_frames'[th][i] <= clock
      /\ \A x \in fired' \ fired : deadline'[x] <= clock /\ ~cancelled[x]
      /\ Len(timer_frames'[th]) = Len(stack) + 1 \/ timer_frames'[th] = stack
  <2>1. FireOutcome(th, n, clock, stack)
    BY ONLY <1>1, <1>3, <1>5, <1>6, <1>7, <1>8, FireRound
  <2> QED BY ONLY <2>1 DEF FireOutcome
<1>10. timer_seq' = n /\ clock' = clock /\ cancelled' = cancelled
  BY DEF Insert, n
<1>11. TimerTypeOK'
  BY <1>1, <1>3, <1>4, <1>9, <1>10 DEF TimerInv, TimerTypeOK
<1>12. FramesPast'
  BY <1>9, <1>10 DEF TimerInv, FramesPast
<1>13. Askers' = Askers \ {th}
  BY DEF Askers, Insert, TimerInv, TimerTypeOK
<1>14. timer_seq' + Cardinality(Askers') <= MaxTimers
  BY <1>0, <1>1, <1>13, <1>10, AskersFinite, KernelTimerAssumption DEF TimerInv, n
<1>15. Len(stack) \in Nat /\ Len(timer_frames'[th]) >= Len(stack)
  BY <1>6, <1>9, LenProperties
<1> QED BY <1>9, <1>11, <1>12, <1>14, <1>15 DEF TimerInv, stack

(* A callback returns, and the loop goes on or ends.                          *)
LEMMA TimerReturnKeeps ==
    ASSUME TimerInv, NEW th \in TimerThreads, TimerReturn(th)
    PROVE  /\ TimerInv'
           /\ \A x \in fired' \ fired : deadline'[x] <= clock /\ ~cancelled[x]
           /\ \A other \in TimerThreads \ {th} : timer_frames'[other] = timer_frames[other]
           /\ \/ Len(timer_frames'[th]) = Len(timer_frames[th])
              \/ \A y \in list' : deadline'[y] > timer_frames[th][Len(timer_frames[th])]
<1> DEFINE n == Len(timer_frames[th])
           cur == timer_frames[th][n]
           stack == SubSeq(timer_frames[th], 1, n - 1)
           l == list
           m == timer_seq
<1>1. /\ timer_frames[th] \in Seq(0..MaxClock) /\ timer_frames[th] # <<>>
      /\ n \in Nat /\ n > 0
  BY EmptySeq, LenProperties DEF TimerReturn, TimerInv, TimerTypeOK
<1>2. cur \in 0..MaxClock /\ cur <= clock
  <2>1. n \in 1..n
    BY ONLY <1>1
  <2>2. cur \in 0..MaxClock
    BY ONLY <1>1, <2>1, ElementOfSeq
  <2>3. cur <= clock
    BY ONLY <2>1, TimerInv, th \in TimerThreads DEF TimerInv, FramesPast
  <2> QED BY ONLY <2>2, <2>3
<1>3. /\ stack \in Seq(0..MaxClock) /\ Len(stack) = n - 1
      /\ \A i \in 1..(n - 1) : stack[i] = timer_frames[th][i]
  <2>1. n - 1 \in Nat /\ n - 1 <= n
    BY <1>1
  <2> QED BY ONLY <1>1, <2>1, FrontSeq
<1>4. \A i \in 1..Len(stack) : stack[i] <= clock
  BY <1>1, <1>3 DEF TimerInv, FramesPast
<1>5. FireExpired(th, l, cur, stack) /\ deadline' = deadline
  BY DEF TimerReturn
<1>6. /\ deadline' \in [Timers -> Nat] /\ m \in Nat /\ m <= MaxTimers
      /\ l \in SUBSET (1..m) /\ fired \subseteq 1..m /\ l \cap fired = {}
      /\ timer_frames \in [TimerThreads -> Seq(0..MaxClock)]
  BY <1>5 DEF TimerInv, TimerTypeOK
<1> HIDE DEF n, cur, stack, l, m
<1>7. /\ list' \subseteq 1..m /\ fired' \subseteq 1..m
      /\ list' \cap fired' = {}
      /\ timer_frames' \in [TimerThreads -> Seq(0..MaxClock)]
      /\ \A other \in TimerThreads \ {th} : timer_frames'[other] = timer_frames[other]
      /\ \A i \in 1..Len(timer_frames'[th]) : timer_frames'[th][i] <= clock
      /\ \A x \in fired' \ fired : deadline'[x] <= cur /\ ~cancelled[x]
      /\ \/ Len(timer_frames'[th]) = Len(stack) + 1
         \/ \A y \in list' : deadline'[y] > cur
  <2>1. FireExpired(th, l, cur, stack)
    BY <1>5
  <2>2. stack \in Seq(0..MaxClock)
    BY <1>3
  <2>3. FireOutcome(th, m, cur, stack)
    BY ONLY <1>2, <1>4, <1>6, <2>1, <2>2, FireRound
  <2> QED BY ONLY <2>3 DEF FireOutcome
<1>8. /\ m = timer_seq /\ timer_seq' = timer_seq /\ clock' = clock
      /\ cancelled' = cancelled /\ asked' = asked
  BY DEF TimerReturn, m
<1>9. TimerTypeOK'
  BY <1>6, <1>7, <1>8 DEF TimerInv, TimerTypeOK
<1>10. FramesPast'
  BY <1>7, <1>8 DEF TimerInv, FramesPast
<1>11. timer_seq' + Cardinality(Askers') <= MaxTimers
  BY <1>8 DEF TimerInv, Askers
<1>12. \A x \in fired' \ fired : deadline'[x] <= clock /\ ~cancelled[x]
  <2>1. \A x \in fired' : deadline'[x] \in Nat
    BY <1>6, <1>7, KernelTimerAssumption DEF Timers
  <2>2. clock \in Nat
    BY KernelTimerAssumption DEF TimerInv, TimerTypeOK
  <2> QED BY <1>2, <1>7, <2>1, <2>2, KernelTimerAssumption
<1>13. Len(stack) + 1 = n
  BY <1>1, <1>3
<1> QED BY <1>7, <1>9, <1>10, <1>11, <1>12, <1>13 DEF TimerInv, n, cur

(* What a step of the timers keeps and does.                                  *)
LEMMA TimerStep ==
    ASSUME TimerInv, [TimerNext]_timer_vars
    PROVE  /\ TimerInv'
           /\ \A x \in fired' \ fired : deadline'[x] <= clock /\ ~cancelled[x]
           /\ \A th \in TimerThreads :
                 LET n == Len(timer_frames[th]) IN
                 n > 0 /\ timer_frames'[th] = SubSeq(timer_frames[th], 1, n - 1)
                   => \A y \in list' : deadline'[y] > timer_frames[th][n]
<1>0. \A th \in TimerThreads :
         /\ timer_frames[th] \in Seq(0..MaxClock) /\ Len(timer_frames[th]) \in Nat
         /\ Len(timer_frames[th]) > 0
              => Len(SubSeq(timer_frames[th], 1, Len(timer_frames[th]) - 1))
                   = Len(timer_frames[th]) - 1
  <2> SUFFICES ASSUME NEW th \in TimerThreads
               PROVE  /\ timer_frames[th] \in Seq(0..MaxClock) /\ Len(timer_frames[th]) \in Nat
                      /\ Len(timer_frames[th]) > 0
                           => Len(SubSeq(timer_frames[th], 1, Len(timer_frames[th]) - 1))
                                = Len(timer_frames[th]) - 1
    OBVIOUS
  <2>1. timer_frames[th] \in Seq(0..MaxClock) /\ Len(timer_frames[th]) \in Nat
    BY LenProperties DEF TimerInv, TimerTypeOK
  <2> DEFINE n == Len(timer_frames[th])
  <2>2. n > 0 => n - 1 \in Nat /\ n - 1 <= n
    BY <2>1
  <2> QED BY ONLY <2>1, <2>2, FrontSeq
<1>1. CASE UNCHANGED timer_vars
  <2>1. TimerInv'
    BY <1>1 DEF timer_vars, TimerInv, TimerTypeOK, FramesPast, Askers
  <2> QED BY <1>0, <1>1, <2>1 DEF timer_vars
<1>2. CASE Tick
  <2>1. /\ clock' \in 0..MaxClock /\ clock' = clock + 1 /\ clock \in Nat
    BY <1>2, KernelTimerAssumption DEF Tick, TimerInv, TimerTypeOK
  <2>2. TimerTypeOK'
    BY <1>2, <2>1 DEF Tick, TimerInv, TimerTypeOK
  <2>3. FramesPast'
    <3>1. \A th \in TimerThreads : \A i \in 1..Len(timer_frames[th]) :
             timer_frames[th][i] \in Nat
      BY <1>0, ElementOfSeq, KernelTimerAssumption
    <3> QED BY <1>2, <2>1, <3>1 DEF Tick, TimerInv, FramesPast
  <2>4. TimerInv'
    BY <1>2, <2>2, <2>3 DEF Tick, TimerInv, Askers
  <2> QED BY <1>0, <1>2, <2>4 DEF Tick
<1>3. CASE \E th \in TimerThreads : \E delay \in Delays : TimerOnce(th, delay)
  <2>1. TimerInv'
    BY <1>3, TimerOnceKeeps
  <2> QED BY <1>0, <1>3, <2>1 DEF TimerOnce
<1>4. CASE \E th \in TimerThreads : Insert(th)
  BY <1>0, <1>4, InsertKeeps
<1>5. CASE \E th \in TimerThreads : TimerReturn(th)
  BY <1>0, <1>5, TimerReturnKeeps
<1>6. CASE \E x \in Timers : TimerCancel(x)
  <2>1. TimerInv'
    BY <1>6 DEF TimerCancel, TimerInv, TimerTypeOK, FramesPast, Askers
  <2> QED BY <1>0, <1>6, <2>1 DEF TimerCancel
<1> QED BY <1>1, <1>2, <1>3, <1>4, <1>5, <1>6 DEF TimerNext

LEMMA TimerInvariant == TimerSpec => []TimerInv
<1>1. TimerInv /\ [TimerNext]_timer_vars => TimerInv'
  BY TimerStep
<1> QED BY <1>1, TimerInvInit, PTL DEF TimerSpec

(* FiresOnceWhenDue: the loop of ify_timer_once() fires a timer only when it  *)
(* is due and ify_timer_cancel() has not taken it, and a timer that has fired *)
(* is not on the list, so that no other loop fires it again.                  *)
THEOREM TimersFireOnce == TimerSpec => FiresOnceWhenDue
<1>1. TimerInv /\ [TimerNext]_timer_vars
        => [/\ \A x \in fired' \ fired : deadline'[x] <= clock /\ ~cancelled[x]
            /\ list' \cap fired' = {}]_timer_vars
  BY TimerStep DEF TimerInv
<1> QED BY <1>1, TimerInvariant, PTL DEF TimerSpec, FiresOnceWhenDue

(* CallFiresAllDue: when a loop of ify_timer_once() ends, no timer is left    *)
(* that was due at the time the loop goes by, whatever other threads and the  *)
(* callbacks inserted while it had released the lock.                         *)
THEOREM LoopsLeaveNothingDue == TimerSpec => CallFiresAllDue
<1>1. TimerInv /\ [TimerNext]_timer_vars
        => [\A th \in TimerThreads :
              LET n == Len(timer_frames[th]) IN
              n > 0 /\ timer_frames'[th] = SubSeq(timer_frames[th], 1, n - 1)
                => \A y \in list' : deadline'[y] > timer_frames[th][n]]_timer_vars
  BY TimerStep
<1> QED BY <1>1, TimerInvariant, PTL DEF TimerSpec, CallFiresAllDue

-----------------------------------------------------------------------------
(* TakenInOrder: the two halves of scheduler.c together, drain_queue() and    *)
(* the loop of ify_timer_once(), beside the lifecycle and the tracing.        *)
THEOREM KernelTakesInOrder == CoreSpec => TakenInOrder
<1>1. TimerInv => TimerTypeOK
  BY DEF TimerInv
<1> QED BY <1>1, OutcomesAreFinal, MostUrgentStarts, TimerInvariant, TimersFireOnce,
           LoopsLeaveNothingDue, PTL DEF CoreSpec, TakenInOrder

-----------------------------------------------------------------------------
(***************************************************************************)
(* The lifecycle.  As long as no shutdown has overtaken an init, at most   *)
(* one thread is inside of an init or a shutdown, and where it is tells    *)
(* the state word and which subsystems are up.                             *)
(***************************************************************************)
Up(s, r, i) == kstate = s /\ registry = r /\ initialized = i

Alone == \A a, b \in Tracers : boot[a] # "none" /\ boot[b] # "none" => a = b

PhaseTells ==
    \A th \in Tracers :
       /\ boot[th] = "registry init" => Up("RUNNING", FALSE, FALSE)
       /\ boot[th] \in {"trace init", "undo"} => Up("RUNNING", TRUE, FALSE)
       /\ boot[th] = "fail" => Up("RUNNING", FALSE, FALSE)
       /\ boot[th] = "trace shutdown" => Up("SHUTDOWN", TRUE, TRUE)
       /\ boot[th] = "registry shutdown" => Up("SHUTDOWN", TRUE, FALSE)
       /\ boot[th] = "done" => Up("SHUTDOWN", FALSE, FALSE)

QuietTells ==
    Quiet => Up("RUNNING", TRUE, TRUE) \/ (kstate = "UNINIT" /\ ~registry /\ ~initialized)

BootPhases ==
    {"none", "registry init", "trace init", "undo", "fail", "trace shutdown",
     "registry shutdown", "done"}

BootFlags ==
    /\ kstate \in {"UNINIT", "RUNNING", "SHUTDOWN"}
    /\ boot \in [Tracers -> BootPhases]
    /\ registry \in BOOLEAN
    /\ initialized \in BOOLEAN
    /\ boots \in 0..MaxBoots
    /\ raced \in BOOLEAN

BootInv == BootFlags /\ (~raced => Alone /\ PhaseTells /\ QuietTells)

(* The tracing calls change neither the subsystems nor the lifecycle.         *)
LEMMA TraceLeavesFlags ==
    ASSUME NEW th \in Tracers, Trace(th)
    PROVE  initialized' = initialized
  BY DEF Trace, SetEmit, Begin, Open, End, Emit, Read

(* A step that moves one thread and, while no shutdown has overtaken an init, *)
(* is that of the only thread under way.                                      *)
LEMMA BootStepInv == BootInv /\ [BootNext]_kernel_vars => BootInv'
<1> SUFFICES ASSUME BootInv, [BootNext]_kernel_vars PROVE BootInv'
  OBVIOUS
<1> USE KernelBootAssumption DEF BootInv
<1>1. CASE UNCHANGED kernel_vars
  BY <1>1 DEF kernel_vars, trace_vars, boot_vars, BootFlags, Alone, PhaseTells, QuietTells, Quiet, Up
<1>2. ASSUME NEW th \in Tracers, Trace(th), UNCHANGED boot_vars
      PROVE  BootInv'
  BY <1>2, TraceLeavesFlags DEF boot_vars, BootFlags, Alone, PhaseTells, QuietTells, Quiet, Up
<1>3. ASSUME NEW th \in Tracers, KernelInit(th) PROVE BootInv'
  <2>1. BootFlags'
    <3>1. boots' \in 0..MaxBoots
      <4>1. boots \in 0..MaxBoots
        BY DEF BootFlags
      <4>2. boots < MaxBoots /\ boots' = boots + 1
        BY <1>3 DEF KernelInit
      <4> QED BY ONLY <4>1, <4>2, KernelBootAssumption
    <3>2. boot' \in [Tracers -> BootPhases]
      BY <1>3 DEF KernelInit, At, BootFlags, BootPhases
    <3> QED BY <1>3, <3>1, <3>2 DEF KernelInit, trace_vars, BootFlags
  <2>2. ~raced => Quiet
    BY <1>3 DEF KernelInit, PhaseTells, Up, Quiet, BootFlags, BootPhases
  <2>3. ~raced => kstate = "UNINIT" /\ ~registry /\ ~initialized
    BY <1>3, <2>2 DEF KernelInit, QuietTells, Up
  <2>4. ~raced => Alone' /\ PhaseTells' /\ QuietTells'
    BY <1>3, <2>1, <2>2, <2>3
       DEF KernelInit, At, trace_vars, BootFlags, Quiet, Alone, PhaseTells, QuietTells, Up
  <2> QED BY <1>3, <2>1, <2>4 DEF KernelInit
<1>4. ASSUME NEW th \in Tracers, InitRegistry(th) PROVE BootInv'
  <2>1. BootFlags'
    BY <1>4 DEF InitRegistry, At, trace_vars, BootFlags, BootPhases
  <2>2. ~raced => Alone' /\ PhaseTells' /\ QuietTells'
    BY <1>4, <2>1
       DEF InitRegistry, At, trace_vars, BootFlags, Quiet, Alone, PhaseTells, QuietTells, Up
  <2> QED BY <1>4, <2>1, <2>2 DEF InitRegistry
<1>5. ASSUME NEW th \in Tracers, InitTrace(th) PROVE BootInv'
  <2>1. BootFlags'
    BY <1>5 DEF InitTrace, TraceInit, At, BootFlags, BootPhases
  <2>2. ~raced => Alone' /\ PhaseTells' /\ QuietTells'
    BY <1>5, <2>1
       DEF InitTrace, TraceInit, At, BootFlags, Quiet, Alone, PhaseTells, QuietTells, Up
  <2> QED BY <1>5, <2>1, <2>2 DEF InitTrace
<1>6. ASSUME NEW th \in Tracers, InitTraceFails(th) PROVE BootInv'
  <2>1. BootFlags'
    BY <1>6 DEF InitTraceFails, At, trace_vars, BootFlags, BootPhases
  <2>2. ~raced => Alone' /\ PhaseTells' /\ QuietTells'
    BY <1>6, <2>1
       DEF InitTraceFails, At, trace_vars, BootFlags, Quiet, Alone, PhaseTells, QuietTells, Up
  <2> QED BY <1>6, <2>1, <2>2 DEF InitTraceFails
<1>7. ASSUME NEW th \in Tracers, UndoRegistry(th) PROVE BootInv'
  <2>1. BootFlags'
    BY <1>7 DEF UndoRegistry, At, trace_vars, BootFlags, BootPhases
  <2>2. ~raced => Alone' /\ PhaseTells' /\ QuietTells'
    BY <1>7, <2>1
       DEF UndoRegistry, At, trace_vars, BootFlags, Quiet, Alone, PhaseTells, QuietTells, Up
  <2> QED BY <1>7, <2>1, <2>2 DEF UndoRegistry
<1>8. ASSUME NEW th \in Tracers, InitFails(th) PROVE BootInv'
  <2>1. BootFlags'
    BY <1>8 DEF InitFails, At, trace_vars, BootFlags, BootPhases
  <2>2. ~raced => Alone' /\ PhaseTells' /\ QuietTells'
    BY <1>8, <2>1
       DEF InitFails, At, trace_vars, BootFlags, Quiet, Alone, PhaseTells, QuietTells, Up
  <2> QED BY <1>8, <2>1, <2>2 DEF InitFails
<1>9. ASSUME NEW th \in Tracers, KernelShutdown(th) PROVE BootInv'
  <2>1. BootFlags'
    BY <1>9 DEF KernelShutdown, At, trace_vars, BootFlags, BootPhases
  <2>2. ~raced' => ~raced /\ ~Initialising
    BY <1>9 DEF KernelShutdown, BootFlags
  <2>3. ~raced' => Quiet
    BY <1>9, <2>2 DEF KernelShutdown, Initialising, PhaseTells, Up, Quiet, BootFlags, BootPhases
  <2>4. ~raced' => Up("RUNNING", TRUE, TRUE)
    BY <1>9, <2>2, <2>3 DEF KernelShutdown, QuietTells, Up
  <2>5. ~raced' => Alone' /\ PhaseTells' /\ QuietTells'
    BY <1>9, <2>1, <2>3, <2>4
       DEF KernelShutdown, At, trace_vars, BootFlags, Quiet, Alone, PhaseTells, QuietTells, Up
  <2> QED BY <2>1, <2>5
<1>10. ASSUME NEW th \in Tracers, ShutdownTrace(th) PROVE BootInv'
  <2>1. BootFlags'
    BY <1>10 DEF ShutdownTrace, TraceShutdown, At, BootFlags, BootPhases
  <2>2. ~raced => Alone' /\ PhaseTells' /\ QuietTells'
    BY <1>10, <2>1
       DEF ShutdownTrace, TraceShutdown, At, BootFlags, Quiet, Alone, PhaseTells, QuietTells, Up
  <2> QED BY <1>10, <2>1, <2>2 DEF ShutdownTrace
<1>11. ASSUME NEW th \in Tracers, ShutdownRegistry(th) PROVE BootInv'
  <2>1. BootFlags'
    BY <1>11 DEF ShutdownRegistry, At, trace_vars, BootFlags, BootPhases
  <2>2. ~raced => Alone' /\ PhaseTells' /\ QuietTells'
    BY <1>11, <2>1
       DEF ShutdownRegistry, At, trace_vars, BootFlags, Quiet, Alone, PhaseTells, QuietTells, Up
  <2> QED BY <1>11, <2>1, <2>2 DEF ShutdownRegistry
<1>12. ASSUME NEW th \in Tracers, ShutdownDone(th) PROVE BootInv'
  <2>1. BootFlags'
    BY <1>12 DEF ShutdownDone, At, trace_vars, BootFlags, BootPhases
  <2>2. ~raced => Alone' /\ PhaseTells' /\ QuietTells'
    BY <1>12, <2>1
       DEF ShutdownDone, At, trace_vars, BootFlags, Quiet, Alone, PhaseTells, QuietTells, Up
  <2> QED BY <1>12, <2>1, <2>2 DEF ShutdownDone
<1> QED
  BY <1>1, <1>2, <1>3, <1>4, <1>5, <1>6, <1>7, <1>8, <1>9, <1>10, <1>11, <1>12 DEF BootNext

LEMMA BootInvariant == BootSpec => []BootInv
<1>1. ASSUME BootInit PROVE BootInv
  <2>1. boots \in 0..MaxBoots
    BY <1>1, KernelBootAssumption DEF BootInit
  <2>2. BootFlags
    BY <1>1, <2>1 DEF BootInit, TraceStart, BootFlags, BootPhases
  <2>3. Alone /\ PhaseTells /\ QuietTells
    BY <1>1 DEF BootInit, TraceStart, Alone, PhaseTells, QuietTells
  <2> QED BY <2>2, <2>3 DEF BootInv
<1> QED BY <1>1, BootStepInv, PTL DEF BootSpec

(* BootConsistent: once no ify_kernel_init() or ify_kernel_shutdown() is      *)
(* under way, and as long as no shutdown has overtaken an init, the state     *)
(* word of kernel.c tells whether both subsystems are up.                     *)
THEOREM StateWordTells == BootSpec => []BootConsistent
<1>1. BootInv => BootConsistent
  BY DEF BootInv, QuietTells, Up, BootConsistent, UpTogether
<1> QED BY <1>1, BootInvariant, PTL

-----------------------------------------------------------------------------
(***************************************************************************)
(* The tracing.  A span is in one place at a time: with the thread that    *)
(* has taken its id, open in the slot of its id, or stored; and it is      *)
(* emitted only after it has been stored.  The ring is a window on the log *)
(* of the stored spans, and what has been read lies before the window.     *)
(***************************************************************************)
Stored == {log[i] : i \in 1..Len(log)}

LogOnce ==
    /\ write_idx = Len(log) - base
    /\ \A i \in 1..Len(log) : log[i] <= span_seq
    /\ \A i, j \in 1..Len(log) : i # j => log[i] # log[j]

OpenSound ==
    \A k \in 0..(InflightMax - 1) : inflight[k] # 0 =>
       /\ inflight[k] % InflightMax = k
       /\ inflight[k] <= span_seq
       /\ inflight[k] \notin Stored

BeginSound ==
    \A th \in Tracers : local[th].op = "begin" =>
       /\ local[th].span \in 1..span_seq
       /\ local[th].span \notin Stored
       /\ \A k \in 0..(InflightMax - 1) : inflight[k] # local[th].span
       /\ \A other \in Tracers \ {th} :
             local[other].op = "begin" => local[other].span # local[th].span

EmitSound ==
    /\ \A th \in Tracers : local[th].op = "emit" =>
          /\ local[th].span \in Stored
          /\ emitted[local[th].span] = 0
          /\ \A other \in Tracers \ {th} :
                local[other].op = "emit" => local[other].span # local[th].span
    /\ \A x \in Spans : emitted[x] # 0 => emitted[x] = 1 /\ x \in Stored

ReadSound ==
    /\ ReadInOrder
    /\ \A i \in 1..Len(consumed) : \E k \in 1..(base + read_idx) : log[k] = consumed[i]

TraceInv ==
    /\ TraceTypeOK /\ LogOnce /\ RingHoldsNewest
    /\ OpenSound /\ BeginSound /\ EmitSound /\ ReadSound

-----------------------------------------------------------------------------
(* Remainders: the slots of indices less than a capacity apart differ.        *)
LEMMA RemainderTyped ==
    ASSUME NEW C \in Nat \ {0}, NEW a \in Nat
    PROVE  /\ a % C \in 0..(C - 1) /\ a \div C \in Int
           /\ a = C * (a \div C) + (a % C)
  OBVIOUS

(* The product of a positive and a non-positive factor.                       *)
LEMMA Products ==
    ASSUME NEW C \in Nat \ {0}, NEW d \in Int
    PROVE  (d >= 1 => C * d >= C) /\ (d <= 0 => C * d <= 0)
  OBVIOUS

LEMMA SlotsDiffer ==
    ASSUME NEW C \in Nat \ {0}, NEW a \in Nat, NEW b \in Nat, b < a, a - b < C
    PROVE  a % C # b % C
<1> SUFFICES ASSUME a % C = b % C PROVE FALSE
  OBVIOUS
<1> DEFINE p == a \div C
           q == b \div C
           r == a % C
<1>1. p \in Int /\ q \in Int /\ r \in 0..(C - 1)
  BY RemainderTyped
<1>2. a = C * p + r /\ b = C * q + r
  BY RemainderTyped
<1> HIDE DEF p, q, r
<1>3. C * (p - q) = C * p - C * q /\ C * p \in Int /\ C * q \in Int
  BY <1>1
<1>4. C * (p - q) = a - b
  BY ONLY <1>1, <1>2, <1>3
<1>5. p - q \in Int /\ (p - q >= 1 \/ p - q <= 0)
  BY ONLY <1>1
<1> QED BY <1>4, <1>5, Products

(* A sequence without repetitions is no longer than the set it is drawn from. *)
LEMMA DistinctShort ==
    ASSUME NEW n \in Nat, NEW s \in Seq(1..n),
           \A i, j \in 1..Len(s) : i # j => s[i] # s[j]
    PROVE  Len(s) <= n
<1>1. Len(s) \in Nat /\ s \in [1..Len(s) -> 1..n]
  BY LenProperties
<1>2. IsFiniteSet(1..n) /\ Cardinality(1..n) = n
  <2>1. 1 \in Int /\ n \in Int /\ (1 > n => n = 0) /\ n - 1 + 1 = n
    OBVIOUS
  <2> QED BY <2>1, FS_Interval
<1>3. s \in Injection(1..Len(s), 1..n)
  BY <1>1 DEF Injection, IsInjective
<1>4. Cardinality(1..Len(s)) <= Cardinality(1..n)
  BY <1>2, <1>3, FS_Injection
<1>5. Cardinality(1..Len(s)) = Len(s)
  <2> DEFINE m == Len(s)
  <2>1. m \in Nat
    BY <1>1
  <2> HIDE DEF m
  <2>2. 1 \in Int /\ m \in Int /\ (1 > m => m = 0) /\ m - 1 + 1 = m
    BY ONLY <2>1
  <2>3. Cardinality(1..m) = m
    BY ONLY <2>2, FS_Interval
  <2> QED BY <2>3 DEF m
<1> QED BY <1>2, <1>4, <1>5

-----------------------------------------------------------------------------
(* What a thread may be in the middle of.                                     *)
Locals ==
    [op : {"idle", "begin", "emit"}, span : 0..MaxSpans, fn : Callbacks \cup {NoCallback}]

LEMMA IdleTyped == Idle \in Locals /\ Idle.op = "idle"
  BY KernelTraceAssumption DEF Idle, Locals

(* The log is a sequence of ids.                                              *)
LEMMA LogTyped ==
    ASSUME TraceInv
    PROVE  /\ Len(log) \in Nat
           /\ \A i \in 1..Len(log) : log[i] \in Spans /\ log[i] \in Nat
<1>1. log \in Seq(Spans)
  BY DEF TraceInv, TraceTypeOK
<1>2. Len(log) \in Nat /\ \A i \in 1..Len(log) : log[i] \in Spans
  BY ONLY <1>1, LenProperties, ElementOfSeq
<1>3. Spans \subseteq Nat
  BY DEF Spans
<1> QED BY ONLY <1>2, <1>3

(* Initially nothing is traced.                                               *)
LEMMA TraceInvStart == TraceStart => TraceInv
<1> SUFFICES ASSUME TraceStart PROVE TraceInv
  OBVIOUS
<1> USE KernelTraceAssumption
<1>1. TraceTypeOK
  <2>1. /\ log = <<>> /\ consumed = <<>> /\ <<>> \in Seq(Spans) /\ Len(<<>>) = 0
    BY EmptySeq DEF TraceStart
  <2>2. local \in [Tracers -> Locals]
    BY IdleTyped DEF TraceStart
  <2>3. /\ ring \in [0..(Capacity - 1) -> 0..MaxSpans]
        /\ inflight \in [0..(InflightMax - 1) -> 0..MaxSpans]
        /\ emitted \in [Spans -> Nat]
    BY DEF TraceStart
  <2>4. write_idx \in 0..MaxSpans /\ read_idx \in 0..write_idx /\ span_seq \in 0..MaxSpans
    BY DEF TraceStart
  <2>5. base \in 0..Len(log)
    BY <2>1 DEF TraceStart
  <2> QED BY <2>1, <2>2, <2>3, <2>4, <2>5 DEF TraceStart, TraceTypeOK, Locals
<1>2. Len(log) = 0 /\ Len(consumed) = 0 /\ Stored = {}
  BY EmptySeq DEF TraceStart, Stored
<1>3. LogOnce /\ RingHoldsNewest /\ ReadSound
  BY <1>2 DEF TraceStart, LogOnce, RingHoldsNewest, ReadSound, ReadInOrder
<1>4. OpenSound /\ BeginSound /\ EmitSound
  BY DEF TraceStart, OpenSound, BeginSound, EmitSound, Idle
<1> QED BY <1>1, <1>3, <1>4 DEF TraceInv

(* A new ring starts empty; what was stored and read before stays behind it.  *)
LEMMA TraceInitKeeps == TraceInv /\ TraceInit => TraceInv'
<1> SUFFICES ASSUME TraceInv, TraceInit PROVE TraceInv'
  OBVIOUS
<1> USE KernelTraceAssumption DEF TraceInv, TraceInit
<1>1. Len(log) \in Nat /\ base \in 0..Len(log) /\ write_idx \in Nat /\ read_idx \in 0..write_idx
  BY LenProperties DEF TraceTypeOK
<1>2. TraceTypeOK'
  BY <1>1 DEF TraceTypeOK
<1>3. LogOnce' /\ RingHoldsNewest'
  BY <1>1 DEF LogOnce, RingHoldsNewest
<1>4. OpenSound' /\ BeginSound' /\ EmitSound'
  BY DEF OpenSound, BeginSound, EmitSound, Stored, TraceTypeOK
<1>5. ReadSound'
  <2>1. base + read_idx <= Len(log) /\ base' + read_idx' = Len(log)
    BY <1>1 DEF LogOnce
  <2>2. 1..(base + read_idx) \subseteq 1..(base' + read_idx')
    BY <1>1, <2>1
  <2>3. ReadInOrder'
    BY DEF ReadSound, ReadInOrder
  <2> QED BY <2>2, <2>3 DEF ReadSound
<1> QED BY <1>2, <1>3, <1>4, <1>5

(* A shutdown drops the ring and nothing else.                                *)
LEMMA TraceShutdownKeeps == TraceInv /\ TraceShutdown => TraceInv'
<1> SUFFICES ASSUME TraceInv, TraceShutdown PROVE TraceInv'
  OBVIOUS
<1> USE KernelTraceAssumption DEF TraceInv, TraceShutdown
<1>1. TraceTypeOK'
  <2>1. ring' \in [0..(Capacity - 1) -> 0..MaxSpans]
    OBVIOUS
  <2>2. emit_fn' \in Callbacks \cup {NoCallback}
    BY DEF TraceTypeOK
  <2> QED BY <2>1, <2>2 DEF TraceTypeOK
<1>2. LogOnce' /\ RingHoldsNewest'
  BY DEF LogOnce, RingHoldsNewest
<1>3. OpenSound' /\ BeginSound' /\ EmitSound' /\ ReadSound'
  BY DEF OpenSound, BeginSound, EmitSound, Stored, ReadSound, ReadInOrder
<1> QED BY <1>1, <1>2, <1>3

(* The callback may change at any time.                                       *)
LEMMA SetEmitKeeps ==
    ASSUME TraceInv, NEW f \in Callbacks \cup {NoCallback}, SetEmit(f)
    PROVE  TraceInv'
<1> USE DEF TraceInv, SetEmit
<1>1. TraceTypeOK'
  BY DEF TraceTypeOK
<1>2. LogOnce' /\ RingHoldsNewest'
  BY DEF LogOnce, RingHoldsNewest
<1>3. OpenSound' /\ BeginSound' /\ EmitSound' /\ ReadSound'
  BY DEF OpenSound, BeginSound, EmitSound, Stored, ReadSound, ReadInOrder
<1> QED BY <1>1, <1>2, <1>3

(* The id a thread takes is new.                                              *)
LEMMA BeginKeeps ==
    ASSUME TraceInv, NEW th \in Tracers, Begin(th)
    PROVE  TraceInv'
<1> DEFINE x == span_seq + 1
<1>1. /\ span_seq \in Nat /\ x \in 1..MaxSpans /\ span_seq' = x /\ x \in Nat
      /\ log' = log /\ inflight' = inflight /\ emitted' = emitted
  BY KernelTraceAssumption DEF TraceInv, TraceTypeOK, Begin
<1>2. /\ local'[th].op = "begin" /\ local'[th].span = x
      /\ \A other \in Tracers \ {th} : local'[other] = local[other]
      /\ local' \in [Tracers -> Locals]
  <2> DEFINE r == [op |-> "begin", span |-> x, fn |-> NoCallback]
  <2>2. local' = [local EXCEPT ![th] = r]
    BY DEF Begin
  <2>3. x \in 0..MaxSpans
    BY <1>1
  <2>4. r \in Locals /\ r.op = "begin" /\ r.span = x
    BY <2>3 DEF Locals
  <2>5. local \in [Tracers -> Locals]
    BY DEF TraceInv, TraceTypeOK, Locals
  <2> HIDE DEF r
  <2> QED BY <2>2, <2>4, <2>5
<1>3. TraceTypeOK'
  <2>1. span_seq' \in 0..MaxSpans
    BY <1>1
  <2> QED BY <1>2, <2>1 DEF TraceInv, TraceTypeOK, Begin, Locals
<1>4. Stored' = Stored /\ \A y \in Stored : y \in Nat /\ y <= span_seq
  <2>1. \A i \in 1..Len(log) : log[i] \in Nat
    BY LogTyped
  <2> QED BY <1>1, <2>1 DEF TraceInv, LogOnce, Stored
<1>5. \A k \in 0..(InflightMax - 1) : inflight[k] \in Nat /\ inflight[k] <= span_seq
  <2>1. \A k \in 0..(InflightMax - 1) : inflight[k] \in Nat
    BY KernelTraceAssumption DEF TraceInv, TraceTypeOK
  <2> QED BY <1>1, <2>1 DEF TraceInv, OpenSound
<1> HIDE DEF x
<1>6. x = span_seq + 1
  BY DEF x
<1>7. LogOnce' /\ RingHoldsNewest' /\ ReadSound'
  <2>1. \A i \in 1..Len(log) : log[i] \in Stored
    BY DEF Stored
  <2>2. \A i \in 1..Len(log) : log[i] <= x
    BY <1>1, <1>4, <1>6, <2>1
  <2> QED BY <1>1, <2>2 DEF TraceInv, Begin, LogOnce, RingHoldsNewest, ReadSound, ReadInOrder
<1>8. OpenSound'
  BY <1>1, <1>4, <1>5, <1>6 DEF TraceInv, OpenSound
<1>9. BeginSound'
  <2>1. x \notin Stored /\ \A k \in 0..(InflightMax - 1) : inflight[k] # x
    BY <1>1, <1>4, <1>5, <1>6
  <2>2. \A other \in Tracers : local[other].op = "begin" =>
           local[other].span # x /\ local[other].span \in 1..x
    BY <1>1, <1>6 DEF TraceInv, BeginSound
  <2>3. x \in 1..x
    BY <1>1
  <2> QED BY <1>1, <1>2, <1>4, <2>1, <2>2, <2>3 DEF TraceInv, BeginSound
<1>10. EmitSound'
  BY <1>1, <1>2, <1>4 DEF TraceInv, EmitSound
<1> QED BY <1>3, <1>7, <1>8, <1>9, <1>10 DEF TraceInv

(* The span goes from the thread into its slot, or is dropped.                *)
LEMMA OpenKeeps ==
    ASSUME TraceInv, NEW th \in Tracers, Open(th)
    PROVE  TraceInv'
<1> DEFINE x == local[th].span
           slot == x % InflightMax
<1>1. /\ x \in 1..span_seq /\ x \notin Stored /\ span_seq \in 0..MaxSpans
      /\ \A k \in 0..(InflightMax - 1) : inflight[k] # x
      /\ \A other \in Tracers \ {th} : local[other].op = "begin" => local[other].span # x
  BY DEF TraceInv, TraceTypeOK, BeginSound, Open
<1>2. /\ log' = log /\ span_seq' = span_seq /\ emitted' = emitted /\ Stored' = Stored
  BY DEF Open, Stored
<1>3. slot \in 0..(InflightMax - 1) /\ x \in 0..MaxSpans /\ x # 0
  <2>1. x \in Nat /\ InflightMax \in Nat \ {0}
    BY <1>1, KernelTraceAssumption
  <2>2. slot \in 0..(InflightMax - 1)
    BY ONLY <2>1, RemainderTyped
  <2> QED BY <1>1, <2>2, KernelTraceAssumption
<1>4. inflight' = inflight \/ inflight' = [inflight EXCEPT ![slot] = x]
  BY DEF Open
<1>5. inflight \in [0..(InflightMax - 1) -> 0..MaxSpans]
  BY DEF TraceInv, TraceTypeOK
<1>6. /\ local'[th].op = "idle"
      /\ \A other \in Tracers \ {th} : local'[other] = local[other]
      /\ local' \in [Tracers -> Locals]
  <2>1. local \in [Tracers -> Locals]
    BY DEF TraceInv, TraceTypeOK, Locals
  <2> QED BY <2>1, IdleTyped DEF Open
<1>7. /\ inflight' \in [0..(InflightMax - 1) -> 0..MaxSpans]
      /\ \A k \in 0..(InflightMax - 1) :
            inflight'[k] = inflight[k] \/ (inflight'[k] = x /\ k = slot)
  BY <1>3, <1>4, <1>5
<1>8. x % InflightMax = slot
  OBVIOUS
<1> HIDE DEF x, slot
<1>9. TraceTypeOK'
  BY <1>6, <1>7 DEF TraceInv, TraceTypeOK, Open, Locals
<1>10. LogOnce' /\ RingHoldsNewest' /\ ReadSound'
  BY DEF TraceInv, Open, LogOnce, RingHoldsNewest, ReadSound, ReadInOrder
<1>11. OpenSound'
  <2>1. x <= span_seq
    BY <1>1
  <2> QED BY <1>1, <1>2, <1>7, <1>8, <2>1 DEF TraceInv, OpenSound
<1>12. BeginSound'
  BY <1>1, <1>2, <1>6, <1>7 DEF TraceInv, BeginSound
<1>13. EmitSound'
  BY <1>2, <1>6 DEF TraceInv, EmitSound
<1> QED BY <1>9, <1>10, <1>11, <1>12, <1>13 DEF TraceInv

(* The callback is called for a stored span, once.                            *)
LEMMA EmitKeeps ==
    ASSUME TraceInv, NEW th \in Tracers, Emit(th)
    PROVE  TraceInv'
<1> DEFINE x == local[th].span
<1>1. /\ x \in Stored /\ emitted[x] = 0
      /\ \A other \in Tracers \ {th} : local[other].op = "emit" => local[other].span # x
  BY DEF TraceInv, EmitSound, Emit
<1>2. x \in Spans
  BY <1>1 DEF TraceInv, TraceTypeOK, Stored
<1>3. /\ local'[th].op = "idle"
      /\ \A other \in Tracers \ {th} : local'[other] = local[other]
      /\ local' \in [Tracers -> Locals]
  <2>1. local \in [Tracers -> Locals]
    BY DEF TraceInv, TraceTypeOK, Locals
  <2> QED BY <2>1, IdleTyped DEF Emit
<1>4. /\ emitted' \in [Spans -> Nat] /\ emitted'[x] = 1
      /\ \A y \in Spans \ {x} : emitted'[y] = emitted[y]
  BY <1>1, <1>2 DEF TraceInv, TraceTypeOK, Emit
<1>5. /\ log' = log /\ span_seq' = span_seq /\ inflight' = inflight /\ Stored' = Stored
  BY DEF Emit, Stored
<1> HIDE DEF x
<1>6. TraceTypeOK'
  BY <1>3, <1>4 DEF TraceInv, TraceTypeOK, Emit, Locals
<1>7. LogOnce' /\ RingHoldsNewest' /\ ReadSound'
  BY DEF TraceInv, Emit, LogOnce, RingHoldsNewest, ReadSound, ReadInOrder
<1>8. OpenSound' /\ BeginSound'
  BY <1>3, <1>5 DEF TraceInv, OpenSound, BeginSound
<1>9. EmitSound'
  <2>1. \A y \in Stored : y \in Spans
    BY DEF TraceInv, TraceTypeOK, Stored
  <2> QED BY <1>1, <1>2, <1>3, <1>4, <1>5, <2>1 DEF TraceInv, EmitSound
<1> QED BY <1>6, <1>7, <1>8, <1>9 DEF TraceInv

(* Where the indices are after one more span has been stored.                 *)
LEMMA AdvanceFits ==
    ASSUME NEW w \in Nat, NEW r \in 0..w, w - r <= Capacity
    PROVE  /\ Advance(w + 1, r) \in 0..(w + 1)
           /\ w + 1 - Advance(w + 1, r) <= Capacity
           /\ Advance(w + 1, r) >= r
  BY KernelTraceAssumption DEF Advance

(* A span that ends goes from its slot into the ring and the log.             *)
LEMMA EndKeeps ==
    ASSUME TraceInv, NEW th \in Tracers, NEW x \in Spans, End(th, x)
    PROVE  TraceInv'
<1> DEFINE slot == x % InflightMax
           n == Len(log)
           w == write_idx
           r == read_idx
           r2 == Advance(w + 1, r)
<1>0. x \in Nat /\ x \in 1..MaxSpans /\ x # 0 /\ InflightMax \in Nat \ {0} /\ Capacity \in Nat \ {0}
  BY KernelTraceAssumption DEF Spans
<1>1. slot \in 0..(InflightMax - 1)
  BY ONLY <1>0, RemainderTyped
<1>2. inflight[slot] = x /\ initialized
  BY DEF End, IsOpen
<1>3. x <= span_seq /\ x \notin Stored
  BY <1>0, <1>1, <1>2 DEF TraceInv, OpenSound
<1>4. /\ n \in Nat /\ w \in Nat /\ r \in 0..w /\ base \in 0..n /\ w = n - base /\ w - r <= Capacity
      /\ \A k \in r..(w - 1) : ring[k % Capacity] = log[base + k + 1]
      /\ \A i \in 1..n : log[i] \in Spans /\ log[i] \in Nat
  <2>1. n \in Nat /\ \A i \in 1..n : log[i] \in Spans /\ log[i] \in Nat
    BY LogTyped
  <2>2. w \in Nat /\ r \in 0..w /\ base \in 0..n
    BY KernelTraceAssumption DEF TraceInv, TraceTypeOK
  <2>3. w = n - base
    BY DEF TraceInv, LogOnce
  <2> QED BY <1>2, <2>1, <2>2, <2>3 DEF TraceInv, RingHoldsNewest
<1>5. /\ log' \in Seq(Spans) /\ Len(log') = n + 1 /\ log'[n + 1] = x
      /\ \A i \in 1..n : log'[i] = log[i]
  <2>1. log' = Append(log, x) /\ log \in Seq(Spans)
    BY DEF End, TraceInv, TraceTypeOK
  <2> QED BY ONLY <2>1, AppendProperties, x \in Spans
<1>6. \A i \in 1..(n + 1) : i \in 1..n \/ i = n + 1
  BY <1>4
<1>7. Stored' = Stored \cup {x}
  <2>1. n + 1 \in 1..(n + 1) /\ 1..n \subseteq 1..(n + 1)
    BY <1>4
  <2> QED BY <1>5, <1>6, <2>1 DEF Stored
<1>8. \A i, j \in 1..(n + 1) : i # j => log'[i] # log'[j]
  <2>1. \A i \in 1..n : log[i] \in Stored
    BY DEF Stored
  <2>2. \A i \in 1..n : log[i] # x
    BY <1>3, <2>1
  <2>3. \A i, j \in 1..n : i # j => log[i] # log[j]
    BY DEF TraceInv, LogOnce
  <2> QED BY ONLY <1>5, <1>6, <2>2, <2>3
<1>9. n + 1 <= MaxSpans
  <2>1. MaxSpans \in Nat /\ log' \in Seq(1..MaxSpans)
    BY <1>5, KernelTraceAssumption DEF Spans
  <2>2. \A i, j \in 1..Len(log') : i # j => log'[i] # log'[j]
    BY <1>5, <1>8
  <2>3. Len(log') <= MaxSpans
    BY ONLY <2>1, <2>2, DistinctShort
  <2> QED BY <1>5, <2>3
<1>10. /\ write_idx' = w + 1 /\ read_idx' = r2 /\ base' = base /\ span_seq' = span_seq
       /\ initialized' = initialized /\ consumed' = consumed /\ emitted' = emitted
       /\ emit_fn' = emit_fn /\ ring' = [ring EXCEPT ![w % Capacity] = x]
       /\ inflight' = [inflight EXCEPT ![slot] = 0]
  BY DEF End, Close
<1>11. r2 \in 0..(w + 1) /\ w + 1 - r2 <= Capacity /\ r2 >= r
  BY ONLY <1>4, AdvanceFits
<1> HIDE DEF slot, n, w, r, r2
<1>12. w % Capacity \in 0..(Capacity - 1)
  BY ONLY <1>0, <1>4, RemainderTyped
<1>13. /\ ring' \in [0..(Capacity - 1) -> 0..MaxSpans] /\ ring'[w % Capacity] = x
       /\ \A k \in 0..(Capacity - 1) : k # w % Capacity => ring'[k] = ring[k]
  <2>1. ring \in [0..(Capacity - 1) -> 0..MaxSpans] /\ x \in 0..MaxSpans
    BY <1>0 DEF TraceInv, TraceTypeOK
  <2> QED BY ONLY <1>10, <1>12, <2>1
<1>14. /\ inflight' \in [0..(InflightMax - 1) -> 0..MaxSpans]
       /\ \A k \in 0..(InflightMax - 1) :
             inflight'[k] = 0 \/ (k # slot /\ inflight'[k] = inflight[k])
  <2>1. inflight \in [0..(InflightMax - 1) -> 0..MaxSpans] /\ 0 \in 0..MaxSpans
    BY KernelTraceAssumption DEF TraceInv, TraceTypeOK
  <2> QED BY ONLY <1>1, <1>10, <2>1
<1>15. /\ local' \in [Tracers -> Locals]
       /\ \A other \in Tracers \ {th} : local'[other] = local[other]
       /\ local'[th].op = "idle" \/ (local'[th].op = "emit" /\ local'[th].span = x)
  <2> DEFINE e == [op |-> "emit", span |-> x, fn |-> emit_fn]
  <2>1. x \in 0..MaxSpans /\ emit_fn \in Callbacks \cup {NoCallback}
    BY <1>0 DEF TraceInv, TraceTypeOK
  <2>2. e \in Locals /\ e.op = "emit" /\ e.span = x
    BY <2>1 DEF Locals
  <2>3. local \in [Tracers -> Locals]
    BY DEF TraceInv, TraceTypeOK, Locals
  <2>4. local' = [local EXCEPT ![th] = e] \/ local' = [local EXCEPT ![th] = Idle]
    BY DEF End
  <2> HIDE DEF e
  <2> QED BY <2>2, <2>3, <2>4, IdleTyped
<1>16. TraceTypeOK'
  <2>1. write_idx' \in 0..MaxSpans /\ read_idx' \in 0..write_idx'
    BY <1>4, <1>9, <1>10, <1>11, KernelTraceAssumption
  <2>2. base' \in 0..Len(log')
    BY <1>4, <1>5, <1>10
  <2> QED BY <1>5, <1>10, <1>13, <1>14, <1>15, <2>1, <2>2 DEF TraceInv, TraceTypeOK, Locals
<1>17. LogOnce'
  <2>1. write_idx' = Len(log') - base'
    BY <1>4, <1>5, <1>10
  <2>2. \A i \in 1..Len(log') : log'[i] <= span_seq'
    BY <1>3, <1>5, <1>6, <1>10 DEF TraceInv, LogOnce, n
  <2> QED BY <1>5, <1>8, <2>1, <2>2 DEF LogOnce
<1>18. RingHoldsNewest'
  <2>1. \A k \in r2..w : ring'[k % Capacity] = log'[base + k + 1]
    <3> SUFFICES ASSUME NEW k \in r2..w PROVE ring'[k % Capacity] = log'[base + k + 1]
      OBVIOUS
    <3>0. k \in Nat /\ k <= w
      BY <1>4, <1>11
    <3>1. CASE k = w
      <4>1. base + k + 1 = n + 1
        BY <1>4, <3>1
      <4> QED BY <1>5, <1>13, <3>1, <4>1
    <3>2. CASE k # w
      <4>1. k < w /\ w - k < Capacity /\ k \in r..(w - 1) /\ base + k + 1 \in 1..n
        BY <1>0, <1>4, <1>11, <3>0, <3>2
      <4>2. w % Capacity # k % Capacity
        BY ONLY <1>0, <1>4, <3>0, <4>1, SlotsDiffer
      <4>3. k % Capacity \in 0..(Capacity - 1)
        BY ONLY <1>0, <3>0, RemainderTyped
      <4> QED BY <1>4, <1>5, <1>13, <4>1, <4>2, <4>3
    <3> QED BY <3>1, <3>2
  <2>2. write_idx' - 1 = w /\ write_idx' - read_idx' <= Capacity
    BY <1>4, <1>10, <1>11
  <2>3. write_idx' = Len(log') - base'
    BY <1>17 DEF LogOnce
  <2> QED BY <1>10, <2>1, <2>2, <2>3 DEF RingHoldsNewest
<1>19. OpenSound'
  <2>1. \A k \in 0..(InflightMax - 1) : inflight'[k] # 0 => inflight[k] # x
    BY <1>14 DEF TraceInv, OpenSound, slot
  <2> QED BY <1>7, <1>10, <1>14, <2>1 DEF TraceInv, OpenSound
<1>20. BeginSound'
  <2>1. \A other \in Tracers : local[other].op = "begin" =>
           local[other].span # x /\ local[other].span # 0
    BY <1>1, <1>2 DEF TraceInv, BeginSound
  <2> QED BY <1>7, <1>10, <1>14, <1>15, <2>1 DEF TraceInv, BeginSound
<1>21. EmitSound'
  <2>1. emitted[x] = 0
    BY <1>3 DEF TraceInv, EmitSound
  <2>2. \A other \in Tracers : local[other].op = "emit" => local[other].span # x
    BY <1>3 DEF TraceInv, EmitSound
  <2> QED BY <1>7, <1>10, <1>15, <2>1, <2>2 DEF TraceInv, EmitSound
<1>22. ReadSound'
  <2>1. 1..n \subseteq 1..(n + 1) /\ 1..(base + r) \subseteq 1..n
        /\ 1..(base + r) \subseteq 1..(base + r2)
    BY <1>4, <1>11
  <2>2. ReadInOrder'
    <3> SUFFICES ASSUME NEW i \in 1..Len(consumed'), NEW j \in 1..Len(consumed'), i < j
                 PROVE  \E k, l \in 1..Len(log') :
                           k < l /\ log'[k] = consumed'[i] /\ log'[l] = consumed'[j]
      BY DEF ReadInOrder
    <3>1. i \in 1..Len(consumed) /\ j \in 1..Len(consumed)
      BY <1>10
    <3>2. PICK k \in 1..n, l \in 1..n : k < l /\ log[k] = consumed[i] /\ log[l] = consumed[j]
      BY <3>1 DEF TraceInv, ReadSound, ReadInOrder, n
    <3> QED BY ONLY <1>5, <1>10, <2>1, <3>2
  <2>3. \A i \in 1..Len(consumed) : \E k \in 1..(base + r2) : log'[k] = consumed[i]
    BY <1>5, <2>1 DEF TraceInv, ReadSound, r
  <2> QED BY <1>10, <2>2, <2>3 DEF ReadSound
<1> QED BY <1>16, <1>17, <1>18, <1>19, <1>20, <1>21, <1>22 DEF TraceInv

(* A read takes the oldest spans out of the window.                           *)
LEMMA ReadKeeps ==
    ASSUME TraceInv, NEW max \in 1..Capacity, Read(max)
    PROVE  TraceInv'
<1> DEFINE n == Len(log)
           w == write_idx
           r == read_idx
           m == Len(consumed)
           count == IF w - r < max THEN w - r ELSE max
           chunk == [i \in 1..count |-> ring[(r + i - 1) % Capacity]]
<1>1. /\ n \in Nat /\ w \in Nat /\ r \in 0..w /\ base \in 0..n /\ w = n - base /\ w - r <= Capacity
      /\ \A k \in r..(w - 1) : ring[k % Capacity] = log[base + k + 1]
      /\ \A i \in 1..n : log[i] \in Spans
      /\ max \in Nat
  <2>1. n \in Nat /\ \A i \in 1..n : log[i] \in Spans
    BY LogTyped
  <2>2. w \in Nat /\ r \in 0..w /\ base \in 0..n
    BY KernelTraceAssumption DEF TraceInv, TraceTypeOK
  <2>3. w = n - base
    BY DEF TraceInv, LogOnce
  <2>4. initialized
    BY DEF Read
  <2>5. max \in Nat
    BY KernelTraceAssumption
  <2> QED BY <2>1, <2>2, <2>3, <2>4, <2>5 DEF TraceInv, RingHoldsNewest
<1>2. count \in 0..(w - r)
  BY <1>1
<1>3. /\ consumed' = consumed \o chunk /\ read_idx' = r + count
      /\ log' = log /\ base' = base /\ write_idx' = write_idx
  BY DEF Read, ReadFrom
<1> HIDE DEF n, w, r, m, count
<1>4. \A i \in 1..count :
         /\ chunk[i] = log[base + r + i] /\ base + r + i \in 1..n
         /\ base + r < base + r + i /\ base + r + i <= base + (r + count)
  <2> SUFFICES ASSUME NEW i \in 1..count
               PROVE  /\ chunk[i] = log[base + r + i] /\ base + r + i \in 1..n
                      /\ base + r < base + r + i /\ base + r + i <= base + (r + count)
    OBVIOUS
  <2>1. /\ r + i - 1 \in r..(w - 1) /\ base + (r + i - 1) + 1 = base + r + i
        /\ base + r + i \in 1..n
        /\ base + r < base + r + i /\ base + r + i <= base + (r + count)
    BY ONLY <1>1, <1>2, i \in 1..count
  <2>2. chunk[i] = ring[(r + i - 1) % Capacity]
    OBVIOUS
  <2>3. ring[(r + i - 1) % Capacity] = log[base + (r + i - 1) + 1]
    BY ONLY <1>1, <2>1
  <2> QED BY ONLY <2>1, <2>2, <2>3
<1>5. count \in Nat
  BY <1>1, <1>2
<1>6. chunk \in Seq(Spans) /\ Len(chunk) = count
  <2>1. \A i \in 1..count : chunk[i] \in Spans
    BY ONLY <1>1, <1>4
  <2>2. chunk = [i \in 1..count |-> chunk[i]]
    OBVIOUS
  <2> HIDE DEF chunk
  <2>3. chunk \in [1..count -> Spans]
    BY ONLY <2>1, <2>2
  <2> QED BY ONLY <1>5, <2>3, LenProperties, IsASeq
<1> HIDE DEF chunk
<1>7. consumed \in Seq(Spans) /\ m = Len(consumed) /\ m \in Nat
  BY LenProperties DEF TraceInv, TraceTypeOK, m
<1>8. /\ consumed' \in Seq(Spans) /\ Len(consumed') = m + count
      /\ \A i \in 1..m : consumed'[i] = consumed[i]
      /\ \A i \in 1..count : consumed'[m + i] = chunk[i]
  <2>1. /\ consumed' \in Seq(Spans) /\ Len(consumed') = m + count
        /\ \A i \in 1..(m + count) :
              consumed'[i] = IF i <= m THEN consumed[i] ELSE chunk[i - m]
    BY ONLY <1>3, <1>6, <1>7, ConcatProperties
  <2>2. \A i \in 1..m : i \in 1..(m + count) /\ i <= m
    BY ONLY <1>5, <1>7
  <2>3. \A i \in 1..count : m + i \in 1..(m + count) /\ ~(m + i <= m) /\ (m + i) - m = i
    BY ONLY <1>5, <1>7
  <2>4. \A i \in 1..m : consumed'[i] = consumed[i]
    BY ONLY <2>1, <2>2
  <2>5. \A i \in 1..count : consumed'[m + i] = chunk[i]
    BY ONLY <2>1, <2>3
  <2> QED BY ONLY <2>1, <2>4, <2>5
<1>9. \A i \in 1..(m + count) : i \in 1..m \/ \E j \in 1..count : i = m + j
  <2> SUFFICES ASSUME NEW i \in 1..(m + count), i \notin 1..m
               PROVE  \E j \in 1..count : i = m + j
    OBVIOUS
  <2>1. i - m \in 1..count /\ i = m + (i - m)
    BY ONLY <1>5, <1>7, i \in 1..(m + count), i \notin 1..m
  <2> QED BY <2>1
<1>10. TraceTypeOK'
  <2>1. read_idx' \in 0..write_idx'
    BY <1>1, <1>2, <1>3 DEF w
  <2>2. UNCHANGED <<initialized, ring, write_idx, span_seq, emit_fn, inflight, local, log, base,
                    emitted>>
    BY DEF Read
  <2>3. TraceTypeOK
    BY DEF TraceInv
  <2> QED BY ONLY <1>8, <2>1, <2>2, <2>3 DEF TraceTypeOK
<1>11. LogOnce' /\ OpenSound' /\ BeginSound' /\ EmitSound'
  <2>1. UNCHANGED <<write_idx, span_seq, inflight, local, log, base, emitted>>
    BY DEF Read
  <2>2. LogOnce /\ OpenSound /\ BeginSound /\ EmitSound
    BY DEF TraceInv
  <2>3. LogOnce'
    BY ONLY <2>1, <2>2 DEF LogOnce
  <2>4. OpenSound'
    BY ONLY <2>1, <2>2 DEF OpenSound, Stored
  <2>5. BeginSound'
    BY ONLY <2>1, <2>2 DEF BeginSound, Stored
  <2>6. EmitSound'
    BY ONLY <2>1, <2>2 DEF EmitSound, Stored
  <2> QED BY ONLY <2>3, <2>4, <2>5, <2>6
<1>12. RingHoldsNewest'
  <2>1. write_idx - read_idx' <= Capacity /\ read_idx'..(write_idx - 1) \subseteq r..(w - 1)
    BY <1>1, <1>2, <1>3, KernelTraceAssumption DEF w
  <2> QED BY <1>1, <1>3, <2>1 DEF TraceInv, Read, RingHoldsNewest, n, w, r
<1>13. \A i \in 1..m : \E k \in 1..(base + r) : log[k] = consumed[i]
  BY DEF TraceInv, ReadSound, m, r
<1>14. ReadInOrder'
  <2> SUFFICES ASSUME NEW i \in 1..Len(consumed'), NEW j \in 1..Len(consumed'), i < j
               PROVE  \E k, l \in 1..Len(log') :
                         k < l /\ log'[k] = consumed'[i] /\ log'[l] = consumed'[j]
    BY DEF ReadInOrder
  <2>a. i \in 1..(m + count) /\ j \in 1..(m + count)
    BY <1>8
  <2> SUFFICES \E k, l \in 1..n : k < l /\ log[k] = consumed'[i] /\ log[l] = consumed'[j]
    BY <1>3 DEF n
  <2>0. base \in Nat /\ r \in Nat /\ base + r <= n
    BY <1>1
  <2>1. CASE j \in 1..m
    <3>1. i \in 1..m
      BY ONLY <1>5, <1>7, <2>a, <2>1, i < j
    <3>2. \E k, l \in 1..n : k < l /\ log[k] = consumed[i] /\ log[l] = consumed[j]
      BY <2>1, <3>1 DEF TraceInv, ReadSound, ReadInOrder, n, m
    <3> QED BY <1>8, <2>1, <3>1, <3>2
  <2>2. CASE \E b \in 1..count : j = m + b
    <3>1. PICK b \in 1..count : j = m + b
      BY <2>2
    <3>2. consumed'[j] = log[base + r + b] /\ base + r + b \in 1..n
      BY <1>4, <1>8, <3>1
    <3>3. CASE i \in 1..m
      <4>1. PICK k \in 1..(base + r) : log[k] = consumed[i]
        BY <1>13, <3>3
      <4>2. k \in 1..n /\ k < base + r + b
        BY ONLY <1>4, <1>5, <2>0, <4>1, <1>1, b \in 1..count
      <4>3. log[k] = consumed'[i]
        BY <1>8, <3>3, <4>1
      <4> QED BY <3>2, <4>2, <4>3
    <3>4. CASE \E a \in 1..count : i = m + a
      <4>1. PICK a \in 1..count : i = m + a
        BY <3>4
      <4>2. consumed'[i] = log[base + r + a] /\ base + r + a \in 1..n
        BY <1>4, <1>8, <4>1
      <4>3. base + r + a < base + r + b
        BY ONLY <1>5, <1>7, <2>0, <3>1, <4>1, i < j
      <4> QED BY <3>2, <4>2, <4>3
    <3> QED BY <1>9, <2>a, <3>3, <3>4
  <2> QED BY <1>9, <2>a, <2>1, <2>2
<1>15. \A i \in 1..(m + count) : \E k \in 1..(base + (r + count)) : log[k] = consumed'[i]
  <2> SUFFICES ASSUME NEW i \in 1..(m + count)
               PROVE  \E k \in 1..(base + (r + count)) : log[k] = consumed'[i]
    OBVIOUS
  <2>0. base \in Nat /\ r \in Nat
    BY <1>1
  <2>1. CASE i \in 1..m
    <3>1. PICK k \in 1..(base + r) : log[k] = consumed[i]
      BY <1>13, <2>1
    <3>2. k \in 1..(base + (r + count))
      BY ONLY <1>5, <2>0, <3>1
    <3> QED BY <1>8, <2>1, <3>1, <3>2
  <2>2. CASE \E j \in 1..count : i = m + j
    <3>1. PICK j \in 1..count : i = m + j
      BY <2>2
    <3>2. consumed'[i] = log[base + r + j]
      BY <1>4, <1>8, <3>1
    <3>3. base + r + j \in 1..(base + (r + count))
      BY ONLY <1>5, <2>0, <3>1
    <3> QED BY <3>2, <3>3
  <2> QED BY <1>9, <2>1, <2>2
<1>16. ReadSound'
  BY <1>3, <1>8, <1>14, <1>15 DEF ReadSound
<1> QED BY <1>10, <1>11, <1>12, <1>16 DEF TraceInv

(* Tracing, under every boot and shutdown.                                    *)
LEMMA TraceStep == TraceInv /\ [BootNext]_kernel_vars => TraceInv'
<1> SUFFICES ASSUME TraceInv, [BootNext]_kernel_vars PROVE TraceInv'
  OBVIOUS
<1>1. ASSUME UNCHANGED trace_vars PROVE TraceInv'
  BY <1>1 DEF trace_vars, TraceInv, TraceTypeOK, LogOnce, RingHoldsNewest, OpenSound, BeginSound,
              EmitSound, ReadSound, ReadInOrder, Stored
<1>2. ASSUME NEW th \in Tracers, Trace(th) PROVE TraceInv'
  BY <1>2, SetEmitKeeps, BeginKeeps, OpenKeeps, EndKeeps, EmitKeeps, ReadKeeps DEF Trace
<1>3. ASSUME NEW th \in Tracers,
             \/ KernelInit(th) \/ InitRegistry(th) \/ InitTraceFails(th) \/ UndoRegistry(th)
             \/ InitFails(th) \/ KernelShutdown(th) \/ ShutdownRegistry(th) \/ ShutdownDone(th)
      PROVE  UNCHANGED trace_vars
  BY <1>3 DEF KernelInit, InitRegistry, InitTraceFails, UndoRegistry, InitFails, KernelShutdown,
              ShutdownRegistry, ShutdownDone
<1>4. ASSUME NEW th \in Tracers, InitTrace(th) PROVE TraceInv'
  BY <1>4, TraceInitKeeps DEF InitTrace
<1>5. ASSUME NEW th \in Tracers, ShutdownTrace(th) PROVE TraceInv'
  BY <1>5, TraceShutdownKeeps DEF ShutdownTrace
<1>6. UNCHANGED kernel_vars => UNCHANGED trace_vars
  BY DEF kernel_vars
<1> QED BY <1>1, <1>2, <1>3, <1>4, <1>5, <1>6 DEF BootNext

LEMMA TraceInvariant == BootSpec => []TraceInv
<1>1. BootInit => TraceInv
  BY TraceInvStart DEF BootInit
<1> QED BY <1>1, TraceStep, PTL DEF BootSpec

(* A span is in the log at most once, so that it is emitted at most once.     *)
LEMMA InvStoredOnce == TraceInv => StoredOnce
<1> SUFFICES ASSUME TraceInv PROVE StoredOnce
  OBVIOUS
<1> DEFINE Emitters(x) == {th \in Tracers : local[th].op = "emit" /\ local[th].span = x}
           Places(x) == {i \in 1..Len(log) : log[i] = x}
<1>1. ASSUME NEW x \in Spans
      PROVE  emitted[x] + Cardinality(Emitters(x)) <= Cardinality(Places(x))
  <2>0. emitted[x] \in Nat
    BY DEF TraceInv, TraceTypeOK
  <2>1. CASE x \notin Stored
    <3>1. Emitters(x) = {} /\ emitted[x] = 0
      BY <2>0, <2>1 DEF TraceInv, EmitSound
    <3>2. Places(x) = {}
      BY <2>1 DEF Stored
    <3> HIDE DEF Emitters, Places
    <3> QED BY <3>1, <3>2, FS_EmptySet
  <2>2. CASE x \in Stored
    <3>1. PICK i \in 1..Len(log) : log[i] = x
      BY <2>2 DEF Stored
    <3>2. Places(x) = {i}
      BY <3>1 DEF TraceInv, LogOnce
    <3>3. Emitters(x) = {} \/ \E th \in Tracers : Emitters(x) = {th} /\ emitted[x] = 0
      <4>1. \A a, b \in Emitters(x) : a = b /\ a \in Tracers /\ emitted[x] = 0
        BY DEF TraceInv, EmitSound
      <4> HIDE DEF Emitters
      <4> QED BY <4>1
    <3>4. emitted[x] = 0 \/ emitted[x] = 1
      BY <2>0 DEF TraceInv, EmitSound
    <3> HIDE DEF Emitters, Places
    <3>5. Cardinality(Places(x)) = 1
      BY <3>2, FS_Singleton
    <3>6. CASE Emitters(x) = {}
      <4>1. Cardinality(Emitters(x)) = 0
        BY <3>6, FS_EmptySet
      <4> QED BY ONLY <3>4, <3>5, <4>1
    <3>7. CASE \E th \in Tracers : Emitters(x) = {th} /\ emitted[x] = 0
      <4>1. Cardinality(Emitters(x)) = 1 /\ emitted[x] = 0
        BY <3>7, FS_Singleton
      <4> QED BY ONLY <3>5, <4>1
    <3> QED BY <3>3, <3>6, <3>7
  <2> QED BY <2>1, <2>2
<1> QED BY <1>1 DEF TraceInv, LogOnce, StoredOnce

(* TraceExact: through every boot and shutdown, also overtaken ones, the ring *)
(* of trace.c holds the newest spans, ify_trace_end() stores and emits a span *)
(* at most once, and ify_trace_read() returns spans in order.                 *)
THEOREM TracingIsExact == BootSpec => []TraceExact
<1>1. TraceInv /\ BootInv => TraceExact
  BY InvStoredOnce DEF TraceInv, BootInv, BootFlags, BootPhases, BootTypeOK, ReadSound, TraceExact
<1> QED BY <1>1, TraceInvariant, BootInvariant, PTL
================================================================================
