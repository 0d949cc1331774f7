------------------------------ MODULE KernelTimer ------------------------------
(***************************************************************************)
(* The one-shot timers of kernel-c/src/scheduler.c: a list sorted by       *)
(* deadline, shared by threads under sched->lock.  No thread waits for     *)
(* deadlines: ify_timer_once() fires, after inserting its own timer, every *)
(* timer that has expired, releasing the lock for each callback, and       *)
(* ify_timer_cancel() writes to the timer entry without the lock.          *)
(*                                                                         *)
(* A timer is its id; the list is the set of the pending ids, its order    *)
(* being the deadline and then the id (the insertion goes after the equal  *)
(* deadlines).  Time is a counter of ticks.                                *)
(***************************************************************************)
EXTENDS Integers, Sequences, FiniteSets

CONSTANTS
    TimerThreads,      (* the threads that use timers                         *)
    Delays,            (* the delays they ask for, in ticks                   *)
    MaxTimers,         (* bound on the number of timers                       *)
    MaxClock           (* bound on the clock                                  *)

ASSUME KernelTimerAssumption ==
    /\ IsFiniteSet(TimerThreads)
    /\ Delays \subseteq Nat
    /\ MaxTimers \in Nat
    /\ MaxClock \in Nat

VARIABLES
    clock,      (* ify_time_now_ns()                                          *)
    timer_seq,  (* sched->timer_seq                                           *)
    deadline,   (* timer_entry.deadline_ns                                    *)
    cancelled,  (* timer_entry.cancelled                                      *)
    list,       (* the timers in the list at sched->timer_head                *)
    fired,      (* the timers whose callback has been called                  *)
    asked,      (* the deadline a thread has computed and not yet inserted    *)
    timer_frames  (* per thread, the cur_ns of its firing loops               *)

timer_vars == <<clock, timer_seq, deadline, cancelled, list, fired, asked, timer_frames>>

Timers == 1..MaxTimers

None == -1

TimerTypeOK ==
    /\ clock \in 0..MaxClock
    /\ timer_seq \in 0..MaxTimers
    /\ deadline \in [Timers -> Nat]
    /\ cancelled \in [Timers -> BOOLEAN]
    /\ list \subseteq 1..timer_seq
    /\ fired \subseteq 1..timer_seq
    /\ asked \in [TimerThreads -> Nat \cup {None}]
    /\ timer_frames \in [TimerThreads -> Seq(0..MaxClock)]

-----------------------------------------------------------------------------
SortedBefore(a, b) ==
    \/ deadline'[a] < deadline'[b]
    \/ deadline'[a] = deadline'[b] /\ a < b

(* The loop that fires what has expired by cur, up to the next callback or to *)
(* its end: the cancelled timers it meets are freed, and the first other one  *)
(* is freed and its callback called with the lock released.                   *)
ExpiredOrCancelled(l, cur) == {x \in l : deadline'[x] <= cur}

Expired(l, cur) == {x \in l : deadline'[x] <= cur /\ ~cancelled[x]}

FireExpired(th, l, cur, stack) ==
    \/ \E x \in Expired(l, cur) :
          /\ \A y \in Expired(l, cur) \ {x} : SortedBefore(x, y)
          /\ list' = {y \in l : SortedBefore(x, y)}
          /\ fired' = fired \cup {x}
          /\ timer_frames' = [timer_frames EXCEPT ![th] = Append(stack, cur)]
    \/ /\ Expired(l, cur) = {}
       /\ list' = {y \in l : deadline'[y] > cur}
       /\ timer_frames' = [timer_frames EXCEPT ![th] = stack]
       /\ UNCHANGED fired

-----------------------------------------------------------------------------
TimerInit ==
    /\ clock = 0
    /\ timer_seq = 0
    /\ deadline = [x \in Timers |-> 0]
    /\ cancelled = [x \in Timers |-> FALSE]
    /\ list = {}
    /\ fired = {}
    /\ asked = [th \in TimerThreads |-> None]
    /\ timer_frames = [th \in TimerThreads |-> <<>>]

Tick ==
    /\ clock < MaxClock
    /\ clock' = clock + 1
    /\ UNCHANGED <<timer_seq, deadline, cancelled, list, fired, asked, timer_frames>>

(* ify_timer_once() computes the deadline before it takes the lock, ...       *)
TimerOnce(th, delay) ==
    /\ asked[th] = None
    /\ timer_seq + Cardinality({other \in TimerThreads : asked[other] # None}) < MaxTimers
    /\ asked' = [asked EXCEPT ![th] = clock + delay]
    /\ UNCHANGED <<clock, timer_seq, deadline, cancelled, list, fired, timer_frames>>

(* ... and then inserts the timer and fires.                                  *)
Insert(th) ==
    /\ asked[th] # None
    /\ timer_seq' = timer_seq + 1
    /\ deadline' = [deadline EXCEPT ![timer_seq + 1] = asked[th]]
    /\ asked' = [asked EXCEPT ![th] = None]
    /\ FireExpired(th, list \cup {timer_seq + 1}, clock, timer_frames[th])
    /\ UNCHANGED <<clock, cancelled>>

(* A callback returns, and the loop goes on with the time it had read.        *)
TimerReturn(th) ==
    /\ timer_frames[th] # <<>>
    /\ asked[th] = None
    /\ UNCHANGED deadline
    /\ LET n == Len(timer_frames[th]) IN
          FireExpired(th, list, timer_frames[th][n], SubSeq(timer_frames[th], 1, n - 1))
    /\ UNCHANGED <<clock, timer_seq, cancelled, asked>>

(* ify_timer_cancel() of a handle that ify_timer_once() returned, while its   *)
(* entry exists: on a later call the handle dangles, and what the write then  *)
(* hits is not modelled.                                                      *)
TimerCancel(x) ==
    /\ x \in list
    /\ cancelled' = [cancelled EXCEPT ![x] = TRUE]
    /\ UNCHANGED <<clock, timer_seq, deadline, list, fired, asked, timer_frames>>

TimerNext ==
    \/ Tick
    \/ \E th \in TimerThreads :
          \/ \E delay \in Delays : TimerOnce(th, delay)
          \/ Insert(th)
          \/ TimerReturn(th)
    \/ \E x \in Timers : TimerCancel(x)

TimerSpec == TimerInit /\ [][TimerNext]_timer_vars

-----------------------------------------------------------------------------
(* A timer never fires before its deadline, and one that is cancelled while   *)
(* it is in the list never fires, although the flag is set without the lock;  *)
(* and the loops of nested and concurrent calls, all popping the same list,   *)
(* fire a timer at most once, as one that has been fired is never in it.      *)
FiresOnceWhenDue ==
    [][/\ \A x \in fired' \ fired : deadline'[x] <= clock /\ ~cancelled[x]
       /\ list' \cap fired' = {}]_timer_vars

(* A call that ends leaves no timer behind that was due when it read the time. *)
CallFiresAllDue ==
    [][\A th \in TimerThreads :
         LET n == Len(timer_frames[th]) IN
         n > 0 /\ timer_frames'[th] = SubSeq(timer_frames[th], 1, n - 1)
           => \A y \in list' : deadline'[y] > timer_frames[th][n]]_timer_vars
================================================================================
