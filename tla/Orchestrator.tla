------------------------------ MODULE Orchestrator ------------------------------
(***************************************************************************)
(* The orchestrator, orchestrator.rs: a record of each task's events under *)
(* a lock, a channel to which every event is sent after the lock has been  *)
(* released, and an entry in the action log after that.  Calls of          *)
(* different threads overlap between these steps.                          *)
(*                                                                         *)
(* An event is its number and its kind; percentages, messages and errors   *)
(* are left out.  Calls that return an error change nothing and are left   *)
(* out too.                                                                *)
(***************************************************************************)
EXTENDS ActionLog

CONSTANTS
    Tasks,     (* the tasks of the orchestrator's dimension                  *)
    MaxEvents  (* bound on the number of events                              *)

ASSUME OrchestratorAssumption == MaxEvents \in Nat /\ IsFiniteSet(Threads)

VARIABLES
    history,   (* TaskRecord.history, empty for a task that is not recorded  *)
    terminal,  (* TaskRecord.terminal                                        *)
    sent,      (* what LocalOrchestrator.tx has been sent                    *)
    calls,     (* the step at which each thread is, and its event            *)
    kind,      (* the kind of each event, by number                          *)
    watched    (* what each client follows: a task's events, or the log      *)

orch_vars == <<history, terminal, sent, calls, kind, watched>>

vars == <<log_vars, orch_vars>>

Terminal == {"Completed", "Failed", "Cancelled"}

Kinds == {"Submitted", "Progress"} \cup Terminal

TheLog == "the log"

LogReaders == {f \in Followers : watched[f] = TheLog}

Idle == [op |-> "idle", event |-> 0]

Events == 1..Len(kind)

TypeOK ==
    /\ entries \in Seq(Events) /\ log_sent \in Seq(Events) /\ sent \in Seq(Events)
    /\ \A f \in Followers :
          /\ follower[f].stage \in {"new", "subscribed", "following"}
          /\ follower[f].seen \subseteq Events
          /\ follower[f].pos \in 0..Len(IF f \in LogReaders THEN log_sent ELSE sent)
          /\ follower[f].lagged \in BOOLEAN
    /\ history \in [Tasks -> Seq(Events)]
    /\ terminal \in [Tasks -> BOOLEAN]
    /\ calls \in [Threads -> [op : {"idle", "broadcast", "push", "send"}, event : 0..Len(kind)]]
    /\ kind \in Seq(Kinds \cup {"Replay"}) /\ Len(kind) <= MaxEvents
    /\ watched \in [Followers -> Tasks \cup {TheLog}]

Init ==
    /\ LogInit
    /\ history = [t \in Tasks |-> <<>>]
    /\ terminal = [t \in Tasks |-> FALSE]
    /\ sent = <<>>
    /\ calls = [th \in Threads |-> Idle]
    /\ kind = <<>>
    /\ watched \in [Followers -> Tasks \cup {TheLog}]

-----------------------------------------------------------------------------
(* A call begins with the event that it records, and goes on at `next`.       *)
Begin(th, k, next) ==
    /\ calls[th] = Idle
    /\ Len(kind) < MaxEvents
    /\ kind' = Append(kind, k)
    /\ calls' = [calls EXCEPT ![th] = [op |-> next, event |-> Len(kind) + 1]]
    /\ UNCHANGED <<entries, log_sent, sent, watched>>

(* submit() inserts a new record, in place of the one of an earlier submit(). *)
Submit(th, t) ==
    /\ Begin(th, "Submitted", "broadcast")
    /\ history' = [history EXCEPT ![t] = <<Len(kind) + 1>>]
    /\ terminal' = [terminal EXCEPT ![t] = FALSE]
    /\ UNCHANGED follower

(* record_event() and record_terminal() refuse an unknown and an ended task.  *)
IsRecorded(t) == history[t] # <<>>

IsActive(t) == history[t] # <<>> /\ ~terminal[t]

RecordEvent(th, t, k, ends) ==
    /\ IsActive(t)
    /\ Begin(th, k, "broadcast")
    /\ history' = [history EXCEPT ![t] = Append(@, Len(kind) + 1)]
    /\ terminal' = [terminal EXCEPT ![t] = @ \/ ends]
    /\ UNCHANGED follower

Progress(th, t) == RecordEvent(th, t, "Progress", FALSE)

Complete(th, t) == RecordEvent(th, t, "Completed", TRUE)

Fail(th, t) == RecordEvent(th, t, "Failed", TRUE)

Cancel(th, t) == RecordEvent(th, t, "Cancelled", TRUE)

(* replay(), called by a client that follows the events, reads the record and *)
(* logs that it did.                                                          *)
Replay(th, f) ==
    /\ IsRecorded(watched[f])
    /\ Begin(th, "Replay", "push")
    /\ CatchUp(f, SeqRange(history[watched[f]]))
    /\ UNCHANGED <<history, terminal>>

(* The rest of a call: broadcast(), whose errors are ignored, and append().   *)
BroadcastOrReturn(th) ==
    /\ calls[th].op = "broadcast"
    /\ sent' = Append(sent, calls[th].event)
    /\ calls' = [calls EXCEPT ![th] =
          IF \A f \in Followers \ LogReaders : follower[f].stage = "new"
          THEN Idle ELSE [@ EXCEPT !.op = "push"]]
    /\ UNCHANGED <<log_vars, history, terminal, kind, watched>>

Broadcast(th) ==
    /\ calls[th].op = "broadcast"
    /\ sent' = Append(sent, calls[th].event)
    /\ calls' = [calls EXCEPT ![th].op = "push"]
    /\ UNCHANGED <<log_vars, history, terminal, kind, watched>>

LogPush(th) ==
    /\ calls[th].op = "push"
    /\ Push(calls[th].event)
    /\ calls' = [calls EXCEPT ![th].op = "send"]
    /\ UNCHANGED <<log_sent, follower, history, terminal, sent, kind, watched>>

LogSend(th) ==
    /\ calls[th].op = "send"
    /\ Send(calls[th].event)
    /\ calls' = [calls EXCEPT ![th] = Idle]
    /\ UNCHANGED <<entries, follower, history, terminal, sent, kind, watched>>

FollowEvents(f) ==
    /\ Subscribe(f, sent) \/ Receive(f, sent)
    /\ UNCHANGED <<entries, log_sent, orch_vars>>

Next ==
    \/ \E th \in Threads :
          \/ \E t \in Tasks :
                \/ Submit(th, t)
                \/ Progress(th, t)
                \/ Complete(th, t)
                \/ Fail(th, t)
                \/ Cancel(th, t)
          \/ \E f \in Followers \ LogReaders : Replay(th, f)
          \/ Broadcast(th)
          \/ LogPush(th)
          \/ LogSend(th)
    \/ \E f \in LogReaders : FollowLog(f) /\ UNCHANGED orch_vars
    \/ \E f \in Followers \ LogReaders : FollowEvents(f)

Spec == Init /\ [][Next]_vars

-----------------------------------------------------------------------------
InCall(op) == {calls[th].event : th \in {x \in Threads : calls[x].op \in op}}

(* "After any terminal event (complete, fail, cancel), subsequent calls       *)
(* return an error rather than silently mutating state" (layer-interfaces.md: *)
(* 97): however complete(), fail() and cancel() race, a record has at most    *)
(* one outcome, it is the last of its events, and the flag tells.             *)
OneOutcome ==
    \A t \in Tasks :
       LET outcomes == {i \in 1..Len(history[t]) : kind[history[t][i]] \in Terminal} IN
          outcomes = IF terminal[t] THEN {Len(history[t])} ELSE {}

(* Nothing is lost between the record and the log: every event is in the log  *)
(* exactly once, or the call that recorded it has yet to append it, whatever  *)
(* calls overlap and whoever listens.                                         *)
LogComplete ==
    \A e \in Events :
       Cardinality({i \in 1..Len(entries) : entries[i] = e})
         = IF e \in InCall({"broadcast", "push"}) THEN 0 ELSE 1

(* The order of the log is that of the records but for calls that overlap:    *)
(* when an entry is pushed, fewer events that were recorded before it are     *)
(* missing than there are threads, because each is of a call under way.       *)
Overtaken(log, i) == {e \in 1..(log[i] - 1) : \A j \in 1..i : log[j] # e}

LogInOrder ==
    \A i \in 1..Len(entries) : Cardinality(Overtaken(entries, i)) < Cardinality(Threads)

(* "The receiver sees events emitted after this call. Use replay to access    *)
(* historical events." (orchestrator.rs:367-368, and action_log.rs:477 for    *)
(* the log): a client that subscribes and then reads the history misses       *)
(* nothing, although the history is written and the channel is sent to in     *)
(* different steps.  What it has not seen is in its channel or about to be    *)
(* sent, unless the client lags.                                              *)
FollowerMissesNothing ==
    \A f \in Followers : follower[f].stage = "following" =>
       \/ Lags(f, IF f \in LogReaders THEN log_sent ELSE sent)
       \/ /\ f \in LogReaders
          /\ AllEntries \subseteq InReach(f, log_sent) \cup InCall({"send"})
       \/ /\ f \notin LogReaders
          /\ SeqRange(history[watched[f]])
                \subseteq InReach(f, sent) \cup InCall({"broadcast"})

(* A task has one outcome; the log has every event once, an entry overtaking  *)
(* only those of calls that overlap its own; and whoever subscribes and then  *)
(* reads the history misses nothing (orchestrator.rs, action_log.rs).         *)
LogTellsAll ==
    TypeOK /\ OneOutcome /\ LogComplete /\ LogInOrder /\ FollowerMissesNothing
================================================================================
