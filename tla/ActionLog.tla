------------------------------- MODULE ActionLog -------------------------------
(***************************************************************************)
(* The append-only log of the controller crate, action_log.rs, and the     *)
(* broadcast channel that it shares with the orchestrator's events         *)
(* (tokio::sync::broadcast).  append() pushes the entry under the lock and *)
(* sends it to the channel after releasing the lock: two steps, between    *)
(* which other threads append, subscribe and read.                         *)
(*                                                                         *)
(* An entry is a number, given in the order in which the entries' events   *)
(* happened.  A channel is the sequence of everything sent to it; a        *)
(* receiver is a position in it, and has lagged once the position is more  *)
(* than the capacity behind.                                               *)
(***************************************************************************)
EXTENDS Integers, Sequences, FiniteSets

CONSTANTS
    Threads,   (* the threads that log                                       *)
    Followers, (* the clients that follow a channel                          *)
    Capacity   (* the capacity of the channels                               *)

ASSUME LogAssumption == Capacity \in Nat \ {0}

VARIABLES
    entries,   (* ActionLog.entries                                          *)
    log_sent,  (* what ActionLog.tx has been sent                            *)
    follower   (* what each client has received and where it is              *)

log_vars == <<entries, log_sent, follower>>

SeqRange(s) == {s[i] : i \in 1..Len(s)}

(* A client subscribes and then reads the history; from then on it receives.  *)
NoFollower == [stage |-> "new", pos |-> 0, seen |-> {}, lagged |-> FALSE]

LogInit ==
    /\ entries = <<>>
    /\ log_sent = <<>>
    /\ follower = [f \in Followers |-> NoFollower]

(* append(), its half under the lock and its half after it.                   *)
Push(e) == entries' = Append(entries, e)

Send(e) == log_sent' = Append(log_sent, e)

-----------------------------------------------------------------------------
(* subscribe(): the receiver starts at the end of the channel.                *)
Subscribe(f, channel) ==
    /\ follower[f].stage = "new"
    /\ follower' = [follower EXCEPT ![f].stage = "subscribed", ![f].pos = Len(channel)]

CatchUp(f, history) ==
    /\ follower[f].stage = "subscribed"
    /\ follower' = [follower EXCEPT ![f].stage = "following", ![f].seen = @ \cup history]

(* recv(): the oldest message the channel still has; one that is more than    *)
(* the capacity behind is told so and loses what has been overwritten.        *)
Receive(f, channel) ==
    LET behind == Len(channel) - follower[f].pos IN
    /\ follower[f].stage # "new"
    /\ behind > 0
    /\ follower' =
          IF behind > Capacity
          THEN [follower EXCEPT ![f].lagged = TRUE, ![f].pos = Len(channel) - Capacity]
          ELSE [follower EXCEPT ![f].seen = @ \cup {channel[follower[f].pos + 1]},
                                ![f].pos = @ + 1]

(* all_entries(), entries_for_task() and entries_for_dimension().             *)
AllButNewest == SeqRange(SubSeq(entries, 1, Len(entries) - 1))

AllEntries == SeqRange(entries)

FollowLog(f) ==
    /\ \/ Subscribe(f, log_sent)
       \/ CatchUp(f, AllEntries)
       \/ Receive(f, log_sent)
    /\ UNCHANGED <<entries, log_sent>>

Lags(f, channel) == follower[f].lagged \/ Len(channel) - follower[f].pos > Capacity

(* What f has seen or will see of a channel, if it does not lag.              *)
InReach(f, channel) ==
    follower[f].seen \cup SeqRange(SubSeq(channel, follower[f].pos + 1, Len(channel)))
================================================================================
