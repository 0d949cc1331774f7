---------------------------- MODULE PerformerProofs ----------------------------
(*****************************************************************************)
(* Proofs about the parts of the performer runtime that have no lock over a  *)
(* whole call: Orchestrator with the ActionLog it extends, for any threads,  *)
(* clients, tasks, channel capacity and number of events; and Executor, for  *)
(* any tasks, any calls of run_all() that overlap, any number of permits and *)
(* any depth of the queue.                                                   *)
(*****************************************************************************)
EXTENDS Orchestrator, Executor, FiniteSetTheorems, SequenceTheorems, TLAPS

(*****************************************************************************)
(* The orchestrator and its action log.                                      *)
(*****************************************************************************)

(* What a channel still has for a receiver at position p.                     *)
Rest(s, p) == {s[i] : i \in (p + 1)..Len(s)}

(* TypeOK names the fields of a follower; this says that there are no others. *)
FollowerType ==
    follower \in [Followers -> [stage : {"new", "subscribed", "following"}, pos : Nat,
                                seen : SUBSET Nat, lagged : BOOLEAN]]

(* A call under way has an event of its own, and the log holds each event     *)
(* that no call has yet to append, once.                                      *)
CallsSound ==
    /\ \A a \in Threads : calls[a].op # "idle" => calls[a].event # 0
    /\ \A a, b \in Threads :
          a # b /\ calls[a].op # "idle" /\ calls[b].op # "idle"
            => calls[a].event # calls[b].event
    /\ \A i, j \in 1..Len(entries) : entries[i] = entries[j] => i = j
    /\ SeqRange(entries) = Events \ InCall({"broadcast", "push"})

(* The inductive invariant.                                                   *)
LogInv == TypeOK /\ FollowerType /\ CallsSound /\ OneOutcome /\ FollowerMissesNothing

-----------------------------------------------------------------------------
(* What a receiver reaches by reading its channel to the end.                 *)
LEMMA RestRange ==
  ASSUME NEW S, NEW s \in Seq(S), NEW p \in 0..Len(s)
  PROVE  SeqRange(SubSeq(s, p + 1, Len(s))) = Rest(s, p)
  <1> DEFINE r == SubSeq(s, p + 1, Len(s))
  <1>1. p \in Nat /\ Len(s) \in Nat /\ p <= Len(s)
    OBVIOUS
  <1>2. p + 1 \in Int /\ Len(s) \in Int /\ \A i \in (p + 1)..Len(s) : s[i] \in S
    BY <1>1
  <1>3. /\ Len(r) = IF p + 1 <= Len(s) THEN Len(s) - (p + 1) + 1 ELSE 0
        /\ \A i \in 1..(Len(s) - (p + 1) + 1) : r[i] = s[(p + 1) + i - 1]
    BY <1>2, SubSeqProperties
  <1> HIDE DEF r
  <1>4. /\ Len(r) = Len(s) - p
        /\ \A i \in 1..(Len(s) - p) : r[i] = s[p + i]
    BY <1>1, <1>3
  <1>5. \A i \in (p + 1)..Len(s) : i - p \in 1..Len(r) /\ r[i - p] = s[i]
    BY <1>1, <1>4
  <1>6. \A i \in 1..Len(r) : p + i \in (p + 1)..Len(s) /\ r[i] = s[p + i]
    BY <1>1, <1>4
  <1>7. SeqRange(r) = Rest(s, p)
    <2>1. ASSUME NEW x \in SeqRange(r) PROVE x \in Rest(s, p)
      <3>1. PICK i \in 1..Len(r) : x = r[i]
        BY <2>1 DEF SeqRange
      <3> QED BY <1>6, <3>1 DEF Rest
    <2>2. ASSUME NEW x \in Rest(s, p) PROVE x \in SeqRange(r)
      <3>1. PICK i \in (p + 1)..Len(s) : x = s[i]
        BY <2>2 DEF Rest
      <3>2. i - p \in 1..Len(r) /\ x = r[i - p]
        BY <1>5, <3>1
      <3> QED BY <3>2 DEF SeqRange
    <2> QED BY <2>1, <2>2
  <1> QED BY <1>7 DEF r

(* Sending adds to what every receiver of the channel reaches.                *)
LEMMA SendRest ==
  ASSUME NEW S, NEW s \in Seq(S), NEW p \in 0..Len(s), NEW x \in S
  PROVE  /\ Append(s, x) \in Seq(S) /\ Len(Append(s, x)) = Len(s) + 1
         /\ p \in 0..Len(Append(s, x))
         /\ Rest(Append(s, x), p) = Rest(s, p) \cup {x}
         /\ SeqRange(Append(s, x)) = SeqRange(s) \cup {x}
  <1>1. /\ Append(s, x) \in Seq(S) /\ Len(Append(s, x)) = Len(s) + 1
        /\ \A i \in 1..Len(s) : Append(s, x)[i] = s[i]
        /\ Append(s, x)[Len(s) + 1] = x
    OBVIOUS
  <1>2. Len(s) \in Nat /\ p \in Nat /\ p <= Len(s)
    OBVIOUS
  <1> DEFINE r == Append(s, x)
  <1> HIDE DEF r
  <1>3. Rest(r, p) = Rest(s, p) \cup {x}
    BY <1>1, <1>2 DEF Rest, r
  <1>4. SeqRange(r) = SeqRange(s) \cup {x}
    BY <1>1, <1>2 DEF SeqRange, r
  <1> QED BY <1>1, <1>2, <1>3, <1>4 DEF r

(* Receiving takes the oldest message.                                        *)
LEMMA ReceiveRest ==
  ASSUME NEW S, NEW s \in Seq(S), NEW p \in 0..Len(s), p < Len(s)
  PROVE  /\ p + 1 \in 0..Len(s) /\ s[p + 1] \in S
         /\ Rest(s, p) = Rest(s, p + 1) \cup {s[p + 1]}
  BY DEF Rest

(* Events are only added, so that sequences of events stay such.              *)
LEMMA EventsGrow ==
  ASSUME NEW m \in Nat, NEW n \in Nat, m <= n
  PROVE  Seq(1..m) \subseteq Seq(1..n)
  <1>1. 1..m \subseteq 1..n
    OBVIOUS
  <1> QED BY <1>1, SeqMonotonic

-----------------------------------------------------------------------------
(* The channel that a client follows.                                         *)
Channel(f) == IF f \in LogReaders THEN log_sent ELSE sent

(* The types as the proofs use them.                                          *)
LEMMA Types ==
  ASSUME TypeOK, FollowerType
  PROVE  /\ Len(kind) \in Nat /\ Events = 1..Len(kind)
         /\ \A f \in Followers : /\ Channel(f) \in Seq(Events)
                                 /\ follower[f].pos \in 0..Len(Channel(f))
                                 /\ InReach(f, Channel(f)) = follower[f].seen \cup Rest(Channel(f), follower[f].pos)
  <1>1. Len(kind) \in Nat
    BY DEF TypeOK
  <1>2. ASSUME NEW f \in Followers
        PROVE  /\ Channel(f) \in Seq(Events)
               /\ follower[f].pos \in 0..Len(Channel(f))
    BY DEF TypeOK, Channel
  <1>3. ASSUME NEW f \in Followers
        PROVE  InReach(f, Channel(f)) = follower[f].seen \cup Rest(Channel(f), follower[f].pos)
    BY <1>2, RestRange DEF InReach
  <1> QED BY <1>1, <1>2, <1>3 DEF Events

(* No event has happened and no call is under way at first.                   *)
LEMMA LogInvInit == Init => LogInv
  <1> SUFFICES ASSUME Init PROVE LogInv
    OBVIOUS
  <1>1. Len(kind) = 0 /\ Events = {} /\ entries = <<>> /\ log_sent = <<>> /\ sent = <<>>
    BY DEF Init, LogInit, Events
  <1>2. \A f \in Followers : follower[f] = NoFollower
    BY DEF Init, LogInit
  <1>3. TypeOK
    <2>1. /\ entries \in Seq(Events) /\ log_sent \in Seq(Events) /\ sent \in Seq(Events)
          /\ history \in [Tasks -> Seq(Events)] /\ terminal \in [Tasks -> BOOLEAN]
          /\ kind \in Seq(Kinds \cup {"Replay"}) /\ Len(kind) <= MaxEvents
      BY <1>1, OrchestratorAssumption DEF Init
    <2>2. calls \in [Threads -> [op : {"idle", "broadcast", "push", "send"}, event : 0..Len(kind)]]
      BY <1>1 DEF Init, Idle
    <2>3. \A f \in Followers :
             /\ follower[f].stage \in {"new", "subscribed", "following"}
             /\ follower[f].seen \subseteq Events
             /\ follower[f].pos \in 0..Len(IF f \in LogReaders THEN log_sent ELSE sent)
             /\ follower[f].lagged \in BOOLEAN
      <3>1. Len(log_sent) = 0 /\ Len(sent) = 0
        BY <1>1
      <3>2. ASSUME NEW f \in Followers
            PROVE  Len(IF f \in LogReaders THEN log_sent ELSE sent) = 0
        BY <3>1
      <3>3. 0 \in 0..0
        OBVIOUS
      <3>4. \A f \in Followers : /\ follower[f].stage = "new" /\ follower[f].seen = {}
                                /\ follower[f].pos = 0 /\ follower[f].lagged = FALSE
        BY <1>2 DEF NoFollower
      <3> QED BY <3>2, <3>3, <3>4
    <2> QED BY <2>1, <2>2, <2>3 DEF TypeOK, Init
  <1>4. FollowerType
    BY DEF FollowerType, Init, LogInit, NoFollower
  <1>5. CallsSound
    BY <1>1 DEF CallsSound, Init, Idle, InCall, SeqRange
  <1>6. OneOutcome
    BY DEF OneOutcome, Init
  <1>7. FollowerMissesNothing
    BY <1>2 DEF FollowerMissesNothing, NoFollower
  <1> QED BY <1>3, <1>4, <1>5, <1>6, <1>7 DEF LogInv

-----------------------------------------------------------------------------
(* A call begins: its event is new, no other call has it, and the log does    *)
(* not.                                                                       *)
LEMMA BeginCalls ==
  ASSUME LogInv, NEW th \in Threads, NEW k, NEW next \in {"broadcast", "push"},
         Begin(th, k, next)
  PROVE  /\ CallsSound'
         /\ Events' = Events \cup {Len(kind) + 1} /\ Len(kind') = Len(kind) + 1
         /\ Len(kind) + 1 \notin Events
         /\ \A e \in Events : kind'[e] = kind[e]
         /\ kind'[Len(kind) + 1] = k
         /\ calls' \in [Threads -> [op : {"idle", "broadcast", "push", "send"}, event : 0..Len(kind')]]
         /\ \A op \in {"broadcast", "push", "send"} :
               InCall({op})' = InCall({op}) \cup (IF op = next THEN {Len(kind) + 1} ELSE {})
  <1> DEFINE new == Len(kind) + 1
  <1>0. TypeOK /\ CallsSound
    BY DEF LogInv
  <1>1. /\ kind \in Seq(Kinds \cup {"Replay"}) /\ Len(kind) \in Nat /\ kind' = Append(kind, k)
        /\ calls \in [Threads -> [op : {"idle", "broadcast", "push", "send"}, event : 0..Len(kind)]]
        /\ calls[th] = Idle /\ entries' = entries
        /\ calls' = [calls EXCEPT ![th] = [op |-> next, event |-> new]]
    BY <1>0 DEF TypeOK, Begin
  <1>2. /\ Len(kind') = new /\ kind'[new] = k
        /\ \A e \in 1..Len(kind) : kind'[e] = kind[e]
    BY <1>1
  <1>3. Events' = Events \cup {new} /\ new \notin Events /\ Events = 1..Len(kind)
    BY <1>1, <1>2 DEF Events
  <1>4. /\ calls'[th] = [op |-> next, event |-> new]
        /\ \A a \in Threads \ {th} : calls'[a] = calls[a]
        /\ \A a \in Threads : calls[a].event \in 0..Len(kind) /\ calls[a].event # new
    BY <1>1
  <1>5. calls' \in [Threads -> [op : {"idle", "broadcast", "push", "send"}, event : 0..Len(kind')]]
    BY <1>1, <1>2
  <1>6. \A ops \in SUBSET {"broadcast", "push", "send"} :
           InCall(ops)' = InCall(ops) \cup (IF next \in ops THEN {new} ELSE {})
    BY <1>1, <1>4 DEF InCall, Idle
  <1>7. CallsSound'
    <2>1. \A a \in Threads : calls'[a].op # "idle" => calls'[a].event # 0
      BY <1>0, <1>1, <1>4 DEF CallsSound
    <2>2. \A a, b \in Threads :
             a # b /\ calls'[a].op # "idle" /\ calls'[b].op # "idle"
               => calls'[a].event # calls'[b].event
      BY <1>0, <1>4 DEF CallsSound
    <2>3. InCall({"broadcast", "push"})' = InCall({"broadcast", "push"}) \cup {new}
      BY <1>6
    <2>4. SeqRange(entries)' = SeqRange(entries)
      BY <1>1 DEF SeqRange
    <2>5. SeqRange(entries) = Events \ InCall({"broadcast", "push"})
      BY <1>0 DEF CallsSound
    <2>6. SeqRange(entries)' = Events' \ InCall({"broadcast", "push"})'
      BY <1>3, <2>3, <2>4, <2>5
    <2> QED BY <1>0, <1>1, <2>1, <2>2, <2>6 DEF CallsSound
  <1> QED BY <1>1, <1>2, <1>3, <1>5, <1>6, <1>7

(* What a step that begins a call leaves of the types: it records the event   *)
(* in the history of some task, and may let a client catch up.                *)
LEMMA BeginTypes ==
  ASSUME LogInv, NEW th \in Threads, NEW k \in Kinds \cup {"Replay"},
         NEW next \in {"broadcast", "push"}, Begin(th, k, next),
         history' \in [Tasks -> Seq(Events')], terminal' \in [Tasks -> BOOLEAN],
         FollowerType',
         \A f \in Followers : /\ follower'[f].pos = follower[f].pos
                              /\ follower'[f].seen \subseteq Events'
  PROVE  TypeOK'
  <1>0. TypeOK /\ FollowerType
    BY DEF LogInv
  <1>1. /\ Events' = Events \cup {Len(kind) + 1} /\ Len(kind') = Len(kind) + 1
        /\ calls' \in [Threads -> [op : {"idle", "broadcast", "push", "send"}, event : 0..Len(kind')]]
    BY BeginCalls
  <1>2. /\ entries' = entries /\ log_sent' = log_sent /\ sent' = sent /\ watched' = watched
        /\ kind' = Append(kind, k) /\ Len(kind) < MaxEvents
    BY DEF Begin
  <1>3. kind' \in Seq(Kinds \cup {"Replay"}) /\ Len(kind') <= MaxEvents
    BY <1>0, <1>1, <1>2, OrchestratorAssumption DEF TypeOK
  <1>4. Seq(Events) \subseteq Seq(Events')
    BY <1>1, SeqMonotonic
  <1>5. entries' \in Seq(Events') /\ log_sent' \in Seq(Events') /\ sent' \in Seq(Events')
    BY <1>0, <1>2, <1>4 DEF TypeOK
  <1>6. LogReaders' = LogReaders
    BY <1>2 DEF LogReaders
  <1>7. \A f \in Followers :
           /\ follower'[f].stage \in {"new", "subscribed", "following"}
           /\ follower'[f].pos \in 0..Len(IF f \in LogReaders' THEN log_sent' ELSE sent')
           /\ follower'[f].lagged \in BOOLEAN
    BY <1>0, <1>2, <1>6 DEF TypeOK, FollowerType
  <1> QED BY <1>0, <1>1, <1>2, <1>3, <1>5, <1>7 DEF TypeOK

(* A record that gains an event, or is replaced by one with its first event,  *)
(* keeps one outcome.                                                         *)
LEMMA RecordOutcome ==
  ASSUME TypeOK, OneOutcome, NEW k, kind' = Append(kind, k), NEW t \in Tasks,
         \/ /\ history' = [history EXCEPT ![t] = <<Len(kind) + 1>>]
            /\ terminal' = [terminal EXCEPT ![t] = FALSE]
            /\ k \notin Terminal
         \/ /\ IsActive(t)
            /\ history' = [history EXCEPT ![t] = Append(@, Len(kind) + 1)]
            /\ terminal' = [terminal EXCEPT ![t] = @ \/ k \in Terminal]
  PROVE  OneOutcome' /\ history' \in [Tasks -> Seq(1..(Len(kind) + 1))]
         /\ terminal' \in [Tasks -> BOOLEAN]
  <1> DEFINE new == Len(kind) + 1
  <1>1. /\ Len(kind) \in Nat /\ kind'[new] = k /\ Len(kind') = new
        /\ \A e \in 1..Len(kind) : kind'[e] = kind[e]
        /\ history \in [Tasks -> Seq(1..Len(kind))] /\ terminal \in [Tasks -> BOOLEAN]
    BY DEF TypeOK, Events
  <1>2. \A u \in Tasks \ {t} : history'[u] = history[u] /\ terminal'[u] = terminal[u]
    BY <1>1
  <1>3. Seq(1..Len(kind)) \subseteq Seq(1..new)
    BY <1>1, EventsGrow
  <1>4. \A u \in Tasks \ {t} : \A i \in 1..Len(history[u]) : kind'[history[u][i]] = kind[history[u][i]]
    BY <1>1
  <1>5. ASSUME NEW u \in Tasks \ {t}
        PROVE  {i \in 1..Len(history'[u]) : kind'[history'[u][i]] \in Terminal}
                 = IF terminal'[u] THEN {Len(history'[u])} ELSE {}
    <2>1. history'[u] = history[u] /\ terminal'[u] = terminal[u]
      BY <1>2
    <2>2. {i \in 1..Len(history'[u]) : kind'[history'[u][i]] \in Terminal}
            = {i \in 1..Len(history[u]) : kind[history[u][i]] \in Terminal}
      BY <1>4, <2>1
    <2>3. {i \in 1..Len(history[u]) : kind[history[u][i]] \in Terminal}
            = IF terminal[u] THEN {Len(history[u])} ELSE {}
      BY DEF OneOutcome
    <2> QED BY <2>1, <2>2, <2>3
  <1>6. /\ {i \in 1..Len(history'[t]) : kind'[history'[t][i]] \in Terminal}
             = IF terminal'[t] THEN {Len(history'[t])} ELSE {}
        /\ history'[t] \in Seq(1..new) /\ terminal'[t] \in BOOLEAN
    <2>1. CASE /\ history' = [history EXCEPT ![t] = <<new>>]
               /\ terminal' = [terminal EXCEPT ![t] = FALSE]
               /\ k \notin Terminal
      <3>1. history'[t] = <<new>> /\ terminal'[t] = FALSE
        BY <1>1, <2>1
      <3> QED BY <1>1, <2>1, <3>1
    <2>2. CASE /\ IsActive(t)
               /\ history' = [history EXCEPT ![t] = Append(@, new)]
               /\ terminal' = [terminal EXCEPT ![t] = @ \/ k \in Terminal]
      <3> DEFINE h == history[t]
      <3>1. /\ h \in Seq(1..Len(kind)) /\ history'[t] = Append(h, new)
            /\ terminal'[t] = (k \in Terminal) /\ ~terminal[t]
        BY <1>1, <2>2 DEF IsActive
      <3>2. {i \in 1..Len(h) : kind[h[i]] \in Terminal} = {}
        BY <3>1 DEF OneOutcome
      <3> HIDE DEF h
      <3>3. /\ Len(Append(h, new)) = Len(h) + 1 /\ Append(h, new)[Len(h) + 1] = new
            /\ \A i \in 1..Len(h) : Append(h, new)[i] = h[i] /\ h[i] \in 1..Len(kind)
            /\ Len(h) \in Nat
        BY <3>1
      <3>4. \A i \in 1..Len(h) : kind'[Append(h, new)[i]] \notin Terminal
        BY <1>1, <3>2, <3>3
      <3>5. Append(h, new) \in Seq(1..new)
        <4>1. h \in Seq(1..new) /\ new \in 1..new
          BY <1>1, <1>3, <3>1
        <4> QED BY <4>1
      <3>6. \A i \in 1..(Len(h) + 1) : kind'[Append(h, new)[i]] \in Terminal <=> i = Len(h) + 1 /\ k \in Terminal
        BY <1>1, <3>3, <3>4
      <3>7. {i \in 1..Len(history'[t]) : kind'[history'[t][i]] \in Terminal}
               = IF terminal'[t] THEN {Len(history'[t])} ELSE {}
        <4>1. Len(history'[t]) = Len(h) + 1
          BY <3>1, <3>3
        <4>2. CASE k \in Terminal
          <5>1. {i \in 1..(Len(h) + 1) : kind'[Append(h, new)[i]] \in Terminal} = {Len(h) + 1}
            BY <3>3, <3>6, <4>2
          <5> QED BY <3>1, <4>1, <4>2, <5>1
        <4>3. CASE k \notin Terminal
          <5>1. {i \in 1..(Len(h) + 1) : kind'[Append(h, new)[i]] \in Terminal} = {}
            BY <3>3, <3>6, <4>3
          <5> QED BY <3>1, <4>1, <4>3, <5>1
        <4> QED BY <4>2, <4>3
      <3> QED BY <3>1, <3>5, <3>7
    <2> QED BY <2>1, <2>2
  <1>7. OneOutcome'
    BY <1>5, <1>6 DEF OneOutcome
  <1>8. history' \in [Tasks -> Seq(1..new)] /\ terminal' \in [Tasks -> BOOLEAN]
    BY <1>1, <1>2, <1>3, <1>6
  <1> QED BY <1>7, <1>8

-----------------------------------------------------------------------------
(* What a client that follows must be told of, what the calls under way are   *)
(* still going to send it, and that it has or will get it, unless it lags.    *)
Owed(f) == IF f \in LogReaders THEN SeqRange(entries) ELSE SeqRange(history[watched[f]])

Due(f) == IF f \in LogReaders THEN InCall({"send"}) ELSE InCall({"broadcast"})

Told(f) ==
    \/ Lags(f, Channel(f))
    \/ Owed(f) \subseteq follower[f].seen \cup Rest(Channel(f), follower[f].pos) \cup Due(f)

AllTold == \A f \in Followers : follower[f].stage = "following" => Told(f)

(* That nobody misses anything, client by client.                             *)
LEMMA ToldIff == TypeOK /\ FollowerType => (FollowerMissesNothing <=> AllTold)
  <1> SUFFICES ASSUME TypeOK, FollowerType PROVE FollowerMissesNothing <=> AllTold
    OBVIOUS
  <1>1. \A f \in Followers :
          InReach(f, Channel(f)) = follower[f].seen \cup Rest(Channel(f), follower[f].pos)
    BY Types
  <1>2. ASSUME NEW f \in Followers
        PROVE  (\/ Lags(f, IF f \in LogReaders THEN log_sent ELSE sent)
                \/ /\ f \in LogReaders
                   /\ AllEntries \subseteq InReach(f, log_sent) \cup InCall({"send"})
                \/ /\ f \notin LogReaders
                   /\ SeqRange(history[watched[f]])
                         \subseteq InReach(f, sent) \cup InCall({"broadcast"}))
               <=> Told(f)
    <2>1. CASE f \in LogReaders
      BY <1>1, <2>1 DEF Told, Owed, Due, Channel, AllEntries
    <2>2. CASE f \notin LogReaders
      BY <1>1, <2>2 DEF Told, Owed, Due, Channel
    <2> QED BY <2>1, <2>2
  <1> QED BY <1>2 DEF FollowerMissesNothing, AllTold

(* The same of the state after a step.                                        *)
LEMMA ToldIffNext == TypeOK' /\ FollowerType' => (FollowerMissesNothing' <=> AllTold')
  BY ToldIff, PTL

(* A step that begins a call, and with it records the new event for some task *)
(* or lets one client catch up, keeps the invariant.                          *)
LEMMA RecordKeeps ==
  ASSUME LogInv, NEW th \in Threads, NEW k \in Kinds, Begin(th, k, "broadcast"),
         NEW t \in Tasks, UNCHANGED follower,
         \/ /\ history' = [history EXCEPT ![t] = <<Len(kind) + 1>>]
            /\ terminal' = [terminal EXCEPT ![t] = FALSE]
            /\ k \notin Terminal
         \/ /\ IsActive(t)
            /\ history' = [history EXCEPT ![t] = Append(@, Len(kind) + 1)]
            /\ terminal' = [terminal EXCEPT ![t] = @ \/ k \in Terminal]
  PROVE  LogInv'
  <1> DEFINE new == Len(kind) + 1
  <1>0. TypeOK /\ FollowerType /\ CallsSound /\ OneOutcome /\ FollowerMissesNothing
    BY DEF LogInv
  <1>1. /\ CallsSound' /\ Events' = Events \cup {new} /\ Len(kind') = new
        /\ InCall({"broadcast"})' = InCall({"broadcast"}) \cup {new}
        /\ InCall({"send"})' = InCall({"send"})
    BY BeginCalls
  <1>2. /\ entries' = entries /\ log_sent' = log_sent /\ sent' = sent /\ watched' = watched
        /\ kind' = Append(kind, k) /\ follower' = follower
    BY DEF Begin
  <1>3. /\ OneOutcome' /\ history' \in [Tasks -> Seq(Events')]
        /\ terminal' \in [Tasks -> BOOLEAN]
    <2>1. Events' = 1..new
      BY <1>1 DEF Events
    <2> QED BY <1>0, <1>2, <2>1, RecordOutcome
  <1>4. FollowerType'
    BY <1>0, <1>2 DEF FollowerType
  <1>5. TypeOK'
    <2>1. \A f \in Followers : follower'[f].pos = follower[f].pos /\ follower'[f].seen \subseteq Events'
      BY <1>0, <1>1, <1>2 DEF TypeOK
    <2> QED BY <1>3, <1>4, <2>1, BeginTypes
  <1>6. ASSUME NEW f \in Followers, follower'[f].stage = "following"
        PROVE  Told(f)'
    <2>1. /\ Channel(f)' = Channel(f) /\ LogReaders' = LogReaders
          /\ Lags(f, Channel(f))' = Lags(f, Channel(f))
          /\ Rest(Channel(f), follower[f].pos)' = Rest(Channel(f), follower[f].pos)
      BY <1>2 DEF Channel, LogReaders, Lags, Rest
    <2>2. Told(f)
      BY <1>0, <1>2, <1>6, ToldIff DEF AllTold
    <2>3. CASE f \in LogReaders
      BY <1>1, <1>2, <2>1, <2>2, <2>3 DEF Told, Owed, Due, SeqRange
    <2>4. CASE f \notin LogReaders
      <3>1. watched[f] \in Tasks
        BY <1>0, <2>4 DEF TypeOK, LogReaders
      <3>2. SeqRange(history'[watched[f]]) \subseteq SeqRange(history[watched[f]]) \cup {new}
        <4>1. history \in [Tasks -> Seq(Events)] /\ Len(kind) \in Nat
          BY <1>0 DEF TypeOK
        <4>2. \/ history'[watched[f]] = history[watched[f]]
              \/ history'[watched[f]] = <<new>>
              \/ history'[watched[f]] = Append(history[watched[f]], new)
          BY <3>1, <4>1
        <4>3. history[watched[f]] \in Seq(Nat) /\ new \in Nat /\ 0 \in 0..Len(history[watched[f]])
          BY <3>1, <4>1 DEF Events
        <4>4. SeqRange(Append(history[watched[f]], new)) = SeqRange(history[watched[f]]) \cup {new}
          BY <4>3, SendRest
        <4>5. SeqRange(<<new>>) = {new}
          BY DEF SeqRange
        <4> QED BY <4>2, <4>4, <4>5
      <3>3. /\ Owed(f)' = SeqRange(history'[watched[f]]) /\ Owed(f) = SeqRange(history[watched[f]])
            /\ Due(f)' = Due(f) \cup {new}
        BY <1>1, <1>2, <2>1, <2>4 DEF Owed, Due, SeqRange
      <3> QED BY <1>2, <2>1, <2>2, <3>2, <3>3 DEF Told
    <2> QED BY <2>3, <2>4
  <1>7. FollowerMissesNothing'
    <2>1. AllTold'
      BY <1>6 DEF AllTold
    <2> QED BY <1>4, <1>5, <2>1, ToldIffNext
  <1> QED BY <1>1, <1>3, <1>4, <1>5, <1>7 DEF LogInv

(* What a client does by itself: subscribe, read the history or receive.  It  *)
(* stays within its channel, sees events only, and from the moment that it    *)
(* has read the history, misses none of it.                                   *)
LEMMA FollowerStep ==
  ASSUME LogInv, NEW f \in Followers,
         Subscribe(f, Channel(f)) \/ Receive(f, Channel(f)) \/ CatchUp(f, Owed(f))
  PROVE  /\ FollowerType'
         /\ \A g \in Followers :
               /\ follower'[g].pos \in 0..Len(Channel(g)) /\ follower'[g].seen \subseteq Events
               /\ follower'[g].stage = "following" =>
                    \/ follower'[g].lagged \/ Len(Channel(g)) - follower'[g].pos > Capacity
                    \/ Owed(g) \subseteq follower'[g].seen
                                   \cup Rest(Channel(g), follower'[g].pos) \cup Due(g)
  <1>0. TypeOK /\ FollowerType /\ AllTold
    BY ToldIff DEF LogInv
  <1>1. /\ Channel(f) \in Seq(Events) /\ follower[f].pos \in 0..Len(Channel(f))
        /\ Len(Channel(f)) \in Nat /\ Events \subseteq Nat
        /\ \A g \in Followers : follower[g].pos \in 0..Len(Channel(g)) /\ follower[g].seen \subseteq Events
    BY <1>0, Types DEF TypeOK
  <1>2. Owed(f) \subseteq Events
    <2>1. CASE f \in LogReaders
      BY <1>0, <2>1 DEF Owed, TypeOK, SeqRange
    <2>2. CASE f \notin LogReaders
      <3>1. history[watched[f]] \in Seq(Events)
        BY <1>0, <2>2 DEF TypeOK, LogReaders
      <3> QED BY <2>2, <3>1 DEF Owed, SeqRange
    <2> QED BY <2>1, <2>2
  <1>3. SUFFICES /\ FollowerType'
                 /\ \A g \in Followers \ {f} : follower'[g] = follower[g]
                 /\ follower'[f].pos \in 0..Len(Channel(f)) /\ follower'[f].seen \subseteq Events
                 /\ follower'[f].stage = "following" =>
                      \/ follower'[f].lagged \/ Len(Channel(f)) - follower'[f].pos > Capacity
                      \/ Owed(f) \subseteq follower'[f].seen
                                     \cup Rest(Channel(f), follower'[f].pos) \cup Due(f)
    BY <1>0, <1>1 DEF AllTold, Told, Lags
  <1>4. CASE Subscribe(f, Channel(f))
    <2>1. follower' = [follower EXCEPT ![f].stage = "subscribed", ![f].pos = Len(Channel(f))]
      BY <1>4 DEF Subscribe
    <2>2. /\ FollowerType' /\ \A g \in Followers \ {f} : follower'[g] = follower[g]
          /\ follower'[f].stage = "subscribed" /\ follower'[f].pos = Len(Channel(f))
          /\ follower'[f].seen = follower[f].seen
      BY <1>0, <1>1, <2>1 DEF FollowerType
    <2> QED BY <1>1, <2>2
  <1>5. CASE CatchUp(f, Owed(f))
    <2>1. follower' = [follower EXCEPT ![f].stage = "following", ![f].seen = @ \cup Owed(f)]
      BY <1>5 DEF CatchUp
    <2>2. /\ FollowerType' /\ \A g \in Followers \ {f} : follower'[g] = follower[g]
          /\ follower'[f].pos = follower[f].pos
          /\ follower'[f].seen = follower[f].seen \cup Owed(f)
      BY <1>0, <1>1, <1>2, <2>1 DEF FollowerType
    <2> QED BY <1>1, <1>2, <2>2
  <1>6. CASE Receive(f, Channel(f))
    <2> DEFINE ch == Channel(f)
               p == follower[f].pos
    <2>1. p \in Nat /\ p < Len(ch)
      BY <1>1, <1>6 DEF Receive
    <2>2. CASE Len(ch) - p > Capacity
      <3>1. follower' = [follower EXCEPT ![f].lagged = TRUE, ![f].pos = Len(ch) - Capacity]
        BY <1>6, <2>2 DEF Receive
      <3>2. Len(ch) - Capacity \in 0..Len(ch)
        BY <1>1, <2>1, <2>2, LogAssumption
      <3> DEFINE n == Len(ch) - Capacity
      <3>a. n \in Nat
        BY <1>1, <3>2
      <3>b. follower' = [follower EXCEPT ![f].lagged = TRUE, ![f].pos = n]
        BY <3>1
      <3> HIDE DEF n
      <3>3. /\ FollowerType' /\ \A g \in Followers \ {f} : follower'[g] = follower[g]
            /\ follower'[f].lagged /\ follower'[f].pos = n
            /\ follower'[f].seen = follower[f].seen
        BY <1>0, <3>a, <3>b DEF FollowerType
      <3> USE DEF n
      <3> QED BY <1>1, <3>2, <3>3
    <2>3. CASE ~(Len(ch) - p > Capacity)
      <3>1. follower' = [follower EXCEPT ![f].seen = @ \cup {ch[p + 1]}, ![f].pos = @ + 1]
        BY <1>6, <2>3 DEF Receive
      <3>2. /\ p + 1 \in 0..Len(ch) /\ ch[p + 1] \in Events
            /\ Rest(ch, p) = Rest(ch, p + 1) \cup {ch[p + 1]}
        BY <1>1, <2>1, ReceiveRest
      <3> DEFINE x == ch[p + 1]
                 n == follower[f].pos + 1
      <3>a. x \in Nat /\ n \in Nat
        <4>1. Events \subseteq Nat /\ ch[p + 1] \in Events
          BY <1>1, <3>2
        <4>2. p + 1 \in Nat
          BY <2>1
        <4> QED BY <4>1, <4>2
      <3>b. follower' = [follower EXCEPT ![f].seen = @ \cup {x}, ![f].pos = n]
        BY <1>0, <3>1 DEF FollowerType
      <3> HIDE DEF n, x
      <3>c. /\ FollowerType' /\ \A g \in Followers \ {f} : follower'[g] = follower[g]
            /\ follower'[f].lagged = follower[f].lagged /\ follower'[f].pos = n
            /\ follower'[f].seen = follower[f].seen \cup {x}
            /\ follower'[f].stage = follower[f].stage
        BY <1>0, <3>a, <3>b DEF FollowerType
      <3>3. /\ FollowerType' /\ \A g \in Followers \ {f} : follower'[g] = follower[g]
            /\ follower'[f].lagged = follower[f].lagged /\ follower'[f].pos = p + 1
            /\ follower'[f].seen = follower[f].seen \cup {ch[p + 1]}
            /\ follower'[f].stage = follower[f].stage
        BY <3>c DEF n, x
      <3>4. follower[f].stage = "following" => Told(f)
        BY <1>0 DEF AllTold
      <3> QED BY <1>1, <2>3, <3>2, <3>3, <3>4 DEF Told, Lags
    <2> QED BY <2>2, <2>3
  <1> QED BY <1>4, <1>5, <1>6

(* A client's own step keeps the invariant.                                   *)
LEMMA FollowKeeps ==
  ASSUME LogInv, NEW f \in Followers,
         Subscribe(f, Channel(f)) \/ Receive(f, Channel(f)) \/ CatchUp(f, Owed(f)),
         UNCHANGED <<entries, log_sent, orch_vars>>
  PROVE  LogInv'
  <1>0. TypeOK /\ FollowerType /\ CallsSound /\ OneOutcome
    BY DEF LogInv
  <1>1. /\ entries' = entries /\ log_sent' = log_sent /\ sent' = sent /\ watched' = watched
        /\ history' = history /\ kind' = kind /\ calls' = calls /\ terminal' = terminal
    BY DEF orch_vars
  <1>2. /\ FollowerType'
        /\ \A g \in Followers :
              /\ follower'[g].pos \in 0..Len(Channel(g)) /\ follower'[g].seen \subseteq Events
              /\ follower'[g].stage = "following" =>
                   \/ follower'[g].lagged \/ Len(Channel(g)) - follower'[g].pos > Capacity
                   \/ Owed(g) \subseteq follower'[g].seen
                                  \cup Rest(Channel(g), follower'[g].pos) \cup Due(g)
    BY FollowerStep
  <1>3. Events' = Events /\ LogReaders' = LogReaders
    BY <1>1 DEF Events, LogReaders
  <1>4. TypeOK'
    <2>1. \A g \in Followers :
             /\ follower'[g].stage \in {"new", "subscribed", "following"}
             /\ follower'[g].lagged \in BOOLEAN
      BY <1>2 DEF FollowerType
    <2>2. \A g \in Followers :
             follower'[g].pos \in 0..Len(IF g \in LogReaders' THEN log_sent' ELSE sent')
      BY <1>1, <1>2, <1>3 DEF Channel
    <2> QED BY <1>0, <1>1, <1>2, <1>3, <2>1, <2>2 DEF TypeOK
  <1>5. CallsSound' /\ OneOutcome'
    <2>1. \A ops : InCall(ops)' = InCall(ops)
      BY <1>1 DEF InCall
    <2>2. CallsSound'
      BY <1>0, <1>1, <1>3, <2>1 DEF CallsSound, SeqRange
    <2>3. OneOutcome'
      BY <1>0, <1>1 DEF OneOutcome
    <2> QED BY <2>2, <2>3
  <1>6. AllTold'
    <2>1. \A g \in Followers : /\ Channel(g)' = Channel(g) /\ Owed(g)' = Owed(g) /\ Due(g)' = Due(g)
                               /\ Rest(Channel(g), follower[g].pos)' = Rest(Channel(g), follower'[g].pos)
      BY <1>1, <1>3 DEF Channel, Owed, Due, InCall, SeqRange, Rest
    <2> QED BY <1>2, <2>1 DEF AllTold, Told, Lags
  <1> QED BY <1>2, <1>4, <1>5, <1>6, ToldIffNext DEF LogInv

(* replay() keeps the invariant: the client that calls it has then read the   *)
(* record, and nobody is owed its event but through the log.                  *)
LEMMA ReplayKeeps ==
  ASSUME LogInv, NEW th \in Threads, NEW f \in Followers \ LogReaders, Replay(th, f)
  PROVE  LogInv'
  <1> DEFINE new == Len(kind) + 1
  <1>0. TypeOK /\ FollowerType /\ CallsSound /\ OneOutcome
    BY DEF LogInv
  <1>1. Begin(th, "Replay", "push") /\ CatchUp(f, Owed(f)) /\ history' = history /\ terminal' = terminal
    BY DEF Replay, Owed
  <1>2. /\ CallsSound' /\ Events' = Events \cup {new} /\ Len(kind') = new
        /\ \A e \in Events : kind'[e] = kind[e]
        /\ InCall({"broadcast"})' = InCall({"broadcast"})
        /\ InCall({"send"})' = InCall({"send"})
    BY <1>1, BeginCalls
  <1>3. /\ entries' = entries /\ log_sent' = log_sent /\ sent' = sent /\ watched' = watched
    BY <1>1 DEF Begin
  <1>4. /\ FollowerType'
        /\ \A g \in Followers :
              /\ follower'[g].pos \in 0..Len(Channel(g)) /\ follower'[g].seen \subseteq Events
              /\ follower'[g].stage = "following" =>
                   \/ follower'[g].lagged \/ Len(Channel(g)) - follower'[g].pos > Capacity
                   \/ Owed(g) \subseteq follower'[g].seen
                                  \cup Rest(Channel(g), follower'[g].pos) \cup Due(g)
    BY <1>1, FollowerStep
  <1>5. TypeOK'
    <2>1. history' \in [Tasks -> Seq(Events')] /\ terminal' \in [Tasks -> BOOLEAN]
      BY <1>0, <1>1, <1>2, SeqMonotonic DEF TypeOK
    <2>2. \A g \in Followers : follower'[g].pos = follower[g].pos
      BY <1>0, <1>1 DEF CatchUp, FollowerType
    <2> QED BY <1>1, <1>2, <1>4, <2>1, <2>2, BeginTypes
  <1>6. OneOutcome'
    <2>1. \A t \in Tasks : \A i \in 1..Len(history[t]) : kind'[history[t][i]] = kind[history[t][i]]
      BY <1>0, <1>2 DEF TypeOK
    <2>2. ASSUME NEW t \in Tasks
          PROVE  {i \in 1..Len(history'[t]) : kind'[history'[t][i]] \in Terminal}
                   = IF terminal'[t] THEN {Len(history'[t])} ELSE {}
      <3>1. {i \in 1..Len(history'[t]) : kind'[history'[t][i]] \in Terminal}
              = {i \in 1..Len(history[t]) : kind[history[t][i]] \in Terminal}
        BY <1>1, <2>1
      <3>2. {i \in 1..Len(history[t]) : kind[history[t][i]] \in Terminal}
              = IF terminal[t] THEN {Len(history[t])} ELSE {}
        BY <1>0 DEF OneOutcome
      <3> QED BY <1>1, <3>1, <3>2
    <2> QED BY <2>2 DEF OneOutcome
  <1>7. AllTold'
    <2>1. \A g \in Followers : /\ Channel(g)' = Channel(g) /\ Owed(g)' = Owed(g) /\ Due(g)' = Due(g)
                               /\ Rest(Channel(g), follower[g].pos)' = Rest(Channel(g), follower'[g].pos)
      BY <1>1, <1>2, <1>3 DEF Channel, Owed, Due, SeqRange, Rest, LogReaders
    <2> QED BY <1>4, <2>1 DEF AllTold, Told, Lags
  <1> QED BY <1>2, <1>4, <1>5, <1>6, <1>7, ToldIffNext DEF LogInv

-----------------------------------------------------------------------------
(* A call goes from one of its steps to the next, with its event.             *)
LEMMA CallMoves ==
  ASSUME LogInv, NEW th \in Threads, calls[th].op # "idle",
         NEW c \in [op : {"idle", "broadcast", "push", "send"}, event : 0..Len(kind)],
         calls' = [calls EXCEPT ![th] = c], c.op # "idle" => c.event = calls[th].event
  PROVE  /\ calls' \in [Threads -> [op : {"idle", "broadcast", "push", "send"}, event : 0..Len(kind)]]
         /\ \A a \in Threads : calls'[a].op # "idle" => calls'[a].event # 0
         /\ \A a, b \in Threads :
               a # b /\ calls'[a].op # "idle" /\ calls'[b].op # "idle"
                 => calls'[a].event # calls'[b].event
         /\ \A ops \in SUBSET {"broadcast", "push", "send"} :
               InCall(ops)' = (InCall(ops) \ {calls[th].event})
                                \cup (IF c.op \in ops THEN {calls[th].event} ELSE {})
         /\ calls[th].event \in Events
  <1>0. /\ calls \in [Threads -> [op : {"idle", "broadcast", "push", "send"}, event : 0..Len(kind)]]
        /\ CallsSound /\ Len(kind) \in Nat
    BY DEF LogInv, TypeOK
  <1>1. /\ calls'[th] = c /\ \A a \in Threads \ {th} : calls'[a] = calls[a]
        /\ calls' \in [Threads -> [op : {"idle", "broadcast", "push", "send"}, event : 0..Len(kind)]]
    BY <1>0
  <1>2. \A a \in Threads \ {th} : calls[a].op # "idle" => calls[a].event # calls[th].event
    BY <1>0 DEF CallsSound
  <1>3. \A a \in Threads : calls'[a].op # "idle" => calls'[a].event # 0
    BY <1>0, <1>1 DEF CallsSound
  <1>4. \A a, b \in Threads :
           a # b /\ calls'[a].op # "idle" /\ calls'[b].op # "idle"
             => calls'[a].event # calls'[b].event
    BY <1>0, <1>1 DEF CallsSound
  <1>5. ASSUME NEW ops \in SUBSET {"broadcast", "push", "send"}
        PROVE  InCall(ops)' = (InCall(ops) \ {calls[th].event})
                                \cup (IF c.op \in ops THEN {calls[th].event} ELSE {})
    <2>1. /\ InCall(ops) = {calls[a].event : a \in {x \in Threads : calls[x].op \in ops}}
          /\ InCall(ops)' = {calls'[a].event : a \in {x \in Threads : calls'[x].op \in ops}}
      BY DEF InCall
    <2>2. c.op \in ops => c.event = calls[th].event
      OBVIOUS
    <2>3. \A a \in Threads \ {th} : calls[a].op \in ops => calls[a].event # calls[th].event
      BY <1>2
    <2>4. ASSUME NEW e \in InCall(ops)'
          PROVE  e \in (InCall(ops) \ {calls[th].event})
                         \cup (IF c.op \in ops THEN {calls[th].event} ELSE {})
      <3>1. PICK a \in Threads : calls'[a].op \in ops /\ e = calls'[a].event
        BY <2>1, <2>4
      <3> QED BY <1>1, <2>1, <2>2, <2>3, <3>1
    <2>5. ASSUME NEW e \in (InCall(ops) \ {calls[th].event})
                              \cup (IF c.op \in ops THEN {calls[th].event} ELSE {})
          PROVE  e \in InCall(ops)'
      <3>1. CASE e \in InCall(ops) \ {calls[th].event}
        <4>1. PICK a \in Threads : calls[a].op \in ops /\ e = calls[a].event
          BY <2>1, <3>1
        <4> QED BY <1>1, <2>1, <3>1, <4>1
      <3>2. CASE c.op \in ops /\ e = calls[th].event
        BY <1>1, <2>1, <2>2, <3>2
      <3> QED BY <2>5, <3>1, <3>2
    <2> QED BY <2>4, <2>5
  <1>6. calls[th].event \in Events
    BY <1>0 DEF CallsSound, Events
  <1> QED BY <1>1, <1>3, <1>4, <1>5, <1>6

(* broadcast() keeps the invariant: the event leaves the call for the channel, *)
(* where every subscriber has yet to receive it.                              *)
LEMMA BroadcastKeeps ==
  ASSUME LogInv, NEW th \in Threads, Broadcast(th)
  PROVE  LogInv'
  <1> DEFINE e == calls[th].event
             c == [calls[th] EXCEPT !.op = "push"]
  <1>0. TypeOK /\ FollowerType /\ CallsSound /\ OneOutcome /\ AllTold
    BY ToldIff DEF LogInv
  <1>1. /\ calls[th].op = "broadcast" /\ sent' = Append(sent, e)
        /\ entries' = entries /\ log_sent' = log_sent /\ follower' = follower
        /\ history' = history /\ terminal' = terminal /\ kind' = kind /\ watched' = watched
        /\ calls' = [calls EXCEPT ![th] = c]
    BY DEF Broadcast, log_vars
  <1>2. /\ c \in [op : {"idle", "broadcast", "push", "send"}, event : 0..Len(kind)]
        /\ c.op = "push" /\ c.event = e
    BY <1>0 DEF TypeOK
  <1> HIDE DEF c
  <1>3. /\ calls' \in [Threads -> [op : {"idle", "broadcast", "push", "send"}, event : 0..Len(kind)]]
        /\ \A a \in Threads : calls'[a].op # "idle" => calls'[a].event # 0
        /\ \A a, b \in Threads :
              a # b /\ calls'[a].op # "idle" /\ calls'[b].op # "idle"
                => calls'[a].event # calls'[b].event
        /\ \A ops \in SUBSET {"broadcast", "push", "send"} :
              InCall(ops)' = (InCall(ops) \ {e}) \cup (IF c.op \in ops THEN {e} ELSE {})
        /\ e \in Events
    BY <1>1, <1>2, CallMoves
  <1>4. /\ InCall({"broadcast", "push"})' = InCall({"broadcast", "push"})
        /\ InCall({"broadcast"})' = InCall({"broadcast"}) \ {e}
        /\ InCall({"send"})' = InCall({"send"}) \ {e}
        /\ e \notin InCall({"send"})
    <2>1. e \in InCall({"broadcast", "push"})
      BY <1>1 DEF InCall
    <2>2. e \notin InCall({"send"})
      BY <1>0, <1>1 DEF CallsSound, InCall
    <2>3. /\ InCall({"broadcast", "push"})'
               = (InCall({"broadcast", "push"}) \ {e}) \cup (IF c.op \in {"broadcast", "push"} THEN {e} ELSE {})
          /\ InCall({"broadcast"})'
               = (InCall({"broadcast"}) \ {e}) \cup (IF c.op \in {"broadcast"} THEN {e} ELSE {})
          /\ InCall({"send"})'
               = (InCall({"send"}) \ {e}) \cup (IF c.op \in {"send"} THEN {e} ELSE {})
      BY <1>3, Zenon
    <2> QED BY <1>2, <2>1, <2>2, <2>3
  <1>5. Events' = Events /\ LogReaders' = LogReaders
    BY <1>1 DEF Events, LogReaders
  <1>6. CallsSound'
    BY <1>0, <1>1, <1>3, <1>4, <1>5 DEF CallsSound, SeqRange
  <1>7. OneOutcome' /\ FollowerType'
    BY <1>0, <1>1 DEF OneOutcome, FollowerType
  <1>8. sent \in Seq(Events)
    BY <1>0 DEF TypeOK
  <1>9. ASSUME NEW f \in Followers
        PROVE  /\ follower'[f].pos \in 0..Len(IF f \in LogReaders' THEN log_sent' ELSE sent')
               /\ follower'[f].stage = "following" => Told(f)'
    <2>1. CASE f \in LogReaders
      <3>1. follower'[f].pos \in 0..Len(IF f \in LogReaders' THEN log_sent' ELSE sent')
        BY <1>0, <1>1, <1>5, <2>1 DEF TypeOK
      <3>2. Told(f)' = Told(f)
        BY <1>1, <1>4, <1>5, <2>1 DEF Told, Lags, Channel, Owed, Due, SeqRange, Rest
      <3> QED BY <1>0, <1>1, <3>1, <3>2 DEF AllTold
    <2>2. CASE f \notin LogReaders
      <3>1. follower[f].pos \in 0..Len(sent)
        BY <1>0, <2>2 DEF TypeOK
      <3>2. /\ Len(sent') = Len(sent) + 1 /\ follower[f].pos \in 0..Len(sent')
            /\ Rest(sent', follower[f].pos) = Rest(sent, follower[f].pos) \cup {e}
        BY <1>1, <1>3, <1>8, <3>1, SendRest
      <3>3. /\ Channel(f) = sent /\ Channel(f)' = sent' /\ Owed(f)' = Owed(f)
            /\ Due(f)' = Due(f) \ {e}
        BY <1>1, <1>4, <1>5, <2>2 DEF Channel, Owed, Due, SeqRange
      <3>4. Lags(f, Channel(f)) => Lags(f, Channel(f))'
        <4>1. Len(sent) \in Nat /\ follower[f].pos \in Nat /\ Capacity \in Nat
          BY <1>8, <3>1, LogAssumption
        <4> QED BY <1>1, <3>2, <3>3, <4>1 DEF Lags
      <3>5. follower[f].stage = "following" => Told(f)
        BY <1>0 DEF AllTold
      <3>6. follower'[f].stage = "following" => Told(f)'
        BY <1>1, <3>2, <3>3, <3>4, <3>5 DEF Told
      <3> QED BY <1>1, <1>5, <2>2, <3>2, <3>6
    <2> QED BY <2>1, <2>2
  <1>10. sent' \in Seq(Events)
    BY <1>1, <1>3, <1>8
  <1>11. TypeOK'
    BY <1>0, <1>1, <1>3, <1>5, <1>9, <1>10 DEF TypeOK
  <1>12. AllTold'
    BY <1>9 DEF AllTold
  <1> QED BY <1>6, <1>7, <1>11, <1>12, ToldIffNext DEF LogInv

(* The locked half of append() keeps the invariant: the entry is in the log   *)
(* once, and whoever follows the log is going to be sent it.                  *)
LEMMA PushKeeps ==
  ASSUME LogInv, NEW th \in Threads, LogPush(th)
  PROVE  LogInv'
  <1> DEFINE e == calls[th].event
             c == [calls[th] EXCEPT !.op = "send"]
  <1>0. TypeOK /\ FollowerType /\ CallsSound /\ OneOutcome /\ AllTold
    BY ToldIff DEF LogInv
  <1>1. /\ calls[th].op = "push" /\ entries' = Append(entries, e)
        /\ sent' = sent /\ log_sent' = log_sent /\ follower' = follower
        /\ history' = history /\ terminal' = terminal /\ kind' = kind /\ watched' = watched
        /\ calls' = [calls EXCEPT ![th] = c]
    BY DEF LogPush, Push
  <1>2. /\ c \in [op : {"idle", "broadcast", "push", "send"}, event : 0..Len(kind)]
        /\ c.op = "send" /\ c.event = e
    BY <1>0 DEF TypeOK
  <1> HIDE DEF c
  <1>3. /\ calls' \in [Threads -> [op : {"idle", "broadcast", "push", "send"}, event : 0..Len(kind)]]
        /\ \A a \in Threads : calls'[a].op # "idle" => calls'[a].event # 0
        /\ \A a, b \in Threads :
              a # b /\ calls'[a].op # "idle" /\ calls'[b].op # "idle"
                => calls'[a].event # calls'[b].event
        /\ \A ops \in SUBSET {"broadcast", "push", "send"} :
              InCall(ops)' = (InCall(ops) \ {e}) \cup (IF c.op \in ops THEN {e} ELSE {})
        /\ e \in Events
    BY <1>1, <1>2, CallMoves
  <1>4. /\ InCall({"broadcast", "push"})' = InCall({"broadcast", "push"}) \ {e}
        /\ InCall({"broadcast"})' = InCall({"broadcast"})
        /\ InCall({"send"})' = InCall({"send"}) \cup {e}
        /\ e \in InCall({"broadcast", "push"})
    <2>1. e \in InCall({"broadcast", "push"})
      BY <1>1 DEF InCall
    <2>2. e \notin InCall({"broadcast"})
      BY <1>0, <1>1 DEF CallsSound, InCall
    <2>3. /\ InCall({"broadcast", "push"})'
               = (InCall({"broadcast", "push"}) \ {e}) \cup (IF c.op \in {"broadcast", "push"} THEN {e} ELSE {})
          /\ InCall({"broadcast"})'
               = (InCall({"broadcast"}) \ {e}) \cup (IF c.op \in {"broadcast"} THEN {e} ELSE {})
          /\ InCall({"send"})'
               = (InCall({"send"}) \ {e}) \cup (IF c.op \in {"send"} THEN {e} ELSE {})
      BY <1>3, Zenon
    <2> QED BY <1>2, <2>1, <2>2, <2>3
  <1>5. Events' = Events /\ LogReaders' = LogReaders
    BY <1>1 DEF Events, LogReaders
  <1>6. entries \in Seq(Events) /\ 0 \in 0..Len(entries)
    BY <1>0 DEF TypeOK
  <1>7. /\ entries' \in Seq(Events) /\ Len(entries') = Len(entries) + 1
        /\ SeqRange(entries)' = SeqRange(entries) \cup {e}
    <2>1. /\ Append(entries, e) \in Seq(Events) /\ Len(Append(entries, e)) = Len(entries) + 1
          /\ SeqRange(Append(entries, e)) = SeqRange(entries) \cup {e}
      BY <1>3, <1>6, SendRest
    <2>2. SeqRange(entries)' = SeqRange(Append(entries, e))
      BY <1>1 DEF SeqRange
    <2> QED BY <1>1, <2>1, <2>2
  <1>8. CallsSound'
    <2>1. e \notin SeqRange(entries) /\ SeqRange(entries) = Events \ InCall({"broadcast", "push"})
      BY <1>0, <1>4 DEF CallsSound
    <2>2. \A i, j \in 1..Len(entries') : entries'[i] = entries'[j] => i = j
      <3>1. /\ \A i \in 1..Len(entries) : entries'[i] = entries[i] /\ entries[i] # e
            /\ entries'[Len(entries) + 1] = e /\ Len(entries) \in Nat
        BY <1>1, <1>6, <2>1 DEF SeqRange
      <3> QED BY <1>0, <1>7, <3>1 DEF CallsSound
    <2>3. SeqRange(entries)' = Events' \ InCall({"broadcast", "push"})'
      BY <1>3, <1>4, <1>5, <1>7, <2>1
    <2> QED BY <1>3, <2>2, <2>3 DEF CallsSound
  <1>9. OneOutcome' /\ FollowerType'
    BY <1>0, <1>1 DEF OneOutcome, FollowerType
  <1>10. TypeOK'
    BY <1>0, <1>1, <1>3, <1>5, <1>7 DEF TypeOK
  <1>11. AllTold'
    <2> SUFFICES ASSUME NEW f \in Followers, follower'[f].stage = "following" PROVE Told(f)'
      BY DEF AllTold
    <2>1. Told(f)
      BY <1>0, <1>1 DEF AllTold
    <2>2. /\ Channel(f)' = Channel(f) /\ Lags(f, Channel(f))' = Lags(f, Channel(f))
          /\ Rest(Channel(f), follower[f].pos)' = Rest(Channel(f), follower[f].pos)
      BY <1>1, <1>5 DEF Channel, Lags, Rest
    <2>3. CASE f \in LogReaders
      <3>1. Owed(f)' = Owed(f) \cup {e} /\ Due(f)' = Due(f) \cup {e}
        BY <1>4, <1>5, <1>7, <2>3 DEF Owed, Due
      <3> QED BY <1>1, <2>1, <2>2, <3>1 DEF Told
    <2>4. CASE f \notin LogReaders
      <3>1. Owed(f)' = Owed(f) /\ Due(f)' = Due(f)
        BY <1>1, <1>4, <1>5, <2>4 DEF Owed, Due, SeqRange
      <3> QED BY <1>1, <2>1, <2>2, <3>1 DEF Told
    <2> QED BY <2>3, <2>4
  <1> QED BY <1>8, <1>9, <1>10, <1>11, ToldIffNext DEF LogInv

(* The unlocked half of append() keeps it: the entry leaves the call for the  *)
(* log's channel.                                                             *)
LEMMA SendKeeps ==
  ASSUME LogInv, NEW th \in Threads, LogSend(th)
  PROVE  LogInv'
  <1> DEFINE e == calls[th].event
  <1>0. TypeOK /\ FollowerType /\ CallsSound /\ OneOutcome /\ AllTold
    BY ToldIff DEF LogInv
  <1>1. /\ calls[th].op = "send" /\ log_sent' = Append(log_sent, e)
        /\ sent' = sent /\ entries' = entries /\ follower' = follower
        /\ history' = history /\ terminal' = terminal /\ kind' = kind /\ watched' = watched
        /\ calls' = [calls EXCEPT ![th] = Idle]
    BY DEF LogSend, Send
  <1>2. /\ Idle \in [op : {"idle", "broadcast", "push", "send"}, event : 0..Len(kind)]
        /\ Idle.op = "idle"
    BY <1>0 DEF TypeOK, Idle
  <1>3. /\ calls' \in [Threads -> [op : {"idle", "broadcast", "push", "send"}, event : 0..Len(kind)]]
        /\ \A a \in Threads : calls'[a].op # "idle" => calls'[a].event # 0
        /\ \A a, b \in Threads :
              a # b /\ calls'[a].op # "idle" /\ calls'[b].op # "idle"
                => calls'[a].event # calls'[b].event
        /\ \A ops \in SUBSET {"broadcast", "push", "send"} :
              InCall(ops)' = (InCall(ops) \ {e}) \cup (IF Idle.op \in ops THEN {e} ELSE {})
        /\ e \in Events
    BY <1>1, <1>2, CallMoves
  <1>4. /\ InCall({"broadcast", "push"})' = InCall({"broadcast", "push"})
        /\ InCall({"broadcast"})' = InCall({"broadcast"})
        /\ InCall({"send"})' = InCall({"send"}) \ {e}
    <2>1. e \notin InCall({"broadcast", "push"}) /\ e \notin InCall({"broadcast"})
      BY <1>0, <1>1 DEF CallsSound, InCall
    <2>2. /\ InCall({"broadcast", "push"})'
               = (InCall({"broadcast", "push"}) \ {e}) \cup (IF Idle.op \in {"broadcast", "push"} THEN {e} ELSE {})
          /\ InCall({"broadcast"})'
               = (InCall({"broadcast"}) \ {e}) \cup (IF Idle.op \in {"broadcast"} THEN {e} ELSE {})
          /\ InCall({"send"})'
               = (InCall({"send"}) \ {e}) \cup (IF Idle.op \in {"send"} THEN {e} ELSE {})
      BY <1>3, Zenon
    <2> QED BY <1>2, <2>1, <2>2
  <1>5. Events' = Events /\ LogReaders' = LogReaders
    BY <1>1 DEF Events, LogReaders
  <1>6. CallsSound'
    BY <1>0, <1>1, <1>3, <1>4, <1>5 DEF CallsSound, SeqRange
  <1>7. OneOutcome' /\ FollowerType'
    BY <1>0, <1>1 DEF OneOutcome, FollowerType
  <1>8. log_sent \in Seq(Events)
    BY <1>0 DEF TypeOK
  <1>9. ASSUME NEW f \in Followers
        PROVE  /\ follower'[f].pos \in 0..Len(IF f \in LogReaders' THEN log_sent' ELSE sent')
               /\ follower'[f].stage = "following" => Told(f)'
    <2>1. CASE f \notin LogReaders
      <3>1. follower'[f].pos \in 0..Len(IF f \in LogReaders' THEN log_sent' ELSE sent')
        BY <1>0, <1>1, <1>5, <2>1 DEF TypeOK
      <3>2. Told(f)' = Told(f)
        BY <1>1, <1>4, <1>5, <2>1 DEF Told, Lags, Channel, Owed, Due, SeqRange, Rest
      <3> QED BY <1>0, <1>1, <3>1, <3>2 DEF AllTold
    <2>2. CASE f \in LogReaders
      <3>1. follower[f].pos \in 0..Len(log_sent)
        BY <1>0, <2>2 DEF TypeOK
      <3>2. /\ Len(log_sent') = Len(log_sent) + 1 /\ follower[f].pos \in 0..Len(log_sent')
            /\ Rest(log_sent', follower[f].pos) = Rest(log_sent, follower[f].pos) \cup {e}
        BY <1>1, <1>3, <1>8, <3>1, SendRest
      <3>3. /\ Channel(f) = log_sent /\ Channel(f)' = log_sent' /\ Owed(f)' = Owed(f)
            /\ Due(f)' = Due(f) \ {e}
        BY <1>1, <1>4, <1>5, <2>2 DEF Channel, Owed, Due, SeqRange
      <3>4. Lags(f, Channel(f)) => Lags(f, Channel(f))'
        <4>1. Len(log_sent) \in Nat /\ follower[f].pos \in Nat /\ Capacity \in Nat
          BY <1>8, <3>1, LogAssumption
        <4> QED BY <1>1, <3>2, <3>3, <4>1 DEF Lags
      <3>5. follower[f].stage = "following" => Told(f)
        BY <1>0 DEF AllTold
      <3>6. follower'[f].stage = "following" => Told(f)'
        BY <1>1, <3>2, <3>3, <3>4, <3>5 DEF Told
      <3> QED BY <1>1, <1>5, <2>2, <3>2, <3>6
    <2> QED BY <2>1, <2>2
  <1>10. log_sent' \in Seq(Events)
    BY <1>1, <1>3, <1>8
  <1>11. TypeOK'
    BY <1>0, <1>1, <1>3, <1>5, <1>9, <1>10 DEF TypeOK
  <1>12. AllTold'
    BY <1>9 DEF AllTold
  <1> QED BY <1>6, <1>7, <1>11, <1>12, ToldIffNext DEF LogInv

-----------------------------------------------------------------------------
(* Every step keeps the invariant.                                            *)
LEMMA LogStep == LogInv /\ [Next]_vars => LogInv'
  <1> SUFFICES ASSUME LogInv, [Next]_vars PROVE LogInv'
    OBVIOUS
  <1>1. ASSUME NEW th \in Threads, NEW t \in Tasks, Submit(th, t) PROVE LogInv'
    <2>1. "Submitted" \in Kinds /\ "Submitted" \notin Terminal
      BY DEF Kinds, Terminal
    <2> QED BY <1>1, <2>1, RecordKeeps DEF Submit
  <1>2. ASSUME NEW th \in Threads, NEW t \in Tasks, NEW k \in Kinds, NEW ends,
               ends = (k \in Terminal), RecordEvent(th, t, k, ends)
        PROVE  LogInv'
    BY <1>2, RecordKeeps DEF RecordEvent
  <1>3. ASSUME NEW th \in Threads, NEW t \in Tasks,
               Progress(th, t) \/ Complete(th, t) \/ Fail(th, t) \/ Cancel(th, t)
        PROVE  LogInv'
    <2>1. /\ {"Progress", "Completed", "Failed", "Cancelled"} \subseteq Kinds
          /\ FALSE = ("Progress" \in Terminal)
          /\ \A k \in {"Completed", "Failed", "Cancelled"} : TRUE = (k \in Terminal)
      BY DEF Kinds, Terminal
    <2>2. CASE Progress(th, t)
      BY <1>2, <2>1, <2>2 DEF Progress
    <2>3. CASE Complete(th, t)
      BY <1>2, <2>1, <2>3 DEF Complete
    <2>4. CASE Fail(th, t)
      BY <1>2, <2>1, <2>4 DEF Fail
    <2>5. CASE Cancel(th, t)
      BY <1>2, <2>1, <2>5 DEF Cancel
    <2> QED BY <1>3, <2>2, <2>3, <2>4, <2>5
  <1>4. ASSUME NEW th \in Threads, NEW f \in Followers \ LogReaders, Replay(th, f) PROVE LogInv'
    BY <1>4, ReplayKeeps
  <1>5. ASSUME NEW th \in Threads, Broadcast(th) \/ LogPush(th) \/ LogSend(th) PROVE LogInv'
    BY <1>5, BroadcastKeeps, PushKeeps, SendKeeps
  <1>6. ASSUME NEW f \in LogReaders, FollowLog(f), UNCHANGED orch_vars PROVE LogInv'
    <2>1. f \in Followers /\ Channel(f) = log_sent /\ Owed(f) = AllEntries
      BY <1>6 DEF LogReaders, Channel, Owed, AllEntries
    <2> QED BY <1>6, <2>1, FollowKeeps DEF FollowLog
  <1>7. ASSUME NEW f \in Followers \ LogReaders, FollowEvents(f) PROVE LogInv'
    <2>1. Channel(f) = sent
      BY <1>7 DEF Channel
    <2> QED BY <1>7, <2>1, FollowKeeps DEF FollowEvents
  <1>8. CASE UNCHANGED vars
    <2>1. /\ entries' = entries /\ log_sent' = log_sent /\ sent' = sent /\ watched' = watched
          /\ history' = history /\ kind' = kind /\ calls' = calls /\ terminal' = terminal
          /\ follower' = follower
      BY <1>8 DEF vars, log_vars, orch_vars
    <2>2. TypeOK' /\ FollowerType'
      BY <2>1 DEF LogInv, TypeOK, FollowerType, Events, LogReaders
    <2>3. CallsSound' /\ OneOutcome'
      <3>1. Events' = Events /\ \A ops : InCall(ops)' = InCall(ops)
        BY <2>1 DEF Events, InCall
      <3>2. CallsSound'
        BY <2>1, <3>1 DEF LogInv, CallsSound, SeqRange
      <3>3. OneOutcome'
        BY <2>1 DEF LogInv, OneOutcome
      <3> QED BY <3>2, <3>3
    <2>4. AllTold'
      BY <2>1, ToldIff DEF LogInv, AllTold, Told, Lags, Channel, Owed, Due, LogReaders, InCall, SeqRange, Rest
    <2> QED BY <2>2, <2>3, <2>4, ToldIffNext DEF LogInv
  <1> QED BY <1>1, <1>3, <1>4, <1>5, <1>6, <1>7, <1>8 DEF Next

(* That the log holds an event once, as LogComplete counts it.                *)
LEMMA Counted == LogInv => LogComplete
  <1> SUFFICES ASSUME LogInv, NEW e \in Events
               PROVE  Cardinality({i \in 1..Len(entries) : entries[i] = e})
                        = IF e \in InCall({"broadcast", "push"}) THEN 0 ELSE 1
    BY DEF LogComplete
  <1> DEFINE at == {i \in 1..Len(entries) : entries[i] = e}
  <1>1. /\ \A i, j \in 1..Len(entries) : entries[i] = entries[j] => i = j
        /\ SeqRange(entries) = Events \ InCall({"broadcast", "push"})
    BY DEF LogInv, CallsSound
  <1>2. CASE e \in InCall({"broadcast", "push"})
    <2>1. at = {}
      BY <1>1, <1>2 DEF SeqRange
    <2> QED BY <1>2, <2>1, FS_EmptySet
  <1>3. CASE e \notin InCall({"broadcast", "push"})
    <2>1. PICK i \in 1..Len(entries) : entries[i] = e
      BY <1>1, <1>3 DEF SeqRange
    <2>2. at = {i}
      BY <1>1, <2>1
    <2> QED BY <1>3, <2>2, FS_Singleton
  <1> QED BY <1>2, <1>3

(* Only the locked half of append() changes the log.                          *)
LEMMA OnlyPushed ==
  ASSUME [Next]_vars
  PROVE  entries' = entries \/ \E th \in Threads : LogPush(th)
  <1>1. ASSUME NEW th \in Threads, NEW k, NEW next, Begin(th, k, next) PROVE entries' = entries
    BY <1>1 DEF Begin
  <1>2. ASSUME NEW th \in Threads, NEW t \in Tasks,
               Submit(th, t) \/ Progress(th, t) \/ Complete(th, t) \/ Fail(th, t) \/ Cancel(th, t)
        PROVE  entries' = entries
    BY <1>1, <1>2 DEF Submit, Progress, Complete, Fail, Cancel, RecordEvent
  <1>3. ASSUME NEW th \in Threads, NEW f \in Followers, Replay(th, f) PROVE entries' = entries
    BY <1>1, <1>3 DEF Replay
  <1>4. ASSUME NEW th \in Threads, Broadcast(th) \/ LogSend(th) PROVE entries' = entries
    BY <1>4 DEF Broadcast, LogSend, log_vars
  <1>5. ASSUME NEW f \in Followers, FollowLog(f) \/ FollowEvents(f) PROVE entries' = entries
    BY <1>5 DEF FollowLog, FollowEvents
  <1>6. CASE UNCHANGED vars
    BY <1>6 DEF vars, log_vars
  <1> QED BY <1>2, <1>3, <1>4, <1>5, <1>6 DEF Next, LogReaders

(* Fewer events are in the calls of the other threads than there are threads. *)
LEMMA OthersFewer ==
  ASSUME NEW th \in Threads, NEW S, S \subseteq {calls[a].event : a \in Threads \ {th}}
  PROVE  Cardinality(S) < Cardinality(Threads)
  <1> DEFINE O == Threads \ {th}
             T == {calls[a].event : a \in O}
             g == [a \in O |-> calls[a].event]
  <1>1. IsFiniteSet(O) /\ Cardinality(O) = Cardinality(Threads) - 1 /\ Cardinality(Threads) \in Nat
    BY OrchestratorAssumption, FS_RemoveElement, FS_CardinalityType
  <1>2. g \in Surjection(O, T)
    BY DEF Surjection
  <1>3. IsFiniteSet(T) /\ Cardinality(T) <= Cardinality(O)
    BY <1>1, <1>2, FS_Surjection
  <1>4. S \in SUBSET T
    OBVIOUS
  <1> HIDE DEF O, T, g
  <1>5. IsFiniteSet(S) /\ Cardinality(S) <= Cardinality(T)
    BY <1>3, <1>4, FS_Subset
  <1>6. Cardinality(S) \in Nat /\ Cardinality(T) \in Nat /\ Cardinality(O) \in Nat
    BY <1>1, <1>3, <1>5, FS_CardinalityType
  <1> QED BY <1>1, <1>3, <1>5, <1>6

(* What an entry overtakes is fixed when it is pushed: events that the calls  *)
(* of other threads have yet to append.                                       *)
LEMMA OrderStep == LogInv /\ LogInOrder /\ [Next]_vars => LogInOrder'
  <1> SUFFICES ASSUME LogInv, LogInOrder, [Next]_vars PROVE LogInOrder'
    OBVIOUS
  <1>1. CASE entries' = entries
    BY <1>1 DEF LogInOrder, Overtaken
  <1>2. ASSUME NEW th \in Threads, LogPush(th) PROVE LogInOrder'
    <2> DEFINE v == calls[th].event
               n == Len(entries)
    <2>1. /\ entries \in Seq(Events) /\ calls[th].op = "push" /\ entries' = Append(entries, v)
          /\ Len(kind) \in Nat /\ Events = 1..Len(kind) /\ v \in 0..Len(kind)
      BY <1>2 DEF LogInv, TypeOK, LogPush, Push, Events
    <2>2. /\ n \in Nat /\ Len(entries') = n + 1 /\ entries'[n + 1] = v
          /\ \A i \in 1..n : entries'[i] = entries[i]
      <3>1. v \in Events
        BY <2>1 DEF LogInv, CallsSound
      <3> QED BY <2>1, <3>1
    <2>3. SeqRange(entries) = Events \ InCall({"broadcast", "push"})
      BY DEF LogInv, CallsSound
    <2> HIDE DEF v, n
    <2>4. ASSUME NEW i \in 1..n PROVE Overtaken(entries', i) = Overtaken(entries, i)
      BY <2>2 DEF Overtaken
    <2>5. Overtaken(entries', n + 1) \subseteq {calls[a].event : a \in Threads \ {th}}
      <3> SUFFICES ASSUME NEW e \in 1..(v - 1), \A j \in 1..(n + 1) : entries'[j] # e
                   PROVE  e \in {calls[a].event : a \in Threads \ {th}}
        BY <2>2 DEF Overtaken
      <3>1. e \in Events /\ e # v
        BY <2>1
      <3>2. e \notin SeqRange(entries)
        BY <2>2 DEF SeqRange, n
      <3>3. PICK a \in Threads : calls[a].event = e
        BY <2>3, <3>1, <3>2 DEF InCall
      <3> QED BY <3>1, <3>3 DEF v
    <2>6. Cardinality(Overtaken(entries', n + 1)) < Cardinality(Threads)
      BY <2>5, OthersFewer
    <2>7. ASSUME NEW i \in 1..(n + 1) PROVE Cardinality(Overtaken(entries', i)) < Cardinality(Threads)
      <3>1. CASE i = n + 1
        BY <2>6, <3>1
      <3>2. CASE i \in 1..n
        BY <2>4, <3>2 DEF LogInOrder, n
      <3> QED BY <2>2, <3>1, <3>2
    <2> QED BY <2>2, <2>7 DEF LogInOrder
  <1> QED BY <1>1, <1>2, OnlyPushed

(* Whatever calls of whatever threads overlap: a task has one outcome, which  *)
(* is the last of its events; every event gets into the log, once, and ahead  *)
(* of earlier ones only if their calls overlap its own; and a client that     *)
(* subscribes and then reads the history misses nothing, unless it is told    *)
(* that it lagged (orchestrator.rs, action_log.rs).                           *)
THEOREM LogTellsEverything == Spec => []LogTellsAll
  <1>1. LogInv /\ LogInOrder => LogTellsAll
    BY Counted DEF LogInv, LogTellsAll
  <1>2. Spec => []LogInv
    BY LogInvInit, LogStep, PTL DEF Spec
  <1>3. Init => LogInOrder
    BY DEF Init, LogInit, LogInOrder
  <1>4. Spec => []LogInOrder
    BY <1>2, <1>3, OrderStep, PTL DEF Spec
  <1> QED BY <1>1, <1>2, <1>4, PTL

-----------------------------------------------------------------------------
(*****************************************************************************)
(* The local executor.                                                       *)
(*****************************************************************************)

(* What ExecutorConfig and a finite run give.                                 *)
Bounded == IsFiniteSet(ExecTasks) /\ MaxConcurrent \in Nat /\ QueueDepth \in Nat

(* A task is at no more than one position of the queue and the batches.       *)
InQueue(t, i) == i \in 1..Len(queue) /\ queue[i] = t

InBatch(t, r, i) == i \in 1..Len(batch[r]) /\ batch[r][i] = t

OnePlace ==
    \A t \in ExecTasks :
        /\ \A i, j \in Nat : InQueue(t, i) /\ InQueue(t, j) => i = j
        /\ \A r, q \in Runners, i, j \in Nat : InBatch(t, r, i) /\ InBatch(t, q, j) => r = q /\ i = j
        /\ \A i, j \in Nat, r \in Runners : ~(InQueue(t, i) /\ InBatch(t, r, j))

(* The tasks at these positions are those submitted and not yet spawned.      *)
Waits(t) == (\E i \in Nat : InQueue(t, i)) \/ (\E r \in Runners, i \in Nat : InBatch(t, r, i))

WaitsUnspawned == \A t \in ExecTasks : Waits(t) <=> phase[t] = "none" /\ state[t] # "Absent"

(* What the state byte may be at each stage of the spawned task.              *)
PhaseTold(t) ==
    /\ phase[t] # "none" => state[t] # "Absent"
    /\ phase[t] # "ended" => answer[t] = "none"
    /\ phase[t] \notin {"completed", "failed", "ended"} => state[t] \notin {"Completed", "Failed"}
    /\ phase[t] = "completed" => state[t] = "Completed"
    /\ phase[t] = "failed" => state[t] = "Failed"
    /\ phase[t] = "ended" => /\ answer[t] = "Ok" <=> state[t] = "Completed"
                             /\ answer[t] = "TaskFailed" <=> state[t] = "Failed"

(* The inductive invariant.                                                   *)
ExecutorInv == ExecTypeOK /\ OnePlace /\ WaitsUnspawned /\ \A t \in ExecTasks : PhaseTold(t)

-----------------------------------------------------------------------------
(* A step that moves no task between queue, batches and spawned tasks.        *)
LEMMA PlacesKept ==
  ASSUME OnePlace, WaitsUnspawned, UNCHANGED <<queue, batch>>,
         \A t \in ExecTasks : /\ phase'[t] = "none" <=> phase[t] = "none"
                              /\ state'[t] = "Absent" <=> state[t] = "Absent"
  PROVE  OnePlace' /\ WaitsUnspawned'
  <1>1. \A t, i : (InQueue(t, i))' <=> InQueue(t, i)
    BY DEF InQueue
  <1>2. \A t, r, i : (InBatch(t, r, i))' <=> InBatch(t, r, i)
    BY DEF InBatch
  <1>3. OnePlace'
    BY <1>1, <1>2 DEF OnePlace
  <1>4. \A t \in ExecTasks : (Waits(t))' <=> Waits(t)
    BY <1>1, <1>2 DEF Waits
  <1> QED BY <1>3, <1>4 DEF WaitsUnspawned

(* submit().                                                                  *)
LEMMA SubmitKeeps ==
  ASSUME Bounded, ExecutorInv, NEW t \in ExecTasks, ExecSubmit(t)
  PROVE  ExecutorInv'
  <1>1. /\ queue \in Seq(ExecTasks) /\ Len(queue) < QueueDepth /\ queue' = Append(queue, t)
        /\ state[t] = "Absent" /\ state' = [state EXCEPT ![t] = "Queued"]
        /\ UNCHANGED <<batch, spawned, permits, phase, answer, awaiting, cancelling>>
        /\ QueueDepth \in Nat
    BY DEF ExecSubmit, ExecutorInv, ExecTypeOK, Bounded
  <1>2. /\ queue' \in Seq(ExecTasks) /\ Len(queue') = Len(queue) + 1 /\ Len(queue) \in Nat
        /\ \A i \in 1..Len(queue) : queue'[i] = queue[i]
        /\ queue'[Len(queue) + 1] = t
    BY <1>1, AppendProperties, LenProperties
  <1>3. ExecTypeOK'
    BY <1>1, <1>2 DEF ExecutorInv, ExecTypeOK
  <1>4. \A u \in ExecTasks, i \in Nat : (InQueue(u, i))' <=> InQueue(u, i) \/ (u = t /\ i = Len(queue) + 1)
    BY <1>2 DEF InQueue
  <1>5. \A u \in ExecTasks, r \in Runners, i \in Nat : (InBatch(u, r, i))' <=> InBatch(u, r, i)
    BY <1>1 DEF InBatch
  <1>6. ~Waits(t)
    BY <1>1 DEF ExecutorInv, WaitsUnspawned
  <1>7. OnePlace'
    <2> SUFFICES ASSUME NEW u \in ExecTasks
                 PROVE  /\ \A i, j \in Nat : (InQueue(u, i))' /\ (InQueue(u, j))' => i = j
                        /\ \A r, q \in Runners, i, j \in Nat :
                              (InBatch(u, r, i))' /\ (InBatch(u, q, j))' => r = q /\ i = j
                        /\ \A i, j \in Nat, r \in Runners : ~((InQueue(u, i))' /\ (InBatch(u, r, j))')
      BY DEF OnePlace
    <2> QED BY <1>4, <1>5, <1>6 DEF ExecutorInv, OnePlace, Waits
  <1>8. \A u \in ExecTasks : (Waits(u))' <=> Waits(u) \/ u = t
    BY <1>2, <1>4, <1>5 DEF Waits
  <1>9. \A u \in ExecTasks : state'[u] = IF u = t THEN "Queued" ELSE state[u]
    BY <1>1 DEF ExecutorInv, ExecTypeOK
  <1>10. phase[t] = "none"
    BY <1>1 DEF ExecutorInv, PhaseTold
  <1>11. WaitsUnspawned'
    BY <1>1, <1>8, <1>9, <1>10 DEF ExecutorInv, WaitsUnspawned
  <1>12. \A u \in ExecTasks : PhaseTold(u)'
    BY <1>1, <1>9 DEF ExecutorInv, PhaseTold
  <1> QED BY <1>3, <1>7, <1>11, <1>12 DEF ExecutorInv

(* run_all() takes the whole queue, ...                                       *)
LEMMA TakeQueueKeeps ==
  ASSUME Bounded, ExecutorInv, NEW r \in Runners, TakeQueue(r)
  PROVE  ExecutorInv'
  <1>1. /\ queue \in Seq(ExecTasks) /\ batch \in [Runners -> Seq(ExecTasks)] /\ batch[r] = <<>>
        /\ batch' = [batch EXCEPT ![r] = queue] /\ queue' = <<>>
        /\ UNCHANGED <<state, spawned, permits, phase, answer, awaiting, cancelling>>
        /\ QueueDepth \in Nat
    BY DEF TakeQueue, ExecutorInv, ExecTypeOK, Bounded
  <1>2. /\ batch' \in [Runners -> Seq(ExecTasks)] /\ queue' \in Seq(ExecTasks) /\ Len(queue') = 0
        /\ \A q \in Runners : batch'[q] = IF q = r THEN queue ELSE batch[q]
    BY <1>1
  <1>3. ExecTypeOK'
    BY <1>1, <1>2 DEF ExecutorInv, ExecTypeOK
  <1>4. \A t \in ExecTasks, i \in Nat : ~(InQueue(t, i))'
    BY <1>2 DEF InQueue
  <1>5. \A t \in ExecTasks, q \in Runners, i \in Nat :
           (InBatch(t, q, i))' <=> IF q = r THEN InQueue(t, i) ELSE InBatch(t, q, i)
    BY <1>2 DEF InBatch, InQueue
  <1>6. \A t \in ExecTasks, i \in Nat : ~InBatch(t, r, i)
    BY <1>1 DEF InBatch
  <1>7. OnePlace'
    <2> SUFFICES ASSUME NEW t \in ExecTasks
                 PROVE  /\ \A i, j \in Nat : (InQueue(t, i))' /\ (InQueue(t, j))' => i = j
                        /\ \A p, q \in Runners, i, j \in Nat :
                              (InBatch(t, p, i))' /\ (InBatch(t, q, j))' => p = q /\ i = j
                        /\ \A i, j \in Nat, q \in Runners : ~((InQueue(t, i))' /\ (InBatch(t, q, j))')
      BY DEF OnePlace
    <2> QED BY <1>4, <1>5 DEF ExecutorInv, OnePlace
  <1>8. \A t \in ExecTasks : (Waits(t))' <=> Waits(t)
    BY <1>4, <1>5, <1>6 DEF Waits
  <1>9. WaitsUnspawned'
    BY <1>1, <1>8 DEF ExecutorInv, WaitsUnspawned
  <1>10. \A t \in ExecTasks : PhaseTold(t)'
    BY <1>1 DEF ExecutorInv, PhaseTold
  <1> QED BY <1>3, <1>7, <1>9, <1>10 DEF ExecutorInv

(* ... and spawns its tasks, one permit each.                                 *)
LEMMA SpawnKeeps ==
  ASSUME Bounded, ExecutorInv, NEW r \in Runners, Spawn(r)
  PROVE  ExecutorInv'
  <1> DEFINE t == Head(batch[r])
  <1>1. /\ batch \in [Runners -> Seq(ExecTasks)] /\ batch[r] # <<>>
        /\ permits \in [Runners -> SUBSET ExecTasks] /\ phase \in [ExecTasks -> Phases]
        /\ spawned \in [Runners -> SUBSET ExecTasks]
        /\ \A q \in Runners : Cardinality(permits[q]) <= MaxConcurrent
        /\ Cardinality(permits[r]) < MaxConcurrent
        /\ batch' = [batch EXCEPT ![r] = Tail(@)]
        /\ spawned' = [spawned EXCEPT ![r] = @ \cup {t}]
        /\ permits' = [permits EXCEPT ![r] = @ \cup {t}]
        /\ phase' = [phase EXCEPT ![t] = "spawned"]
        /\ UNCHANGED <<queue, state, answer, awaiting, cancelling>>
    BY DEF Spawn, HasPermit, ExecutorInv, ExecTypeOK
  <1>2. /\ t \in ExecTasks /\ Tail(batch[r]) \in Seq(ExecTasks) /\ Len(batch[r]) \in Nat
        /\ Len(Tail(batch[r])) = Len(batch[r]) - 1
        /\ \A i \in 1..(Len(batch[r]) - 1) : Tail(batch[r])[i] = batch[r][i + 1]
        /\ t = batch[r][1] /\ 0 < Len(batch[r])
    <2>1. batch[r] \in Seq(ExecTasks)
      BY <1>1
    <2> QED BY <1>1, <2>1, HeadTailProperties, LenProperties, EmptySeq
  <1> HIDE DEF t
  <1>3. /\ batch' \in [Runners -> Seq(ExecTasks)]
        /\ \A q \in Runners : batch'[q] = IF q = r THEN Tail(batch[r]) ELSE batch[q]
    BY <1>1, <1>2
  <1>4. phase' \in [ExecTasks -> Phases] /\ \A u \in ExecTasks : phase'[u] = IF u = t THEN "spawned" ELSE phase[u]
    BY <1>1, <1>2 DEF Phases
  <1>5. /\ permits' \in [Runners -> SUBSET ExecTasks] /\ spawned' \in [Runners -> SUBSET ExecTasks]
        /\ \A q \in Runners : Cardinality(permits'[q]) <= MaxConcurrent
    <2>1. permits' \in [Runners -> SUBSET ExecTasks] /\ spawned' \in [Runners -> SUBSET ExecTasks]
      BY <1>1, <1>2
    <2>2. permits'[r] = permits[r] \cup {t} /\ \A q \in Runners : q # r => permits'[q] = permits[q]
      BY <1>1
    <2>3. IsFiniteSet(permits[r]) /\ Cardinality(permits[r]) \in Nat /\ MaxConcurrent \in Nat
      <3>1. permits[r] \in SUBSET ExecTasks /\ IsFiniteSet(ExecTasks) /\ MaxConcurrent \in Nat
        BY <1>1 DEF Bounded
      <3> QED BY <3>1, FS_Subset, FS_CardinalityType
    <2>4. Cardinality(permits[r] \cup {t}) <= MaxConcurrent
      <3>1. Cardinality(permits[r] \cup {t}) =
               IF t \in permits[r] THEN Cardinality(permits[r]) ELSE Cardinality(permits[r]) + 1
        BY <2>3, FS_AddElement
      <3>2. Cardinality(permits[r]) < MaxConcurrent
        BY <1>1
      <3> QED BY ONLY <2>3, <3>1, <3>2
    <2> QED BY <1>1, <2>1, <2>2, <2>4
  <1>6. ExecTypeOK'
    BY <1>1, <1>3, <1>4, <1>5 DEF ExecutorInv, ExecTypeOK
  <1>7. \A u \in ExecTasks, i \in Nat : (InQueue(u, i))' <=> InQueue(u, i)
    BY <1>1 DEF InQueue
  <1>8. \A u \in ExecTasks, q \in Runners, i \in Nat :
           (InBatch(u, q, i))' <=> IF q = r THEN i > 0 /\ InBatch(u, r, i + 1) ELSE InBatch(u, q, i)
    <2>1. ASSUME NEW u \in ExecTasks, NEW i \in Nat
          PROVE  (InBatch(u, r, i))' <=> i > 0 /\ InBatch(u, r, i + 1)
      <3>1. (InBatch(u, r, i))' <=> i \in 1..(Len(batch[r]) - 1) /\ Tail(batch[r])[i] = u
        BY <1>2, <1>3 DEF InBatch
      <3>2. i \in 1..(Len(batch[r]) - 1) <=> i > 0 /\ i + 1 \in 1..Len(batch[r])
        BY <1>2
      <3> QED BY <1>2, <3>1, <3>2 DEF InBatch
    <2>2. ASSUME NEW u \in ExecTasks, NEW q \in Runners, NEW i \in Nat, q # r
          PROVE  (InBatch(u, q, i))' <=> InBatch(u, q, i)
      BY <1>3, <2>2 DEF InBatch
    <2> QED BY <2>1, <2>2
  <1>9. InBatch(t, r, 1) /\ \A u \in ExecTasks : InBatch(u, r, 1) => u = t
    BY <1>2 DEF InBatch
  <1>10. OnePlace'
    <2> SUFFICES ASSUME NEW u \in ExecTasks
                 PROVE  /\ \A i, j \in Nat : (InQueue(u, i))' /\ (InQueue(u, j))' => i = j
                        /\ \A p, q \in Runners, i, j \in Nat :
                              (InBatch(u, p, i))' /\ (InBatch(u, q, j))' => p = q /\ i = j
                        /\ \A i, j \in Nat, q \in Runners : ~((InQueue(u, i))' /\ (InBatch(u, q, j))')
      BY DEF OnePlace
    <2>1. /\ \A i, j \in Nat : InQueue(u, i) /\ InQueue(u, j) => i = j
          /\ \A p, q \in Runners, i, j \in Nat : InBatch(u, p, i) /\ InBatch(u, q, j) => p = q /\ i = j
          /\ \A i, j \in Nat, q \in Runners : ~(InQueue(u, i) /\ InBatch(u, q, j))
      BY DEF ExecutorInv, OnePlace
    <2>2. ASSUME NEW p \in Runners, NEW q \in Runners, NEW i \in Nat, NEW j \in Nat,
                 (InBatch(u, p, i))', (InBatch(u, q, j))'
          PROVE  p = q /\ i = j
      <3>1. InBatch(u, p, IF p = r THEN i + 1 ELSE i) /\ InBatch(u, q, IF q = r THEN j + 1 ELSE j)
        BY <1>8, <2>2
      <3>2. p = q /\ (IF p = r THEN i + 1 ELSE i) = (IF q = r THEN j + 1 ELSE j)
        BY <2>1, <3>1
      <3> QED BY <3>2
    <2>3. \A i, j \in Nat, q \in Runners : ~((InQueue(u, i))' /\ (InBatch(u, q, j))')
      BY <1>7, <1>8, <2>1
    <2> QED BY <1>7, <2>1, <2>2, <2>3
  <1>11. \A u \in ExecTasks : (Waits(u))' <=> Waits(u) /\ u # t
    <2> SUFFICES ASSUME NEW u \in ExecTasks PROVE (Waits(u))' <=> Waits(u) /\ u # t
      OBVIOUS
    <2>1. ASSUME (Waits(u))' PROVE Waits(u) /\ u # t
      <3>1. CASE \E i \in Nat : (InQueue(u, i))'
        BY <1>2, <1>7, <1>9, <3>1 DEF ExecutorInv, OnePlace, Waits
      <3>2. CASE \E q \in Runners, i \in Nat : (InBatch(u, q, i))'
        <4>1. PICK q \in Runners, i \in Nat : (InBatch(u, q, i))'
          BY <3>2
        <4>2. CASE q = r
          <5>1. i > 0 /\ InBatch(u, r, i + 1)
            BY <1>8, <4>1, <4>2
          <5>2. u # t
            BY <1>2, <1>9, <5>1 DEF ExecutorInv, OnePlace
          <5> QED BY <5>1, <5>2 DEF Waits
        <4>3. CASE q # r
          <5>1. InBatch(u, q, i)
            BY <1>8, <4>1, <4>3
          <5>2. u # t
            BY <1>2, <1>9, <4>3, <5>1 DEF ExecutorInv, OnePlace
          <5> QED BY <5>1, <5>2 DEF Waits
        <4> QED BY <4>2, <4>3
      <3> QED BY <2>1, <3>1, <3>2 DEF Waits
    <2>2. ASSUME Waits(u), u # t PROVE (Waits(u))'
      <3>1. CASE \E i \in Nat : InQueue(u, i)
        BY <1>7, <3>1 DEF Waits
      <3>2. CASE \E q \in Runners, i \in Nat : InBatch(u, q, i)
        <4>1. PICK q \in Runners, i \in Nat : InBatch(u, q, i)
          BY <3>2
        <4>2. CASE q = r
          <5>1. i # 1 /\ i # 0
            BY <1>9, <2>2, <4>1, <4>2 DEF InBatch
          <5>2. i - 1 \in Nat /\ i - 1 > 0 /\ (i - 1) + 1 = i
            BY <5>1
          <5>3. (InBatch(u, r, i - 1))'
            BY <1>8, <4>1, <4>2, <5>2
          <5> QED BY <5>2, <5>3 DEF Waits
        <4>3. CASE q # r
          BY <1>8, <4>1, <4>3 DEF Waits
        <4> QED BY <4>2, <4>3
      <3> QED BY <2>2, <3>1, <3>2 DEF Waits
    <2> QED BY <2>1, <2>2
  <1>12. Waits(t) /\ phase[t] = "none" /\ state[t] # "Absent"
    BY <1>2, <1>9 DEF Waits, ExecutorInv, WaitsUnspawned
  <1>13. WaitsUnspawned'
    BY <1>1, <1>4, <1>11 DEF ExecutorInv, WaitsUnspawned
  <1>14. \A u \in ExecTasks : PhaseTold(u)'
    BY <1>1, <1>4, <1>12 DEF ExecutorInv, PhaseTold
  <1> QED BY <1>6, <1>10, <1>13, <1>14 DEF ExecutorInv

(* The steps of spawned tasks, of cancel() and of await_completion() move no  *)
(* task between the queue and the batches.                                    *)
LEMMA RunKeeps ==
  ASSUME Bounded, ExecutorInv, NEW t \in ExecTasks, Run(t)
  PROVE  ExecutorInv'
  <1>1. /\ phase[t] = "spawned" /\ phase \in [ExecTasks -> Phases]
        /\ phase' = [phase EXCEPT ![t] = "running"] /\ state' = [state EXCEPT ![t] = "Running"]
        /\ UNCHANGED <<queue, batch, spawned, permits, answer, awaiting, cancelling>>
    BY DEF Run, ExecutorInv, ExecTypeOK
  <1>2. ExecTypeOK'
    BY <1>1 DEF ExecutorInv, ExecTypeOK, Phases
  <1>3. \A u \in ExecTasks : /\ phase'[u] = IF u = t THEN "running" ELSE phase[u]
                             /\ state'[u] = IF u = t THEN "Running" ELSE state[u]
    BY <1>1 DEF ExecutorInv, ExecTypeOK
  <1>4. \A u \in ExecTasks : PhaseTold(u)'
    BY <1>1, <1>3 DEF ExecutorInv, PhaseTold
  <1>5. state[t] # "Absent"
    BY <1>1 DEF ExecutorInv, PhaseTold
  <1>6. OnePlace' /\ WaitsUnspawned'
    BY <1>1, <1>3, <1>5, PlacesKept DEF ExecutorInv
  <1> QED BY <1>2, <1>4, <1>6 DEF ExecutorInv

LEMMA DropPermitKeeps ==
  ASSUME Bounded, ExecTypeOK, NEW t \in ExecTasks, DropPermit(t)
  PROVE  /\ permits' \in [Runners -> SUBSET ExecTasks]
         /\ \A r \in Runners : Cardinality(permits'[r]) <= MaxConcurrent
  <1>1. permits \in [Runners -> SUBSET ExecTasks] /\ permits' = [r \in Runners |-> permits[r] \ {t}]
    BY DEF ExecTypeOK, DropPermit
  <1>2. ASSUME NEW r \in Runners PROVE Cardinality(permits'[r]) <= MaxConcurrent
    <2>1. permits[r] \in SUBSET ExecTasks /\ permits'[r] \in SUBSET permits[r]
      BY <1>1
    <2>2. IsFiniteSet(permits[r]) /\ Cardinality(permits[r]) \in Nat /\ MaxConcurrent \in Nat
      BY <2>1, FS_Subset, FS_CardinalityType DEF Bounded
    <2>3. IsFiniteSet(permits'[r]) /\ Cardinality(permits'[r]) <= Cardinality(permits[r])
      BY <2>1, <2>2, FS_Subset
    <2>4. Cardinality(permits'[r]) \in Nat
      BY <2>3, FS_CardinalityType
    <2>5. Cardinality(permits[r]) <= MaxConcurrent
      BY DEF ExecTypeOK
    <2> QED BY ONLY <2>2, <2>3, <2>4, <2>5
  <1> QED BY <1>1, <1>2

LEMMA FutureEndsKeeps ==
  ASSUME Bounded, ExecutorInv, NEW t \in ExecTasks, NEW outcome \in {"ok", "err"}, FutureEnds(t, outcome)
  PROVE  ExecutorInv'
  <1>1. /\ phase[t] = "running" /\ phase \in [ExecTasks -> Phases]
        /\ phase' = [phase EXCEPT ![t] = outcome] /\ DropPermit(t)
        /\ UNCHANGED <<queue, state, batch, spawned, answer, awaiting, cancelling>>
    BY DEF FutureEnds, ExecutorInv, ExecTypeOK
  <1>2. ExecTypeOK'
    BY <1>1, DropPermitKeeps DEF ExecutorInv, ExecTypeOK, Phases
  <1>3. \A u \in ExecTasks : phase'[u] = IF u = t THEN outcome ELSE phase[u]
    BY <1>1
  <1>4. \A u \in ExecTasks : PhaseTold(u)'
    BY <1>1, <1>3 DEF ExecutorInv, PhaseTold
  <1>5. OnePlace' /\ WaitsUnspawned'
    BY <1>1, <1>3, PlacesKept DEF ExecutorInv
  <1> QED BY <1>2, <1>4, <1>5 DEF ExecutorInv

LEMMA FuturePanicsKeeps ==
  ASSUME Bounded, ExecutorInv, NEW t \in ExecTasks, FuturePanics(t)
  PROVE  ExecutorInv'
  <1>1. /\ phase[t] = "running" /\ phase \in [ExecTasks -> Phases]
        /\ phase' = [phase EXCEPT ![t] = "panicked"] /\ DropPermit(t)
        /\ UNCHANGED <<queue, state, batch, spawned, answer, awaiting, cancelling>>
    BY DEF FuturePanics, ExecutorInv, ExecTypeOK
  <1>2. ExecTypeOK'
    BY <1>1, DropPermitKeeps DEF ExecutorInv, ExecTypeOK, Phases
  <1>3. \A u \in ExecTasks : phase'[u] = IF u = t THEN "panicked" ELSE phase[u]
    BY <1>1
  <1>4. \A u \in ExecTasks : PhaseTold(u)'
    BY <1>1, <1>3 DEF ExecutorInv, PhaseTold
  <1>5. OnePlace' /\ WaitsUnspawned'
    BY <1>1, <1>3, PlacesKept DEF ExecutorInv
  <1> QED BY <1>2, <1>4, <1>5 DEF ExecutorInv

LEMMA FinishKeeps ==
  ASSUME Bounded, ExecutorInv, NEW t \in ExecTasks, Finish(t)
  PROVE  ExecutorInv'
  <1> DEFINE s == IF phase[t] = "ok" THEN "Completed" ELSE "Failed"
             p == IF phase[t] = "ok" THEN "completed" ELSE "failed"
  <1>1. /\ phase[t] \in {"ok", "err"} /\ phase \in [ExecTasks -> Phases]
        /\ phase' = [phase EXCEPT ![t] = p] /\ state' = [state EXCEPT ![t] = s]
        /\ UNCHANGED <<queue, batch, spawned, permits, answer, awaiting, cancelling>>
    BY DEF Finish, ExecutorInv, ExecTypeOK
  <1>2. ExecTypeOK'
    BY <1>1 DEF ExecutorInv, ExecTypeOK, Phases
  <1>3. \A u \in ExecTasks : /\ phase'[u] = IF u = t THEN p ELSE phase[u]
                             /\ state'[u] = IF u = t THEN s ELSE state[u]
    BY <1>1 DEF ExecutorInv, ExecTypeOK
  <1>4. \A u \in ExecTasks : PhaseTold(u)'
    BY <1>1, <1>3 DEF ExecutorInv, PhaseTold
  <1>5. state[t] # "Absent"
    BY <1>1 DEF ExecutorInv, PhaseTold
  <1>6. OnePlace' /\ WaitsUnspawned'
    BY <1>1, <1>3, <1>5, PlacesKept DEF ExecutorInv
  <1> QED BY <1>2, <1>4, <1>6 DEF ExecutorInv

LEMMA SendAnswerKeeps ==
  ASSUME Bounded, ExecutorInv, NEW t \in ExecTasks, SendAnswer(t)
  PROVE  ExecutorInv'
  <1> DEFINE a == IF phase[t] = "completed" THEN "Ok"
                  ELSE IF phase[t] = "failed" THEN "TaskFailed" ELSE "dropped"
  <1>1. /\ phase[t] \in {"completed", "failed", "panicked"} /\ phase \in [ExecTasks -> Phases]
        /\ phase' = [phase EXCEPT ![t] = "ended"] /\ answer' = [answer EXCEPT ![t] = a]
        /\ UNCHANGED <<queue, state, batch, spawned, permits, awaiting, cancelling>>
    BY DEF SendAnswer, ExecutorInv, ExecTypeOK
  <1>2. ExecTypeOK'
    BY <1>1 DEF ExecutorInv, ExecTypeOK, Phases
  <1>3. \A u \in ExecTasks : /\ phase'[u] = IF u = t THEN "ended" ELSE phase[u]
                             /\ answer'[u] = IF u = t THEN a ELSE answer[u]
    BY <1>1 DEF ExecutorInv, ExecTypeOK
  <1>4. \A u \in ExecTasks : PhaseTold(u)'
    BY <1>1, <1>3 DEF ExecutorInv, PhaseTold
  <1>5. OnePlace' /\ WaitsUnspawned'
    BY <1>1, <1>3, PlacesKept DEF ExecutorInv
  <1> QED BY <1>2, <1>4, <1>5 DEF ExecutorInv

(* Either exchange of cancel() only ever replaces Running or Queued.          *)
LEMMA ExchangeKeeps ==
  ASSUME ExecutorInv, NEW t \in ExecTasks, NEW from \in {"Running", "Queued"},
         state' = CompareExchange(t, from), cancelling' \subseteq ExecTasks,
         UNCHANGED <<queue, batch, spawned, permits, phase, answer, awaiting>>
  PROVE  ExecutorInv'
  <1>1. state \in [ExecTasks -> {"Absent", "Queued", "Running", "Cancelled", "Failed", "Completed"}]
    BY DEF ExecutorInv, ExecTypeOK
  <1>2. /\ state' \in [ExecTasks -> {"Absent", "Queued", "Running", "Cancelled", "Failed", "Completed"}]
        /\ \A u \in ExecTasks : state'[u] = state[u] \/ (state[u] = from /\ state'[u] = "Cancelled")
    BY <1>1 DEF CompareExchange
  <1>3. ExecTypeOK'
    BY <1>2 DEF ExecutorInv, ExecTypeOK
  <1>4. \A u \in ExecTasks : PhaseTold(u)'
    BY <1>2 DEF ExecutorInv, PhaseTold
  <1>5. OnePlace' /\ WaitsUnspawned'
    BY <1>2, PlacesKept DEF ExecutorInv
  <1> QED BY <1>3, <1>4, <1>5 DEF ExecutorInv

(* A step that leaves tasks, bytes and answers alone.                         *)
LEMMA BystanderKeeps ==
  ASSUME ExecutorInv, UNCHANGED <<queue, state, batch, permits, phase, answer>>, ExecTypeOK'
  PROVE  ExecutorInv'
  <1>1. \A u \in ExecTasks : PhaseTold(u)'
    BY DEF ExecutorInv, PhaseTold
  <1>2. OnePlace' /\ WaitsUnspawned'
    BY PlacesKept DEF ExecutorInv
  <1> QED BY <1>1, <1>2 DEF ExecutorInv

-----------------------------------------------------------------------------
LEMMA InitExecutor ==
  ASSUME Bounded, ExecInit
  PROVE  ExecutorInv
  <1>1. ExecTypeOK
    <2>1. \A r \in Runners : Cardinality(permits[r]) = 0
      BY FS_EmptySet DEF ExecInit
    <2>2. queue \in Seq(ExecTasks) /\ Len(queue) <= QueueDepth
      BY DEF ExecInit, Bounded
    <2>3. batch \in [Runners -> Seq(ExecTasks)]
      BY DEF ExecInit
    <2> QED BY <2>1, <2>2, <2>3 DEF ExecInit, ExecTypeOK, Phases, Bounded
  <1>2. (\A t, i : ~InQueue(t, i)) /\ \A t, i : \A r \in Runners : ~InBatch(t, r, i)
    BY DEF ExecInit, InQueue, InBatch
  <1>3. OnePlace /\ WaitsUnspawned
    BY <1>2 DEF OnePlace, WaitsUnspawned, Waits, ExecInit
  <1>4. \A t \in ExecTasks : PhaseTold(t)
    BY DEF ExecInit, PhaseTold
  <1> QED BY <1>1, <1>3, <1>4 DEF ExecutorInv

LEMMA NextKeeps ==
  ASSUME Bounded, ExecutorInv, [ExecNext]_exec_vars
  PROVE  ExecutorInv'
  <1>1. CASE \E r \in Runners : TakeQueue(r) \/ Spawn(r)
    BY <1>1, TakeQueueKeeps, SpawnKeeps
  <1>2. CASE \E r \in Runners : Join(r)
    <2>1. PICK r \in Runners : Join(r)
      BY <1>2
    <2>2. ExecTypeOK'
      BY <2>1 DEF Join, ExecutorInv, ExecTypeOK
    <2> QED BY <2>1, <2>2, BystanderKeeps DEF Join
  <1>3. CASE \E t \in ExecTasks : \/ ExecSubmit(t) \/ Run(t) \/ FuturePanics(t)
                               \/ Finish(t) \/ SendAnswer(t)
    BY <1>3, SubmitKeeps, RunKeeps, FuturePanicsKeeps, FinishKeeps, SendAnswerKeeps
  <1>4. CASE \E t \in ExecTasks, outcome \in {"ok", "err"} : FutureEnds(t, outcome)
    BY <1>4, FutureEndsKeeps
  <1>5. CASE \E t \in ExecTasks : CancelRunning(t) \/ CancelQueued(t)
    <2>1. PICK t \in ExecTasks : CancelRunning(t) \/ CancelQueued(t)
      BY <1>5
    <2>2. cancelling' \subseteq ExecTasks
      BY <2>1 DEF CancelRunning, CancelQueued, ExecutorInv, ExecTypeOK
    <2> QED BY <2>1, <2>2, ExchangeKeeps DEF CancelRunning, CancelQueued
  <1>6. CASE \E t \in ExecTasks : AwaitCompletion(t) \/ Answered(t)
    <2>1. PICK t \in ExecTasks : AwaitCompletion(t) \/ Answered(t)
      BY <1>6
    <2>2. ExecTypeOK'
      BY <2>1 DEF AwaitCompletion, Answered, ExecutorInv, ExecTypeOK
    <2> QED BY <2>1, <2>2, BystanderKeeps DEF AwaitCompletion, Answered
  <1>7. CASE UNCHANGED exec_vars
    <2>1. ExecTypeOK'
      BY <1>7 DEF exec_vars, ExecutorInv, ExecTypeOK
    <2> QED BY <1>7, <2>1, BystanderKeeps DEF exec_vars
  <1> QED BY <1>1, <1>2, <1>3, <1>4, <1>5, <1>6, <1>7 DEF ExecNext

-----------------------------------------------------------------------------
(* A batch without repetitions is no longer than there are tasks.             *)
LEMMA BatchShort ==
  ASSUME Bounded, ExecutorInv, NEW r \in Runners
  PROVE  Len(batch[r]) <= Cardinality(ExecTasks)
  <1>1. batch[r] \in Seq(ExecTasks)
    BY DEF ExecutorInv, ExecTypeOK
  <1>2. Len(batch[r]) \in Nat /\ batch[r] \in [1..Len(batch[r]) -> ExecTasks]
    BY <1>1, LenProperties
  <1>3. \A i, j \in 1..Len(batch[r]) : batch[r][i] = batch[r][j] => i = j
    <2> SUFFICES ASSUME NEW i \in 1..Len(batch[r]), NEW j \in 1..Len(batch[r]), batch[r][i] = batch[r][j]
                 PROVE  i = j
      OBVIOUS
    <2>1. /\ batch[r][i] \in ExecTasks /\ i \in Nat /\ j \in Nat
          /\ InBatch(batch[r][i], r, i) /\ InBatch(batch[r][i], r, j)
      BY <1>2 DEF InBatch
    <2> QED BY <2>1 DEF ExecutorInv, OnePlace
  <1>4. batch[r] \in Injection(1..Len(batch[r]), ExecTasks)
    BY <1>2, <1>3 DEF Injection, IsInjective
  <1>5. Cardinality(1..Len(batch[r])) <= Cardinality(ExecTasks)
    BY <1>4, FS_Injection DEF Bounded
  <1>6. Cardinality(1..Len(batch[r])) = Len(batch[r])
    BY <1>2, FS_Interval
  <1> QED BY <1>5, <1>6

(* The positions counted by the property are those of the invariant.          *)
LEMMA CountPlaces ==
  ASSUME Bounded, ExecutorInv, NEW t \in ExecTasks
  PROVE  Cardinality(Queued(t)) + Cardinality(Batched(t)) = IF Waits(t) THEN 1 ELSE 0
  <1>1. /\ \A i \in Nat : i \in Queued(t) <=> InQueue(t, i)
        /\ Queued(t) \subseteq Nat
    <2>1. Len(queue) \in Nat
      BY DEF ExecutorInv, ExecTypeOK
    <2> QED BY <2>1 DEF Queued, InQueue
  <1>2. \A r \in Runners, i \in Nat : <<r, i>> \in Batched(t) <=> InBatch(t, r, i)
    <2> SUFFICES ASSUME NEW r \in Runners, NEW i \in Nat
                 PROVE  <<r, i>> \in Batched(t) <=> InBatch(t, r, i)
      OBVIOUS
    <2>1. Len(batch[r]) <= Cardinality(ExecTasks) /\ Len(batch[r]) \in Nat /\ Cardinality(ExecTasks) \in Nat
      BY BatchShort, FS_CardinalityType DEF ExecutorInv, ExecTypeOK, Bounded
    <2> QED BY <2>1 DEF Batched, InBatch
  <1>3. \A p \in Batched(t) : \E r \in Runners, i \in Nat : p = <<r, i>>
    <2>1. Cardinality(ExecTasks) \in Nat
      BY FS_CardinalityType DEF Bounded
    <2> QED BY <2>1 DEF Batched
  <1>4. CASE \E i \in Nat : InQueue(t, i)
    <2>1. PICK i \in Nat : InQueue(t, i)
      BY <1>4
    <2>2. Queued(t) = {i}
      BY <1>1, <2>1 DEF ExecutorInv, OnePlace
    <2>3. Batched(t) = {}
      BY <1>2, <1>3, <2>1 DEF ExecutorInv, OnePlace
    <2>4. Waits(t)
      BY <2>1 DEF Waits
    <2>5. Cardinality(Queued(t)) = 1 /\ Cardinality(Batched(t)) = 0
      BY <2>2, <2>3, FS_Singleton, FS_EmptySet
    <2> QED BY <2>4, <2>5
  <1>5. CASE \E r \in Runners, i \in Nat : InBatch(t, r, i)
    <2>1. PICK r \in Runners, i \in Nat : InBatch(t, r, i)
      BY <1>5
    <2>2. Queued(t) = {}
      BY <1>1, <2>1 DEF ExecutorInv, OnePlace
    <2>3. Batched(t) = {<<r, i>>}
      BY <1>2, <1>3, <2>1 DEF ExecutorInv, OnePlace
    <2>4. Waits(t)
      BY <2>1 DEF Waits
    <2>5. Cardinality(Queued(t)) = 0 /\ Cardinality(Batched(t)) = 1
      BY <2>2, <2>3, FS_Singleton, FS_EmptySet
    <2> QED BY <2>4, <2>5
  <1>6. CASE ~Waits(t)
    <2>1. Queued(t) = {}
      BY <1>1, <1>6 DEF Waits
    <2>2. Batched(t) = {}
      BY <1>2, <1>3, <1>6 DEF Waits
    <2> QED BY <1>6, <2>1, <2>2, FS_EmptySet
  <1> QED BY <1>4, <1>5, <1>6 DEF Waits

(* await_completion() and state() agree for good, but for the moment between  *)
(* the store of an outcome and its sending, and overlapping calls of          *)
(* run_all() neither lose a task nor run it twice (lib.rs).                   *)
THEOREM AnswersAgree == ExecSpec => []AnswerMatchesState
  <1>0. Bounded
    BY ExecutorAssumption DEF Bounded
  <1>1. ExecInit => ExecutorInv
    BY <1>0, InitExecutor
  <1>2. ExecutorInv /\ [ExecNext]_exec_vars => ExecutorInv'
    BY <1>0, NextKeeps
  <1>3. ExecutorInv => AnswerMatchesState
    <2> SUFFICES ASSUME ExecutorInv PROVE AnswerMatchesState
      OBVIOUS
    <2>1. \A t \in ExecTasks :
            /\ answer[t] = "Ok" => state[t] = "Completed"
            /\ answer[t] = "TaskFailed" => state[t] = "Failed"
            /\ state[t] = "Completed" => answer[t] = "Ok" \/ phase[t] = "completed"
            /\ state[t] = "Failed" => answer[t] = "TaskFailed" \/ phase[t] = "failed"
      BY DEF ExecutorInv, PhaseTold
    <2>2. ASSUME NEW t \in ExecTasks
          PROVE  Cardinality(Queued(t)) + Cardinality(Batched(t)) + (IF phase[t] = "none" THEN 0 ELSE 1)
                   = IF state[t] = "Absent" THEN 0 ELSE 1
      <3>1. Cardinality(Queued(t)) + Cardinality(Batched(t)) = IF Waits(t) THEN 1 ELSE 0
        BY <1>0, CountPlaces
      <3>2. /\ Waits(t) <=> phase[t] = "none" /\ state[t] # "Absent"
            /\ phase[t] # "none" => state[t] # "Absent"
        BY DEF ExecutorInv, WaitsUnspawned, PhaseTold
      <3> QED BY <3>1, <3>2
    <2> QED BY <2>1, <2>2 DEF ExecutorInv, AnswerMatchesState
  <1> QED BY <1>1, <1>2, <1>3, PTL DEF ExecSpec
================================================================================
