--------------------------- MODULE ReplicationProofs ---------------------------
(***************************************************************************)
(* Proofs about Replication, for any threads, any size of the table and    *)
(* any number of creations.                                                *)
(***************************************************************************)
EXTENDS Replication, FiniteSetTheorems, WellFoundedInduction, TLAPS

(* Ids are given out once: those in use are behind next_id, and no two slots  *)
(* have the same.                                                             *)
IdsSound ==
    /\ \A i \in RepSlots : replicas[i].id < rep_next_id
    /\ \A th \in RepThreads : rep_calls[th].id < rep_next_id
    /\ \A i, j \in RepSlots : replicas[i].id = replicas[j].id /\ replicas[i].id # 0 => i = j

(* A slot has its two resources while the replica is Created or Running, and  *)
(* neither before or after.                                                   *)
Live == {"Created", "Running"}

SlotsSound ==
    \A i \in RepSlots :
        /\ replicas[i].arena = replicas[i].scheduler
        /\ replicas[i].state \in Live => replicas[i].scheduler \in schedulers /\ replicas[i].id # 0
        /\ replicas[i].state \notin Live => replicas[i].scheduler = 0

(* A call that has yet to publish or to free what it holds does hold it; a    *)
(* call that destroys a replica someone else has emptied holds nothing.       *)
Holding == {"allocated", "overflow", "destroying"}

CallsSound ==
    \A th \in RepThreads :
        rep_calls[th].op \in Holding =>
            /\ rep_calls[th].arena = rep_calls[th].scheduler
            /\ \/ rep_calls[th].scheduler \in schedulers
               \/ rep_calls[th].op = "destroying" /\ rep_calls[th].scheduler = 0

SlotChosen ==
    \A th \in RepThreads : rep_calls[th].op \in {"reserved", "allocated"} => rep_calls[th].slot \in RepSlots

(* A replica that a call is destroying cannot be submitted to again.          *)
Ending == {"destroying", "released"}

DrainingSound ==
    \A th \in RepThreads : rep_calls[th].op \in Ending =>
        /\ rep_calls[th].id # 0
        /\ \A i \in RepSlots : replicas[i].id = rep_calls[th].id => replicas[i].state \in {"Draining", "Destroyed"}

(* Nothing is held twice, and nothing is held by nobody.                      *)
Holds(th, r) == rep_calls[th].op \in Holding /\ rep_calls[th].scheduler = r

HeldOnce ==
    \A r \in schedulers :
        /\ \A i, j \in RepSlots : replicas[i].scheduler = r /\ replicas[j].scheduler = r => i = j
        /\ \A th, u \in RepThreads : Holds(th, r) /\ Holds(u, r) => th = u
        /\ \A i \in RepSlots, th \in RepThreads : ~(replicas[i].scheduler = r /\ Holds(th, r))

Held == \A r \in schedulers : (\E i \in RepSlots : replicas[i].scheduler = r) \/ \E th \in RepThreads : Holds(th, r)

(* Ids do not run out: each is given to a creation of its own.                *)
Unpublished == {r \in 1..created : \E th \in RepThreads : rep_calls[th].op = "allocated" /\ rep_calls[th].scheduler = r}

IdsSuffice == rep_next_id + Cardinality(Unpublished) <= created + 1

(* As long as no replica is destroyed while in use: a call that submits has   *)
(* the scheduler of a replica that is live, and one call destroys a replica.  *)
SubmitsLive ==
    \A th \in RepThreads : rep_calls[th].op \in {"submitting", "in scheduler"} =>
        \E i \in RepSlots : /\ replicas[i].id = rep_calls[th].id /\ replicas[i].state \in Live
                            /\ replicas[i].scheduler = rep_calls[th].scheduler

EndedOnce ==
    \A th, u \in RepThreads :
        th # u /\ rep_calls[th].op \in Ending /\ rep_calls[u].op \in Ending => rep_calls[th].id # rep_calls[u].id

EndedLast ==
    \A i \in RepSlots, th \in RepThreads :
        replicas[i].state = "Destroyed" /\ rep_calls[th].op \in Ending => rep_calls[th].id # replicas[i].id

Uncontended ==
    contended = {} => "use after free" \notin misuse /\ SubmitsLive /\ EndedOnce /\ EndedLast

(* The inductive invariant.                                                   *)
ReplicaInv ==
    /\ RepTypeOK /\ arenas = schedulers
    /\ IdsSound /\ SlotsSound /\ CallsSound /\ SlotChosen /\ DrainingSound /\ HeldOnce /\ Held /\ IdsSuffice
    /\ FreedOnce /\ Uncontended

-----------------------------------------------------------------------------
(* The first slot that matches is one that matches.                           *)
LEMMA FirstIn ==
  ASSUME NEW S \in SUBSET Nat, S # {}
  PROVE  FirstSlot(S) \in S
  <1> DEFINE R == {ss \in Nat \X Nat : ss[1] < ss[2]}
  <1>1. IsWellFoundedOn(R, Nat)
    BY NatLessThanWellFounded DEF OpToRel
  <1>2. PICK x \in S : \A y \in S : ~(<<y, x>> \in R)
    BY <1>1, WFMin
  <1>3. ASSUME NEW y \in S PROVE x <= y
    <2>1. x \in Nat /\ y \in Nat /\ <<y, x>> \in Nat \X Nat
      OBVIOUS
    <2>2. ~(y < x)
      BY <1>2, <2>1
    <2> QED BY <2>1, <2>2
  <1> QED BY <1>3 DEF FirstSlot

-----------------------------------------------------------------------------
(* What the table and the calls are made of.                                  *)
SlotRecord == [id : 0..MaxCreations, state : ReplicaState, auto_destroy : BOOLEAN,
               arena : 0..MaxCreations, scheduler : 0..MaxCreations]

CallRecord == [op : {"idle", "reserved", "allocated", "overflow", "destroying",
                     "released", "submitting", "in scheduler"},
               slot : 0..ReplicaMax, id : 0..MaxCreations, auto_destroy : BOOLEAN,
               arena : 0..MaxCreations, scheduler : 0..MaxCreations]

(* The parts of the type invariant, one by one.                               *)
LEMMA Typed ==
  ASSUME MaxCreations \in Nat, RepTypeOK
  PROVE  /\ replicas \in [RepSlots -> SlotRecord] /\ rep_calls \in [RepThreads -> CallRecord]
         /\ rep_next_id \in Nat /\ 0 < rep_next_id
         /\ created \in Nat /\ created <= MaxCreations
         /\ schedulers \subseteq 1..created
         /\ \A i \in RepSlots : replicas[i].id \in Nat
         /\ \A th \in RepThreads : rep_calls[th].id \in Nat
  <1>1. replicas \in [RepSlots -> SlotRecord] /\ rep_calls \in [RepThreads -> CallRecord]
    BY DEF RepTypeOK, SlotRecord, CallRecord
  <1>2. rep_next_id \in 1..(MaxCreations + 1) /\ created \in 0..MaxCreations /\ schedulers \subseteq 1..created
    BY DEF RepTypeOK
  <1>3. ASSUME NEW i \in RepSlots PROVE replicas[i].id \in Nat
    <2>1. replicas[i] \in SlotRecord
      BY <1>1
    <2>2. replicas[i].id \in 0..MaxCreations
      BY ONLY <2>1 DEF SlotRecord
    <2> QED BY <2>2
  <1>4. ASSUME NEW th \in RepThreads PROVE rep_calls[th].id \in Nat
    <2>1. rep_calls[th] \in CallRecord
      BY <1>1
    <2>2. rep_calls[th].id \in 0..MaxCreations
      BY ONLY <2>1 DEF CallRecord
    <2> QED BY <2>2
  <1> QED BY <1>1, <1>2, <1>3, <1>4

(* The initial state.                                                         *)
LEMMA InitReplica ==
  ASSUME ReplicaMax \in Nat, MaxCreations \in Nat, RepInit
  PROVE  ReplicaInv
  <1>1. /\ \A i \in RepSlots : replicas[i] = NoReplica
        /\ \A th \in RepThreads : rep_calls[th] = RepIdle
    BY DEF RepInit
  <1>2. RepTypeOK
    <2>1. NoReplica \in SlotRecord
      BY DEF NoReplica, ReplicaState, SlotRecord
    <2>2. RepIdle \in CallRecord
      BY DEF RepIdle, RepCall, CallRecord
    <2>3. replicas \in [RepSlots -> SlotRecord] /\ rep_calls \in [RepThreads -> CallRecord]
      BY <2>1, <2>2 DEF RepInit
    <2>4. created \in 0..MaxCreations /\ rep_next_id \in 1..(MaxCreations + 1)
      BY DEF RepInit
    <2>5. arenas = {} /\ schedulers = {} /\ misuse = {} /\ contended = {}
      BY DEF RepInit
    <2> QED BY <2>3, <2>4, <2>5 DEF RepTypeOK, SlotRecord, CallRecord
  <1>3. /\ IdsSound /\ SlotsSound /\ CallsSound /\ SlotChosen /\ DrainingSound
        /\ HeldOnce /\ Held /\ FreedOnce
    BY <1>1 DEF RepInit, SlotChosen, IdsSound, SlotsSound, Live, CallsSound, Holding, DrainingSound, Ending,
         HeldOnce, Held, FreedOnce, NoReplica, RepIdle, RepCall
  <1>4. IdsSuffice
    <2>1. Unpublished = {}
      BY DEF RepInit, Unpublished
    <2> QED BY <2>1, FS_EmptySet DEF IdsSuffice, RepInit
  <1>5. Uncontended
    BY <1>1 DEF RepInit, Uncontended, NoReplica, RepIdle, RepCall, Ending, SubmitsLive, EndedOnce, EndedLast
  <1> QED BY <1>2, <1>3, <1>4, <1>5 DEF ReplicaInv, RepInit

LEMMA UnpublishedFinite ==
  ASSUME MaxCreations \in Nat, RepTypeOK
  PROVE  IsFiniteSet(Unpublished)
  <1>1. IsFiniteSet(1..created)
    BY Typed, FS_Interval
  <1>2. Unpublished \subseteq 1..created
    BY DEF Unpublished
  <1> QED BY <1>1, <1>2, FS_Subset

(* A step that publishes nothing leaves the ids as they were.                 *)
LEMMA IdsKept ==
  ASSUME MaxCreations \in Nat, RepTypeOK, IdsSuffice, rep_next_id' = rep_next_id, created' = created,
         \A th \in RepThreads : rep_calls'[th].op = "allocated" =>
            rep_calls[th].op = "allocated" /\ rep_calls'[th].scheduler = rep_calls[th].scheduler
  PROVE  IdsSuffice'
  <1>1. created \in Nat /\ rep_next_id \in Nat
    BY Typed
  <1>2. Unpublished' \subseteq Unpublished
    BY DEF Unpublished
  <1>3. IsFiniteSet(Unpublished)
    BY UnpublishedFinite
  <1>4. /\ Cardinality(Unpublished') <= Cardinality(Unpublished)
        /\ Cardinality(Unpublished') \in Nat /\ Cardinality(Unpublished) \in Nat
    BY <1>2, <1>3, FS_Subset, FS_CardinalityType
  <1> QED BY <1>1, <1>4 DEF IdsSuffice

-----------------------------------------------------------------------------
(* A step that changes only the call of a thread which holds nothing, to one  *)
(* that holds nothing either.                                                 *)
LEMMA CallMoves ==
  ASSUME ReplicaMax \in Nat, MaxCreations \in Nat, ReplicaInv,
         NEW th \in RepThreads, NEW c \in CallRecord,
         rep_calls' = [rep_calls EXCEPT ![th] = c],
         UNCHANGED <<replicas, rep_next_id, created, arenas, schedulers, contended>>,
         rep_calls[th].op \notin Holding, c.id < rep_next_id,
         c.op \in {"idle", "reserved", "in scheduler"},
         c.op = "reserved" => c.slot \in RepSlots,
         c.op = "in scheduler" => /\ rep_calls[th].op = "submitting"
                                  /\ c.id = rep_calls[th].id /\ c.scheduler = rep_calls[th].scheduler,
         misuse' \subseteq {"double free", "use after free"}, FreedOnce',
         contended = {} => "use after free" \notin misuse'
  PROVE  ReplicaInv'
  <1>1. rep_calls \in [RepThreads -> CallRecord]
    BY Typed DEF ReplicaInv
  <1>2. rep_calls' \in [RepThreads -> CallRecord] /\ \A u \in RepThreads : rep_calls'[u] = IF u = th THEN c ELSE rep_calls[u]
    BY <1>1
  <1>3. RepTypeOK'
    BY <1>2 DEF ReplicaInv, RepTypeOK, CallRecord, RepSlots
  <1>4. IdsSound' /\ SlotChosen'
    BY <1>2, Typed DEF ReplicaInv, IdsSound, SlotChosen, RepSlots
  <1>5. SlotsSound' /\ (arenas = schedulers)'
    BY DEF ReplicaInv, SlotsSound, RepSlots
  <1>6. CallsSound' /\ DrainingSound'
    BY <1>2 DEF ReplicaInv, CallsSound, DrainingSound, Holding, Ending, RepSlots
  <1>7. \A u \in RepThreads, r \in schedulers : (Holds(u, r))' <=> Holds(u, r)
    BY <1>2 DEF Holds, Holding
  <1>8. HeldOnce' /\ Held'
    BY <1>7 DEF ReplicaInv, HeldOnce, Held, RepSlots
  <1>9. IdsSuffice'
    BY <1>2, IdsKept DEF ReplicaInv
  <1>10. Uncontended'
    <2> SUFFICES ASSUME contended' = {}, contended = {} PROVE Uncontended'
      BY DEF Uncontended
    <2>1. \A u \in RepThreads : u # th => rep_calls'[u] = rep_calls[u]
      BY <1>2
    <2>2. "use after free" \notin misuse' /\ SubmitsLive /\ EndedOnce /\ EndedLast
      BY DEF ReplicaInv, Uncontended
    <2>3. SubmitsLive'
      <3> SUFFICES ASSUME NEW u \in RepThreads, rep_calls'[u].op \in {"submitting", "in scheduler"}
                   PROVE  \E i \in RepSlots : /\ replicas[i].id = rep_calls'[u].id /\ replicas[i].state \in Live
                                              /\ replicas[i].scheduler = rep_calls'[u].scheduler
        BY DEF SubmitsLive, RepSlots
      <3>1. /\ rep_calls[u].op \in {"submitting", "in scheduler"}
            /\ rep_calls'[u].id = rep_calls[u].id /\ rep_calls'[u].scheduler = rep_calls[u].scheduler
        BY <1>2
      <3>2. PICK i \in RepSlots : /\ replicas[i].id = rep_calls[u].id /\ replicas[i].state \in Live
                                  /\ replicas[i].scheduler = rep_calls[u].scheduler
        BY ONLY <2>2, <3>1, u \in RepThreads DEF SubmitsLive
      <3> QED BY <3>1, <3>2
    <2>4. \A u \in RepThreads : rep_calls'[u].op \in Ending => rep_calls'[u] = rep_calls[u]
      BY <1>2 DEF Ending
    <2>5. EndedOnce'
      BY ONLY <2>2, <2>4 DEF EndedOnce
    <2>6. EndedLast'
      <3> SUFFICES ASSUME NEW i \in RepSlots, NEW u \in RepThreads, replicas[i].state = "Destroyed",
                          rep_calls'[u].op \in Ending
                   PROVE  rep_calls'[u].id # replicas[i].id
        BY DEF EndedLast, RepSlots
      <3>1. rep_calls[u].op \in Ending /\ rep_calls'[u].id = rep_calls[u].id
        BY <2>4
      <3> QED BY ONLY <2>2, <3>1, i \in RepSlots, u \in RepThreads, replicas[i].state = "Destroyed" DEF EndedLast
    <2> QED BY <2>2, <2>3, <2>5, <2>6 DEF Uncontended
  <1> QED BY <1>3, <1>4, <1>5, <1>6, <1>8, <1>9, <1>10 DEF ReplicaInv

LEMMA IdleCall == ASSUME ReplicaMax \in Nat, MaxCreations \in Nat
                  PROVE  RepIdle \in CallRecord /\ RepIdle.op = "idle" /\ RepIdle.id = 0
  BY DEF RepIdle, RepCall, CallRecord

-----------------------------------------------------------------------------
(* ify_replica_create() keeps the invariant: the choice of a slot, ...        *)
LEMMA CreateKeeps ==
  ASSUME ReplicaMax \in Nat, MaxCreations \in Nat, ReplicaInv,
         NEW th \in RepThreads, NEW auto \in BOOLEAN, Create(th, auto)
  PROVE  ReplicaInv'
  <1> DEFINE c == RepCall("reserved", FirstSlot(FreeSlots), 0, auto, 0, 0)
  <1>1. FirstSlot(FreeSlots) \in RepSlots
    BY FirstIn DEF FreeSlots, RepSlots, Create
  <1>2. c \in CallRecord /\ c.op = "reserved" /\ c.id = 0 /\ c.slot \in RepSlots
    BY <1>1 DEF RepCall, CallRecord, RepSlots
  <1>3. /\ rep_calls' = [rep_calls EXCEPT ![th] = c]
        /\ UNCHANGED <<replicas, rep_next_id, created, arenas, schedulers, misuse, contended>>
        /\ rep_calls[th] = RepIdle
    BY DEF Create, SetCall
  <1>4. c.id < rep_next_id /\ misuse \subseteq {"double free", "use after free"}
    BY <1>2, Typed DEF ReplicaInv, RepTypeOK
  <1>5. rep_calls[th].op \notin Holding
    BY <1>3, IdleCall DEF Holding
  <1>6. FreedOnce' /\ (contended = {} => "use after free" \notin misuse')
    BY <1>3 DEF ReplicaInv, FreedOnce, Uncontended
  <1> HIDE DEF c
  <1> QED BY <1>2, <1>3, <1>4, <1>5, <1>6, CallMoves

(* ... the allocations, ...                                                   *)
LEMMA AllocateKeeps ==
  ASSUME ReplicaMax \in Nat, MaxCreations \in Nat, ReplicaInv, NEW th \in RepThreads, Allocate(th)
  PROVE  ReplicaInv'
  <1>1. CASE SetCall(th, RepIdle) /\ UNCHANGED <<created, arenas, schedulers>>
    <2>1. rep_calls[th].op = "reserved" /\ UNCHANGED <<replicas, rep_next_id, misuse, contended>>
      BY DEF Allocate
    <2>2. RepIdle.id < rep_next_id /\ misuse \subseteq {"double free", "use after free"}
      BY Typed, IdleCall DEF ReplicaInv, RepTypeOK
    <2>3. FreedOnce' /\ (contended = {} => "use after free" \notin misuse')
      BY <2>1 DEF ReplicaInv, FreedOnce, Uncontended
    <2>4. rep_calls[th].op \notin Holding
      BY <2>1 DEF Holding
    <2> QED BY <1>1, <2>1, <2>2, <2>3, <2>4, IdleCall, CallMoves DEF SetCall
  <1>2. CASE ~(SetCall(th, RepIdle) /\ UNCHANGED <<created, arenas, schedulers>>)
    <2> DEFINE c == [rep_calls[th] EXCEPT !.op = "allocated", !.arena = created + 1,
                                     !.scheduler = created + 1]
    <2>1. /\ rep_calls[th].op = "reserved" /\ created < MaxCreations /\ created' = created + 1
          /\ arenas' = arenas \cup {created + 1} /\ schedulers' = schedulers \cup {created + 1}
          /\ UNCHANGED <<replicas, rep_next_id, misuse, contended>>
      BY <1>2 DEF Allocate
    <2>2. /\ rep_calls \in [RepThreads -> CallRecord] /\ created \in Nat /\ rep_next_id \in Nat /\ 0 < rep_next_id
          /\ schedulers \subseteq 1..created /\ replicas \in [RepSlots -> SlotRecord]
      BY Typed DEF ReplicaInv
    <2>3. rep_calls' = [rep_calls EXCEPT ![th] = c]
      BY <1>2, <2>2 DEF Allocate
    <2>4. /\ c \in CallRecord /\ c.op = "allocated" /\ c.arena = created + 1
          /\ c.scheduler = created + 1 /\ c.id = rep_calls[th].id /\ c.slot = rep_calls[th].slot
      <3>1. rep_calls[th] \in CallRecord /\ created + 1 \in 0..MaxCreations
        BY <2>1, <2>2
      <3> QED BY <3>1 DEF CallRecord
    <2> HIDE DEF c
    <2>5. rep_calls' \in [RepThreads -> CallRecord] /\ \A u \in RepThreads : rep_calls'[u] = IF u = th THEN c ELSE rep_calls[u]
      BY <2>2, <2>3, <2>4
    <2>6. RepTypeOK'
      <3>1. created' \in 0..MaxCreations /\ schedulers' \subseteq 1..created' /\ arenas' \subseteq 1..created'
        BY <2>1, <2>2 DEF ReplicaInv
      <3> QED BY <2>1, <2>5, <3>1 DEF ReplicaInv, RepTypeOK, CallRecord, RepSlots
    <2>7. IdsSound' /\ SlotChosen'
      BY <2>1, <2>4, <2>5 DEF ReplicaInv, IdsSound, SlotChosen, RepSlots
    <2>8. SlotsSound' /\ (arenas = schedulers)' /\ FreedOnce'
      BY <2>1 DEF ReplicaInv, SlotsSound, RepSlots, FreedOnce
    <2>9. CallsSound' /\ DrainingSound'
      BY <2>1, <2>4, <2>5 DEF ReplicaInv, CallsSound, DrainingSound, Holding, Ending, RepSlots
    <2>10. /\ created + 1 \notin schedulers /\ created + 1 # 0
           /\ \A i \in RepSlots : replicas[i].scheduler # created + 1
           /\ \A u \in RepThreads : ~Holds(u, created + 1)
      <3>1. created + 1 \notin schedulers /\ created + 1 # 0
        BY <2>2
      <3>2. \A i \in RepSlots : replicas[i].scheduler # created + 1
        BY <3>1 DEF ReplicaInv, SlotsSound
      <3>3. \A u \in RepThreads : ~Holds(u, created + 1)
        BY <3>1 DEF ReplicaInv, CallsSound, Holds
      <3> QED BY <3>1, <3>2, <3>3
    <2>11. \A u \in RepThreads, r \in schedulers : (Holds(u, r))' <=> Holds(u, r)
      BY <2>1, <2>4, <2>5, <2>10 DEF Holds, Holding
    <2>12. \A u \in RepThreads : (Holds(u, created + 1)) <=> FALSE
      BY <2>10
    <2>13. \A u \in RepThreads : rep_calls'[u].op \in Holding /\ rep_calls'[u].scheduler = created + 1 <=> u = th
      BY <2>4, <2>5, <2>10 DEF Holds, Holding
    <2>14. HeldOnce'
      <3> SUFFICES ASSUME NEW r \in schedulers'
                   PROVE  /\ \A i, j \in RepSlots : replicas[i].scheduler = r /\ replicas[j].scheduler = r => i = j
                          /\ \A t, u \in RepThreads : (Holds(t, r))' /\ (Holds(u, r))' => t = u
                          /\ \A i \in RepSlots, t \in RepThreads : ~(replicas[i].scheduler = r /\ (Holds(t, r))')
        BY <2>1 DEF HeldOnce, RepSlots
      <3>1. CASE r \in schedulers
        BY <2>11, <3>1 DEF ReplicaInv, HeldOnce
      <3>2. CASE r = created + 1
        BY <2>10, <2>13, <3>2 DEF Holds
      <3> QED BY <2>1, <3>1, <3>2
    <2>15. Held'
      <3> SUFFICES ASSUME NEW r \in schedulers'
                   PROVE  (\E i \in RepSlots : replicas[i].scheduler = r) \/ \E t \in RepThreads : (Holds(t, r))'
        BY <2>1 DEF Held, RepSlots
      <3>1. CASE r \in schedulers
        BY <2>11, <3>1 DEF ReplicaInv, Held
      <3>2. CASE r = created + 1
        BY <2>13, <3>2 DEF Holds
      <3> QED BY <2>1, <3>1, <3>2
    <2>16. IdsSuffice'
      <3>1. IsFiniteSet(Unpublished) /\ Cardinality(Unpublished) \in Nat
        BY UnpublishedFinite, FS_CardinalityType DEF ReplicaInv
      <3>2. Unpublished' \subseteq Unpublished \cup {created + 1}
        BY <2>1, <2>2, <2>4, <2>5 DEF Unpublished
      <3>3. /\ IsFiniteSet(Unpublished \cup {created + 1})
            /\ Cardinality(Unpublished \cup {created + 1}) <= Cardinality(Unpublished) + 1
        <4> DEFINE n == Cardinality(Unpublished)
                   m == Cardinality(Unpublished \cup {created + 1})
        <4>1. /\ IsFiniteSet(Unpublished \cup {created + 1})
              /\ m = IF created + 1 \in Unpublished THEN n ELSE n + 1
          BY ONLY <3>1, FS_AddElement
        <4>2. n \in Nat
          BY ONLY <3>1
        <4> HIDE DEF n, m
        <4>3. m <= n + 1
          BY ONLY <4>1, <4>2
        <4> QED BY ONLY <4>1, <4>3 DEF n, m
      <3>4. /\ Cardinality(Unpublished') <= Cardinality(Unpublished \cup {created + 1})
            /\ Cardinality(Unpublished') \in Nat /\ Cardinality(Unpublished \cup {created + 1}) \in Nat
        BY <3>2, <3>3, FS_Subset, FS_CardinalityType
      <3> QED BY <2>1, <2>2, <3>1, <3>3, <3>4 DEF IdsSuffice, ReplicaInv
    <2>17. Uncontended'
      <3> SUFFICES ASSUME contended' = {}, contended = {} PROVE Uncontended'
        BY <2>1 DEF Uncontended
      <3>1. "use after free" \notin misuse' /\ SubmitsLive /\ EndedOnce /\ EndedLast
        BY <2>1 DEF ReplicaInv, Uncontended
      <3>2. \A u \in RepThreads : rep_calls'[u].op # "allocated" => rep_calls'[u] = rep_calls[u]
        BY <2>4, <2>5
      <3>3. SubmitsLive'
        BY <2>1, <3>1, <3>2 DEF SubmitsLive, RepSlots
      <3>4. EndedOnce'
        BY <3>1, <3>2 DEF EndedOnce, Ending
      <3>5. EndedLast'
        BY <2>1, <3>1, <3>2 DEF EndedLast, Ending, RepSlots
      <3> QED BY <3>1, <3>3, <3>4, <3>5 DEF Uncontended
    <2> QED BY <2>6, <2>7, <2>8, <2>9, <2>14, <2>15, <2>16, <2>17 DEF ReplicaInv
  <1> QED BY <1>1, <1>2

(* ... the retreat from a table that is full, ...                             *)
LEMMA NoSlotLeftKeeps ==
  ASSUME ReplicaMax \in Nat, MaxCreations \in Nat, ReplicaInv, NEW th \in RepThreads, NoSlotLeft(th)
  PROVE  ReplicaInv'
  <1> DEFINE c == [rep_calls[th] EXCEPT !.op = "overflow"]
  <1>1. /\ rep_calls[th].op = "allocated"
        /\ UNCHANGED <<replicas, rep_next_id, created, arenas, schedulers, misuse, contended>>
    BY DEF NoSlotLeft
  <1>2. rep_calls \in [RepThreads -> CallRecord]
    BY Typed DEF ReplicaInv
  <1>3. rep_calls' = [rep_calls EXCEPT ![th] = c]
    BY <1>2 DEF NoSlotLeft
  <1>4. /\ c \in CallRecord /\ c.op = "overflow" /\ c.arena = rep_calls[th].arena
        /\ c.scheduler = rep_calls[th].scheduler /\ c.id = rep_calls[th].id
    BY <1>2 DEF CallRecord
  <1> HIDE DEF c
  <1>5. rep_calls' \in [RepThreads -> CallRecord] /\ \A u \in RepThreads : rep_calls'[u] = IF u = th THEN c ELSE rep_calls[u]
    BY <1>2, <1>3, <1>4
  <1>6. RepTypeOK'
    BY <1>1, <1>5 DEF ReplicaInv, RepTypeOK, CallRecord, RepSlots
  <1>7. IdsSound' /\ SlotChosen'
    BY <1>1, <1>4, <1>5 DEF ReplicaInv, IdsSound, SlotChosen, RepSlots
  <1>8. SlotsSound' /\ (arenas = schedulers)' /\ FreedOnce'
    BY <1>1 DEF ReplicaInv, SlotsSound, RepSlots, FreedOnce
  <1>9. CallsSound' /\ DrainingSound'
    BY <1>1, <1>4, <1>5 DEF ReplicaInv, CallsSound, DrainingSound, Holding, Ending, RepSlots
  <1>10. \A u \in RepThreads, r \in schedulers : (Holds(u, r))' <=> Holds(u, r)
    BY <1>1, <1>4, <1>5 DEF Holds, Holding
  <1>11. HeldOnce' /\ Held'
    BY <1>1, <1>10 DEF ReplicaInv, HeldOnce, Held, RepSlots
  <1>12. IdsSuffice'
    BY <1>1, <1>4, <1>5, IdsKept DEF ReplicaInv
  <1>13. Uncontended'
    <2> SUFFICES ASSUME contended' = {}, contended = {} PROVE Uncontended'
      BY <1>1 DEF Uncontended
    <2>1. "use after free" \notin misuse' /\ SubmitsLive /\ EndedOnce /\ EndedLast
      BY <1>1 DEF ReplicaInv, Uncontended
    <2>2. \A u \in RepThreads : rep_calls'[u].op # "overflow" => rep_calls'[u] = rep_calls[u]
      BY <1>4, <1>5
    <2>3. SubmitsLive'
      BY <1>1, <2>1, <2>2 DEF SubmitsLive, RepSlots
    <2>4. EndedOnce'
      BY <2>1, <2>2 DEF EndedOnce, Ending
    <2>5. EndedLast'
      BY <1>1, <2>1, <2>2 DEF EndedLast, Ending, RepSlots
    <2> QED BY <2>1, <2>3, <2>4, <2>5 DEF Uncontended
  <1> QED BY <1>6, <1>7, <1>8, <1>9, <1>11, <1>12, <1>13 DEF ReplicaInv

(* ... and the publication, in a slot that is still available.                *)
LEMMA PublishKeeps ==
  ASSUME ReplicaMax \in Nat, MaxCreations \in Nat, ReplicaInv, NEW th \in RepThreads, Publish(th)
  PROVE  ReplicaInv'
  <1> DEFINE c == rep_calls[th]
             s == [id |-> rep_next_id, state |-> "Created", auto_destroy |-> c.auto_destroy,
                   arena |-> c.arena, scheduler |-> c.scheduler]
  <1>1. PICK i \in SlotFor(c) : replicas' = [replicas EXCEPT ![i] = s]
    BY DEF Publish
  <1>2. /\ c.op = "allocated" /\ rep_next_id' = rep_next_id + 1 /\ rep_calls' = [rep_calls EXCEPT ![th] = RepIdle]
        /\ UNCHANGED <<created, arenas, schedulers, misuse, contended>>
    BY DEF Publish, SetCall
  <1>3. /\ rep_calls \in [RepThreads -> CallRecord] /\ created \in Nat /\ rep_next_id \in Nat /\ 0 < rep_next_id
        /\ created <= MaxCreations
        /\ schedulers \subseteq 1..created /\ replicas \in [RepSlots -> SlotRecord]
    BY Typed DEF ReplicaInv
  <1>4. c \in CallRecord
    BY <1>3
  <1>5. i \in RepSlots /\ Available(i)
    <2>1. CASE Available(c.slot)
      BY <1>1, <1>2, <2>1 DEF SlotFor, ReplicaInv, SlotChosen
    <2>2. CASE ~Available(c.slot)
      <3>1. FreeSlots # {} /\ i = FirstSlot(FreeSlots)
        BY <1>1, <2>2 DEF SlotFor
      <3>2. FirstSlot(FreeSlots) \in FreeSlots
        BY <3>1, FirstIn DEF FreeSlots, RepSlots
      <3> QED BY <3>1, <3>2 DEF FreeSlots
    <2> QED BY <2>1, <2>2
  <1>6. c.scheduler \in schedulers /\ c.arena = c.scheduler
    BY <1>2 DEF ReplicaInv, CallsSound, Holding
  <1>7. replicas[i].scheduler = 0
    BY <1>5 DEF ReplicaInv, SlotsSound, Available, Live
  <1>8. /\ IsFiniteSet(Unpublished) /\ Cardinality(Unpublished) \in Nat
        /\ IsFiniteSet(Unpublished \ {c.scheduler})
        /\ Cardinality(Unpublished \ {c.scheduler}) = Cardinality(Unpublished) - 1
    <2>1. IsFiniteSet(Unpublished) /\ Cardinality(Unpublished) \in Nat
      BY UnpublishedFinite, FS_CardinalityType DEF ReplicaInv
    <2>2. c.scheduler \in Unpublished
      BY <1>2, <1>3, <1>6 DEF Unpublished
    <2> QED BY <2>1, <2>2, FS_RemoveElement
  <1>9. rep_next_id <= created
    <2>1. Cardinality(Unpublished \ {c.scheduler}) \in Nat
      BY <1>8, FS_CardinalityType
    <2> QED BY <1>3, <1>8, <2>1 DEF ReplicaInv, IdsSuffice
  <1>10. /\ s \in SlotRecord /\ s.id = rep_next_id /\ s.state = "Created"
         /\ s.arena = c.scheduler /\ s.scheduler = c.scheduler
    <2>1. rep_next_id \in 0..MaxCreations
      BY <1>3, <1>9
    <2> QED BY <1>4, <1>6, <2>1 DEF SlotRecord, CallRecord, ReplicaState
  <1>11. /\ rep_calls' \in [RepThreads -> CallRecord]
         /\ \A u \in RepThreads : rep_calls'[u] = IF u = th THEN RepIdle ELSE rep_calls[u]
    BY <1>2, <1>3, IdleCall
  <1> HIDE DEF s
  <1>12. replicas' \in [RepSlots -> SlotRecord] /\ \A j \in RepSlots : replicas'[j] = IF j = i THEN s ELSE replicas[j]
    BY <1>1, <1>3, <1>10
  <1>13. RepTypeOK'
    <2>1. rep_next_id' \in 1..(MaxCreations + 1)
      BY <1>2, <1>3, <1>9
    <2> QED BY <1>2, <1>11, <1>12, <2>1 DEF ReplicaInv, RepTypeOK, CallRecord, SlotRecord, RepSlots
  <1>14. IdsSound'
    <2>1. /\ \A j \in RepSlots : replicas[j].id < rep_next_id /\ replicas[j].id \in Nat
          /\ \A u \in RepThreads : rep_calls[u].id < rep_next_id /\ rep_calls[u].id \in Nat
          /\ \A j, k \in RepSlots : replicas[j].id = replicas[k].id /\ replicas[j].id # 0 => j = k
      BY Typed DEF ReplicaInv, IdsSound
    <2>2. \A j \in RepSlots : replicas'[j].id < rep_next_id'
      BY <1>2, <1>3, <1>10, <1>12, <2>1
    <2>3. \A u \in RepThreads : rep_calls'[u].id < rep_next_id'
      BY <1>2, <1>3, <1>11, <2>1, IdleCall
    <2>4. \A j, k \in RepSlots : replicas'[j].id = replicas'[k].id /\ replicas'[j].id # 0 => j = k
      BY <1>3, <1>10, <1>12, <2>1
    <2> QED BY <2>2, <2>3, <2>4 DEF IdsSound, RepSlots
  <1>15. SlotsSound' /\ (arenas = schedulers)' /\ FreedOnce'
    <2>1. SlotsSound'
      BY <1>2, <1>3, <1>6, <1>10, <1>12 DEF ReplicaInv, SlotsSound, RepSlots, Live
    <2> QED BY <1>2, <2>1 DEF ReplicaInv, FreedOnce
  <1>16. CallsSound' /\ SlotChosen'
    BY <1>2, <1>11, IdleCall DEF ReplicaInv, CallsSound, SlotChosen, Holding, RepSlots
  <1>17. DrainingSound'
    <2> SUFFICES ASSUME NEW u \in RepThreads, rep_calls'[u].op \in Ending
                 PROVE  /\ rep_calls'[u].id # 0
                        /\ \A j \in RepSlots : replicas'[j].id = rep_calls'[u].id =>
                              replicas'[j].state \in {"Draining", "Destroyed"}
      BY DEF DrainingSound, RepSlots
    <2>1. u # th /\ rep_calls'[u] = rep_calls[u] /\ rep_calls[u].id < rep_next_id /\ rep_calls[u].id \in Nat
      BY <1>11, IdleCall, Typed DEF Ending, ReplicaInv, IdsSound
    <2> QED BY <1>3, <1>10, <1>12, <2>1 DEF ReplicaInv, DrainingSound
  <1>18. \A u \in RepThreads, r \in schedulers : (Holds(u, r))' <=> u # th /\ Holds(u, r)
    BY <1>11, IdleCall DEF Holds, Holding
  <1>19. Holds(th, c.scheduler) /\ \A r \in schedulers : Holds(th, r) <=> r = c.scheduler
    BY <1>2 DEF Holds, Holding
  <1>20. 0 \notin schedulers
    BY <1>3
  <1>21. HeldOnce'
    <2> SUFFICES ASSUME NEW r \in schedulers
                 PROVE  /\ \A j, k \in RepSlots : replicas'[j].scheduler = r /\ replicas'[k].scheduler = r => j = k
                        /\ \A t, u \in RepThreads : (Holds(t, r))' /\ (Holds(u, r))' => t = u
                        /\ \A j \in RepSlots, t \in RepThreads : ~(replicas'[j].scheduler = r /\ (Holds(t, r))')
      BY <1>2 DEF HeldOnce, RepSlots
    <2>1. /\ \A j, k \in RepSlots : replicas[j].scheduler = r /\ replicas[k].scheduler = r => j = k
          /\ \A t, u \in RepThreads : Holds(t, r) /\ Holds(u, r) => t = u
          /\ \A j \in RepSlots, t \in RepThreads : ~(replicas[j].scheduler = r /\ Holds(t, r))
      BY DEF ReplicaInv, HeldOnce
    <2>2. \A j \in RepSlots : replicas'[j].scheduler = r => IF r = c.scheduler THEN j = i ELSE replicas[j].scheduler = r
      BY <1>10, <1>12, <1>19, <2>1
    <2> QED BY <1>18, <1>19, <2>1, <2>2
  <1>22. Held'
    <2> SUFFICES ASSUME NEW r \in schedulers
                 PROVE  (\E j \in RepSlots : replicas'[j].scheduler = r) \/ \E t \in RepThreads : (Holds(t, r))'
      BY <1>2 DEF Held, RepSlots
    <2>1. CASE r = c.scheduler
      BY <1>5, <1>10, <1>12, <2>1
    <2>2. CASE r # c.scheduler
      <3>1. (\E j \in RepSlots : replicas[j].scheduler = r) \/ \E t \in RepThreads : Holds(t, r)
        BY DEF ReplicaInv, Held
      <3> QED BY <1>7, <1>12, <1>18, <1>19, <1>20, <2>2, <3>1
    <2> QED BY <2>1, <2>2
  <1>23. IdsSuffice'
    <2>1. Unpublished' \subseteq Unpublished \ {c.scheduler}
      <3> SUFFICES ASSUME NEW r \in 1..created, NEW u \in RepThreads,
                          rep_calls'[u].op = "allocated", rep_calls'[u].scheduler = r
                   PROVE  r \in Unpublished \ {c.scheduler}
        BY <1>2 DEF Unpublished
      <3>1. u # th /\ rep_calls'[u] = rep_calls[u]
        BY <1>11, IdleCall
      <3>2. Holds(u, r)
        BY <3>1 DEF Holds, Holding
      <3>3. r # c.scheduler
        BY <1>6, <1>19, <3>1, <3>2 DEF ReplicaInv, HeldOnce
      <3> QED BY <3>1, <3>3 DEF Unpublished
    <2>2. /\ Cardinality(Unpublished') <= Cardinality(Unpublished \ {c.scheduler})
          /\ Cardinality(Unpublished') \in Nat /\ Cardinality(Unpublished \ {c.scheduler}) \in Nat
      BY <1>8, <2>1, FS_Subset, FS_CardinalityType
    <2> QED BY <1>2, <1>3, <1>8, <2>2 DEF IdsSuffice, ReplicaInv
  <1>24. Uncontended'
    <2> SUFFICES ASSUME contended' = {}, contended = {} PROVE Uncontended'
      BY <1>2 DEF Uncontended
    <2>1. "use after free" \notin misuse' /\ SubmitsLive /\ EndedOnce /\ EndedLast
      BY <1>2 DEF ReplicaInv, Uncontended
    <2>2. \A u \in RepThreads : rep_calls'[u].op # "idle" => rep_calls'[u] = rep_calls[u]
      BY <1>11, IdleCall
    <2>3. \A j \in RepSlots : /\ replicas[j].state \in Live => replicas'[j] = replicas[j]
                              /\ replicas'[j].state = "Destroyed" => replicas'[j] = replicas[j]
      BY <1>5, <1>10, <1>12 DEF Available, Live
    <2>4. SubmitsLive'
      <3> SUFFICES ASSUME NEW u \in RepThreads, rep_calls'[u].op \in {"submitting", "in scheduler"}
                   PROVE  \E j \in RepSlots : /\ replicas'[j].id = rep_calls'[u].id /\ replicas'[j].state \in Live
                                              /\ replicas'[j].scheduler = rep_calls'[u].scheduler
        BY DEF SubmitsLive, RepSlots
      <3>1. rep_calls'[u] = rep_calls[u]
        BY <2>2
      <3>2. PICK j \in RepSlots : /\ replicas[j].id = rep_calls[u].id /\ replicas[j].state \in Live
                                  /\ replicas[j].scheduler = rep_calls[u].scheduler
        BY <2>1, <3>1 DEF SubmitsLive
      <3> QED BY <2>3, <3>1, <3>2
    <2>5. EndedOnce'
      BY <2>1, <2>2 DEF EndedOnce, Ending
    <2>6. EndedLast'
      BY <2>1, <2>2, <2>3 DEF EndedLast, Ending, RepSlots
    <2> QED BY <2>1, <2>4, <2>5, <2>6 DEF Uncontended
  <1> QED BY <1>13, <1>14, <1>15, <1>16, <1>17, <1>21, <1>22, <1>23, <1>24 DEF ReplicaInv

-----------------------------------------------------------------------------
(* Freeing what a call holds keeps the invariant: in the table and in the     *)
(* other calls there is nothing of what is freed.                             *)
LEMMA FreeKeeps ==
  ASSUME ReplicaMax \in Nat, MaxCreations \in Nat, ReplicaInv,
         NEW th \in RepThreads, NEW c \in CallRecord,
         rep_calls' = [rep_calls EXCEPT ![th] = c], FreeHeld(rep_calls[th]),
         UNCHANGED <<replicas, rep_next_id, created, contended>>,
         rep_calls[th].op \in {"overflow", "destroying"}, c.op \in {"idle", "released"},
         c.id < rep_next_id,
         c.op = "released" => rep_calls[th].op = "destroying" /\ c.id = rep_calls[th].id
  PROVE  ReplicaInv'
  <1> DEFINE r0 == rep_calls[th].scheduler
  <1>1. /\ rep_calls \in [RepThreads -> CallRecord] /\ schedulers \subseteq 1..created /\ created \in Nat
    BY Typed DEF ReplicaInv
  <1>2. rep_calls' \in [RepThreads -> CallRecord] /\ \A u \in RepThreads : rep_calls'[u] = IF u = th THEN c ELSE rep_calls[u]
    BY <1>1
  <1>3. rep_calls[th].arena = r0 /\ (r0 \in schedulers \/ r0 = 0) /\ arenas = schedulers
    BY DEF ReplicaInv, CallsSound, Holding
  <1>4. arenas' = schedulers' /\ schedulers' = schedulers \ {r0} /\ misuse' = misuse
    BY <1>3 DEF FreeHeld
  <1>5. RepTypeOK'
    <2>1. schedulers' \subseteq 1..created' /\ arenas' \subseteq 1..created'
      BY <1>1, <1>4
    <2> QED BY <1>2, <1>4, <2>1 DEF ReplicaInv, RepTypeOK, CallRecord, RepSlots
  <1>6. IdsSound' /\ SlotChosen'
    BY <1>2 DEF ReplicaInv, IdsSound, SlotChosen, RepSlots
  <1>7. \A r \in schedulers : Holds(th, r) <=> r = r0
    BY DEF Holds, Holding
  <1>8. SlotsSound'
    <2>1. \A i \in RepSlots : replicas[i].scheduler \in schedulers => replicas[i].scheduler # r0
      BY <1>7 DEF ReplicaInv, HeldOnce
    <2> QED BY <1>4, <2>1 DEF ReplicaInv, SlotsSound, RepSlots
  <1>9. \A u \in RepThreads, r \in schedulers : (Holds(u, r))' <=> u # th /\ Holds(u, r)
    BY <1>2 DEF Holds, Holding
  <1>10. CallsSound'
    <2> SUFFICES ASSUME NEW u \in RepThreads, rep_calls'[u].op \in Holding
                 PROVE  /\ rep_calls'[u].arena = rep_calls'[u].scheduler
                        /\ \/ rep_calls'[u].scheduler \in schedulers'
                           \/ rep_calls'[u].op = "destroying" /\ rep_calls'[u].scheduler = 0
      BY DEF CallsSound
    <2>1. u # th /\ rep_calls'[u] = rep_calls[u]
      BY <1>2 DEF Holding
    <2>2. /\ rep_calls[u].arena = rep_calls[u].scheduler
          /\ \/ rep_calls[u].scheduler \in schedulers
             \/ rep_calls[u].op = "destroying" /\ rep_calls[u].scheduler = 0
      BY <2>1 DEF ReplicaInv, CallsSound
    <2>3. CASE rep_calls[u].scheduler \in schedulers
      <3>1. Holds(u, rep_calls[u].scheduler)
        BY <2>1 DEF Holds
      <3>2. rep_calls[u].scheduler # r0
        BY <1>7, <2>1, <2>3, <3>1 DEF ReplicaInv, HeldOnce
      <3> QED BY <1>4, <2>1, <2>2, <2>3, <3>2
    <2> QED BY <2>1, <2>2, <2>3
  <1>11. DrainingSound'
    BY <1>2 DEF ReplicaInv, DrainingSound, Ending, RepSlots
  <1>12. HeldOnce'
    <2> SUFFICES ASSUME NEW r \in schedulers, r # r0
                 PROVE  /\ \A j, k \in RepSlots : replicas[j].scheduler = r /\ replicas[k].scheduler = r => j = k
                        /\ \A t, u \in RepThreads : (Holds(t, r))' /\ (Holds(u, r))' => t = u
                        /\ \A j \in RepSlots, t \in RepThreads : ~(replicas[j].scheduler = r /\ (Holds(t, r))')
      BY <1>4 DEF HeldOnce, RepSlots
    <2> QED BY <1>9 DEF ReplicaInv, HeldOnce
  <1>13. Held'
    <2> SUFFICES ASSUME NEW r \in schedulers, r # r0
                 PROVE  (\E j \in RepSlots : replicas[j].scheduler = r) \/ \E t \in RepThreads : (Holds(t, r))'
      BY <1>4 DEF Held, RepSlots
    <2> QED BY <1>7, <1>9 DEF ReplicaInv, Held
  <1>14. IdsSuffice'
    BY <1>2, IdsKept DEF ReplicaInv
  <1>15. Uncontended'
    <2> SUFFICES ASSUME contended' = {}, contended = {} PROVE Uncontended'
      BY DEF Uncontended
    <2>1. "use after free" \notin misuse' /\ SubmitsLive /\ EndedOnce /\ EndedLast
      BY <1>4 DEF ReplicaInv, Uncontended
    <2>2. \A u \in RepThreads : rep_calls'[u].op \in {"submitting", "in scheduler"} => rep_calls'[u] = rep_calls[u]
      BY <1>2
    <2>3. \A u \in RepThreads : rep_calls'[u].op \in Ending => rep_calls[u].op \in Ending /\ rep_calls'[u].id = rep_calls[u].id
      BY <1>2 DEF Ending
    <2>4. replicas' = replicas /\ RepSlots' = RepSlots
      BY DEF RepSlots
    <2>5. SubmitsLive'
      BY ONLY <2>1, <2>2, <2>4 DEF SubmitsLive
    <2>6. EndedOnce'
      BY ONLY <2>1, <2>3 DEF EndedOnce
    <2>7. EndedLast'
      BY ONLY <2>1, <2>3, <2>4 DEF EndedLast
    <2> QED BY <2>1, <2>5, <2>6, <2>7 DEF Uncontended
  <1>16. FreedOnce'
    BY <1>4 DEF ReplicaInv, FreedOnce
  <1> QED BY <1>4, <1>5, <1>6, <1>8, <1>10, <1>11, <1>12, <1>13, <1>14, <1>15, <1>16 DEF ReplicaInv

LEMMA GiveUpKeeps ==
  ASSUME ReplicaMax \in Nat, MaxCreations \in Nat, ReplicaInv, NEW th \in RepThreads, GiveUp(th)
  PROVE  ReplicaInv'
  <1>1. RepIdle.id < rep_next_id
    BY Typed, IdleCall DEF ReplicaInv
  <1> QED BY <1>1, IdleCall, FreeKeeps DEF GiveUp, SetCall

LEMMA ReleaseKeeps ==
  ASSUME ReplicaMax \in Nat, MaxCreations \in Nat, ReplicaInv, NEW th \in RepThreads, Release(th)
  PROVE  ReplicaInv'
  <1> DEFINE c == [rep_calls[th] EXCEPT !.op = "released"]
  <1>1. rep_calls \in [RepThreads -> CallRecord] /\ rep_calls[th].id < rep_next_id
    BY Typed DEF ReplicaInv, IdsSound
  <1>2. c \in CallRecord /\ c.op = "released" /\ c.id = rep_calls[th].id
    BY <1>1 DEF CallRecord
  <1>3. rep_calls' = [rep_calls EXCEPT ![th] = c]
    BY <1>1 DEF Release
  <1>4. /\ FreeHeld(rep_calls[th]) /\ rep_calls[th].op = "destroying"
        /\ UNCHANGED <<replicas, rep_next_id, created, contended>>
    BY DEF Release
  <1> HIDE DEF c
  <1> QED BY <1>1, <1>2, <1>3, <1>4, FreeKeeps

-----------------------------------------------------------------------------
(* The first slot with an id is the only one.                                 *)
LEMMA FoundFirst ==
  ASSUME ReplicaMax \in Nat, NEW id, Found(id) # {}
  PROVE  /\ FirstSlot(Found(id)) \in RepSlots
         /\ replicas[FirstSlot(Found(id))].id = id
         /\ replicas[FirstSlot(Found(id))].state \notin {"Free", "Destroyed"}
  <1>1. FirstSlot(Found(id)) \in Found(id)
    BY FirstIn DEF Found, RepSlots
  <1> QED BY <1>1 DEF Found, Available

(* ify_replica_destroy() takes the resources out of the slot, ...             *)
LEMMA DestroyKeeps ==
  ASSUME ReplicaMax \in Nat, MaxCreations \in Nat, ReplicaInv,
         NEW th \in RepThreads, NEW id \in 1..MaxCreations, RepDestroy(th, id)
  PROVE  ReplicaInv'
  <1> DEFINE i == FirstSlot(Found(id))
             s == [replicas[i] EXCEPT !.state = "Draining", !.arena = 0, !.scheduler = 0]
             c == RepCall("destroying", 0, id, FALSE, replicas[i].arena, replicas[i].scheduler)
  <1>1. /\ rep_calls[th] = RepIdle /\ Found(id) # {} /\ Contend(id)
        /\ replicas' = [replicas EXCEPT ![i] = s] /\ rep_calls' = [rep_calls EXCEPT ![th] = c]
        /\ UNCHANGED <<rep_next_id, created, arenas, schedulers, misuse>>
    BY DEF RepDestroy, SetCall
  <1>2. i \in RepSlots /\ replicas[i].id = id /\ replicas[i].state \notin {"Free", "Destroyed"}
    BY <1>1, FoundFirst
  <1> HIDE DEF i
  <1>3. /\ rep_calls \in [RepThreads -> CallRecord] /\ schedulers \subseteq 1..created /\ created \in Nat
        /\ replicas \in [RepSlots -> SlotRecord]
    BY Typed DEF ReplicaInv
  <1>4. replicas[i] \in SlotRecord
    BY <1>2, <1>3
  <1>5. s \in SlotRecord /\ s.id = id /\ s.state = "Draining" /\ s.arena = 0 /\ s.scheduler = 0
    <2>1. "Draining" \in ReplicaState /\ 0 \in 0..MaxCreations
      BY DEF ReplicaState
    <2>2. s \in SlotRecord
      BY ONLY <1>4, <2>1 DEF SlotRecord
    <2>3. s.id = replicas[i].id /\ s.state = "Draining" /\ s.arena = 0 /\ s.scheduler = 0
      BY ONLY <1>4 DEF SlotRecord
    <2> QED BY ONLY <1>2, <2>2, <2>3
  <1>6. /\ c \in CallRecord /\ c.op = "destroying" /\ c.id = id
        /\ c.arena = replicas[i].arena /\ c.scheduler = replicas[i].scheduler
    BY <1>4 DEF RepCall, CallRecord, SlotRecord
  <1> HIDE DEF s, c
  <1>7. rep_calls' \in [RepThreads -> CallRecord] /\ \A u \in RepThreads : rep_calls'[u] = IF u = th THEN c ELSE rep_calls[u]
    BY <1>1, <1>3, <1>6
  <1>8. replicas' \in [RepSlots -> SlotRecord] /\ \A j \in RepSlots : replicas'[j] = IF j = i THEN s ELSE replicas[j]
    BY <1>1, <1>2, <1>3, <1>5
  <1>9. contended' \subseteq 1..MaxCreations /\ (contended' = {} => contended = {} /\ ~Busy(id))
    BY <1>1 DEF Contend, ReplicaInv, RepTypeOK
  <1>10. RepTypeOK'
    BY <1>1, <1>7, <1>8, <1>9 DEF ReplicaInv, RepTypeOK, CallRecord, SlotRecord, RepSlots
  <1>11. IdsSound'
    <2>1. replicas[i].id < rep_next_id
      BY <1>2 DEF ReplicaInv, IdsSound
    <2>2. \A j \in RepSlots : replicas'[j].id = replicas[j].id
      BY <1>2, <1>5, <1>8
    <2>3. \A u \in RepThreads : rep_calls'[u].id < rep_next_id
      BY <1>2, <1>6, <1>7, <2>1 DEF ReplicaInv, IdsSound
    <2> QED BY <1>1, <2>2, <2>3 DEF ReplicaInv, IdsSound, RepSlots
  <1>12. SlotChosen'
    BY <1>6, <1>7 DEF ReplicaInv, SlotChosen, RepSlots
  <1>13. SlotsSound'
    BY <1>1, <1>5, <1>8 DEF ReplicaInv, SlotsSound, Live, RepSlots
  <1>14. CallsSound'
    <2>1. c.arena = c.scheduler /\ (c.scheduler \in schedulers \/ c.scheduler = 0)
      BY <1>2, <1>6 DEF ReplicaInv, SlotsSound
    <2> QED BY <1>1, <1>6, <1>7, <2>1 DEF ReplicaInv, CallsSound
  <1>15. \A j \in RepSlots : replicas[j].id = id => j = i
    BY <1>2 DEF ReplicaInv, IdsSound
  <1>16. DrainingSound'
    <2> SUFFICES ASSUME NEW u \in RepThreads, rep_calls'[u].op \in Ending
                 PROVE  /\ rep_calls'[u].id # 0
                        /\ \A j \in RepSlots : replicas'[j].id = rep_calls'[u].id =>
                              replicas'[j].state \in {"Draining", "Destroyed"}
      BY DEF DrainingSound, RepSlots
    <2>1. CASE u = th
      BY <1>5, <1>6, <1>7, <1>8, <1>15, <2>1
    <2>2. CASE u # th
      <3>1. rep_calls'[u] = rep_calls[u]
        BY <1>7, <2>2
      <3> QED BY <1>5, <1>8, <3>1 DEF ReplicaInv, DrainingSound
    <2> QED BY <2>1, <2>2
  <1>17. 0 \notin schedulers
    BY <1>3
  <1>18. \A u \in RepThreads, r \in schedulers :
            (Holds(u, r))' <=> IF u = th THEN replicas[i].scheduler = r ELSE Holds(u, r)
    BY <1>6, <1>7 DEF Holds, Holding
  <1>19. \A j \in RepSlots, r \in schedulers : replicas'[j].scheduler = r <=> j # i /\ replicas[j].scheduler = r
    BY <1>5, <1>8, <1>17
  <1>20. \A r \in schedulers : ~Holds(th, r)
    BY <1>1, IdleCall DEF Holds, Holding
  <1>21. HeldOnce'
    <2> SUFFICES ASSUME NEW r \in schedulers
                 PROVE  /\ \A j, k \in RepSlots : replicas'[j].scheduler = r /\ replicas'[k].scheduler = r => j = k
                        /\ \A t, u \in RepThreads : (Holds(t, r))' /\ (Holds(u, r))' => t = u
                        /\ \A j \in RepSlots, t \in RepThreads : ~(replicas'[j].scheduler = r /\ (Holds(t, r))')
      BY <1>1 DEF HeldOnce, RepSlots
    <2>1. /\ \A j, k \in RepSlots : replicas[j].scheduler = r /\ replicas[k].scheduler = r => j = k
          /\ \A t, u \in RepThreads : Holds(t, r) /\ Holds(u, r) => t = u
          /\ \A j \in RepSlots, t \in RepThreads : ~(replicas[j].scheduler = r /\ Holds(t, r))
      BY DEF ReplicaInv, HeldOnce
    <2> QED BY <1>2, <1>18, <1>19, <2>1
  <1>22. Held'
    <2> SUFFICES ASSUME NEW r \in schedulers
                 PROVE  (\E j \in RepSlots : replicas'[j].scheduler = r) \/ \E t \in RepThreads : (Holds(t, r))'
      BY <1>1 DEF Held, RepSlots
    <2>1. (\E j \in RepSlots : replicas[j].scheduler = r) \/ \E t \in RepThreads : Holds(t, r)
      BY DEF ReplicaInv, Held
    <2> QED BY <1>18, <1>19, <1>20, <2>1
  <1>23. IdsSuffice'
    BY <1>1, <1>6, <1>7, IdsKept DEF ReplicaInv
  <1>24. Uncontended'
    <2> SUFFICES ASSUME contended = {}, ~Busy(id) PROVE Uncontended'
      BY <1>9 DEF Uncontended
    <2>1. "use after free" \notin misuse' /\ SubmitsLive /\ EndedOnce /\ EndedLast
      BY <1>1 DEF ReplicaInv, Uncontended
    <2>2. \A u \in RepThreads : u # th /\ rep_calls'[u].op # "idle" => rep_calls'[u] = rep_calls[u] /\ rep_calls[u].id # id
      BY <1>7 DEF Busy
    <2>3. SubmitsLive'
      <3> SUFFICES ASSUME NEW u \in RepThreads, rep_calls'[u].op \in {"submitting", "in scheduler"}
                   PROVE  \E j \in RepSlots : /\ replicas'[j].id = rep_calls'[u].id /\ replicas'[j].state \in Live
                                              /\ replicas'[j].scheduler = rep_calls'[u].scheduler
        BY DEF SubmitsLive, RepSlots
      <3>1. rep_calls'[u] = rep_calls[u] /\ rep_calls[u].id # id
        BY <1>6, <1>7, <2>2
      <3>2. PICK j \in RepSlots : /\ replicas[j].id = rep_calls[u].id /\ replicas[j].state \in Live
                                  /\ replicas[j].scheduler = rep_calls[u].scheduler
        BY <2>1, <3>1 DEF SubmitsLive
      <3>3. replicas'[j] = replicas[j]
        BY <1>2, <1>8, <3>1, <3>2
      <3> QED BY <3>1, <3>2, <3>3
    <2>4. EndedOnce'
      BY <1>6, <1>7, <2>1, <2>2 DEF EndedOnce, Ending
    <2>5. EndedLast'
      <3> SUFFICES ASSUME NEW j \in RepSlots, NEW u \in RepThreads, replicas'[j].state = "Destroyed",
                          rep_calls'[u].op \in Ending
                   PROVE  rep_calls'[u].id # replicas'[j].id
        BY DEF EndedLast, RepSlots
      <3>1. j # i /\ replicas'[j] = replicas[j] /\ replicas[j].id # id
        BY <1>5, <1>8, <1>15
      <3>2. CASE u = th
        BY <1>6, <1>7, <3>1, <3>2
      <3>3. CASE u # th
        BY <2>1, <2>2, <3>1, <3>3 DEF EndedLast, Ending
      <3> QED BY <3>2, <3>3
    <2> QED BY <2>1, <2>3, <2>4, <2>5 DEF Uncontended
  <1>25. FreedOnce' /\ (arenas = schedulers)'
    BY <1>1 DEF ReplicaInv, FreedOnce
  <1> QED BY <1>10, <1>11, <1>12, <1>13, <1>14, <1>16, <1>21, <1>22, <1>23, <1>24, <1>25 DEF ReplicaInv

(* A step that changes one slot's state within Live or outside it, and one    *)
(* call that held nothing to one that holds nothing.                          *)
LEMMA StateMoves ==
  ASSUME ReplicaMax \in Nat, MaxCreations \in Nat, ReplicaInv,
         NEW th \in RepThreads, NEW c \in CallRecord, NEW i \in RepSlots, NEW st \in ReplicaState,
         rep_calls' = [rep_calls EXCEPT ![th] = c], replicas' = [replicas EXCEPT ![i].state = st],
         UNCHANGED <<rep_next_id, created, arenas, schedulers, misuse, contended>>,
         rep_calls[th].op \notin Holding, c.op \in {"idle", "submitting"}, c.id < rep_next_id,
         st \in Live <=> replicas[i].state \in Live,
         st \notin Live => st \in {"Draining", "Destroyed"},
         contended = {} =>
            /\ c.op = "submitting" => /\ st \in Live /\ replicas[i].id = c.id
                                      /\ replicas[i].scheduler = c.scheduler
            /\ st = "Destroyed" => \A u \in RepThreads :
                  u # th /\ rep_calls[u].op \in Ending => rep_calls[u].id # replicas[i].id
  PROVE  ReplicaInv'
  <1>1. /\ rep_calls \in [RepThreads -> CallRecord] /\ replicas \in [RepSlots -> SlotRecord]
    BY Typed DEF ReplicaInv
  <1>2. rep_calls' \in [RepThreads -> CallRecord] /\ \A u \in RepThreads : rep_calls'[u] = IF u = th THEN c ELSE rep_calls[u]
    BY <1>1
  <1> DEFINE s == [replicas[i] EXCEPT !.state = st]
  <1>3. replicas' = [replicas EXCEPT ![i] = s] /\ replicas[i] \in SlotRecord
    BY <1>1
  <1>4. /\ s \in SlotRecord /\ s.id = replicas[i].id /\ s.state = st
        /\ s.arena = replicas[i].arena /\ s.scheduler = replicas[i].scheduler
    BY <1>3 DEF SlotRecord
  <1> HIDE DEF s
  <1>5. replicas' \in [RepSlots -> SlotRecord] /\ \A j \in RepSlots : replicas'[j] = IF j = i THEN s ELSE replicas[j]
    BY <1>1, <1>3, <1>4
  <1>6. RepTypeOK'
    BY <1>2, <1>5 DEF ReplicaInv, RepTypeOK, CallRecord, SlotRecord, RepSlots
  <1>7. /\ \A j \in RepSlots : /\ replicas'[j].id = replicas[j].id /\ replicas'[j].arena = replicas[j].arena
                               /\ replicas'[j].scheduler = replicas[j].scheduler
                               /\ replicas'[j].state = IF j = i THEN st ELSE replicas[j].state
    BY <1>4, <1>5
  <1>8. IdsSound'
    BY <1>2, <1>7 DEF ReplicaInv, IdsSound, RepSlots
  <1>9. SlotChosen' /\ CallsSound'
    BY <1>2 DEF ReplicaInv, SlotChosen, CallsSound, Holding, RepSlots
  <1>10. SlotsSound'
    BY <1>7 DEF ReplicaInv, SlotsSound, RepSlots
  <1>11. DrainingSound'
    <2> SUFFICES ASSUME NEW u \in RepThreads, rep_calls'[u].op \in Ending
                 PROVE  /\ rep_calls'[u].id # 0
                        /\ \A j \in RepSlots : replicas'[j].id = rep_calls'[u].id =>
                              replicas'[j].state \in {"Draining", "Destroyed"}
      BY DEF DrainingSound, RepSlots
    <2>1. rep_calls'[u] = rep_calls[u]
      BY <1>2 DEF Ending
    <2>2. /\ rep_calls[u].id # 0
          /\ \A j \in RepSlots : replicas[j].id = rep_calls[u].id => replicas[j].state \in {"Draining", "Destroyed"}
      BY <2>1 DEF ReplicaInv, DrainingSound
    <2> QED BY <1>7, <2>1, <2>2 DEF Live
  <1>12. \A u \in RepThreads, r \in schedulers : (Holds(u, r))' <=> Holds(u, r)
    BY <1>2 DEF Holds, Holding
  <1>13. HeldOnce' /\ Held'
    BY <1>7, <1>12 DEF ReplicaInv, HeldOnce, Held, RepSlots
  <1>14. IdsSuffice'
    BY <1>2, IdsKept DEF ReplicaInv
  <1>15. Uncontended'
    <2> SUFFICES ASSUME contended = {} PROVE Uncontended'
      BY DEF Uncontended
    <2>1. "use after free" \notin misuse' /\ SubmitsLive /\ EndedOnce /\ EndedLast
      BY DEF ReplicaInv, Uncontended
    <2>2. \A u \in RepThreads : u # th => rep_calls'[u] = rep_calls[u]
      BY <1>2
    <2>3. SubmitsLive'
      <3> SUFFICES ASSUME NEW u \in RepThreads, rep_calls'[u].op \in {"submitting", "in scheduler"}
                   PROVE  \E j \in RepSlots : /\ replicas'[j].id = rep_calls'[u].id /\ replicas'[j].state \in Live
                                              /\ replicas'[j].scheduler = rep_calls'[u].scheduler
        BY DEF SubmitsLive, RepSlots
      <3>1. CASE u = th
        <4>1. rep_calls'[u] = c /\ c.op = "submitting"
          BY <1>2, <3>1
        <4>2. /\ replicas'[i].id = c.id /\ replicas'[i].state \in Live /\ replicas'[i].scheduler = c.scheduler
          BY <1>7, <4>1
        <4> QED BY <4>1, <4>2
      <3>2. CASE u # th
        <4>1. PICK j \in RepSlots : /\ replicas[j].id = rep_calls[u].id /\ replicas[j].state \in Live
                                    /\ replicas[j].scheduler = rep_calls[u].scheduler
          BY <2>1, <2>2, <3>2 DEF SubmitsLive
        <4>2. /\ replicas'[j].id = replicas[j].id /\ replicas'[j].scheduler = replicas[j].scheduler
              /\ replicas'[j].state \in Live
          BY <1>7, <4>1
        <4> QED BY <2>2, <3>2, <4>1, <4>2
      <3> QED BY <3>1, <3>2
    <2>4. \A u \in RepThreads : rep_calls'[u].op \in Ending => u # th /\ rep_calls'[u] = rep_calls[u]
      BY <1>2 DEF Ending
    <2>5. EndedOnce'
      BY <2>1, <2>4 DEF EndedOnce
    <2>6. EndedLast'
      <3> SUFFICES ASSUME NEW j \in RepSlots, NEW u \in RepThreads, replicas'[j].state = "Destroyed",
                          rep_calls'[u].op \in Ending
                   PROVE  rep_calls'[u].id # replicas'[j].id
        BY DEF EndedLast, RepSlots
      <3>1. CASE j = i
        <4>1. st = "Destroyed" /\ replicas'[j].id = replicas[i].id
          BY <1>7, <3>1
        <4>2. u # th /\ rep_calls'[u] = rep_calls[u] /\ rep_calls[u].op \in Ending
          BY <2>4
        <4> QED BY <4>1, <4>2
      <3>2. CASE j # i
        <4>1. replicas[j].state = "Destroyed" /\ replicas'[j].id = replicas[j].id /\ rep_calls'[u] = rep_calls[u]
          BY <1>7, <2>4, <3>2
        <4> QED BY ONLY <2>1, <4>1, rep_calls'[u].op \in Ending, j \in RepSlots, u \in RepThreads DEF EndedLast
      <3> QED BY <3>1, <3>2
    <2> QED BY <2>1, <2>3, <2>5, <2>6 DEF Uncontended
  <1>16. FreedOnce' /\ (arenas = schedulers)'
    BY DEF ReplicaInv, FreedOnce
  <1> QED BY <1>6, <1>8, <1>9, <1>10, <1>11, <1>13, <1>14, <1>15, <1>16 DEF ReplicaInv

(* ... and marks the slot, in the end.                                        *)
LEMMA DestroyedKeeps ==
  ASSUME ReplicaMax \in Nat, MaxCreations \in Nat, ReplicaInv, NEW th \in RepThreads, Destroyed(th)
  PROVE  ReplicaInv'
  <1> DEFINE id == rep_calls[th].id
             i == FirstSlot(Found(id))
  <1>1. /\ rep_calls[th].op = "released" /\ rep_calls' = [rep_calls EXCEPT ![th] = RepIdle]
        /\ UNCHANGED <<rep_next_id, created, arenas, schedulers, misuse, contended>>
    BY DEF Destroyed, SetCall
  <1>2. rep_calls[th].op \notin Holding /\ RepIdle.id < rep_next_id /\ misuse \subseteq {"double free", "use after free"}
    BY <1>1, Typed, IdleCall DEF Holding, ReplicaInv, RepTypeOK
  <1>3. CASE Found(id) = {}
    <2>1. UNCHANGED replicas
      BY <1>3 DEF Destroyed
    <2>2. FreedOnce' /\ (contended = {} => "use after free" \notin misuse')
      BY <1>1 DEF ReplicaInv, FreedOnce, Uncontended
    <2> QED BY <1>1, <1>2, <2>1, <2>2, IdleCall, CallMoves
  <1>4. CASE Found(id) # {}
    <2>1. replicas' = [replicas EXCEPT ![i].state = "Destroyed"]
      BY <1>4 DEF Destroyed
    <2>2. i \in RepSlots /\ replicas[i].id = id
      BY <1>4, FoundFirst
    <2> HIDE DEF i
    <2>3. replicas[i].state \notin Live
      BY <1>1, <2>2 DEF ReplicaInv, DrainingSound, Ending, Live
    <2>4. contended = {} => \A u \in RepThreads : u # th /\ rep_calls[u].op \in Ending => rep_calls[u].id # replicas[i].id
      BY <1>1, <2>2 DEF ReplicaInv, Uncontended, EndedOnce, Ending
    <2>5. "Destroyed" \in ReplicaState /\ "Destroyed" \notin Live
      BY DEF ReplicaState, Live
    <2> QED BY <1>1, <1>2, <2>1, <2>2, <2>3, <2>4, <2>5, IdleCall, StateMoves
  <1> QED BY <1>3, <1>4

-----------------------------------------------------------------------------
(* ify_replica_submit() keeps the invariant.                                  *)
LEMMA SubmitKeeps ==
  ASSUME ReplicaMax \in Nat, MaxCreations \in Nat, ReplicaInv,
         NEW th \in RepThreads, NEW id \in 1..MaxCreations, RepSubmit(th, id)
  PROVE  ReplicaInv'
  <1> DEFINE i == FirstSlot(Found(id))
             c == RepCall("submitting", 0, id, FALSE, 0, replicas[i].scheduler)
  <1>1. /\ rep_calls[th] = RepIdle /\ Found(id) # {} /\ replicas[i].state \in Live
        /\ replicas' = [replicas EXCEPT ![i].state = "Running"] /\ rep_calls' = [rep_calls EXCEPT ![th] = c]
        /\ UNCHANGED <<rep_next_id, created, arenas, schedulers, misuse, contended>>
    BY DEF RepSubmit, SetCall, Submittable, Live
  <1>2. i \in RepSlots /\ replicas[i].id = id
    BY <1>1, FoundFirst
  <1> HIDE DEF i
  <1>3. replicas[i] \in SlotRecord /\ replicas[i].id < rep_next_id
    BY <1>2, Typed DEF ReplicaInv, IdsSound
  <1>4. c \in CallRecord /\ c.op = "submitting" /\ c.id = id /\ c.scheduler = replicas[i].scheduler
    BY <1>3 DEF RepCall, CallRecord, SlotRecord
  <1> HIDE DEF c
  <1>5. rep_calls[th].op \notin Holding
    BY <1>1, IdleCall DEF Holding
  <1>6. "Running" \in ReplicaState /\ "Running" \in Live /\ "Running" # "Destroyed"
    BY DEF ReplicaState, Live
  <1> QED BY <1>1, <1>2, <1>3, <1>4, <1>5, <1>6, StateMoves

LEMMA EnterSchedulerKeeps ==
  ASSUME ReplicaMax \in Nat, MaxCreations \in Nat, ReplicaInv, NEW th \in RepThreads, EnterScheduler(th)
  PROVE  ReplicaInv'
  <1> DEFINE c == [rep_calls[th] EXCEPT !.op = "in scheduler"]
  <1>1. rep_calls \in [RepThreads -> CallRecord] /\ rep_calls[th].id < rep_next_id
    BY Typed DEF ReplicaInv, IdsSound
  <1>2. /\ c \in CallRecord /\ c.op = "in scheduler" /\ c.id = rep_calls[th].id
        /\ c.scheduler = rep_calls[th].scheduler
    BY <1>1 DEF CallRecord
  <1>3. rep_calls' = [rep_calls EXCEPT ![th] = c]
    BY <1>1 DEF EnterScheduler
  <1>4. /\ rep_calls[th].op = "submitting" /\ Use(th)
        /\ UNCHANGED <<replicas, rep_next_id, created, arenas, schedulers, contended>>
    BY DEF EnterScheduler
  <1>5. rep_calls[th].op \notin Holding
    BY <1>4 DEF Holding
  <1>6. misuse' \subseteq {"double free", "use after free"} /\ FreedOnce'
    BY <1>4 DEF Use, ReplicaInv, RepTypeOK, FreedOnce
  <1>7. contended = {} => "use after free" \notin misuse'
    BY <1>4 DEF Use, ReplicaInv, Uncontended, SubmitsLive, SlotsSound
  <1> HIDE DEF c
  <1> QED BY <1>1, <1>2, <1>3, <1>4, <1>5, <1>6, <1>7, CallMoves

LEMMA LeaveSchedulerKeeps ==
  ASSUME ReplicaMax \in Nat, MaxCreations \in Nat, ReplicaInv, NEW th \in RepThreads, LeaveScheduler(th)
  PROVE  ReplicaInv'
  <1>1. /\ rep_calls[th].op = "in scheduler" /\ Use(th) /\ rep_calls' = [rep_calls EXCEPT ![th] = RepIdle]
        /\ UNCHANGED <<replicas, rep_next_id, created, arenas, schedulers, contended>>
    BY DEF LeaveScheduler, SetCall
  <1>2. rep_calls[th].op \notin Holding /\ RepIdle.id < rep_next_id
    BY <1>1, Typed, IdleCall DEF Holding, ReplicaInv
  <1>3. misuse' \subseteq {"double free", "use after free"} /\ FreedOnce'
    BY <1>1 DEF Use, ReplicaInv, RepTypeOK, FreedOnce
  <1>4. contended = {} => "use after free" \notin misuse'
    BY <1>1 DEF Use, ReplicaInv, Uncontended, SubmitsLive, SlotsSound
  <1> QED BY <1>1, <1>2, <1>3, <1>4, IdleCall, CallMoves

LEMMA StutterKeeps ==
  ASSUME ReplicaInv, UNCHANGED rep_vars
  PROVE  ReplicaInv'
  <1> USE DEF rep_vars
  <1>1. RepTypeOK' /\ (arenas = schedulers)'
    BY DEF ReplicaInv, RepTypeOK, RepSlots
  <1>2. IdsSound' /\ SlotsSound' /\ CallsSound' /\ SlotChosen' /\ DrainingSound'
    BY DEF ReplicaInv, IdsSound, SlotsSound, CallsSound, SlotChosen, DrainingSound, RepSlots
  <1>3. HeldOnce' /\ Held' /\ FreedOnce'
    <2>1. \A th \in RepThreads, r \in schedulers : (Holds(th, r))' <=> Holds(th, r)
      BY DEF Holds
    <2> QED BY <2>1 DEF ReplicaInv, HeldOnce, Held, FreedOnce, RepSlots
  <1>4. IdsSuffice'
    <2>1. Unpublished' = Unpublished
      BY DEF Unpublished
    <2> QED BY <2>1 DEF ReplicaInv, IdsSuffice
  <1>5. Uncontended'
    BY DEF ReplicaInv, Uncontended, SubmitsLive, EndedOnce, EndedLast, RepSlots
  <1> QED BY <1>1, <1>2, <1>3, <1>4, <1>5 DEF ReplicaInv

-----------------------------------------------------------------------------
(* The invariant implies that each resource has one owner, ...                *)
LEMMA InvSound ==
  ASSUME ReplicaInv
  PROVE  ReplicasSound
  <1>1. ASSUME NEW r \in schedulers
        PROVE  Cardinality(Holders(r)) = 1
    <2>1. \E x : Holders(r) = {x}
      <3>1. CASE \E i \in RepSlots : replicas[i].scheduler = r
        <4>1. PICK i \in RepSlots : replicas[i].scheduler = r
          BY <3>1
        <4>2. Holders(r) = {i}
          BY <4>1 DEF Holders, ReplicaInv, HeldOnce, Holds, Holding
        <4> QED BY <4>2
      <3>2. CASE ~\E i \in RepSlots : replicas[i].scheduler = r
        <4>1. PICK th \in RepThreads : Holds(th, r)
          BY <3>2 DEF ReplicaInv, Held
        <4>2. Holders(r) = {th}
          BY <3>2, <4>1 DEF Holders, ReplicaInv, HeldOnce, Holds, Holding
        <4> QED BY <4>2
      <3> QED BY <3>1, <3>2
    <2> QED BY <2>1, FS_Singleton
  <1>2. NoUseAfterFree
    BY DEF ReplicaInv, Uncontended, EndedLast, NoUseAfterFree, Ending
  <1> QED BY <1>1, <1>2 DEF ReplicasSound, ReplicaInv, OneOwner

(* Whatever threads create, destroy and submit at once, every arena and       *)
(* scheduler has one owner, none is freed twice, and none is used after it    *)
(* was freed as long as no replica is destroyed while in use (replication.c). *)
THEOREM ReplicasAreSound == RepSpec => []ReplicasSound
  <1> USE ReplicationAssumption
  <1>1. RepInit => ReplicaInv
    BY InitReplica
  <1>2. ReplicaInv /\ [RepNext]_rep_vars => ReplicaInv'
    <2> SUFFICES ASSUME ReplicaInv, RepNext PROVE ReplicaInv'
      BY StutterKeeps
    <2>1. PICK th \in RepThreads :
             \/ \E auto \in BOOLEAN : Create(th, auto)
             \/ \E id \in 1..MaxCreations : RepDestroy(th, id) \/ RepSubmit(th, id)
             \/ Allocate(th) \/ Publish(th) \/ NoSlotLeft(th) \/ GiveUp(th)
             \/ Release(th) \/ Destroyed(th) \/ EnterScheduler(th) \/ LeaveScheduler(th)
      BY DEF RepNext
    <2>2. CASE \E auto \in BOOLEAN : Create(th, auto)
      BY <2>2, CreateKeeps
    <2>3. CASE \E id \in 1..MaxCreations : RepDestroy(th, id) \/ RepSubmit(th, id)
      BY <2>3, DestroyKeeps, SubmitKeeps
    <2>4. CASE Allocate(th) \/ Publish(th) \/ NoSlotLeft(th) \/ GiveUp(th)
      BY <2>4, AllocateKeeps, PublishKeeps, NoSlotLeftKeeps, GiveUpKeeps
    <2>5. CASE Release(th) \/ Destroyed(th) \/ EnterScheduler(th) \/ LeaveScheduler(th)
      BY <2>5, ReleaseKeeps, DestroyedKeeps, EnterSchedulerKeeps, LeaveSchedulerKeeps
    <2> QED BY <2>1, <2>2, <2>3, <2>4, <2>5
  <1>3. ReplicaInv => ReplicasSound
    BY InvSound
  <1> QED BY <1>1, <1>2, <1>3, PTL DEF RepSpec
================================================================================
