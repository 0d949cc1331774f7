----------------------------- MODULE ControllerProofs -----------------------------
(*****************************************************************************)
(* Proofs about the services around the workflow: the model runtime          *)
(* (ModelRuntime), templates and their instances (NodeInstance) and node     *)
(* editing (NodeEditing) of ify-controller, and the audit log of             *)
(* ify-security (Security).  They share no state; each is an instance here.  *)
(*****************************************************************************)
EXTENDS ModelRuntime, FiniteSetTheorems, SequenceTheorems, TLAPS

CONSTANTS Params, Values, NodeIds, NodeParams, MaxTemplates, MaxInstances, MaxEdits

VARIABLES templates, instances, exported, made

Template == INSTANCE NodeInstance

CONSTANTS Templates, Updates, Positions, MaxNodes

VARIABLES nodes, undo_stack, redo_stack, registered, held, undone, ahead, edits_made

Edit == INSTANCE NodeEditing WITH made <- edits_made

-----------------------------------------------------------------------------
(***************************************************************************)
(* The replica pool, for any number of threads and any plans.  A call is   *)
(* in one of four places, and replicas are numbered in order.              *)
(***************************************************************************)
PoolCall(c) ==
    /\ c.pc \in {"idle", "create", "insert", "destroy"}
    /\ c.pc \in {"insert", "destroy"} => c.id \in Nat

HandOf(c) == IF c.pc \in {"insert", "destroy"} THEN {c.id} ELSE {}

PoolInv ==
    /\ DOMAIN calls = Threads /\ \A t \in Threads : PoolCall(calls[t])
    /\ next_id \in Nat /\ IsFiniteSet(kernel)
    /\ \A id \in kernel : id \in Nat /\ id < next_id
    /\ \A id : id \in kernel <=> id \in pool \/ \E t \in Threads : id \in HandOf(calls[t])
    /\ \A t \in Threads : HandOf(calls[t]) \cap pool = {}
    /\ \A t, u \in Threads : t # u => HandOf(calls[t]) \cap HandOf(calls[u]) = {}
    /\ Cardinality(kernel) <= MaxReplicas

LEMMA HandIs == \A t : InHand(t) = HandOf(calls[t])
  BY DEF InHand, HandOf

LEMMA IdleHand == HandOf(Idle) = {} /\ PoolCall(Idle)
  BY DEF HandOf, Idle, PoolCall

LEMMA PoolInvInit == ASSUME RuntimeConstants, Init PROVE PoolInv
<1>1. /\ calls = [t \in Threads |-> Idle] /\ pool = {} /\ kernel = {} /\ next_id = 1
  BY DEF Init
<1>2. IsFiniteSet(kernel) /\ Cardinality(kernel) = 0
  BY <1>1, FS_EmptySet
<1>3. MaxReplicas \in Nat
  BY DEF RuntimeConstants
<1> QED BY <1>1, <1>2, <1>3, IdleHand DEF PoolInv

(* A call that does not touch what it has in hand.                            *)
LEMMA PoolQuiet ==
    ASSUME PoolInv, NEW t \in Threads, NEW c, calls' = [calls EXCEPT ![t] = c], PoolCall(c),
           HandOf(c) = HandOf(calls[t]),
           UNCHANGED <<pool, kernel, next_id>>
    PROVE  PoolInv'
<1>1. DOMAIN calls' = Threads /\ calls'[t] = c /\ \A u \in Threads \ {t} : calls'[u] = calls[u]
  BY DEF PoolInv
<1>2. \A u \in Threads : HandOf(calls'[u]) = HandOf(calls[u]) /\ PoolCall(calls'[u])
  BY <1>1 DEF PoolInv
<1> QED BY <1>1, <1>2 DEF PoolInv

LEMMA CreateReplicaKeeps ==
    ASSUME RuntimeConstants, PoolInv, NEW t \in Threads, CreateReplica(t)
    PROVE  PoolInv'
<1>1. calls[t].pc = "create" /\ HandOf(calls[t]) = {} /\ pool' = pool
  BY DEF CreateReplica, HandOf
<1>2. CASE ~BelowLimit
  <2>1. calls' = [calls EXCEPT ![t] = Idle] /\ UNCHANGED <<pool, kernel, next_id>>
    BY <1>2 DEF CreateReplica
  <2> QED BY <1>1, <2>1, IdleHand, PoolQuiet
<1>3. CASE BelowLimit
  <2> DEFINE c == [pc |-> "insert", todo |-> Tail(calls[t].todo), id |-> next_id]
  <2>1. /\ kernel' = kernel \cup {next_id} /\ next_id' = next_id + 1
        /\ calls' = [calls EXCEPT ![t] = c]
    BY <1>3 DEF CreateReplica
  <2>2. next_id \in Nat /\ next_id \notin kernel
    BY DEF PoolInv
  <2>3. HandOf(c) = {next_id} /\ PoolCall(c)
    BY <2>2 DEF HandOf, PoolCall
  <2> HIDE DEF c
  <2>4. DOMAIN calls' = Threads /\ calls'[t] = c /\ \A u \in Threads \ {t} : calls'[u] = calls[u]
    BY <2>1 DEF PoolInv
  <2>5. IsFiniteSet(kernel') /\ Cardinality(kernel') = Cardinality(kernel) + 1
        /\ Cardinality(kernel) \in Nat
    BY <2>1, <2>2, FS_AddElement, FS_CardinalityType DEF PoolInv
  <2>6. Cardinality(kernel') <= MaxReplicas
    BY <1>3, <2>5 DEF BelowLimit, RuntimeConstants
  <2>7. \A u \in Threads : PoolCall(calls'[u])
    BY <2>3, <2>4 DEF PoolInv
  <2>8. next_id' \in Nat /\ \A id \in kernel' : id \in Nat /\ id < next_id'
    BY <2>1, <2>2 DEF PoolInv
  <2>9. \A id \in pool \cup UNION {HandOf(calls[u]) : u \in Threads} : id \in kernel
    BY DEF PoolInv
  <2>10. next_id \notin pool /\ \A u \in Threads : next_id \notin HandOf(calls[u])
    BY <2>2, <2>9
  <2>11. \A id : id \in kernel' <=> id \in pool' \/ \E u \in Threads : id \in HandOf(calls'[u])
    BY <1>1, <2>1, <2>3, <2>4 DEF PoolInv
  <2>12. \A u \in Threads : HandOf(calls'[u]) \cap pool' = {}
    BY <1>1, <2>3, <2>4, <2>10 DEF PoolInv
  <2>13. \A u, v \in Threads : u # v => HandOf(calls'[u]) \cap HandOf(calls'[v]) = {}
    BY <2>3, <2>4, <2>10 DEF PoolInv
  <2> QED BY <2>4, <2>5, <2>6, <2>7, <2>8, <2>11, <2>12, <2>13 DEF PoolInv
<1> QED BY <1>2, <1>3

LEMMA InsertReplicaKeeps ==
    ASSUME PoolInv, NEW t \in Threads, InsertReplica(t)
    PROVE  PoolInv'
<1> DEFINE c == IF calls[t].todo = <<>> THEN Idle ELSE [pc |-> "create", todo |-> calls[t].todo]
<1>1. /\ calls[t].pc = "insert" /\ pool' = pool \cup {calls[t].id}
      /\ calls' = [calls EXCEPT ![t] = c] /\ kernel' = kernel /\ next_id' = next_id
  BY DEF InsertReplica
<1>2. HandOf(c) = {} /\ PoolCall(c)
  BY IdleHand DEF HandOf, PoolCall
<1>3. HandOf(calls[t]) = {calls[t].id}
  BY <1>1 DEF HandOf
<1> HIDE DEF c
<1>4. DOMAIN calls' = Threads /\ calls'[t] = c /\ \A u \in Threads \ {t} : calls'[u] = calls[u]
  BY <1>1 DEF PoolInv
<1>5. \A u \in Threads : PoolCall(calls'[u])
  BY <1>2, <1>4 DEF PoolInv
<1>6. \A u \in Threads \ {t} : calls[t].id \notin HandOf(calls[u])
  BY <1>3 DEF PoolInv
<1>7. \A id : id \in kernel' <=> id \in pool' \/ \E u \in Threads : id \in HandOf(calls'[u])
  BY <1>1, <1>2, <1>3, <1>4 DEF PoolInv
<1>8. \A u \in Threads : HandOf(calls'[u]) \cap pool' = {}
  BY <1>1, <1>2, <1>4, <1>6 DEF PoolInv
<1>9. \A u, v \in Threads : u # v => HandOf(calls'[u]) \cap HandOf(calls'[v]) = {}
  BY <1>2, <1>4 DEF PoolInv
<1> QED BY <1>1, <1>4, <1>5, <1>7, <1>8, <1>9 DEF PoolInv

LEMMA ReleaseKeeps ==
    ASSUME PoolInv, NEW t \in Threads, NEW id, Release(t, id)
    PROVE  PoolInv'
<1> DEFINE c == [pc |-> "destroy", id |-> id]
<1>1. /\ calls[t] = Idle /\ id \in pool /\ pool' = pool \ {id}
      /\ calls' = [calls EXCEPT ![t] = c] /\ kernel' = kernel /\ next_id' = next_id
  BY DEF Release
<1>2. id \in Nat
  BY <1>1 DEF PoolInv
<1>3. HandOf(c) = {id} /\ PoolCall(c) /\ HandOf(calls[t]) = {}
  BY <1>1, <1>2, IdleHand DEF HandOf, PoolCall
<1> HIDE DEF c
<1>4. DOMAIN calls' = Threads /\ calls'[t] = c /\ \A u \in Threads \ {t} : calls'[u] = calls[u]
  BY <1>1 DEF PoolInv
<1>5. \A u \in Threads : PoolCall(calls'[u])
  BY <1>3, <1>4 DEF PoolInv
<1>6. \A u \in Threads : id \notin HandOf(calls[u])
  BY <1>1 DEF PoolInv
<1>7. \A x : x \in kernel' <=> x \in pool' \/ \E u \in Threads : x \in HandOf(calls'[u])
  BY <1>1, <1>3, <1>4 DEF PoolInv
<1>8. \A u \in Threads : HandOf(calls'[u]) \cap pool' = {}
  BY <1>1, <1>3, <1>4 DEF PoolInv
<1>9. \A u, v \in Threads : u # v => HandOf(calls'[u]) \cap HandOf(calls'[v]) = {}
  BY <1>3, <1>4, <1>6 DEF PoolInv
<1> QED BY <1>1, <1>4, <1>5, <1>7, <1>8, <1>9 DEF PoolInv

LEMMA DestroyReplicaKeeps ==
    ASSUME RuntimeConstants, PoolInv, NEW t \in Threads, DestroyReplica(t)
    PROVE  PoolInv'
<1>1. /\ calls[t].pc = "destroy" /\ kernel' = kernel \ {calls[t].id}
      /\ calls' = [calls EXCEPT ![t] = Idle] /\ pool' = pool /\ next_id' = next_id
  BY DEF DestroyReplica
<1>2. HandOf(calls[t]) = {calls[t].id}
  BY <1>1 DEF HandOf
<1>3. DOMAIN calls' = Threads /\ calls'[t] = Idle /\ \A u \in Threads \ {t} : calls'[u] = calls[u]
  BY <1>1 DEF PoolInv
<1>4. IsFiniteSet(kernel') /\ Cardinality(kernel') <= MaxReplicas
  <2>1. IsFiniteSet(kernel') /\ Cardinality(kernel') <= Cardinality(kernel)
    BY <1>1, FS_Subset DEF PoolInv
  <2>2. Cardinality(kernel') \in Nat /\ Cardinality(kernel) \in Nat /\ MaxReplicas \in Nat
    BY <2>1, FS_CardinalityType DEF PoolInv, RuntimeConstants
  <2> QED BY <2>1, <2>2 DEF PoolInv
<1>5. \A u \in Threads : PoolCall(calls'[u])
  BY <1>3, IdleHand DEF PoolInv
<1>6. calls[t].id \notin pool /\ \A u \in Threads \ {t} : calls[t].id \notin HandOf(calls[u])
  BY <1>2 DEF PoolInv
<1>7. \A id : id \in kernel' <=> id \in pool' \/ \E u \in Threads : id \in HandOf(calls'[u])
  BY <1>1, <1>2, <1>3, <1>6, IdleHand DEF PoolInv
<1>8. \A u \in Threads : HandOf(calls'[u]) \cap pool' = {}
  BY <1>1, <1>3, IdleHand DEF PoolInv
<1>9. \A u, v \in Threads : u # v => HandOf(calls'[u]) \cap HandOf(calls'[v]) = {}
  BY <1>3, IdleHand DEF PoolInv
<1>10. next_id' \in Nat /\ \A id \in kernel' : id \in Nat /\ id < next_id'
  BY <1>1 DEF PoolInv
<1> QED BY <1>3, <1>4, <1>5, <1>7, <1>8, <1>9, <1>10 DEF PoolInv

LEMMA PoolInvNext == ASSUME RuntimeConstants, PoolInv, [Next]_vars PROVE PoolInv'
<1>1. CASE UNCHANGED <<pool, kernel, next_id, calls>>
  BY <1>1 DEF PoolInv
<1>2. CASE UNCHANGED vars
  BY <1>1, <1>2 DEF vars, pool_vars
<1>3. CASE TuneNext
  BY <1>1, <1>3 DEF TuneNext, RegisterModel, RecordPerformance, pool_vars
<1>4. ASSUME NEW m, RegisterModule(m) PROVE PoolInv'
  BY <1>1, <1>4 DEF RegisterModule
<1>5. ASSUME NEW t \in Threads, NEW d, NEW choice, Provision(t, d, choice) PROVE PoolInv'
  <2> DEFINE c == [pc |-> "create", todo |-> Plan(d, choice)]
  <2>1. calls[t] = Idle /\ calls' = [calls EXCEPT ![t] = c] /\ UNCHANGED <<pool, kernel, next_id>>
    BY <1>5 DEF Provision
  <2>2. HandOf(c) = {} /\ PoolCall(c)
    BY DEF HandOf, PoolCall
  <2> HIDE DEF c
  <2> QED BY <2>1, <2>2, IdleHand, PoolQuiet
<1> QED
  BY <1>2, <1>3, <1>4, <1>5, CreateReplicaKeeps, InsertReplicaKeeps, ReleaseKeeps, DestroyReplicaKeeps
  DEF Next, PoolNext

(* ReplicasExact, for any number of threads, any demands and any limit: what  *)
(* provision() and release() do between the kernel and the pool never leaks a *)
(* replica, hands one out twice, or exceeds the kernel's limit.               *)
THEOREM ReplicasAgree == RuntimeConstants => (Spec => []ReplicasExact)
<1> SUFFICES ASSUME RuntimeConstants PROVE Spec => []ReplicasExact
  OBVIOUS
<1>1. Init => PoolInv
  BY PoolInvInit
<1>2. PoolInv /\ [Next]_vars => PoolInv'
  BY PoolInvNext
<1>3. PoolInv => ReplicasExact
  <2> SUFFICES ASSUME PoolInv PROVE ReplicasExact
    OBVIOUS
  <2>1. kernel = pool \cup UNION {HandOf(calls[t]) : t \in Threads}
    BY DEF PoolInv
  <2> QED BY <2>1, HandIs DEF ReplicasExact, PoolInv
<1> QED BY <1>1, <1>2, <1>3, PTL DEF Spec

-----------------------------------------------------------------------------
(***************************************************************************)
(* The reload requests of a model: the manager remembers the last one, and *)
(* the next is measured from it.                                           *)
(***************************************************************************)
Gap(m) == Profiles[m].reload_policy.cooldown_ms

Spaced(s, gap) == \A i \in DOMAIN s : i > 1 /\ gap > 0 => s[i] >= s[i - 1] + gap

ReloadInv ==
    /\ DOMAIN reloads = DOMAIN Profiles
    /\ \A m \in DOMAIN Profiles :
          /\ reloads[m] \in Seq(Nat) /\ Spaced(reloads[m], Gap(m))
          /\ m \notin DOMAIN models => reloads[m] = <<>>
          /\ m \in DOMAIN models =>
                /\ {"hyperparameters", "sample_count", "reload_generation", "last_reload_at_ms"}
                     = DOMAIN models[m]
                /\ models[m].last_reload_at_ms
                     = IF reloads[m] = <<>> THEN None ELSE reloads[m][Len(reloads[m])]

(* One more request, not before the cooldown has passed.                      *)
LEMMA SpacedAppend ==
    ASSUME NEW s \in Seq(Nat), NEW gap \in Nat, NEW at \in Nat, Spaced(s, gap),
           s # <<>> => gap = 0 \/ at >= s[Len(s)] + gap
    PROVE  /\ Append(s, at) \in Seq(Nat) /\ Append(s, at) # <<>>
           /\ Append(s, at)[Len(Append(s, at))] = at /\ Spaced(Append(s, at), gap)
<1>1. /\ Append(s, at) \in Seq(Nat) /\ Append(s, at) # <<>> /\ Len(Append(s, at)) = Len(s) + 1
      /\ Append(s, at)[Len(s) + 1] = at
      /\ \A i \in 1..Len(s) : Append(s, at)[i] = s[i]
      /\ Len(s) \in Nat /\ DOMAIN s = 1..Len(s)
      /\ DOMAIN Append(s, at) = 1..(Len(s) + 1)
  <2>1. Len(s) \in Nat /\ DOMAIN s = 1..Len(s)
    BY LenProperties
  <2>2. /\ Append(s, at) \in Seq(Nat) /\ Append(s, at) # <<>> /\ Len(Append(s, at)) = Len(s) + 1
        /\ Append(s, at)[Len(s) + 1] = at
        /\ \A i \in 1..Len(s) : Append(s, at)[i] = s[i]
    BY AppendProperties
  <2>3. DOMAIN Append(s, at) = 1..Len(Append(s, at))
    BY <2>2, LenProperties
  <2> QED BY <2>1, <2>2, <2>3
<1>2. ASSUME NEW i \in 1..(Len(s) + 1), i > 1, gap > 0
      PROVE  Append(s, at)[i] >= Append(s, at)[i - 1] + gap
  <2>1. CASE i \in 1..Len(s)
    <3>1. i - 1 \in 1..Len(s)
      BY ONLY <1>2, <2>1, Len(s) \in Nat, <1>1
    <3>2. i \in DOMAIN s
      BY <1>1, <2>1
    <3>3. s[i] >= s[i - 1] + gap
      BY ONLY <1>2, <3>2, Spaced(s, gap) DEF Spaced
    <3>4. Append(s, at)[i] = s[i] /\ Append(s, at)[i - 1] = s[i - 1]
      BY <1>1, <2>1, <3>1
    <3> QED BY ONLY <3>3, <3>4
  <2>2. CASE i = Len(s) + 1
    <3>1. Len(s) \in 1..Len(s) /\ i - 1 = Len(s) /\ s # <<>>
      BY <1>1, <1>2, <2>2
    <3>2. Append(s, at)[i] = at /\ Append(s, at)[i - 1] = s[Len(s)]
      BY <1>1, <2>2, <3>1
    <3>3. at >= s[Len(s)] + gap
      BY <1>2, <3>1
    <3> QED BY ONLY <3>2, <3>3
  <2>3. Len(s) \in Nat
    BY <1>1
  <2>4. i \in 1..Len(s) \/ i = Len(s) + 1
    BY ONLY <2>3, i \in 1..(Len(s) + 1)
  <2> QED BY ONLY <2>1, <2>2, <2>4
<1> QED BY <1>1, <1>2 DEF Spaced

LEMMA RegisterModelKeeps ==
    ASSUME ReloadInv, NEW m \in DOMAIN Profiles, RegisterModel(m)
    PROVE  ReloadInv'
<1> DEFINE new == [hyperparameters |-> <<>>, sample_count |-> 0,
                   reload_generation |-> 0, last_reload_at_ms |-> None]
<1>1. m \notin DOMAIN models /\ models' = Put(models, m, new) /\ reloads' = reloads
  BY DEF RegisterModel
<1>2. /\ DOMAIN new = {"hyperparameters", "sample_count", "reload_generation", "last_reload_at_ms"}
      /\ new.last_reload_at_ms = None
  OBVIOUS
<1> HIDE DEF new
<1>3. /\ DOMAIN models' = DOMAIN models \cup {m} /\ models'[m] = new
      /\ \A k \in DOMAIN models : models'[k] = models[k]
  BY <1>1 DEF Put
<1> QED BY <1>1, <1>2, <1>3 DEF ReloadInv

LEMMA RecordPerformanceKeeps ==
    ASSUME RuntimeConstants, ReloadInv, NEW m \in DOMAIN Profiles, NEW sample \in Samples,
           RecordPerformance(m, sample)
    PROVE  ReloadInv'
<1> DEFINE profile == Profiles[m]
           complete == \A i \in DOMAIN profile.rules : profile.rules[i].metric \in DOMAIN sample.metrics
           counted == [models[m] EXCEPT !.sample_count = @ + 1]
           tuned == [counted EXCEPT !.hyperparameters = Adjust(profile.rules, sample, @)]
           reload == complete /\ MustReload(profile.reload_policy, tuned, sample)
           at == sample.captured_at_ms
           again == [tuned EXCEPT !.reload_generation = @ + 1, !.last_reload_at_ms = at]
           new == IF ~complete THEN counted ELSE IF ~reload THEN tuned ELSE again
           last == models[m].last_reload_at_ms
           fields == {"hyperparameters", "sample_count", "reload_generation", "last_reload_at_ms"}
<1>1. /\ m \in DOMAIN models /\ models' = [models EXCEPT ![m] = new]
      /\ reloads' = IF reload THEN [reloads EXCEPT ![m] = Append(@, at)] ELSE reloads
  BY DEF RecordPerformance
<1>2. /\ DOMAIN models[m] = fields /\ reloads[m] \in Seq(Nat) /\ Spaced(reloads[m], Gap(m))
      /\ last = IF reloads[m] = <<>> THEN None ELSE reloads[m][Len(reloads[m])]
      /\ DOMAIN reloads = DOMAIN Profiles
  BY <1>1 DEF ReloadInv
<1>3. DOMAIN counted = fields /\ counted.last_reload_at_ms = last
  BY <1>2
<1> HIDE DEF counted
<1>4. DOMAIN tuned = fields /\ tuned.last_reload_at_ms = last
  BY <1>3
<1> HIDE DEF tuned
<1>5. DOMAIN again = fields /\ again.last_reload_at_ms = at
  BY <1>4
<1>6. reload => Cooled(profile.reload_policy, last, at)
  BY <1>4 DEF MustReload
<1>7. reload => new = again
  OBVIOUS
<1>8. ~reload => new = counted \/ new = tuned
  OBVIOUS
<1> HIDE DEF again, reload, complete
<1>9. DOMAIN new = fields /\ new.last_reload_at_ms = IF reload THEN at ELSE last
  BY <1>3, <1>4, <1>5, <1>7, <1>8
<1> HIDE DEF new
<1>10. /\ DOMAIN models' = DOMAIN models /\ models'[m] = new
       /\ \A k \in DOMAIN models \ {m} : models'[k] = models[k]
  BY <1>1
<1>11. at \in Nat /\ Gap(m) \in Nat /\ None \notin Nat
  BY DEF RuntimeConstants, Gap
<1>12. CASE reload
  <2>1. Cooled(profile.reload_policy, last, at)
    BY <1>6, <1>12
  <2>2. reloads[m] # <<>> => Gap(m) = 0 \/ at >= reloads[m][Len(reloads[m])] + Gap(m)
    <3> SUFFICES ASSUME reloads[m] # <<>> PROVE Gap(m) = 0 \/ at >= last + Gap(m)
      BY <1>2
    <3>1. last \in Nat
      BY <1>2
    <3>2. last # None
      BY <1>11, <3>1
    <3>3. (IF at > last THEN at - last ELSE 0) >= Gap(m)
      BY <2>1, <3>2 DEF Cooled, Gap
    <3> QED BY <1>11, <3>1, <3>3
  <2>3. /\ Append(reloads[m], at) \in Seq(Nat) /\ Append(reloads[m], at) # <<>>
        /\ Append(reloads[m], at)[Len(Append(reloads[m], at))] = at
        /\ Spaced(Append(reloads[m], at), Gap(m))
    BY <1>2, <1>11, <2>2, SpacedAppend
  <2>4. /\ DOMAIN reloads' = DOMAIN Profiles /\ reloads'[m] = Append(reloads[m], at)
        /\ \A k \in DOMAIN Profiles \ {m} : reloads'[k] = reloads[k]
    BY <1>1, <1>2, <1>12
  <2> QED BY <1>1, <1>9, <1>10, <1>12, <2>3, <2>4 DEF ReloadInv
<1>13. CASE ~reload
  <2>1. reloads' = reloads
    BY <1>1, <1>13
  <2> QED BY <1>1, <1>9, <1>10, <1>13, <2>1 DEF ReloadInv
<1> QED BY <1>12, <1>13

(* ReloadsSpaced, for any models, policies and samples in any order of their  *)
(* times: check_reload_policy() never lets two reloads be closer than the     *)
(* cooldown, nor one go back in time.                                         *)
THEOREM ReloadsApart == RuntimeConstants => (Spec => []ReloadsSpaced)
<1> SUFFICES ASSUME RuntimeConstants PROVE Spec => []ReloadsSpaced
  OBVIOUS
<1>1. Init => ReloadInv
  <2> SUFFICES ASSUME Init PROVE ReloadInv
    OBVIOUS
  <2>1. models = <<>> /\ reloads = [m \in DOMAIN Profiles |-> <<>>]
    BY DEF Init
  <2>2. <<>> \in Seq(Nat) /\ DOMAIN models = {} /\ \A gap : Spaced(<<>>, gap)
    BY <2>1 DEF Spaced
  <2> QED BY <2>1, <2>2 DEF ReloadInv
<1>2. ReloadInv /\ [Next]_vars => ReloadInv'
  <2> SUFFICES ASSUME ReloadInv, [Next]_vars PROVE ReloadInv'
    OBVIOUS
  <2>1. CASE UNCHANGED <<models, reloads>>
    BY <2>1 DEF ReloadInv
  <2>2. CASE UNCHANGED vars
    BY <2>1, <2>2 DEF vars, tune_vars
  <2>3. CASE PoolNext
    BY <2>1, <2>3 DEF PoolNext, RegisterModule, Provision, CreateReplica, InsertReplica,
       DestroyReplica, Release, tune_vars
  <2>4. CASE TuneNext
    BY <2>4, RegisterModelKeeps, RecordPerformanceKeeps DEF TuneNext
  <2> QED BY <2>2, <2>3, <2>4 DEF Next
<1>3. ReloadInv => ReloadsSpaced
  BY DEF ReloadInv, ReloadsSpaced, Spaced, Gap
<1> QED BY <1>1, <1>2, <1>3, PTL DEF Spec

-----------------------------------------------------------------------------
(***************************************************************************)
(* Templates and instances: an instance stays what expand() made of the    *)
(* template of its time.                                                   *)
(***************************************************************************)
Expanded(x) ==
    \E id, t, o : x = Template!Expand(id, t, o) /\ Template!Accepts(t, o)

InstancesExpanded == \A i \in DOMAIN instances : Expanded(instances[i])

FrozenIn(x) ==
    /\ \A p \in DOMAIN x.template.param_schema :
          /\ x.template.param_schema[p].inheritance = "Frozen"
          /\ x.template.param_schema[p].default_value # None
          => x.resolved_params[p] = x.template.param_schema[p].default_value
    /\ x.template.lock_policy = "ReadOnly" => x.resolved_params = Template!Defaults(x.template)
    /\ \A n \in NodeIds : DOMAIN x.resolved_params \subseteq DOMAIN x.nodes[n]

(* What resolve_params() accepts leaves the frozen values as they are.        *)
LEMMA ExpandedFrozen == ASSUME NEW x, Expanded(x) PROVE FrozenIn(x)
<1>1. PICK id, t, o : x = Template!Expand(id, t, o) /\ Template!Accepts(t, o)
  BY DEF Expanded
<1> DEFINE d == Template!Defaults(t)
           r == Template!ResolveParams(t, o)
<1>2. /\ x.template = t /\ x.resolved_params = r
      /\ \A n \in NodeIds : x.nodes[n] = Template!Merge(r, t.nodes)
  BY <1>1 DEF Template!Expand
<1>3. /\ DOMAIN r = DOMAIN d \cup DOMAIN o
      /\ \A p \in DOMAIN d \ DOMAIN o : r[p] = d[p]
      /\ r = [p \in DOMAIN d \cup DOMAIN o |-> IF p \in DOMAIN o THEN o[p] ELSE d[p]]
  BY DEF Template!ResolveParams, Template!Merge
<1>4. /\ DOMAIN d = {p \in DOMAIN t.param_schema : t.param_schema[p].default_value # None}
      /\ \A p \in DOMAIN d : d[p] = t.param_schema[p].default_value
      /\ d = [p \in DOMAIN d |-> d[p]]
  BY DEF Template!Defaults
<1>5. ASSUME NEW p \in DOMAIN t.param_schema, t.param_schema[p].inheritance = "Frozen",
             t.param_schema[p].default_value # None
      PROVE  r[p] = t.param_schema[p].default_value
  <2>1. p \in DOMAIN d
    BY <1>4, <1>5
  <2>2. p \notin DOMAIN o
    BY <1>1, <1>5 DEF Template!Accepts
  <2> QED BY <1>3, <1>4, <2>1, <2>2
<1>6. t.lock_policy = "ReadOnly" => r = d
  <2> SUFFICES ASSUME t.lock_policy = "ReadOnly" PROVE r = d
    OBVIOUS
  <2>1. o = <<>>
    BY <1>1 DEF Template!Accepts
  <2>2. DOMAIN o = {}
    BY <2>1
  <2> QED BY <1>3, <1>4, <2>2
<1>7. DOMAIN r \subseteq DOMAIN Template!Merge(r, t.nodes)
  BY DEF Template!Merge
<1> QED BY <1>2, <1>5, <1>6, <1>7 DEF FrozenIn

(* FrozenHolds, for any parameters, templates, edits, imports and overrides:  *)
(* an instance has the values that its template froze when resolve_params()   *)
(* and expand() made it, whatever happens to the template later.              *)
THEOREM InstancesKeepFrozen == Template!Spec => []Template!FrozenHolds
<1>1. Template!Init => InstancesExpanded
  BY DEF Template!Init, InstancesExpanded
<1>2. InstancesExpanded /\ [Template!Next]_(Template!vars) => InstancesExpanded'
  <2> SUFFICES ASSUME InstancesExpanded, [Template!Next]_(Template!vars) PROVE InstancesExpanded'
    OBVIOUS
  <2>1. CASE instances' = instances
    BY <2>1 DEF InstancesExpanded
  <2>2. ASSUME NEW id, NEW o, Template!Instantiate(id, o) PROVE InstancesExpanded'
    <3> DEFINE x == Template!Expand(id, templates[id], o)
    <3>1. instances' = Template!Put(instances, made.instances + 1, x)
      BY <2>2 DEF Template!Instantiate
    <3>2. Expanded(x)
      BY <2>2 DEF Template!Instantiate, Expanded
    <3> HIDE DEF x
    <3>3. \A i \in DOMAIN instances' :
             instances'[i] = x \/ (i \in DOMAIN instances /\ instances'[i] = instances[i])
      BY <3>1 DEF Template!Put
    <3> QED BY <3>2, <3>3 DEF InstancesExpanded
  <2>3. ASSUME NEW i, Template!RemoveInstance(i) PROVE InstancesExpanded'
    BY <2>3 DEF Template!RemoveInstance, InstancesExpanded
  <2>4. CASE UNCHANGED Template!vars
    BY <2>1, <2>4 DEF Template!vars
  <2> QED BY <2>1, <2>2, <2>3, <2>4 DEF Template!Next, Template!RegisterTemplate,
     Template!AddTemplate, Template!BumpVersion, Template!SetLock, Template!WithParam,
     Template!EditTemplate, Template!RemoveTemplate, Template!CloneTemplate, Template!ForkTemplate,
     Template!Export, Template!Import
<1>3. InstancesExpanded => Template!FrozenHolds
  BY ExpandedFrozen DEF InstancesExpanded, Template!FrozenHolds, FrozenIn
<1> QED BY <1>1, <1>2, <1>3, PTL DEF Template!Spec

-----------------------------------------------------------------------------
(***************************************************************************)
(* Undo and redo.  A stack of commands goes with the graphs that they lead *)
(* through, and each command undoes its own inverse.                       *)
(***************************************************************************)
IsNode(n) == \E t, p, q : n = Edit!Node(t, p, q) /\ Edit!Missing(Templates[t], p) = {}

Graph(g, last) ==
    /\ g = [x \in DOMAIN g |-> g[x]]
    /\ \A x \in DOMAIN g : x \in Nat /\ x <= last /\ IsNode(g[x])

Linked(g, c, h) ==
    /\ Edit!ExecuteCommand(h, c) = g /\ Edit!ExecuteCommand(g, Edit!Invert(c)) = h
    /\ Edit!Invert(Edit!Invert(c)) = c

IsSequence(s) == \E S : s \in Seq(S)

Chain(stack, graphs, now) ==
    /\ IsSequence(stack) /\ IsSequence(graphs) /\ Len(graphs) = Len(stack)
    /\ \A k \in 1..Len(stack) :
          Linked(graphs[k], stack[k], IF k = Len(stack) THEN now ELSE graphs[k + 1])

Graphs(graphs, last) == \A k \in 1..Len(graphs) : Graph(graphs[k], last)

EditInv ==
    /\ edits_made.nodes \in Nat /\ "nodes" \in DOMAIN edits_made
    /\ Graph(nodes, edits_made.nodes)
    /\ Chain(undo_stack, undone, nodes) /\ Graphs(undone, edits_made.nodes)
    /\ Chain(redo_stack, ahead, nodes) /\ Graphs(ahead, edits_made.nodes)

LEMMA EmptySequence == IsSequence(<<>>) /\ Len(<<>>) = 0
  BY DEF IsSequence

LEMMA PushSequence ==
    ASSUME NEW s, IsSequence(s), NEW e
    PROVE  /\ IsSequence(Append(s, e)) /\ Len(s) \in Nat /\ Len(Append(s, e)) = Len(s) + 1
           /\ Append(s, e)[Len(s) + 1] = e
           /\ \A k \in 1..Len(s) : Append(s, e)[k] = s[k]
<1>1. PICK S : s \in Seq(S)
  BY DEF IsSequence
<1> DEFINE T == S \cup {e}
<1>2. s \in Seq(T) /\ e \in T
  BY <1>1
<1> HIDE DEF T
<1>3. /\ Append(s, e) \in Seq(T) /\ Len(Append(s, e)) = Len(s) + 1
      /\ Append(s, e)[Len(s) + 1] = e
      /\ \A k \in 1..Len(s) : Append(s, e)[k] = s[k]
  BY <1>2, AppendProperties
<1>4. Len(s) \in Nat
  BY <1>2, LenProperties
<1> QED BY <1>3, <1>4 DEF IsSequence

LEMMA PopSequence ==
    ASSUME NEW s, IsSequence(s), s # <<>>
    PROVE  /\ Len(s) \in Nat \ {0} /\ IsSequence(Edit!Pop(s)) /\ Len(Edit!Pop(s)) = Len(s) - 1
           /\ Edit!Top(s) = s[Len(s)]
           /\ \A k \in 1..(Len(s) - 1) : Edit!Pop(s)[k] = s[k]
<1>1. PICK S : s \in Seq(S)
  BY DEF IsSequence
<1>2. Len(s) \in Nat \ {0}
  BY <1>1, EmptySeq, LenProperties
<1> DEFINE n == Len(s) - 1
<1>3. n \in Nat /\ (IF 1 <= n THEN n - 1 + 1 ELSE 0) = n /\ n - 1 + 1 = n
  <2>1. n \in Nat
    BY <1>2
  <2> HIDE DEF n
  <2> QED BY <2>1
<1>4. \A k \in 1..n : s[k] \in S
  BY <1>1, <1>2
<1> HIDE DEF n
<1>5. /\ SubSeq(s, 1, n) \in Seq(S) /\ Len(SubSeq(s, 1, n)) = n
      /\ \A k \in 1..n : SubSeq(s, 1, n)[k] = s[1 + k - 1]
  BY <1>3, <1>4, 1 \in Int, n \in Int, SubSeqProperties
<1>6. \A k \in 1..n : SubSeq(s, 1, n)[k] = s[k]
  <2> SUFFICES ASSUME NEW k \in 1..n PROVE SubSeq(s, 1, n)[k] = s[k]
    OBVIOUS
  <2>1. 1 + k - 1 = k
    BY <1>3
  <2> QED BY <1>5, <2>1
<1> QED BY <1>2, <1>5, <1>6 DEF n, IsSequence, Edit!Pop, Edit!Top

LEMMA EmptyChain == \A now, last : Chain(<<>>, <<>>, now) /\ Graphs(<<>>, last)
  BY EmptySequence DEF Chain, Graphs

(* One more command, which leads from the new graph back to the present one.  *)
LEMMA PushChain ==
    ASSUME NEW stack, NEW graphs, NEW now, NEW c, NEW new,
           Chain(stack, graphs, now), Linked(now, c, new)
    PROVE  Chain(Append(stack, c), Append(graphs, now), new)
<1> DEFINE n == Len(stack)
           s2 == Append(stack, c)
           g2 == Append(graphs, now)
<1>1. /\ IsSequence(s2) /\ n \in Nat /\ Len(s2) = n + 1 /\ s2[n + 1] = c
      /\ \A k \in 1..n : s2[k] = stack[k]
  BY PushSequence DEF Chain
<1>2. /\ IsSequence(g2) /\ Len(g2) = n + 1 /\ g2[n + 1] = now
      /\ \A k \in 1..n : g2[k] = graphs[k]
  BY PushSequence DEF Chain
<1>3. \A k \in 1..n : Linked(graphs[k], stack[k], IF k = n THEN now ELSE graphs[k + 1])
  BY DEF Chain
<1> HIDE DEF n, s2, g2
<1>4. ASSUME NEW k \in 1..(n + 1)
      PROVE  Linked(g2[k], s2[k], IF k = n + 1 THEN new ELSE g2[k + 1])
  <2>1. CASE k = n + 1
    BY <1>1, <1>2, <2>1
  <2>2. CASE k = n /\ k # n + 1
    <3>1. k \in 1..n
      BY ONLY <1>1, <2>2, k \in 1..(n + 1)
    <3>2. Linked(graphs[k], stack[k], now) /\ g2[k] = graphs[k] /\ s2[k] = stack[k]
      BY <1>1, <1>2, <1>3, <2>2, <3>1
    <3>3. g2[k + 1] = now
      BY <1>2, <2>2
    <3> QED BY <2>2, <3>2, <3>3
  <2>3. CASE k # n /\ k # n + 1
    <3>1. k \in 1..n /\ k + 1 \in 1..n
      BY ONLY <1>1, <2>3, k \in 1..(n + 1)
    <3>2. Linked(graphs[k], stack[k], graphs[k + 1])
      BY <1>3, <2>3, <3>1
    <3>3. g2[k] = graphs[k] /\ s2[k] = stack[k] /\ g2[k + 1] = graphs[k + 1]
      BY <1>1, <1>2, <3>1
    <3> QED BY <2>3, <3>2, <3>3
  <2> QED BY <2>1, <2>2, <2>3
<1>5. Chain(s2, g2, new)
  BY <1>1, <1>2, <1>4 DEF Chain
<1> QED BY <1>5 DEF s2, g2

LEMMA PushGraphs ==
    ASSUME NEW graphs, IsSequence(graphs), NEW g, NEW last, Graphs(graphs, last), Graph(g, last)
    PROVE  Graphs(Append(graphs, g), last)
<1> DEFINE n == Len(graphs)
<1>1. /\ n \in Nat /\ Len(Append(graphs, g)) = n + 1 /\ Append(graphs, g)[n + 1] = g
      /\ \A k \in 1..n : Append(graphs, g)[k] = graphs[k]
  BY PushSequence
<1> HIDE DEF n
<1>2. \A k \in 1..(n + 1) : k \in 1..n \/ k = n + 1
  BY <1>1
<1> QED BY <1>1, <1>2 DEF Graphs, n

(* One command less.                                                          *)
LEMMA PopChain ==
    ASSUME NEW stack, NEW graphs, NEW now, NEW last, Chain(stack, graphs, now), stack # <<>>,
           Graphs(graphs, last)
    PROVE  /\ Linked(graphs[Len(stack)], Edit!Top(stack), now)
           /\ Chain(Edit!Pop(stack), Edit!Pop(graphs), graphs[Len(stack)])
           /\ Graph(graphs[Len(stack)], last) /\ Graphs(Edit!Pop(graphs), last)
<1> DEFINE n == Len(stack)
           s2 == Edit!Pop(stack)
           g2 == Edit!Pop(graphs)
<1>1. /\ n \in Nat \ {0} /\ IsSequence(s2) /\ Len(s2) = n - 1 /\ Edit!Top(stack) = stack[n]
      /\ \A k \in 1..(n - 1) : s2[k] = stack[k]
  BY PopSequence DEF Chain
<1>2. Len(graphs) = n /\ graphs # <<>> /\ IsSequence(graphs)
  BY <1>1, EmptySequence DEF Chain
<1>3. IsSequence(g2) /\ Len(g2) = n - 1 /\ \A k \in 1..(n - 1) : g2[k] = graphs[k]
  BY <1>2, PopSequence
<1>4. \A k \in 1..n : Linked(graphs[k], stack[k], IF k = n THEN now ELSE graphs[k + 1])
  BY DEF Chain
<1>5. \A k \in 1..n : Graph(graphs[k], last)
  BY <1>2 DEF Graphs
<1> HIDE DEF n, s2, g2
<1>6. n \in 1..n
  BY <1>1
<1>7. Linked(graphs[n], stack[n], now)
  BY <1>4, <1>6
<1>8. ASSUME NEW k \in 1..(n - 1)
      PROVE  Linked(g2[k], s2[k], IF k = n - 1 THEN graphs[n] ELSE g2[k + 1])
  <2>1. k \in 1..n /\ k # n
    BY ONLY <1>1, k \in 1..(n - 1)
  <2>2. Linked(graphs[k], stack[k], graphs[k + 1]) /\ g2[k] = graphs[k] /\ s2[k] = stack[k]
    BY <1>1, <1>3, <1>4, <2>1
  <2>3. CASE k = n - 1
    <3>1. k + 1 = n
      BY ONLY <1>1, <2>3
    <3> QED BY <2>2, <2>3, <3>1
  <2>4. CASE k # n - 1
    <3>1. k + 1 \in 1..(n - 1)
      BY ONLY <1>1, <2>4, k \in 1..(n - 1)
    <3> QED BY <1>3, <2>2, <2>4, <3>1
  <2> QED BY <2>3, <2>4
<1>9. Chain(s2, g2, graphs[n])
  BY <1>1, <1>3, <1>8 DEF Chain
<1>10. Graphs(g2, last)
  <2>1. \A k \in 1..(n - 1) : k \in 1..n
    BY <1>1
  <2> QED BY <1>3, <1>5, <2>1 DEF Graphs
<1> QED BY <1>1, <1>5, <1>6, <1>7, <1>9, <1>10 DEF n, s2, g2

LEMMA LinkedBack == ASSUME NEW g, NEW c, NEW h, Linked(g, c, h) PROVE Linked(h, Edit!Invert(c), g)
  BY DEF Linked

(* The commands of an edit: each leads to a graph, and its inverse back.      *)
LEMMA AddLinked ==
    ASSUME NEW last \in Nat, NEW g, Graph(g, last), NEW n, IsNode(n)
    PROVE  LET c == [is |-> "Add", id |-> last + 1, node |-> n]
               h == Edit!ExecuteCommand(g, c)
           IN  Linked(g, Edit!Invert(c), h) /\ Graph(h, last + 1)
<1> DEFINE id == last + 1
           c == [is |-> "Add", id |-> id, node |-> n]
           d == [is |-> "Remove", id |-> id, node |-> n]
           h == Edit!Put(g, id, n)
<1>1. Edit!Invert(c) = d /\ Edit!Invert(d) = c
  BY DEF Edit!Invert
<1>2. Edit!ExecuteCommand(g, c) = h
  BY DEF Edit!ExecuteCommand
<1>3. id \notin DOMAIN g
  BY DEF Graph
<1>4. Edit!ExecuteCommand(h, d) = [x \in DOMAIN h \ {id} |-> h[x]]
  BY DEF Edit!ExecuteCommand, Edit!Restrict
<1>5. /\ DOMAIN h = DOMAIN g \cup {id} /\ h[id] = n /\ \A x \in DOMAIN g : h[x] = g[x]
      /\ h = [x \in DOMAIN h |-> h[x]]
  BY <1>3 DEF Edit!Put
<1> HIDE DEF h
<1>6. [x \in DOMAIN h \ {id} |-> h[x]] = g
  <2>1. DOMAIN h \ {id} = DOMAIN g
    BY <1>3, <1>5
  <2>2. [x \in DOMAIN g |-> h[x]] = [x \in DOMAIN g |-> g[x]]
    BY <1>5
  <2> QED BY <2>1, <2>2 DEF Graph
<1> HIDE DEF c, d
<1>7. Linked(g, Edit!Invert(c), h)
  BY <1>1, <1>2, <1>4, <1>6 DEF Linked
<1>8. Graph(h, last + 1)
  BY <1>5 DEF Graph
<1> QED BY <1>2, <1>7, <1>8 DEF c

LEMMA RemoveLinked ==
    ASSUME NEW last \in Nat, NEW g, Graph(g, last), NEW id \in DOMAIN g
    PROVE  LET c == [is |-> "Remove", id |-> id, node |-> g[id]]
               h == Edit!ExecuteCommand(g, c)
           IN  Linked(g, Edit!Invert(c), h) /\ Graph(h, last)
<1> DEFINE n == g[id]
           c == [is |-> "Remove", id |-> id, node |-> n]
           d == [is |-> "Add", id |-> id, node |-> n]
           h == [x \in DOMAIN g \ {id} |-> g[x]]
<1>1. Edit!Invert(c) = d /\ Edit!Invert(d) = c
  BY DEF Edit!Invert
<1>2. Edit!ExecuteCommand(g, c) = h
  BY DEF Edit!ExecuteCommand, Edit!Restrict
<1>3. Edit!ExecuteCommand(h, d) = Edit!Put(h, id, n)
  BY DEF Edit!ExecuteCommand
<1>4. /\ DOMAIN h = DOMAIN g \ {id} /\ \A x \in DOMAIN h : h[x] = g[x]
      /\ h = [x \in DOMAIN h |-> h[x]]
  OBVIOUS
<1> HIDE DEF h
<1>5. Edit!Put(h, id, n) = g
  <2>1. DOMAIN h \cup {id} = DOMAIN g
    BY <1>4
  <2>2. Edit!Put(h, id, n) = [x \in DOMAIN g |-> g[x]]
    BY <1>4, <2>1 DEF Edit!Put
  <2> QED BY <2>2 DEF Graph
<1> HIDE DEF c, d
<1>6. Linked(g, Edit!Invert(c), h)
  BY <1>1, <1>2, <1>3, <1>5 DEF Linked
<1>7. Graph(h, last)
  BY <1>4 DEF Graph
<1> QED BY <1>2, <1>6, <1>7 DEF c

(* A node of the graph is replaced by another one, and back.                  *)
LEMMA Replaced ==
    ASSUME NEW last, NEW g, Graph(g, last), NEW id \in DOMAIN g, NEW n, IsNode(n)
    PROVE  LET h == Edit!Put(g, id, n)
           IN  Graph(h, last) /\ id \in DOMAIN h /\ h[id] = n /\ Edit!Put(h, id, g[id]) = g
<1> DEFINE h == Edit!Put(g, id, n)
<1>1. /\ DOMAIN h = DOMAIN g /\ h[id] = n /\ \A x \in DOMAIN g \ {id} : h[x] = g[x]
      /\ h = [x \in DOMAIN h |-> h[x]]
  BY DEF Edit!Put
<1> HIDE DEF h
<1>2. Graph(h, last)
  BY <1>1 DEF Graph
<1>3. Edit!Put(h, id, g[id]) = [x \in DOMAIN g |-> g[x]]
  BY <1>1 DEF Edit!Put
<1> QED BY <1>1, <1>2, <1>3 DEF Graph, h

LEMMA UpdateLinked ==
    ASSUME NEW last \in Nat, NEW g, Graph(g, last), NEW id \in DOMAIN g, NEW updates
    PROVE  LET c == [is |-> "Update", id |-> id, old |-> g[id].parameters,
                     new |-> Edit!Extend(g[id].parameters, updates)]
               h == Edit!ExecuteCommand(g, c)
           IN  Linked(g, Edit!Invert(c), h) /\ Graph(h, last)
<1>1. PICK t, p, q : g[id] = Edit!Node(t, p, q) /\ Edit!Missing(Templates[t], p) = {}
  BY DEF Graph, IsNode
<1> DEFINE p2 == Edit!Extend(p, updates)
           c == [is |-> "Update", id |-> id, old |-> p, new |-> p2]
           d == [is |-> "Update", id |-> id, old |-> p2, new |-> p]
           n == Edit!Node(t, p2, q)
           h == Edit!Put(g, id, n)
<1>2. g[id].parameters = p
  BY <1>1 DEF Edit!Node
<1>3. IsNode(n)
  <2>1. DOMAIN p \subseteq DOMAIN p2
    BY DEF Edit!Extend
  <2>2. Edit!Missing(Templates[t], p2) = {}
    BY <1>1, <2>1 DEF Edit!Missing
  <2> QED BY <2>2 DEF IsNode
<1> HIDE DEF p2
<1>4. Edit!Invert(c) = d /\ Edit!Invert(d) = c
  BY DEF Edit!Invert
<1>5. [g[id] EXCEPT !.parameters = p2] = n /\ [n EXCEPT !.parameters = p] = g[id]
  BY <1>1 DEF Edit!Node
<1>6. Edit!ExecuteCommand(g, c) = h
  BY <1>5 DEF Edit!ExecuteCommand
<1> HIDE DEF n
<1>7. Graph(h, last) /\ id \in DOMAIN h /\ h[id] = n /\ Edit!Put(h, id, g[id]) = g
  BY <1>3, Replaced
<1> HIDE DEF h
<1>8. Edit!ExecuteCommand(h, d) = g
  BY <1>5, <1>7 DEF Edit!ExecuteCommand
<1> HIDE DEF c, d
<1>9. Linked(g, Edit!Invert(c), h)
  BY <1>4, <1>6, <1>8 DEF Linked
<1> QED BY <1>2, <1>6, <1>7, <1>9 DEF c, p2

LEMMA MoveLinked ==
    ASSUME NEW last \in Nat, NEW g, Graph(g, last), NEW id \in DOMAIN g, NEW position
    PROVE  LET c == [is |-> "Move", id |-> id, old |-> g[id].position, new |-> position]
               h == Edit!ExecuteCommand(g, c)
           IN  Linked(g, Edit!Invert(c), h) /\ Graph(h, last)
<1>1. PICK t, p, q : g[id] = Edit!Node(t, p, q) /\ Edit!Missing(Templates[t], p) = {}
  BY DEF Graph, IsNode
<1> DEFINE c == [is |-> "Move", id |-> id, old |-> q, new |-> position]
           d == [is |-> "Move", id |-> id, old |-> position, new |-> q]
           n == Edit!Node(t, p, position)
           h == Edit!Put(g, id, n)
<1>2. g[id].position = q
  BY <1>1 DEF Edit!Node
<1>3. IsNode(n)
  BY <1>1 DEF IsNode
<1>4. Edit!Invert(c) = d /\ Edit!Invert(d) = c
  BY DEF Edit!Invert
<1>5. [g[id] EXCEPT !.position = position] = n /\ [n EXCEPT !.position = q] = g[id]
  BY <1>1 DEF Edit!Node
<1>6. Edit!ExecuteCommand(g, c) = h
  BY <1>5 DEF Edit!ExecuteCommand
<1> HIDE DEF n
<1>7. Graph(h, last) /\ id \in DOMAIN h /\ h[id] = n /\ Edit!Put(h, id, g[id]) = g
  BY <1>3, Replaced
<1> HIDE DEF h
<1>8. Edit!ExecuteCommand(h, d) = g
  BY <1>5, <1>7 DEF Edit!ExecuteCommand
<1> HIDE DEF c, d
<1>9. Linked(g, Edit!Invert(c), h)
  BY <1>4, <1>6, <1>8 DEF Linked
<1> QED BY <1>2, <1>6, <1>7, <1>9 DEF c

-----------------------------------------------------------------------------
(* Graphs stay graphs when more nodes have been made.                         *)
LEMMA GraphLater ==
    ASSUME NEW last \in Nat, NEW g, Graph(g, last)
    PROVE  Graph(g, last + 1)
  BY DEF Graph

LEMMA ApplyKeeps ==
    ASSUME EditInv, NEW c, Edit!ApplyCommand(c), NEW last \in Nat,
           last = edits_made.nodes \/ last = edits_made.nodes + 1,
           edits_made'.nodes = last, "nodes" \in DOMAIN edits_made',
           Linked(nodes, Edit!Invert(c), Edit!ExecuteCommand(nodes, c)),
           Graph(Edit!ExecuteCommand(nodes, c), last)
    PROVE  EditInv'
<1>1. /\ nodes' = Edit!ExecuteCommand(nodes, c)
      /\ undo_stack' = Append(undo_stack, Edit!Invert(c)) /\ redo_stack' = <<>>
      /\ undone' = Append(undone, nodes) /\ ahead' = <<>>
  BY DEF Edit!ApplyCommand
<1>2. Chain(undo_stack', undone', nodes')
  BY <1>1, PushChain DEF EditInv
<1>3. Graph(nodes, last) /\ Graphs(undone, last)
  BY GraphLater DEF EditInv, Graphs
<1>4. Graphs(undone', last)
  BY <1>1, <1>3, PushGraphs DEF EditInv, Chain
<1>5. Chain(redo_stack', ahead', nodes') /\ Graphs(ahead', last)
  BY <1>1, EmptyChain
<1>6. Graph(nodes', last)
  BY <1>1
<1> QED BY <1>2, <1>4, <1>5, <1>6 DEF EditInv

LEMMA EditedSame ==
    ASSUME EditInv, Edit!Edited
    PROVE  edits_made'.nodes = edits_made.nodes /\ "nodes" \in DOMAIN edits_made'
  BY DEF EditInv, Edit!Edited

LEMMA AddNodeKeeps ==
    ASSUME EditInv, NEW t, NEW position, NEW params, Edit!AddNode(t, position, params)
    PROVE  EditInv'
<1> DEFINE last == edits_made.nodes
           final == Edit!Extend(Edit!Defaults(Templates[t]), params)
           n == Edit!Node(t, final, position)
           c == [is |-> "Add", id |-> last + 1, node |-> n]
<1>1. /\ Edit!Missing(Templates[t], final) = {} /\ Edit!ApplyCommand(c)
      /\ edits_made' = [nodes |-> last + 1, edits |-> edits_made.edits + 1]
  BY DEF Edit!AddNode
<1>2. IsNode(n)
  BY <1>1 DEF IsNode
<1>3. last \in Nat /\ Graph(nodes, last) /\ last + 1 \in Nat
  BY DEF EditInv
<1> HIDE DEF n, final
<1>4. Linked(nodes, Edit!Invert(c), Edit!ExecuteCommand(nodes, c))
      /\ Graph(Edit!ExecuteCommand(nodes, c), last + 1)
  BY <1>2, <1>3, AddLinked
<1>5. edits_made'.nodes = last + 1 /\ "nodes" \in DOMAIN edits_made'
  BY <1>1
<1> HIDE DEF c
<1> QED BY <1>1, <1>3, <1>4, <1>5, ApplyKeeps

LEMMA RemoveNodeKeeps ==
    ASSUME EditInv, NEW id \in DOMAIN nodes, Edit!RemoveNode(id)
    PROVE  EditInv'
<1> DEFINE last == edits_made.nodes
           c == [is |-> "Remove", id |-> id, node |-> nodes[id]]
<1>1. Edit!ApplyCommand(c) /\ edits_made'.nodes = last /\ "nodes" \in DOMAIN edits_made'
  BY EditedSame DEF Edit!RemoveNode
<1>2. last \in Nat /\ Graph(nodes, last)
  BY DEF EditInv
<1>3. Linked(nodes, Edit!Invert(c), Edit!ExecuteCommand(nodes, c))
      /\ Graph(Edit!ExecuteCommand(nodes, c), last)
  BY <1>2, RemoveLinked
<1> HIDE DEF c
<1> QED BY <1>1, <1>2, <1>3, ApplyKeeps

LEMMA UpdateNodeKeeps ==
    ASSUME EditInv, NEW id \in DOMAIN nodes, NEW updates, Edit!UpdateNode(id, updates)
    PROVE  EditInv'
<1> DEFINE last == edits_made.nodes
           c == [is |-> "Update", id |-> id, old |-> nodes[id].parameters,
                 new |-> Edit!Extend(nodes[id].parameters, updates)]
<1>1. Edit!ApplyCommand(c) /\ edits_made'.nodes = last /\ "nodes" \in DOMAIN edits_made'
  BY EditedSame DEF Edit!UpdateNode
<1>2. last \in Nat /\ Graph(nodes, last)
  BY DEF EditInv
<1>3. Linked(nodes, Edit!Invert(c), Edit!ExecuteCommand(nodes, c))
      /\ Graph(Edit!ExecuteCommand(nodes, c), last)
  BY <1>2, UpdateLinked
<1> HIDE DEF c
<1> QED BY <1>1, <1>2, <1>3, ApplyKeeps

LEMMA MoveNodeKeeps ==
    ASSUME EditInv, NEW id \in DOMAIN nodes, NEW position, Edit!MoveNode(id, position)
    PROVE  EditInv'
<1> DEFINE last == edits_made.nodes
           c == [is |-> "Move", id |-> id, old |-> nodes[id].position, new |-> position]
<1>1. Edit!ApplyCommand(c) /\ edits_made'.nodes = last /\ "nodes" \in DOMAIN edits_made'
  BY EditedSame DEF Edit!MoveNode
<1>2. last \in Nat /\ Graph(nodes, last)
  BY DEF EditInv
<1>3. Linked(nodes, Edit!Invert(c), Edit!ExecuteCommand(nodes, c))
      /\ Graph(Edit!ExecuteCommand(nodes, c), last)
  BY <1>2, MoveLinked
<1> HIDE DEF c
<1> QED BY <1>1, <1>2, <1>3, ApplyKeeps

LEMMA UndoKeeps == ASSUME EditInv, Edit!Undo PROVE EditInv'
<1> DEFINE last == edits_made.nodes
           c == Edit!Top(undo_stack)
           g == undone[Len(undo_stack)]
<1>1. /\ undo_stack # <<>> /\ nodes' = Edit!ExecuteCommand(nodes, c)
      /\ undo_stack' = Edit!Pop(undo_stack)
      /\ redo_stack' = Append(redo_stack, Edit!Invert(c))
      /\ undone' = Edit!Pop(undone) /\ ahead' = Append(ahead, nodes)
      /\ edits_made'.nodes = last /\ "nodes" \in DOMAIN edits_made'
  BY EditedSame DEF Edit!Undo
<1>2. last \in Nat /\ Graph(nodes, last)
  BY DEF EditInv
<1>3. /\ Linked(g, c, nodes) /\ Chain(Edit!Pop(undo_stack), Edit!Pop(undone), g)
      /\ Graph(g, last) /\ Graphs(Edit!Pop(undone), last)
  BY <1>1, PopChain DEF EditInv
<1> HIDE DEF c, g
<1>4. nodes' = g /\ Linked(nodes, Edit!Invert(c), g)
  BY <1>1, <1>3, LinkedBack DEF Linked
<1>5. Chain(redo_stack', ahead', nodes')
  BY <1>1, <1>4, PushChain DEF EditInv
<1>6. Graphs(ahead', last)
  BY <1>1, <1>2, PushGraphs DEF EditInv, Chain
<1> QED BY <1>1, <1>2, <1>3, <1>4, <1>5, <1>6 DEF EditInv

LEMMA RedoKeeps == ASSUME EditInv, Edit!Redo PROVE EditInv'
<1> DEFINE last == edits_made.nodes
           c == Edit!Top(redo_stack)
           g == ahead[Len(redo_stack)]
<1>1. /\ redo_stack # <<>> /\ nodes' = Edit!ExecuteCommand(nodes, c)
      /\ redo_stack' = Edit!Pop(redo_stack)
      /\ undo_stack' = Append(undo_stack, Edit!Invert(c))
      /\ ahead' = Edit!Pop(ahead) /\ undone' = Append(undone, nodes)
      /\ edits_made'.nodes = last /\ "nodes" \in DOMAIN edits_made'
  BY EditedSame DEF Edit!Redo
<1>2. last \in Nat /\ Graph(nodes, last)
  BY DEF EditInv
<1>3. /\ Linked(g, c, nodes) /\ Chain(Edit!Pop(redo_stack), Edit!Pop(ahead), g)
      /\ Graph(g, last) /\ Graphs(Edit!Pop(ahead), last)
  BY <1>1, PopChain DEF EditInv
<1> HIDE DEF c, g
<1>4. nodes' = g /\ Linked(nodes, Edit!Invert(c), g)
  BY <1>1, <1>3, LinkedBack DEF Linked
<1>5. Chain(undo_stack', undone', nodes')
  BY <1>1, <1>4, PushChain DEF EditInv
<1>6. Graphs(undone', last)
  BY <1>1, <1>2, PushGraphs DEF EditInv, Chain
<1> QED BY <1>1, <1>2, <1>3, <1>4, <1>5, <1>6 DEF EditInv

LEMMA EditInvNext == EditInv /\ [Edit!Next]_(Edit!vars) => EditInv'
<1> SUFFICES ASSUME EditInv, [Edit!Next]_(Edit!vars) PROVE EditInv'
  OBVIOUS
<1>1. CASE UNCHANGED <<nodes, undo_stack, redo_stack, undone, ahead, edits_made>>
  BY <1>1 DEF EditInv
<1>2. CASE UNCHANGED Edit!vars
  BY <1>1, <1>2 DEF Edit!vars
<1>3. CASE Edit!CustomNext
  BY <1>1, <1>3 DEF Edit!CustomNext, Edit!RegisterTemplate, Edit!ApplyPreset, Edit!Hold,
     Edit!Customize, Edit!graph_vars
<1>4. CASE Edit!EditNext
  BY <1>4, AddNodeKeeps, RemoveNodeKeeps, UpdateNodeKeeps, MoveNodeKeeps, UndoKeeps, RedoKeeps
  DEF Edit!EditNext, Edit!SendBack
<1> QED BY <1>2, <1>3, <1>4 DEF Edit!Next

(* UndoExact and RequiredPresent, for any templates, updates and positions    *)
(* and any number of edits: the commands on the stacks of NodeGraph (node.rs) *)
(* lead back and forth through the very graphs that were there, and no edit,  *)
(* undo or redo takes a required parameter from a node.                       *)
THEOREM UndoRedoFaithful == Edit!Spec => [](Edit!UndoExact /\ Edit!RequiredPresent)
<1>1. Edit!Init => EditInv
  <2> SUFFICES ASSUME Edit!Init PROVE EditInv
    OBVIOUS
  <2>1. /\ nodes = <<>> /\ undo_stack = <<>> /\ redo_stack = <<>> /\ undone = <<>> /\ ahead = <<>>
        /\ edits_made.nodes = 0 /\ "nodes" \in DOMAIN edits_made
    BY DEF Edit!Init
  <2>2. Graph(nodes, edits_made.nodes)
    BY <2>1 DEF Graph
  <2> QED BY <2>1, <2>2, EmptyChain DEF EditInv
<1>2. EditInv => Edit!UndoExact
  BY DEF EditInv, Edit!UndoExact, Edit!LeadsThrough, Chain, Linked
<1>3. EditInv => Edit!RequiredPresent
  <2> SUFFICES ASSUME EditInv, NEW id \in DOMAIN nodes
               PROVE  Edit!Missing(Templates[nodes[id].template_id], nodes[id].parameters) = {}
    BY DEF Edit!RequiredPresent
  <2>1. PICK t, p, q : nodes[id] = Edit!Node(t, p, q) /\ Edit!Missing(Templates[t], p) = {}
    BY DEF EditInv, Graph, IsNode
  <2>2. nodes[id].template_id = t /\ nodes[id].parameters = p
    BY <2>1 DEF Edit!Node
  <2> QED BY <2>1, <2>2
<1> QED BY <1>1, <1>2, <1>3, EditInvNext, PTL DEF Edit!Spec

-----------------------------------------------------------------------------
(***************************************************************************)
(* The audit log of ify-security, for any threads, principals and number   *)
(* of records.  Under its lock a record is made from the last hash, told   *)
(* to the action log and stored; other threads log denials meanwhile.      *)
(***************************************************************************)
CONSTANTS Rules, Requests, SandboxProfiles, Accesses, Tools, Principals, MaxRecords, MaxEntries

VARIABLES rules, added, profiles, principals, records, recording, records_made, log

Audit == INSTANCE Security WITH Profiles <- SandboxProfiles, made <- records_made

Privileged(e) == e.is \in {Audit!EventOf[k] : k \in DOMAIN Audit!EventOf}

Told(x) == \E k \in 1..Len(log) : Privileged(log[k]) /\ log[k].about = x

Stored(x) == \E i \in 1..Len(records) : records[i].record_id = x

Open(x) == \E t \in Threads : /\ recording[t] # None /\ recording[t].logged
                              /\ recording[t].record.record_id = x

(* What ChainHolds says of the action log, with the two orders given by the   *)
(* ids: both the chain and the privileged entries of the log are in the order *)
(* in which records were made, and the log tells of the records that are      *)
(* stored and of the one about to be.                                         *)
ToldInOrder ==
    /\ \A i, j \in 1..Len(records) : i < j => records[i].record_id < records[j].record_id
    /\ \A k, l \in 1..Len(log) :
          k < l /\ Privileged(log[k]) /\ Privileged(log[l]) => log[k].about < log[l].about
    /\ \A x : Told(x) <=> Stored(x) \/ Open(x)

Making(record, logged) == [record |-> record, logged |-> logged]

NoneApart == \A record, logged : None # Making(record, logged)

(* A record under way is the last one made, and continues the chain.          *)
IsMaking(r, id, prev) ==
    \E p : \E kind \in DOMAIN Audit!RequiredByAction, logged \in BOOLEAN :
        r = Making(Audit!AuditRecord(id, kind, p, prev), logged)

AuditLock ==
    /\ \A t, u \in Threads : recording[t] # None /\ recording[u] # None => t = u
    /\ \A t \in Threads : recording[t] # None =>
          /\ IsMaking(recording[t], records_made, Audit!LastHash) /\ records_made # 0
          /\ \A i \in 1..Len(records) : records[i].record_id < records_made

AuditInv ==
    /\ IsSequence(records) /\ IsSequence(log) /\ records_made \in Nat /\ DOMAIN recording = Threads
    /\ \A i \in 1..Len(records) : records[i].record_id \in 1..records_made
    /\ AuditLock /\ Audit!VerifyChain /\ ToldInOrder

LEMMA SequenceDomain ==
    ASSUME NEW s, IsSequence(s)
    PROVE  /\ DOMAIN s = 1..Len(s) /\ Len(s) \in Nat /\ (s = <<>> <=> Len(s) = 0)
  BY LenProperties, EmptySeq DEF IsSequence

(* A denial that the policies or the sandbox log is none of the audit log's.  *)
LEMMA DeniedKeeps ==
    ASSUME AuditInv, UNCHANGED <<records, recording, records_made>>,
           NEW e, ~Privileged(e), log' = Append(log, e)
    PROVE  AuditInv'
<1>1. /\ IsSequence(log') /\ Len(log) \in Nat /\ Len(log') = Len(log) + 1
      /\ log'[Len(log) + 1] = e /\ \A k \in 1..Len(log) : log'[k] = log[k]
  BY PushSequence DEF AuditInv
<1>2. \A k \in 1..Len(log') : k = Len(log) + 1 \/ k \in 1..Len(log)
  BY ONLY <1>1
<1>3. \A k \in 1..Len(log) : k \in 1..Len(log')
  BY ONLY <1>1
<1>4. ToldInOrder
  BY DEF AuditInv
<1>5. \A k, l \in 1..Len(log') :
         k < l /\ Privileged(log'[k]) /\ Privileged(log'[l]) => log'[k].about < log'[l].about
  BY ONLY <1>1, <1>2, <1>4, ~Privileged(e) DEF ToldInOrder
<1>6. \A x : Told(x)' <=> Told(x)
  BY ONLY <1>1, <1>2, <1>3, ~Privileged(e) DEF Told, Privileged
<1>7. \A x : (Stored(x)' <=> Stored(x)) /\ (Open(x)' <=> Open(x))
  BY ONLY UNCHANGED <<records, recording, records_made>> DEF Stored, Open
<1>8. ToldInOrder'
  BY ONLY <1>4, <1>5, <1>6, <1>7, UNCHANGED <<records, recording, records_made>>
     DEF ToldInOrder, Privileged
<1>9. AuditLock' /\ Audit!VerifyChain'
  BY DEF AuditInv, AuditLock, IsMaking, Audit!LastHash, Audit!VerifyChain
<1> QED BY <1>1, <1>8, <1>9 DEF AuditInv

LEMMA BeginRecordKeeps ==
    ASSUME AuditInv, NEW t \in Threads, NEW p, NEW kind \in DOMAIN Audit!RequiredByAction,
           Audit!BeginRecord(t, p, kind)
    PROVE  AuditInv'
<1> DEFINE r == Making(Audit!AuditRecord(records_made + 1, kind, p, Audit!LastHash), FALSE)
<1>1. /\ recording' = [recording EXCEPT ![t] = r] /\ records_made' = records_made + 1
      /\ records' = records /\ log' = log /\ \A u \in Threads : recording[u] = None
  BY DEF Audit!BeginRecord, Audit!LockFree, Making
<1>2. records_made \in Nat /\ DOMAIN recording = Threads
  BY DEF AuditInv
<1>3. r.logged = FALSE
  BY DEF Making
<1>4. Audit!LastHash' = Audit!LastHash
  BY <1>1 DEF Audit!LastHash
<1>5. IsMaking(r, records_made', Audit!LastHash')
  <2>1. r = Making(Audit!AuditRecord(records_made', kind, p, Audit!LastHash'), FALSE)
    BY <1>1, <1>4
  <2> HIDE DEF r
  <2> QED BY <2>1 DEF IsMaking
<1> HIDE DEF r
<1>6. recording'[t] = r /\ \A u \in Threads : u # t => recording'[u] = None
  BY ONLY <1>1, <1>2
<1>7. /\ records_made' # 0
      /\ \A i \in 1..Len(records') : records'[i].record_id \in 1..records_made'
                                     /\ records'[i].record_id < records_made'
  BY <1>1, <1>2 DEF AuditInv
<1>8. AuditLock'
  BY ONLY <1>5, <1>6, <1>7 DEF AuditLock
<1>9. \A x : ~Open(x) /\ ~Open(x)'
  BY ONLY <1>1, <1>3, <1>6 DEF Open
<1>10. \A x : (Told(x)' <=> Told(x)) /\ (Stored(x)' <=> Stored(x))
  BY ONLY <1>1 DEF Told, Stored, Privileged
<1>11. ToldInOrder'
  BY <1>1, <1>9, <1>10 DEF AuditInv, ToldInOrder, Privileged
<1>12. Audit!VerifyChain'
  BY <1>1 DEF AuditInv, Audit!VerifyChain
<1>13. DOMAIN recording' = Threads /\ records_made' \in Nat
  BY ONLY <1>1, <1>2
<1> QED BY <1>1, <1>7, <1>8, <1>11, <1>12, <1>13 DEF AuditInv

(* The thread that holds the lock: what it is making.                         *)
LEMMA MakerHolds ==
    ASSUME AuditInv, NEW t \in Threads, recording[t] # None
    PROVE  /\ \A u \in Threads : recording[u] # None => u = t
           /\ recording[t].record.record_id = records_made /\ records_made # 0
           /\ recording[t].record.kind \in DOMAIN Audit!RequiredByAction
           /\ recording[t].record.prev_hash = Audit!LastHash
           /\ LET a == recording[t].record
              IN  a.hash = Audit!HashOf(a.record_id, a.kind, a.actor, a.prev_hash)
           /\ recording[t] = Making(recording[t].record, recording[t].logged)
           /\ recording[t].logged \in BOOLEAN
           /\ \A i \in 1..Len(records) : records[i].record_id < records_made
<1>1. PICK p : \E kind \in DOMAIN Audit!RequiredByAction, logged \in BOOLEAN :
         recording[t] = Making(Audit!AuditRecord(records_made, kind, p, Audit!LastHash), logged)
  BY DEF AuditInv, AuditLock, IsMaking
<1>2. PICK kind \in DOMAIN Audit!RequiredByAction, logged \in BOOLEAN :
         recording[t] = Making(Audit!AuditRecord(records_made, kind, p, Audit!LastHash), logged)
  BY <1>1
<1>3. /\ recording[t].record = Audit!AuditRecord(records_made, kind, p, Audit!LastHash)
      /\ recording[t].logged = logged
  BY <1>2 DEF Making
<1>4. LET a == recording[t].record
      IN  /\ a.record_id = records_made /\ a.kind = kind /\ a.actor = p
          /\ a.prev_hash = Audit!LastHash
          /\ a.hash = Audit!HashOf(records_made, kind, p, Audit!LastHash)
  BY <1>3 DEF Audit!AuditRecord
<1>5. /\ \A u \in Threads : recording[u] # None => u = t
      /\ \A i \in 1..Len(records) : records[i].record_id < records_made
      /\ records_made # 0
  BY DEF AuditInv, AuditLock
<1> QED BY <1>2, <1>3, <1>4, <1>5

LEMMA AppendEntryKeeps ==
    ASSUME NoneApart, AuditInv, NEW t \in Threads, Audit!AppendEntry(t)
    PROVE  AuditInv'
<1> DEFINE a == recording[t].record
           e == Audit!Entry(Audit!EventOf[a.kind], a.record_id)
<1>1. /\ recording[t] # None /\ ~recording[t].logged /\ log' = Append(log, e)
      /\ recording' = [recording EXCEPT ![t] = [@ EXCEPT !.logged = TRUE]]
      /\ records' = records /\ records_made' = records_made
  BY DEF Audit!AppendEntry
<1>2. /\ records_made \in Nat /\ DOMAIN recording = Threads /\ ToldInOrder
      /\ \A i \in 1..Len(records) : records[i].record_id \in 1..records_made
  BY DEF AuditInv
<1>3. /\ \A u \in Threads : recording[u] # None => u = t
      /\ a.record_id = records_made /\ records_made # 0 /\ a.kind \in DOMAIN Audit!RequiredByAction
      /\ recording[t] = Making(a, recording[t].logged)
      /\ \A i \in 1..Len(records) : records[i].record_id < records_made
  BY <1>1, MakerHolds
<1>4. Privileged(e) /\ e.about = records_made
  BY <1>3 DEF Privileged, Audit!Entry, Audit!EventOf, Audit!RequiredByAction
<1>5. recording' = [recording EXCEPT ![t] = Making(a, TRUE)]
  <2>1. \A x, logged, v : [Making(x, logged) EXCEPT !.logged = v] = Making(x, v)
    BY DEF Making
  <2> DEFINE yes == TRUE
  <2>2. recording' = [recording EXCEPT ![t] = [recording[t] EXCEPT !.logged = yes]]
    BY ONLY <1>1
  <2> HIDE DEF a, yes
  <2>3. PICK logged : recording[t] = Making(a, logged)
    BY <1>3
  <2>4. [recording[t] EXCEPT !.logged = yes] = Making(a, yes)
    BY ONLY <2>1, <2>3
  <2>5. recording' = [recording EXCEPT ![t] = Making(a, yes)]
    BY ONLY <2>2, <2>4
  <2> QED BY ONLY <2>5 DEF yes
<1>6. IsMaking(Making(a, TRUE), records_made', Audit!LastHash')
  <2>1. PICK p : \E kind \in DOMAIN Audit!RequiredByAction, logged \in BOOLEAN :
           recording[t] = Making(Audit!AuditRecord(records_made, kind, p, Audit!LastHash), logged)
    BY <1>1 DEF AuditInv, AuditLock, IsMaking
  <2>2. \E kind \in DOMAIN Audit!RequiredByAction :
           a = Audit!AuditRecord(records_made', kind, p, Audit!LastHash')
    BY <1>1, <2>1 DEF Making, Audit!LastHash
  <2> HIDE DEF a
  <2> QED BY <2>2 DEF IsMaking
<1> HIDE DEF a, e
<1>7. recording'[t] = Making(a, TRUE) /\ \A u \in Threads : u # t => recording'[u] = recording[u]
  BY ONLY <1>2, <1>5
<1>8. AuditLock'
  BY ONLY <1>1, <1>3, <1>6, <1>7 DEF AuditLock
<1>9. /\ IsSequence(log') /\ Len(log) \in Nat /\ Len(log') = Len(log) + 1
      /\ log'[Len(log) + 1] = e /\ \A k \in 1..Len(log) : log'[k] = log[k]
  BY <1>1, PushSequence DEF AuditInv
<1>10. \A k \in 1..Len(log') : k = Len(log) + 1 \/ k \in 1..Len(log)
  BY ONLY <1>9
<1>11. Len(log) + 1 \in 1..Len(log') /\ \A k \in 1..Len(log) : k \in 1..Len(log')
  BY ONLY <1>9
<1>12. \A x : ~Open(x)
  BY ONLY <1>1, <1>3 DEF Open
<1>13. \A x : Open(x)' <=> x = records_made
  <2>1. recording'[t] # None /\ recording'[t].logged /\ recording'[t].record = a
    BY ONLY <1>7, NoneApart DEF NoneApart, Making
  <2> QED BY ONLY <1>3, <1>7, <2>1 DEF Open
<1>14. \A x : Stored(x)' <=> Stored(x)
  BY ONLY <1>1 DEF Stored
<1>15. \A x : Told(x)' <=> Told(x) \/ x = records_made
  BY ONLY <1>4, <1>9, <1>10, <1>11 DEF Told, Privileged
<1>16. \A k \in 1..Len(log) : Privileged(log[k]) => log[k].about \in 1..records_made
                                                    /\ log[k].about < records_made
  <2> SUFFICES ASSUME NEW k \in 1..Len(log), Privileged(log[k])
               PROVE  log[k].about \in 1..records_made /\ log[k].about < records_made
    OBVIOUS
  <2>1. Stored(log[k].about)
    BY ONLY <1>2, <1>12, Privileged(log[k]), k \in 1..Len(log) DEF ToldInOrder, Told
  <2> QED BY ONLY <1>2, <1>3, <2>1 DEF Stored
<1>17. \A k, l \in 1..Len(log') :
          k < l /\ Privileged(log'[k]) /\ Privileged(log'[l]) => log'[k].about < log'[l].about
  <2> SUFFICES ASSUME NEW k \in 1..Len(log'), NEW l \in 1..Len(log'), k < l,
                      Privileged(log'[k]), Privileged(log'[l])
               PROVE  log'[k].about < log'[l].about
    OBVIOUS
  <2>1. k \in 1..Len(log) /\ log'[k] = log[k] /\ Privileged(log[k])
    BY ONLY <1>9, k \in 1..Len(log'), l \in 1..Len(log'), k < l, Privileged(log'[k])
  <2>2. CASE l = Len(log) + 1
    BY ONLY <1>4, <1>9, <1>16, <2>1, <2>2
  <2>3. CASE l \in 1..Len(log)
    BY ONLY <1>2, <1>9, <2>1, <2>3, k < l, Privileged(log'[l]) DEF ToldInOrder
  <2> QED BY ONLY <1>10, <2>2, <2>3
<1>18. ToldInOrder'
  <2>1. \A x : Told(x)' <=> Stored(x)' \/ Open(x)'
    BY ONLY <1>2, <1>12, <1>13, <1>14, <1>15 DEF ToldInOrder
  <2>2. \A i, j \in 1..Len(records') : i < j => records'[i].record_id < records'[j].record_id
    BY ONLY <1>1, <1>2 DEF ToldInOrder
  <2> QED BY ONLY <1>17, <2>1, <2>2 DEF ToldInOrder, Privileged
<1>19. Audit!VerifyChain'
  BY <1>1 DEF AuditInv, Audit!VerifyChain
<1>20. DOMAIN recording' = Threads /\ IsSequence(records')
  BY <1>1, <1>2, <1>5 DEF AuditInv
<1> QED BY <1>1, <1>2, <1>8, <1>9, <1>18, <1>19, <1>20 DEF AuditInv

LEMMA StoreRecordKeeps ==
    ASSUME NoneApart, AuditInv, NEW t \in Threads, Audit!StoreRecord(t)
    PROVE  AuditInv'
<1> DEFINE a == recording[t].record
<1>1. /\ recording[t] # None /\ recording[t].logged /\ records' = Append(records, a)
      /\ recording' = [recording EXCEPT ![t] = None]
      /\ log' = log /\ records_made' = records_made
  BY DEF Audit!StoreRecord
<1>2. /\ records_made \in Nat /\ DOMAIN recording = Threads /\ ToldInOrder
      /\ IsSequence(records) /\ Audit!VerifyChain
      /\ \A i \in 1..Len(records) : records[i].record_id \in 1..records_made
  BY DEF AuditInv
<1>3. /\ \A u \in Threads : recording[u] # None => u = t
      /\ a.record_id = records_made /\ records_made # 0 /\ a.prev_hash = Audit!LastHash
      /\ a.hash = Audit!HashOf(a.record_id, a.kind, a.actor, a.prev_hash)
      /\ \A i \in 1..Len(records) : records[i].record_id < records_made
  BY <1>1, MakerHolds
<1> HIDE DEF a
<1>4. /\ IsSequence(records') /\ Len(records) \in Nat /\ Len(records') = Len(records) + 1
      /\ records'[Len(records) + 1] = a
      /\ \A i \in 1..Len(records) : records'[i] = records[i]
  BY <1>1, <1>2, PushSequence
<1>5. \A i \in 1..Len(records') : i = Len(records) + 1 \/ i \in 1..Len(records)
  BY ONLY <1>4
<1>6. Len(records) + 1 \in 1..Len(records') /\ \A i \in 1..Len(records) : i \in 1..Len(records')
  BY ONLY <1>4
<1>7. \A u \in Threads : recording'[u] = None
  BY ONLY <1>1, <1>2, <1>3
<1>8. \A i \in 1..Len(records') : records'[i].record_id \in 1..records_made
  BY ONLY <1>2, <1>3, <1>4, <1>5
<1>9. AuditLock'
  BY ONLY <1>7 DEF AuditLock
<1>10. Audit!VerifyChain'
  <2>1. DOMAIN records = 1..Len(records) /\ (records = <<>> <=> Len(records) = 0)
    BY ONLY <1>2, SequenceDomain
  <2>2. DOMAIN records' = 1..Len(records')
    BY ONLY <1>4, SequenceDomain
  <2>3. Audit!LastHash = IF Len(records) = 0 THEN None ELSE records[Len(records)].hash
    BY ONLY <2>1 DEF Audit!LastHash
  <2> SUFFICES ASSUME NEW i \in 1..Len(records')
               PROVE  LET r == records'[i]
                      IN  /\ r.hash = Audit!HashOf(r.record_id, r.kind, r.actor, r.prev_hash)
                          /\ r.prev_hash = IF i = 1 THEN None ELSE records'[i - 1].hash
    BY <2>2 DEF Audit!VerifyChain, Audit!HashOf
  <2>4. CASE i = Len(records) + 1
    <3>1. CASE Len(records) = 0
      BY ONLY <1>3, <1>4, <2>3, <2>4, <3>1
    <3>2. CASE Len(records) # 0
      <4>1. i # 1 /\ i - 1 = Len(records) /\ Len(records) \in 1..Len(records)
        BY ONLY <1>4, <2>4, <3>2
      <4> QED BY ONLY <1>3, <1>4, <2>3, <2>4, <3>2, <4>1
    <3> QED BY <3>1, <3>2
  <2>5. CASE i \in 1..Len(records)
    <3>1. records'[i] = records[i] /\ (i # 1 => records'[i - 1] = records[i - 1])
      BY ONLY <1>4, <2>5
    <3>2. LET r == records[i]
          IN  /\ r.hash = Audit!HashOf(r.record_id, r.kind, r.actor, r.prev_hash)
              /\ r.prev_hash = IF i = 1 THEN None ELSE records[i - 1].hash
      BY ONLY <1>2, <2>1, <2>5 DEF Audit!VerifyChain
    <3> QED BY ONLY <3>1, <3>2
  <2> QED BY ONLY <1>5, <2>4, <2>5
<1>11. \A x : Stored(x)' <=> Stored(x) \/ x = records_made
  BY ONLY <1>3, <1>4, <1>5, <1>6 DEF Stored
<1>12. \A x : (Open(x) <=> x = records_made) /\ ~Open(x)'
  BY ONLY <1>1, <1>3, <1>7 DEF Open, a
<1>13. \A x : Told(x)' <=> Told(x)
  BY ONLY <1>1 DEF Told, Privileged
<1>14. \A i, j \in 1..Len(records') : i < j => records'[i].record_id < records'[j].record_id
  <2> SUFFICES ASSUME NEW i \in 1..Len(records'), NEW j \in 1..Len(records'), i < j
               PROVE  records'[i].record_id < records'[j].record_id
    OBVIOUS
  <2>1. i \in 1..Len(records) /\ records'[i] = records[i]
    BY ONLY <1>4, i \in 1..Len(records'), j \in 1..Len(records'), i < j
  <2>2. CASE j = Len(records) + 1
    BY ONLY <1>3, <1>4, <2>1, <2>2
  <2>3. CASE j \in 1..Len(records)
    BY ONLY <1>2, <1>4, <2>1, <2>3, i < j DEF ToldInOrder
  <2> QED BY ONLY <1>5, <2>2, <2>3
<1>15. ToldInOrder'
  <2>1. \A x : Told(x)' <=> Stored(x)' \/ Open(x)'
    BY ONLY <1>2, <1>11, <1>12, <1>13 DEF ToldInOrder
  <2>2. \A k, l \in 1..Len(log') :
           k < l /\ Privileged(log'[k]) /\ Privileged(log'[l]) => log'[k].about < log'[l].about
    BY ONLY <1>1, <1>2 DEF ToldInOrder
  <2> QED BY ONLY <1>14, <2>1, <2>2 DEF ToldInOrder, Privileged
<1>16. DOMAIN recording' = Threads /\ IsSequence(log')
  BY <1>1, <1>2 DEF AuditInv
<1> QED BY <1>1, <1>2, <1>4, <1>8, <1>9, <1>10, <1>15, <1>16 DEF AuditInv

LEMMA AuditInvNext == ASSUME NoneApart, AuditInv, [Audit!Next]_(Audit!vars) PROVE AuditInv'
<1>1. CASE UNCHANGED <<records, recording, records_made, log>>
  BY <1>1 DEF AuditInv, AuditLock, Audit!LastHash, Audit!VerifyChain, ToldInOrder, Told, Stored,
     Open, Privileged
<1>2. ASSUME NEW e, ~Privileged(e), Audit!LogEntry(e) \/ UNCHANGED log,
             UNCHANGED <<records, recording, records_made>>
      PROVE  AuditInv'
  BY <1>1, <1>2, DeniedKeeps DEF Audit!LogEntry
<1>3. CASE Audit!PolicyNext
  <2>1. \A x : ~Privileged(Audit!Entry("AccessDenied", x))
    BY DEF Privileged, Audit!Entry, Audit!EventOf
  <2>2. ASSUME NEW req, Audit!Evaluate(req) PROVE AuditInv'
    <3>1. /\ \/ Audit!LogEntry(Audit!Entry("AccessDenied", Audit!DecidedBy(req)))
             \/ UNCHANGED log
          /\ UNCHANGED <<records, recording, records_made>>
      BY <2>2 DEF Audit!Evaluate
    <3> QED BY <1>2, <2>1, <3>1
  <2>3. ASSUME NEW r, Audit!AddRule(r) \/ Audit!RemoveRule(r)
        PROVE  UNCHANGED <<records, recording, records_made, log>>
    BY <2>3 DEF Audit!AddRule, Audit!RemoveRule
  <2> QED BY <1>1, <1>3, <2>2, <2>3 DEF Audit!PolicyNext
<1>4. CASE Audit!SandboxNext
  <2>1. \A x : ~Privileged(Audit!Entry("SandboxViolation", x))
    BY DEF Privileged, Audit!Entry, Audit!EventOf
  <2>2. ASSUME NEW tool, NEW access, Audit!Check(tool, access) PROVE AuditInv'
    <3>1. /\ Audit!LogEntry(Audit!Entry("SandboxViolation", tool)) \/ UNCHANGED log
          /\ UNCHANGED <<records, recording, records_made>>
      BY <2>2 DEF Audit!Check
    <3> QED BY <1>2, <2>1, <3>1
  <2>3. ASSUME NEW tool, NEW p, Audit!RegisterProfile(tool, p)
        PROVE  UNCHANGED <<records, recording, records_made, log>>
    BY <2>3 DEF Audit!RegisterProfile
  <2> QED BY <1>1, <1>4, <2>2, <2>3 DEF Audit!SandboxNext
<1>5. CASE Audit!AuditNext
  <2>1. ASSUME NEW p, Audit!RegisterPrincipal(p) \/ Audit!Deregister(p)
        PROVE  UNCHANGED <<records, recording, records_made, log>>
    BY <2>1 DEF Audit!RegisterPrincipal, Audit!Deregister
  <2> QED BY <1>1, <1>5, <2>1, BeginRecordKeeps, AppendEntryKeeps, StoreRecordKeeps
    DEF Audit!AuditNext
<1>6. CASE UNCHANGED Audit!vars
  BY <1>1, <1>6 DEF Audit!vars
<1> QED BY <1>3, <1>4, <1>5, <1>6 DEF Audit!Next

(* VerifyChain, and ChainHolds with the orders told by ids, for any threads,  *)
(* principals, rules and profiles and any number of records: however calls of *)
(* PrivilegedAuditLog::record() (audit.rs) interleave with each other and     *)
(* with denials that go to the same action log, verify_chain() accepts, and   *)
(* the action log tells of privileged actions in the order of the chain.      *)
(* (NoneApart: no lock holder is not a record.)                               *)
THEOREM AuditChainVerifies == NoneApart => (Audit!Spec => [](Audit!VerifyChain /\ ToldInOrder))
<1> SUFFICES ASSUME NoneApart PROVE Audit!Spec => [](Audit!VerifyChain /\ ToldInOrder)
  OBVIOUS
<1>1. Audit!Init => AuditInv
  <2> SUFFICES ASSUME Audit!Init PROVE AuditInv
    OBVIOUS
  <2>1. /\ records = <<>> /\ log = <<>> /\ records_made = 0
        /\ recording = [t \in Threads |-> None]
    BY DEF Audit!Init
  <2>2. IsSequence(records) /\ IsSequence(log) /\ Len(records) = 0 /\ Len(log) = 0
        /\ DOMAIN records = {}
    BY <2>1, EmptySequence
  <2>3. DOMAIN recording = Threads /\ \A t \in Threads : recording[t] = None
    BY <2>1
  <2>4. AuditLock /\ Audit!VerifyChain
    BY <2>2, <2>3 DEF AuditLock, Audit!VerifyChain
  <2>5. ToldInOrder
    BY <2>2, <2>3 DEF ToldInOrder, Told, Stored, Open
  <2> QED BY <2>1, <2>2, <2>3, <2>4, <2>5 DEF AuditInv
<1>2. AuditInv /\ [Audit!Next]_(Audit!vars) => AuditInv'
  BY AuditInvNext
<1>3. AuditInv => Audit!VerifyChain /\ ToldInOrder
  BY DEF AuditInv
<1> QED BY <1>1, <1>2, <1>3, PTL DEF Audit!Spec

=================================================================================
