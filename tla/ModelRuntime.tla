------------------------------ MODULE ModelRuntime ------------------------------
(* The model runtime of ify-controller (model_runtime.rs): the manager that    *)
(* tunes and reloads models from performance samples, and the pool that plans  *)
(* replicas and creates them in a kernel with a limit.                         *)
(*                                                                             *)
(* The manager is one lock.  The pool has a lock for its replicas and calls    *)
(* the kernel outside of it: threads interleave between the two.  Scores and   *)
(* metrics are naturals, complexity and efficiency are in tenths.              *)
EXTENDS Integers, Sequences, FiniteSets, SequencesExt, FiniteSetsExt

CONSTANTS
    Threads,
    Profiles,      \* the profile of each model, by id
    Samples,       \* performance samples: captured_at_ms and metrics
    MaxSamples,    \* bound: samples of one model
    Modules,       \* model modules, by id
    Demands,       \* what provision() is asked for
    MaxReplicas,   \* InMemoryReplicaKernel::max_replicas
    MaxIds,        \* bound: replicas created
    None

VARIABLES
    models,        \* ModelPerformanceManager::models
    reloads,       \* history: the reload requests of each model, oldest first
    modules,       \* ModelReplicaPool::modules
    pool,          \* ModelReplicaPool::replicas
    kernel,        \* InMemoryReplicaKernel::replicas
    next_id,       \* InMemoryReplicaKernel::next_id
    calls          \* what each thread's provision() or release() has left to do

tune_vars == <<models, reloads>>
pool_vars == <<modules, pool, kernel, next_id, calls>>
vars == <<tune_vars, pool_vars>>

(* Limits, times and cooldowns are unsigned.                                   *)
RuntimeConstants ==
    /\ MaxReplicas \in Nat /\ None \notin Nat
    /\ \A s \in Samples : s.captured_at_ms \in Nat
    /\ \A m \in DOMAIN Profiles : Profiles[m].reload_policy.cooldown_ms \in Nat

ModelKind == {"Ml", "Ai"}

CompareMetric(value, operator, threshold) ==
    CASE operator = "AtLeast" -> value >= threshold
      [] operator = "AtMost"  -> value <= threshold
      [] operator = "Equal"   -> value = threshold

Put(f, k, v) == [x \in DOMAIN f \cup {k} |-> IF x = k THEN v ELSE f[x]]

-------------------------------------------------------------------------------
RegisterModel(m) ==
    /\ m \notin DOMAIN models
    /\ models' = Put(models, m, [hyperparameters |-> <<>>, sample_count |-> 0,
                                 reload_generation |-> 0, last_reload_at_ms |-> None])
    /\ UNCHANGED <<reloads, pool_vars>>

(* The rules run in order over what the previous ones have set.                *)
Adjust(rules, sample, hyper) ==
    FoldLeft(LAMBDA h, r : IF CompareMetric(sample.metrics[r.metric], r.operator, r.threshold)
                           THEN [k \in DOMAIN h \cup DOMAIN r.changes |->
                                    IF k \in DOMAIN r.changes THEN r.changes[k] ELSE h[k]]
                           ELSE h, hyper, rules)

(* The cooldown of check_reload_policy(): samples may come out of order, and   *)
(* the difference saturates at 0.                                              *)
CooledByDistance(p, last, at) ==
    last = None \/ (IF at > last THEN at - last ELSE last - at) >= p.cooldown_ms

Cooled(p, last, at) == last = None \/ (IF at > last THEN at - last ELSE 0) >= p.cooldown_ms

MustReload(p, state, sample) ==
    /\ state.sample_count >= p.min_samples
    /\ p.metric \in DOMAIN sample.metrics
    /\ CompareMetric(sample.metrics[p.metric], p.operator, p.threshold)
    /\ Cooled(p, state.last_reload_at_ms, sample.captured_at_ms)

(* record_performance().  A rule whose metric is missing fails the call when   *)
(* the sample has been counted; a missing reload metric fails it when the      *)
(* adjustments have been made.                                                 *)
RecordPerformance(m, sample) ==
    LET profile == Profiles[m]
        complete == \A i \in DOMAIN profile.rules : profile.rules[i].metric \in DOMAIN sample.metrics
        counted == [models[m] EXCEPT !.sample_count = @ + 1]
        tuned == [counted EXCEPT !.hyperparameters = Adjust(profile.rules, sample, @)]
        reload == complete /\ MustReload(profile.reload_policy, tuned, sample)
    IN  /\ m \in DOMAIN models /\ models[m].sample_count < MaxSamples
        /\ models' = [models EXCEPT ![m] =
              IF ~complete THEN counted
              ELSE IF ~reload THEN tuned
              ELSE [tuned EXCEPT !.reload_generation = @ + 1,
                                 !.last_reload_at_ms = sample.captured_at_ms]]
        /\ reloads' = IF reload THEN [reloads EXCEPT ![m] = Append(@, sample.captured_at_ms)] ELSE reloads
        /\ UNCHANGED pool_vars

-------------------------------------------------------------------------------
RegisterModule(m) ==
    /\ m \in DOMAIN Modules
    /\ modules' = Put(modules, m, [Modules[m] EXCEPT !.max_replicas = Max({@, 1})])
    /\ UNCHANGED <<pool, kernel, next_id, calls, tune_vars>>

(* build_ensemble_plan(): the best module, or above a complexity of 0.7 the    *)
(* best of each kind if there are both.  Equal scores go by HashMap order.     *)
Score(d, m) ==
    modules[m].efficiency_score * d.efficiency_target
    + modules[m].complexity_weight * (10 - d.efficiency_target)

Best(d, ms) == {m \in ms : \A o \in ms : Score(d, m) >= Score(d, o)}

OfKind(kind) == {m \in DOMAIN modules : modules[m].kind = kind}

Selections(d) ==
    IF d.complexity >= 7 /\ \A k \in ModelKind : OfKind(k) # {}
    THEN {<<ml, ai>> : ml \in Best(d, OfKind("Ml")), ai \in Best(d, OfKind("Ai"))}
    ELSE {<<m>> : m \in Best(d, DOMAIN modules)}

(* The product of max_replicas and complexity, rounded up.                     *)
DesiredReplicaCount(d, base) == Max({(d.max_replicas * d.complexity + 9) \div 10, base, 1})

Uncapped(m, n) == n

Capped(m, n) == Min({n, modules[m].max_replicas})

PlannedReplicas(d, choice, i) ==
    LET base == Len(choice)  desired == DesiredReplicaCount(d, base)
    IN  Capped(choice[i], IF i = 1 THEN 1 + (desired - base) ELSE 1)

(* One module id for each replica to create.                                   *)
Plan(d, choice) ==
    FlattenSeq([i \in DOMAIN choice |->
                   [j \in 1..PlannedReplicas(d, choice, i) |-> choice[i]]])

Idle == [pc |-> "idle"]

Provision(t, d, choice) ==
    /\ calls[t] = Idle /\ DOMAIN modules # {} /\ choice \in Selections(d)
    /\ calls' = [calls EXCEPT ![t] = [pc |-> "create", todo |-> Plan(d, choice)]]
    /\ UNCHANGED <<modules, pool, kernel, next_id, tune_vars>>

(* create_replica() checks the limit and inserts under the kernel's lock; at   *)
(* the limit provision() returns the error, and what it has made stays.        *)
BelowLimit == Cardinality(kernel) < MaxReplicas

CreateReplica(t) ==
    LET c == calls[t] IN
    /\ c.pc = "create" /\ (BelowLimit => next_id <= MaxIds)
    /\ IF BelowLimit
       THEN /\ kernel' = kernel \cup {next_id} /\ next_id' = next_id + 1
            /\ calls' = [calls EXCEPT ![t] = [pc |-> "insert", todo |-> Tail(c.todo), id |-> next_id]]
       ELSE calls' = [calls EXCEPT ![t] = Idle] /\ UNCHANGED <<kernel, next_id>>
    /\ UNCHANGED <<modules, pool, tune_vars>>

InsertReplica(t) ==
    LET c == calls[t] IN
    /\ c.pc = "insert"
    /\ pool' = pool \cup {c.id}
    /\ calls' = [calls EXCEPT ![t] = IF c.todo = <<>> THEN Idle ELSE [pc |-> "create", todo |-> c.todo]]
    /\ UNCHANGED <<modules, kernel, next_id, tune_vars>>

(* release(): whoever takes the handle out of the pool destroys the replica.   *)
Release(t, id) ==
    /\ calls[t] = Idle /\ id \in pool
    /\ pool' = pool \ {id}
    /\ calls' = [calls EXCEPT ![t] = [pc |-> "destroy", id |-> id]]
    /\ UNCHANGED <<modules, kernel, next_id, tune_vars>>

DestroyReplica(t) ==
    /\ calls[t].pc = "destroy"
    /\ kernel' = kernel \ {calls[t].id}
    /\ calls' = [calls EXCEPT ![t] = Idle]
    /\ UNCHANGED <<modules, pool, next_id, tune_vars>>

Init ==
    /\ models = <<>> /\ reloads = [m \in DOMAIN Profiles |-> <<>>]
    /\ modules = <<>> /\ pool = {} /\ kernel = {} /\ next_id = 1
    /\ calls = [t \in Threads |-> Idle]

TuneNext ==
    \E m \in DOMAIN Profiles : RegisterModel(m) \/ \E s \in Samples : RecordPerformance(m, s)

PoolNext ==
    \/ \E m \in DOMAIN Modules : RegisterModule(m)
    \/ \E t \in Threads :
          \/ \E d \in Demands : \E choice \in Selections(d) : Provision(t, d, choice)
          \/ CreateReplica(t) \/ InsertReplica(t) \/ DestroyReplica(t)
          \/ \E id \in pool : Release(t, id)

Next == TuneNext \/ PoolNext

Spec == Init /\ [][Next]_vars

-------------------------------------------------------------------------------
(* Reload requests are apart by the cooldown, and go forward in time where     *)
(* there is one, although samples come out of order.  (check_reload_policy())  *)
ReloadsSpaced ==
    \A m \in DOMAIN Profiles : \A i \in DOMAIN reloads[m] :
        LET gap == Profiles[m].reload_policy.cooldown_ms IN
        i > 1 /\ gap > 0 => reloads[m][i] >= reloads[m][i - 1] + gap

(* The pool knows every replica of the kernel except the one that a call has   *)
(* in hand, no replica is in two hands, and the kernel's limit holds, through  *)
(* LimitReached and in any order.  (provision() and release().)                *)
InHand(t) == IF calls[t].pc \in {"insert", "destroy"} THEN {calls[t].id} ELSE {}

ReplicasExact ==
    /\ kernel = pool \cup UNION {InHand(t) : t \in Threads}
    /\ \A t \in Threads : /\ InHand(t) \cap pool = {}
                          /\ \A u \in Threads \ {t} : InHand(t) \cap InHand(u) = {}
    /\ Cardinality(kernel) <= MaxReplicas

(* And no plan has more replicas of a module than the module allows.           *)
PoolExact ==
    /\ ReplicasExact
    /\ \A d \in Demands : \A choice \in Selections(d) : \A m \in DOMAIN modules :
          Len(SelectSeq(Plan(d, choice), LAMBDA x : x = m)) <= modules[m].max_replicas
=================================================================================
