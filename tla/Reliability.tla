------------------------------ MODULE Reliability ------------------------------
(* The services of ify-reliability that keep state: incidents opened by rules  *)
(* over telemetry (incident.rs), faults injected by scenarios (chaos.rs),      *)
(* objectives over sliding windows (slo.rs) and triage of regressions          *)
(* (regression.rs).                                                            *)
(*                                                                             *)
(* The chaos engine is shared under a lock, each call one critical section;    *)
(* the others are used through &mut.  Prefixes of strings are sets of the      *)
(* strings that have them.  Ids are naturals, each new one the next; titles,   *)
(* labels but the status, and times are dropped.                               *)
EXTENDS Integers, SequencesExt

CONSTANTS
    IncidentRules, \* by id: [matches, threshold_count]
    SignalTypes, Dimensions,
    Scenarios,     \* by id: [targets, policy, after_calls]
    Operations,
    Slos,          \* by name: [kind, threshold, percentile, target]
    Values,        \* the values of samples
    WindowSize,
    OwnerRules,    \* by id: [components, owner, sla]
    Reports,       \* reports that are submitted: [component, measured, baseline, sla]
    MaxSignals, MaxCalls, MaxSamples, MaxReports,  \* bounds on what is done
    None

VARIABLES
    rules,         \* IncidentPipeline::rules, the ids in the order they were added
    incidents, signal_counts,
    signals,       \* ghost: the signals ingested, each with the rules that it counted for
    scenarios,     \* ChaosEngine: by id [active, trigger_count, policy...]
    injected,      \* ghost: the faults that each scenario injected
    calls,
    windows,       \* SloRegistry::windows, of the registered objectives
    samples,       \* ghost: all samples of each objective
    owner_rules, reports

vars == <<rules, incidents, signal_counts, signals, scenarios, injected, calls, windows, samples,
          owner_rules, reports>>
incident_vars == <<rules, incidents, signal_counts, signals>>
chaos_vars == <<scenarios, injected, calls>>
slo_vars == <<windows, samples>>
triage_vars == <<owner_rules, reports>>

Init ==
    /\ rules = <<>> /\ incidents = <<>> /\ signal_counts = <<>> /\ signals = <<>>
    /\ scenarios = <<>> /\ injected = <<>> /\ calls = 0
    /\ windows = <<>> /\ samples = <<>>
    /\ owner_rules = <<>> /\ reports = <<>>

-------------------------------------------------------------------------------
(* Incidents.  A signal is identified by its place in `signals`.               *)

TelemetrySignal(type, dim) == [signal_type |-> type, dimension_id |-> dim]

Incident(rule, dim, signal) ==
    [state |-> "Open", created_by_rule |-> rule, dimension_id |-> dim, signals |-> {signal},
     resolved |-> FALSE]

AddRule(r) ==
    /\ r \notin ToSet(rules)
    /\ rules' = Append(rules, r)
    /\ UNCHANGED <<incidents, signal_counts, signals, chaos_vars, slo_vars, triage_vars>>

CountOf(counts, key) == IF key \in DOMAIN counts THEN counts[key] ELSE 0

ExistingUnlessResolved(incs, rule, dim) ==
    {i \in DOMAIN incs : incs[i].created_by_rule = rule /\ incs[i].dimension_id = dim
                         /\ incs[i].state = "Acknowledged"}

(* The open incidents of a rule and a dimension; find() takes any of them.     *)
Existing(incs, rule, dim) ==
    {i \in DOMAIN incs : incs[i].created_by_rule = rule /\ incs[i].dimension_id = dim
                         /\ incs[i].state = "Open"}

(* One pass of the loop of ingest(): the counts and incidents after `rule`.    *)
IngestFor(rule, s, id, st) ==
    LET key   == <<rule, s.dimension_id>>
        count == CountOf(st.counts, key) + 1
        open  == Existing(st.incidents, rule, s.dimension_id)
    IN  [counts |-> (key :> count) @@ st.counts,
         incidents |->
            IF count < IncidentRules[rule].threshold_count THEN st.incidents
            ELSE IF open # {} THEN [st.incidents EXCEPT ![CHOOSE i \in open : TRUE].signals = @ \cup {id}]
            ELSE Append(st.incidents, Incident(rule, s.dimension_id, id))]

MatchingRules(s) == SelectSeq(rules, LAMBDA r : s.signal_type \in IncidentRules[r].matches)

Ingest(s) ==
    LET id    == Len(signals) + 1
        after == FoldLeft(LAMBDA st, r : IngestFor(r, s, id, st),
                          [counts |-> signal_counts, incidents |-> incidents], MatchingRules(s))
    IN  /\ id <= MaxSignals
        /\ signal_counts' = after.counts
        /\ incidents' = after.incidents
        /\ signals' = Append(signals, [signal |-> s, rules |-> ToSet(MatchingRules(s))])
        /\ UNCHANGED <<rules, chaos_vars, slo_vars, triage_vars>>

(* acknowledge() and resolve() ask nothing of the state.                       *)
Acknowledge(i) ==
    /\ incidents' = [incidents EXCEPT ![i].state = "Acknowledged"]
    /\ UNCHANGED <<rules, signal_counts, signals, chaos_vars, slo_vars, triage_vars>>

Resolve(i) ==
    /\ incidents' = [incidents EXCEPT ![i].state = "Resolved", ![i].resolved = TRUE]
    /\ UNCHANGED <<rules, signal_counts, signals, chaos_vars, slo_vars, triage_vars>>

-------------------------------------------------------------------------------
(* Fault injection.                                                            *)

ChaosScenario(id) ==
    [active |-> TRUE, trigger_count |-> 0, targets |-> Scenarios[id].targets,
     policy |-> Scenarios[id].policy, after_calls |-> Scenarios[id].after_calls]

Register(id) ==
    /\ id \notin DOMAIN scenarios
    /\ scenarios' = scenarios @@ (id :> ChaosScenario(id))
    /\ injected' = injected @@ (id :> 0)
    /\ UNCHANGED <<incident_vars, calls, slo_vars, triage_vars>>

Deactivate(id) ==
    /\ scenarios' = [scenarios EXCEPT ![id].active = FALSE]
    /\ UNCHANGED <<incident_vars, injected, calls, slo_vars, triage_vars>>

(* Whether the policy injects at the n-th trigger.  Random hashes the number   *)
(* of the call: both answers happen.                                           *)
Decisions(s, n) ==
    CASE s.policy = "Always" -> {TRUE}
      [] s.policy = "Once"   -> {n = 1}
      [] s.policy = "Random" -> BOOLEAN
      [] s.policy = "AfterN" -> {n > s.after_calls}

KeepsActive(s, inject) == s.active

(* A scenario that injects once is done with it.                               *)
StaysActive(s, inject) == s.active /\ ~(s.policy = "Once" /\ inject)

MatchingScenarios(op) == {id \in DOMAIN scenarios : scenarios[id].active /\ op \in scenarios[id].targets}

(* evaluate(): the map's order picks any of the matching scenarios.            *)
EvaluateOperation(op) ==
    /\ calls < MaxCalls
    /\ calls' = calls + 1
    /\ \/ MatchingScenarios(op) = {} /\ UNCHANGED <<scenarios, injected>>
       \/ \E id \in MatchingScenarios(op) :
             LET n == scenarios[id].trigger_count + 1
             IN  \E inject \in Decisions(scenarios[id], n) :
                    /\ scenarios' = [scenarios EXCEPT ![id].trigger_count = n,
                                                      ![id].active = StaysActive(scenarios[id], inject)]
                    /\ injected' = [injected EXCEPT ![id] = @ + IF inject THEN 1 ELSE 0]
    /\ UNCHANGED <<incident_vars, slo_vars, triage_vars>>

-------------------------------------------------------------------------------
(* Objectives.  Ratios are in thousandths; an availability is its threshold.   *)

Latency(percentile, threshold, target) ==
    [kind |-> "Latency", threshold |-> threshold, percentile |-> percentile, target |-> target]

Availability(target) ==
    [kind |-> "TaskAvailability", threshold |-> target, percentile |-> 0, target |-> target]

RegisterSlo(name) ==
    /\ name \notin DOMAIN windows
    /\ windows' = windows @@ (name :> <<>>)
    /\ samples' = samples @@ (name :> <<>>)
    /\ UNCHANGED <<incident_vars, chaos_vars, triage_vars>>

Push(window, v) == Append(IF Len(window) >= WindowSize THEN Tail(window) ELSE window, v)

Record(name, v) ==
    /\ Len(samples[name]) < MaxSamples
    /\ windows' = [windows EXCEPT ![name] = Push(@, v)]
    /\ samples' = [samples EXCEPT ![name] = Append(@, v)]
    /\ UNCHANGED <<incident_vars, chaos_vars, triage_vars>>

(* percentile / 100 * (n - 1), rounded half up, and at most n - 1.             *)
IndexOneBased(p, n) == (2 * p * n + 100) \div 200

IndexOf(p, n) == (2 * p * (n - 1) + 100) \div 200

(* evaluate(): the value at the percentile of the sorted window, or the mean   *)
(* (here the sum and the number), and whether enough of the window complies.   *)
SloStatus(name) ==
    LET slo == Slos[name]
        sorted == SortSeq(windows[name], <)
        n == Len(sorted)
        complies(v) == IF slo.kind = "TaskAvailability" THEN v >= slo.threshold ELSE v <= slo.threshold
        last == IF IndexOf(slo.percentile, n) > n - 1 THEN n - 1 ELSE IndexOf(slo.percentile, n)
    IN  [passing |-> Len(SelectSeq(sorted, complies)) * 1000 >= slo.target * n,
         measured |-> IF slo.kind = "TaskAvailability" THEN FoldLeft(+, 0, sorted) ELSE sorted[last + 1],
         sample_count |-> n]

-------------------------------------------------------------------------------
(* Regressions.                                                                *)

AddOwnerRule(r) ==
    /\ r \notin ToSet(owner_rules)
    /\ owner_rules' = Append(owner_rules, r)
    /\ UNCHANGED <<incident_vars, chaos_vars, slo_vars, reports>>

(* regression_ratio() against the limits of the severities; a baseline of zero *)
(* counts as an infinite ratio.                                                *)
Severity(report) ==
    LET atLeast(percent) == \/ report.baseline = 0
                            \/ (report.measured - report.baseline) * 100 >= percent * report.baseline
    IN  CASE atLeast(50) -> "critical" [] ~atLeast(50) /\ atLeast(20) -> "high"
          [] ~atLeast(20) /\ atLeast(10) -> "medium" [] ~atLeast(10) -> "low"

OwnersOf(report) == SelectSeq(owner_rules, LAMBDA r : report.component \in OwnerRules[r].components)

(* submit(): the first rule for the component names the owner, and the SLA of  *)
(* a report that has none.                                                     *)
Submit(report) ==
    LET owners == OwnersOf(report)
        triaged == [state |-> "Triaged", status |-> "triaged", severity |-> Severity(report),
                    component |-> report.component, resolved |-> FALSE,
                    owner |-> IF owners = <<>> THEN None ELSE OwnerRules[Head(owners)].owner,
                    sla |-> IF report.sla = None /\ owners # <<>> THEN OwnerRules[Head(owners)].sla
                            ELSE report.sla]
    IN  /\ Len(reports) < MaxReports
        /\ reports' = Append(reports, triaged)
        /\ UNCHANGED <<incident_vars, chaos_vars, slo_vars, owner_rules>>

StartFix(i) ==
    /\ reports' = [reports EXCEPT ![i].state = "InProgress", ![i].status = "in_progress"]
    /\ UNCHANGED <<incident_vars, chaos_vars, slo_vars, owner_rules>>

ResolveReport(i) ==
    /\ reports' = [reports EXCEPT ![i].state = "Resolved", ![i].status = "resolved", ![i].resolved = TRUE]
    /\ UNCHANGED <<incident_vars, chaos_vars, slo_vars, owner_rules>>

-------------------------------------------------------------------------------
IncidentNext ==
    \/ \E r \in DOMAIN IncidentRules : AddRule(r)
    \/ \E type \in SignalTypes, dim \in Dimensions : Ingest(TelemetrySignal(type, dim))
    \/ \E i \in DOMAIN incidents : Acknowledge(i) \/ Resolve(i)

ChaosNext ==
    \/ \E id \in DOMAIN Scenarios \ DOMAIN scenarios : Register(id)
    \/ \E id \in DOMAIN scenarios : Deactivate(id)
    \/ \E op \in Operations : EvaluateOperation(op)

SloNext ==
    \/ \E name \in DOMAIN Slos : RegisterSlo(name)
    \/ \E name \in DOMAIN windows, v \in Values : Record(name, v)

TriageNext ==
    \/ \E r \in DOMAIN OwnerRules : AddOwnerRule(r)
    \/ \E report \in Reports : Submit(report)
    \/ \E i \in DOMAIN reports : StartFix(i) \/ ResolveReport(i)

Next == IncidentNext \/ ChaosNext \/ SloNext \/ TriageNext

Spec == Init /\ [][Next]_vars

-------------------------------------------------------------------------------
(* The signals that counted for a rule in a dimension, oldest first.           *)
SignalsFor(r, dim) ==
    SelectSeq([i \in DOMAIN signals |-> i],
              LAMBDA i : signals[i].signal.dimension_id = dim /\ r \in signals[i].rules)

(* A rule has at most one open incident per dimension, and whatever operators  *)
(* do to its incidents, each signal from the threshold on is in exactly one of *)
(* them, and no earlier one is in any: none is lost and none is told twice.    *)
SignalsTold ==
    \A r \in DOMAIN IncidentRules, dim \in Dimensions :
        LET counted == SignalsFor(r, dim)
            of == {i \in DOMAIN incidents :
                      incidents[i].created_by_rule = r /\ incidents[i].dimension_id = dim}
        IN  /\ Cardinality({i \in of : incidents[i].state = "Open"}) <= 1
            /\ \A k \in DOMAIN counted :
                  Cardinality({i \in of : counted[k] \in incidents[i].signals})
                  = IF k >= IncidentRules[r].threshold_count THEN 1 ELSE 0

(* A scenario injects as often as its policy allows: once for Once, and for    *)
(* AfterN at every trigger past the first after_calls.                         *)
FaultsCounted ==
    \A id \in DOMAIN scenarios :
        LET s == scenarios[id]
            past == IF s.trigger_count > s.after_calls THEN s.trigger_count - s.after_calls ELSE 0
        IN  /\ s.policy = "Once" => injected[id] = s.trigger_count /\ injected[id] <= 1
            /\ s.policy = "AfterN" => injected[id] = past

(* A window holds the newest samples.  A latency objective of the median or    *)
(* above, with a target ratio above its percentile (as all the default ones    *)
(* have), passes only if the value that it reports is within the threshold:    *)
(* the two numbers of a status, one found by rank and one by counting, do not  *)
(* contradict each other.                                                      *)
PassingIsWithin ==
    \A name \in DOMAIN windows :
        LET slo == Slos[name]
            all == samples[name]
        IN  /\ windows[name] = SubSeq(all, Max({1, Len(all) - WindowSize + 1}), Len(all))
            /\ /\ windows[name] # <<>> /\ slo.kind # "TaskAvailability"
               /\ slo.percentile >= 50 /\ slo.target > 10 * slo.percentile
               /\ SloStatus(name).passing
               => SloStatus(name).measured <= slo.threshold
================================================================================
