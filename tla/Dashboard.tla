------------------------------- MODULE Dashboard -------------------------------
(* The reliability dashboard of ify-reliability (dashboard.rs) over the        *)
(* services of Reliability and the trackers of metrics.rs: resolved incidents, *)
(* error budgets and regressions per release cycle.  Times are multiples of a  *)
(* unit; panel data and messages are dropped.                                  *)
EXTENDS Reliability

CONSTANTS
    Budgets,       \* the error budgets by name: the downtime they allow
    Downtimes,     \* the downtimes that are consumed
    TimesToResolve,\* of the incident records pushed; None: not resolved
    RiskyTime, DegradedTime, \* limits of the mean time: 30 minutes and 2 hours
    Cycles,        \* the ids of release cycles
    TrackerSize,   \* window_size of both trackers
    MaxTold,       \* bound: calls of push(), consume() and record_cycle() together
    MaxEvents      \* bound: events of each kind

VARIABLES
    mttr,          \* MttrTracker::records, the time to resolve of each
    consumed,      \* consumed_secs of the budgets
    cycles,        \* RegressionTracker::cycles
    events,        \* ReliabilityDashboard::events: how many of each kind
    told           \* ghost: what the trackers were told

dash_vars == <<mttr, consumed, cycles, events, told>>

DashboardEventKind == {"SloBreach", "ErrorBudgetAtRisk", "ErrorBudgetExhausted", "IncidentOpened",
                       "AllSlosRecovered"}

DashInit ==
    /\ Init
    /\ mttr = <<>> /\ cycles = <<>>
    /\ consumed = [b \in DOMAIN Budgets |-> 0]
    /\ events = [k \in DashboardEventKind |-> 0]
    /\ told = [pushed |-> <<>>, consumed |-> 0, cycles |-> <<>>]

-------------------------------------------------------------------------------
(* The trackers.                                                               *)

Told == Len(told.pushed) + told.consumed + Len(told.cycles)

(* MttrTracker::push(): the record is a copy, resolved by then or never.       *)
PushRecord(ttr) ==
    /\ Told < MaxTold
    /\ mttr' = Append(IF Len(mttr) >= TrackerSize THEN Tail(mttr) ELSE mttr, ttr)
    /\ told' = [told EXCEPT !.pushed = Append(@, ttr)]
    /\ UNCHANGED <<consumed, cycles, events, vars>>

Resolved == SelectSeq(mttr, LAMBDA t : t # None)

(* mttr_secs() compared with a limit, without the division.                    *)
MttrBelow(limit) == FoldLeft(+, 0, Resolved) < limit * Len(Resolved)

Consume(b, secs) ==
    /\ Told < MaxTold
    /\ consumed' = [consumed EXCEPT ![b] = @ + secs]
    /\ told' = [told EXCEPT !.consumed = @ + 1]
    /\ UNCHANGED <<mttr, cycles, events, vars>>

ResetBudget(b) ==
    /\ consumed' = [consumed EXCEPT ![b] = 0]
    /\ UNCHANGED <<mttr, cycles, events, told, vars>>

(* remaining_ratio() times the allowed downtime; 0 where nothing is allowed.   *)
Remaining(b) == IF consumed[b] >= Budgets[b] THEN 0 ELSE Budgets[b] - consumed[b]

IsExhausted(b) == consumed[b] >= Budgets[b]

AppendAlways(entries, entry) ==
    Append(IF Len(entries) >= TrackerSize THEN Tail(entries) ELSE entries, entry)

(* record_cycle(): a cycle that is there is updated in its place.              *)
WithCycle(entries, entry) ==
    LET i == SelectInSeq(entries, LAMBDA e : e.cycle_id = entry.cycle_id)
    IN  IF i # 0 THEN [entries EXCEPT ![i] = entry] ELSE AppendAlways(entries, entry)

RecordCycle(id, regressions) ==
    LET entry == [cycle_id |-> id, regression_count |-> regressions]
    IN  /\ Told < MaxTold
        /\ cycles' = WithCycle(cycles, entry)
        /\ told' = [told EXCEPT !.cycles = Append(@, entry)]
        /\ UNCHANGED <<mttr, consumed, events, vars>>

-------------------------------------------------------------------------------
(* The panels.                                                                 *)

Breaching == {name \in DOMAIN windows : windows[name] # <<>> /\ ~SloStatus(name).passing}

SloHealth ==
    CASE Breaching # {} -> "Degraded"
      [] Breaching = {} /\ (\E name \in DOMAIN windows : windows[name] = <<>>) -> "Unknown"
      [] Breaching = {} /\ (\A name \in DOMAIN windows : windows[name] # <<>>) -> "Healthy"

BudgetHealth ==
    IF \E b \in DOMAIN Budgets : Remaining(b) = 0 THEN "Degraded"
    ELSE IF \E b \in DOMAIN Budgets : 5 * Remaining(b) < Budgets[b] THEN "AtRisk" ELSE "Healthy"

MttrHealth ==
    IF Resolved = <<>> THEN "Unknown"
    ELSE IF MttrBelow(RiskyTime) THEN "Healthy" ELSE IF MttrBelow(DegradedTime) THEN "AtRisk" ELSE "Degraded"

OpenIncidents == {i \in DOMAIN incidents : incidents[i].state = "Open"}

IncidentHealth == IF OpenIncidents = {} THEN "Healthy" ELSE "Degraded"

OpenReports == {i \in DOMAIN reports : reports[i].state \notin {"Resolved", "WontFix"}}

RegressionHealth ==
    IF OpenReports = {} THEN "Healthy" ELSE IF Cardinality(OpenReports) <= 3 THEN "AtRisk" ELSE "Degraded"

Panels == <<SloHealth, BudgetHealth, MttrHealth, IncidentHealth, RegressionHealth>>

(* PanelHealth derives its order from its declaration.                         *)
WorseWhenUnknown == <<"Healthy", "AtRisk", "Degraded", "Unknown">>

PanelHealth == <<"Unknown", "Healthy", "AtRisk", "Degraded">>

OverallHealth == PanelHealth[Max({SelectInSeq(PanelHealth, LAMBDA h : h = p) : p \in ToSet(Panels)})]

(* snapshot(): every breach and every budget panel that is not healthy is an   *)
(* event, each time that one is taken.                                         *)
Snapshot ==
    /\ events' = [events EXCEPT !["SloBreach"] = @ + Cardinality(Breaching),
                                !["ErrorBudgetExhausted"] = @ + IF BudgetHealth = "Degraded" THEN 1 ELSE 0,
                                !["ErrorBudgetAtRisk"] = @ + IF BudgetHealth = "AtRisk" THEN 1 ELSE 0]
    /\ \A k \in DashboardEventKind : events'[k] <= MaxEvents
    /\ UNCHANGED <<mttr, consumed, cycles, told, vars>>

TrackerNext ==
    \/ \E t \in TimesToResolve : PushRecord(t)
    \/ \E b \in DOMAIN Budgets : ResetBudget(b) \/ \E secs \in Downtimes : Consume(b, secs)
    \/ \E c \in Cycles, n \in 0..1 : RecordCycle(c, n)

DashNext == (Next /\ UNCHANGED dash_vars) \/ TrackerNext \/ Snapshot

DashSpec == DashInit /\ [][DashNext]_<<vars, dash_vars>>

-------------------------------------------------------------------------------
(* The dashboard is degraded exactly when something is: a panel without data   *)
(* hides no trouble of another, a budget shows as exhausted when the budget    *)
(* says so itself, and a rule whose threshold has been reached degrades it     *)
(* until somebody has touched one of the rule's incidents.  (snapshot(),       *)
(* is_exhausted() and ingest().)                                               *)
HealthTold ==
    /\ OverallHealth = "Degraded" <=>
          \/ Breaching # {} \/ OpenIncidents # {}
          \/ \E b \in DOMAIN Budgets : IsExhausted(b)
          \/ Resolved # <<>> /\ ~MttrBelow(DegradedTime)
          \/ Cardinality(OpenReports) > 3
    /\ \A r \in DOMAIN IncidentRules, dim \in Dimensions :
          /\ Len(SignalsFor(r, dim)) >= IncidentRules[r].threshold_count
          /\ \A i \in DOMAIN incidents :
                incidents[i].created_by_rule = r /\ incidents[i].dimension_id = dim
                => incidents[i].state = "Open"
          => OverallHealth = "Degraded"

(* The trackers hold the newest of what they were told: the last records, and  *)
(* one entry per cycle with its latest count.  (push() and record_cycle().)    *)
TrackersExact ==
    LET latest(id) == SelectLastInSeq(told.cycles, LAMBDA e : e.cycle_id = id)
    IN  /\ mttr = SubSeq(told.pushed, Max({1, Len(told.pushed) - TrackerSize + 1}), Len(told.pushed))
        /\ \A i, j \in DOMAIN cycles : cycles[i].cycle_id = cycles[j].cycle_id => i = j
        /\ \A i \in DOMAIN cycles : cycles[i] = told.cycles[latest(cycles[i].cycle_id)]
        /\ told.cycles # <<>> => \E i \in DOMAIN cycles : cycles[i] = told.cycles[Len(told.cycles)]
================================================================================
