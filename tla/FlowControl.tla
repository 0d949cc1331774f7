------------------------------ MODULE FlowControl ------------------------------
(* The flow-control engine of ify-controller (flow_control.rs): one run of a   *)
(* flow, step by step, with visit limits, conditions on metrics and model      *)
(* scores, and fallbacks; quality gates; and the payload of a chat request.    *)
(*                                                                             *)
(* Metrics, scores and thresholds are naturals, where Equal's tolerance is     *)
(* equality.  Names, features, visualizations, snippets, parameters and log    *)
(* entries are dropped.                                                        *)
EXTENDS Integers, Sequences, FiniteSets, SequencesExt

CONSTANTS
    Flows,         \* the flows that are run
    Contexts,      \* metrics that a caller may pass: partial functions to Nat
    Scores,        \* what the ModelEvaluator may answer, None for an error
    Gates,         \* quality gates
    Datasets, Selections,
    MaxVisits,     \* bound: a count above every limit of Flows; it stops there
    None           \* no value, or an error

VARIABLES
    flow,          \* the FlowGraph of this run
    at,            \* the step that the caller advances next, or how the run ended
    visits,        \* FlowState
    gate,          \* the latest answer of a quality gate
    payload        \* the latest answer of ChatPayloadBuilder::build()

vars == <<flow, at, visits, gate, payload>>

FlowStepKind == {"Task", "Decision"}  \* or a terminal status

FlowTerminalStatus == {"Completed", "Failed", "Cancelled"}

(* FlowGraph::validate(): every transition and fallback leads somewhere.       *)
Targets(s) == {s.transitions[i].target : i \in DOMAIN s.transitions} \cup ({s.fallback} \ {None})

ValidateFlow(g) == \A s \in DOMAIN g.steps : Targets(g.steps[s]) \subseteq DOMAIN g.steps

IsTerminal(s) == s.kind \notin FlowStepKind

(* evaluate_condition(): TRUE, FALSE, or None for an error.                    *)
EvaluateCondition(c, metrics, score) ==
    CASE c.is = "Always" -> TRUE
      [] c.is = "MetricAtLeast" ->
            IF c.metric \in DOMAIN metrics THEN metrics[c.metric] >= c.threshold ELSE None
      [] c.is = "MetricBelow" ->
            IF c.metric \in DOMAIN metrics THEN metrics[c.metric] < c.threshold ELSE None
      [] c.is = "ModelScoreAtLeast" -> IF score = None THEN None ELSE score >= c.threshold

(* The first transition that matches decides; an error before it ends the call. *)
Decide(s, metrics, score) ==
    LET answers == [i \in DOMAIN s.transitions |->
                       EvaluateCondition(s.transitions[i].condition, metrics, score)]
        first == SelectInSeq(answers, LAMBDA a : a # FALSE)
    IN  IF first # 0 THEN IF answers[first] = None THEN "error" ELSE s.transitions[first].target
        ELSE IF s.fallback # None THEN s.fallback ELSE "error"

(* The visit counts before the limit is tested, and the limit before the kind. *)
OverLimitNever(s, count) == FALSE

OverLimit(s, count) == s.max_visits # None /\ count > s.max_visits

(* FlowControlEngine::advance(), called until the flow ends or fails.          *)
(* ensure_step() is what stops a flow that was never validated.                *)
Advance(metrics, score) ==
    LET s == flow.steps[at]  count == IF visits[at] < MaxVisits THEN visits[at] + 1 ELSE MaxVisits
        next == IF OverLimit(s, count) THEN (IF s.fallback = None THEN "error" ELSE s.fallback)
                ELSE IF IsTerminal(s) THEN s.kind ELSE Decide(s, metrics, score)
    IN  /\ at \in DOMAIN flow.steps
        /\ visits' = [visits EXCEPT ![at] = count]
        /\ at' = IF next \in DOMAIN flow.steps \cup FlowTerminalStatus \cup {"error"} THEN next
                 ELSE "TransitionTargetNotFound"
        /\ UNCHANGED <<flow, gate, payload>>

-------------------------------------------------------------------------------
(* QualityGate::evaluate_with_context().                                       *)
EvaluateGate(q, metrics) ==
    IF q.metric \notin DOMAIN metrics THEN None
    ELSE CASE q.operator = "AtLeast" -> metrics[q.metric] >= q.threshold
           [] q.operator = "AtMost"  -> metrics[q.metric] <= q.threshold
           [] q.operator = "Equal"   -> metrics[q.metric] = q.threshold

CheckGate(q, metrics) ==
    gate' = EvaluateGate(q, metrics) /\ UNCHANGED <<flow, at, visits, payload>>

(* filter_instructions(): everything when nothing is selected.                 *)
FilterInstructions(dataset, sel) ==
    SelectSeq(dataset.instructions,
              LAMBDA i : \/ sel.tags = {} /\ sel.ids = {}
                         \/ i.id \in sel.ids \/ i.tags \cap sel.tags # {})

(* resolve_sources(): once each, or an error for the first missing one.        *)
ResolveSources(dataset, instructions) ==
    LET wanted == {instructions[i].source_id : i \in DOMAIN instructions}
    IN  IF wanted \subseteq dataset.sources THEN wanted ELSE None

(* ChatPayloadBuilder::build(); the adapter may fail.                          *)
BuildPayload(dataset, sel, adapts) ==
    LET instructions == FilterInstructions(dataset, sel)
        sources == ResolveSources(dataset, instructions)
    IN  /\ payload' = IF sources = None \/ ~adapts THEN [failed |-> TRUE]
                      ELSE [instructions |-> instructions, sources |-> sources]
        /\ UNCHANGED <<flow, at, visits, gate>>

-------------------------------------------------------------------------------
Init ==
    /\ flow \in Flows
    /\ at = flow.entrypoint
    /\ visits = [s \in DOMAIN flow.steps |-> 0]
    /\ gate = None /\ payload = None

Step == \E m \in Contexts, x \in Scores : Advance(m, x)

Next ==
    \/ Step
    \/ \E q \in Gates, m \in Contexts : CheckGate(q, m)
    \/ \E d \in Datasets, s \in Selections, a \in BOOLEAN : BuildPayload(d, s, a)

(* A caller keeps advancing its flow.                                          *)
Spec == Init /\ [][Next]_vars /\ WF_vars(Step)

-------------------------------------------------------------------------------
(* The edges that can still be taken for ever: those of the steps without a    *)
(* limit, and the fallbacks of the others.                                     *)
LastingTargets(g, s) ==
    LET t == g.steps[s]
    IN  IF IsTerminal(t) /\ t.max_visits = None THEN {}
        ELSE IF t.max_visits = None THEN Targets(t) ELSE {t.fallback} \ {None}

Loops(g) ==
    \E ring \in SUBSET DOMAIN g.steps \ {{}} :
        \A s \in ring : LastingTargets(g, s) \cap ring # {}

(* A flow ends, whatever the metrics and scores, if each of its loops has a    *)
(* step with a visit limit whose fallback leads out of it; and one that        *)
(* validate() accepts does not end at a step that is missing.  (advance() with *)
(* max_visits and ensure_step().)                                              *)
FlowEnds ==
    /\ ~Loops(flow) => <>(at \notin DOMAIN flow.steps)
    /\ ValidateFlow(flow) => [](at # "TransitionTargetNotFound")
================================================================================
