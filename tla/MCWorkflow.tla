------------------------------- MODULE MCWorkflow -------------------------------
(* An instance for TLC of the workflow services: the flow graph and messages   *)
(* between its nodes, pipelines, flow control, templates and the model runtime. *)
(* They share no state: each behaviour exercises one.  The graph has three     *)
(* nodes and links that make a chain, a second edge beside it and a cycle.     *)
EXTENDS GraphQuery

CONSTANTS
    MaxItems,      \* bound: what the graph holds at a time
    None

VARIABLES
    part,
    pipelines, versions, drafts, registered, checkpoints, dlq, lineage, stream, run, config,
    last_sample, schemas, connectors, builder,
    flow, at, visits, gate, payload,
    templates, instances, exported, made,
    models, reloads, modules, pool, kernel, next_id, calls

Pipe == INSTANCE Pipeline WITH
    templates <- builder,
    Editors <- {"e", "f"}, PipelineIds <- {"p"}, Steps <- {"x"}, Fields <- {"k", "l"},
    SchemaIds <- {"s"}, ConnectorIds <- {"c", "d"}, Artifacts <- {"o"}, MaxVersion <- 3,
    MaxUpdates <- 2, MaxRecords <- 1, EventTimes <- {1, 2},
    Configs <- {[max_batch_size |-> 1000, parallelism |-> 4], [max_batch_size |-> 101, parallelism |-> 15]}

FlowStep(kind, transitions, fallback, max_visits) ==
    [kind |-> kind, transitions |-> transitions, fallback |-> fallback, max_visits |-> max_visits]

When(condition, target) == [condition |-> condition, target |-> target]

Always == [is |-> "Always"]

MCFlows ==
    LET done == FlowStep("Completed", <<>>, None, None)
        high(t) == [is |-> "MetricAtLeast", metric |-> "m", threshold |-> t]
        low(t)  == [is |-> "MetricBelow", metric |-> "m", threshold |-> t]
        model   == [is |-> "ModelScoreAtLeast", model |-> "q", threshold |-> 2]
        flow_of(a, b) == [entrypoint |-> "a", steps |-> ("a" :> a) @@ ("b" :> b) @@ ("z" :> done)]
    IN  {flow_of(FlowStep("Task", <<When(Always, "b")>>, None, None),
                 FlowStep("Decision", <<When(high(2), "z"), When(low(1), "a")>>, "a", 2)),
         flow_of(FlowStep("Task", <<When(Always, "b")>>, "z", 2),
                 FlowStep("Decision", <<When(model, "z"), When(Always, "a")>>, None, None)),
         flow_of(FlowStep("Task", <<When(Always, "a")>>, "z", 0),
                 FlowStep("Failed", <<>>, None, 0)),
         flow_of(FlowStep("Task", <<When(Always, "missing")>>, "z", 1), done)}

Flow == INSTANCE FlowControl WITH
    Flows <- MCFlows, MaxVisits <- 3,
    Contexts <- {<<>>} \cup {[m |-> v] : v \in 0..2},
    Scores <- {None, 1, 2},
    Gates <- {[metric |-> "m", threshold |-> 1, operator |-> o] : o \in {"AtLeast", "AtMost", "Equal"}},
    Datasets <- {[sources |-> {"s"}, instructions |-> <<[id |-> 1, tags |-> {"t"}, source_id |-> "s"],
                                                       [id |-> 2, tags |-> {}, source_id |-> "lost"]>>]},
    Selections <- {[tags |-> {}, ids |-> {}], [tags |-> {"t"}, ids |-> {}], [tags |-> {}, ids |-> {2}]}

Template == INSTANCE NodeInstance WITH
    Params <- {"x"}, Values <- {0, 1}, NodeIds <- {1}, NodeParams <- {[x |-> 1]},
    MaxTemplates <- 2, MaxInstances <- 1, MaxEdits <- 2

Sample(at_ms, metrics) == [captured_at_ms |-> at_ms, metrics |-> metrics]

Module(kind, efficiency, weight, max) ==
    [kind |-> kind, efficiency_score |-> efficiency, complexity_weight |-> weight, max_replicas |-> max]

Runtime == INSTANCE ModelRuntime WITH
    Threads <- {"t", "u"},
    Profiles <- [m |-> [rules |-> <<[metric |-> "loss", operator |-> "AtLeast", threshold |-> 2,
                                     changes |-> [rate |-> 1]],
                                    [metric |-> "loss", operator |-> "Equal", threshold |-> 3,
                                     changes |-> [rate |-> 2]]>>,
                        reload_policy |-> [metric |-> "acc", operator |-> "AtMost", threshold |-> 1,
                                           min_samples |-> 1, cooldown_ms |-> 2]]],
    Samples <- {Sample(t, [loss |-> l, acc |-> a]) : t \in 0..5, l \in {1, 3}, a \in {1, 2}}
               \cup {Sample(1, [loss |-> 2]), Sample(1, [acc |-> 1])},
    MaxSamples <- 4,
    Modules <- [a |-> Module("Ml", 2, 1, 0), b |-> Module("Ai", 1, 2, 2), c |-> Module("Ai", 1, 2, 9)],
    Demands <- {[complexity |-> 10, efficiency_target |-> 5, max_replicas |-> 3],
                [complexity |-> 3, efficiency_target |-> 10, max_replicas |-> 1],
                [complexity |-> 6, efficiency_target |-> 0, max_replicas |-> 5]},
    MaxReplicas <- 2, MaxIds <- 3

ASSUME RuntimeAssumption == Runtime!RuntimeConstants

pipe_vars == <<pipelines, versions, drafts, registered, checkpoints, dlq, lineage, stream, run, config,
               last_sample, schemas, connectors, builder>>
flow_vars == <<flow, at, visits, gate, payload>>
template_vars == <<templates, instances, exported, made>>
runtime_vars == <<models, reloads, modules, pool, kernel, next_id, calls>>

Items ==
    Cardinality(DOMAIN schema.nodes) + Cardinality(schema.links)
    + Cardinality(DOMAIN schema.groups)
    + Cardinality(UNION {schema.groups[g] : g \in DOMAIN schema.groups})
    + Cardinality(schema.subgraphs) + Cardinality(schema.relations)
    + Cardinality({n \in DOMAIN schema.nodes : schema.nodes[n] \notin PortSets})
    + (IF contract = NoContract THEN 0 ELSE 2)

Parts == {"edit", "message", "pipe_edit", "pipe_run", "pipe_tune", "pipe_catalog",
          "flow", "template", "tune", "pool"}

MCInit ==
    /\ Init /\ CommInit /\ Pipe!Init /\ Flow!Init /\ Template!Init /\ Runtime!Init
    /\ part \in Parts
    /\ part # "flow" => flow.steps["b"].max_visits = 0
    /\ part # "pipe_tune" => config.parallelism = 4

(* Pairs of a part and its next-state relation, everything else unchanged.     *)
GraphNext ==
    \/ part = "edit" /\ Next /\ Items' <= MaxItems /\ UNCHANGED comm_vars
    \/ part = "message" /\ CommNext /\ UNCHANGED vars

PipeNext ==
    \/ part = "pipe_edit" /\ Pipe!EditNext
    \/ part = "pipe_run" /\ Pipe!RunNext
    \/ part = "pipe_run" /\ (Pipe!Create("e", "p") \/ Pipe!RegisterPipeline("e"))
       /\ UNCHANGED <<checkpoints, dlq, lineage, stream, run, config, last_sample, schemas, connectors, builder>>
    \/ part = "pipe_tune" /\ Pipe!TuneNext
    \/ part = "pipe_catalog" /\ Pipe!CatalogNext

RuntimeNext ==
    \/ part = "tune" /\ Runtime!TuneNext
    \/ part = "pool" /\ Runtime!PoolNext

MCNext ==
    /\ UNCHANGED part
    /\ \/ GraphNext /\ UNCHANGED <<pipe_vars, flow_vars, template_vars, runtime_vars>>
       \/ PipeNext /\ UNCHANGED <<vars, comm_vars, flow_vars, template_vars, runtime_vars>>
       \/ part = "flow" /\ Flow!Next
          /\ UNCHANGED <<vars, comm_vars, pipe_vars, template_vars, runtime_vars>>
       \/ part = "template" /\ Template!Next
          /\ UNCHANGED <<vars, comm_vars, pipe_vars, flow_vars, runtime_vars>>
       \/ RuntimeNext /\ UNCHANGED <<vars, comm_vars, pipe_vars, flow_vars, template_vars>>

all_vars == <<vars, comm_vars, pipe_vars, flow_vars, template_vars, runtime_vars, part>>

(* A caller of the flow engine keeps advancing its flow.                       *)
MCSpec ==
    /\ MCInit /\ [][MCNext]_all_vars
    /\ WF_flow_vars(part = "flow" /\ Flow!Step
          /\ UNCHANGED <<vars, comm_vars, pipe_vars, template_vars, runtime_vars, part>>)

(* The properties of the other modules, under the names that the run checks.   *)

(* As long as every link has its nodes, the execution plan is an order of the  *)
(* nodes that respects the links, and is refused exactly for a cycle; and only *)
(* a patch leaves a link without its nodes (graph.rs).                         *)
PlanSound == TypeOK /\ PlanCorrect /\ DanglingIsPatched

(* Messages arrive once and in order, and what a query selects can be paged    *)
(* and scaled.                                                                 *)
QueriesSound == DeliveredInOrder /\ SamplingSound

(* A definition put in the registry by an update has been saved before; an     *)
(* inferred schema accepts its sample and records of the same shape only; and  *)
(* following the advice keeps the configuration within bounds.                 *)
PipelinesSound == Pipe!CurrentIsSaved /\ Pipe!InferredAccepts /\ Pipe!AdviceBounded

(* A flow whose loops are all limited ends.                                    *)
FlowEnds == part = "flow" => Flow!FlowEnds

(* An instance has the values that its template froze.                         *)
FrozenHolds == Template!FrozenHolds

(* Reload requests are apart by the cooldown, whatever the order of samples;   *)
(* the pool and the kernel agree about replicas, within their limits.          *)
ModelsSound == Runtime!ReloadsSpaced /\ Runtime!PoolExact

MCPortDefs ==
    (1 :> [name |-> "in", direction |-> "In", data_type |-> "Number", required |-> FALSE])
    @@ (2 :> [name |-> "out", direction |-> "Out", data_type |-> "Any", required |-> FALSE])
    @@ (3 :> [name |-> "key", direction |-> "In", data_type |-> "String", required |-> TRUE])

MCLink(s, sp, t, tp) ==
    [source_node |-> s, source_port |-> sp, target_node |-> t, target_port |-> tp]

MCLinkDefs == <<MCLink(1, 2, 2, 1), MCLink(1, 2, 2, 3), MCLink(2, 2, 1, 1), MCLink(2, 1, 3, 3)>>

MCFactors == {<<0, 1>>, <<1, 4>>, <<1, 2>>, <<2, 3>>, <<1, 1>>}

MCQueries ==
    LET grouped == [is |-> "InGroup", group |-> 1]
        keyed   == [is |-> "HasPortMatching", directions |-> {"In"}, types |-> {"String"}]
    IN  {{}, {grouped}, {[is |-> "Not", inner |-> grouped], keyed},
         {[is |-> "Or", conds |-> {grouped, [is |-> "And", conds |-> {keyed}],
                                   [is |-> "Attribute", nodes |-> {1, 3}]}]}}

MCRelationDefs == <<[from_node |-> 1, to_node |-> 2]>>

MCPatchOps ==
    {[op |-> "AddNode", id |-> n, ports |-> {1, 2}] : n \in {1, 3}}
    \cup {[op |-> o, id |-> n] : o \in {"RemoveNode", "UpdateNode"}, n \in {2}}
    \cup {[op |-> o, id |-> l] : o \in {"AddLink", "RemoveLink"}, l \in {1, 3}}
    \cup {[op |-> "AddGroup", id |-> 1, members |-> {}]}
    \cup {[op |-> o, id |-> 1, node |-> 2] : o \in {"AddNodeToGroup", "RemoveNodeFromGroup"}}
    \cup {[op |-> o, id |-> 1] : o \in {"RemoveGroup", "AddSubgraph", "RemoveSubgraph"}}

MCBaselines ==
    {[EmptySchema EXCEPT !.nodes = [n \in ns |-> {1, 2}], !.links = ls] :
        ns \in SUBSET {1, 2}, ls \in SUBSET {1, 3}}
================================================================================
