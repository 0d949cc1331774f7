------------------------------- MODULE FlowGraph -------------------------------
(* The flow graph of ify-controller (graph.rs): nodes with typed ports, links, *)
(* groups, subgraphs and relations; patches and diffs; cycle detection and     *)
(* planning; and the contract that guards one run of a node.                   *)
(*                                                                             *)
(* Ids are naturals, since the code orders nodes and links by their UUID.  A   *)
(* port and a link are immutable values, so their ids stand for them.  Labels, *)
(* parameters, positions, provenance, timestamps and log entries are dropped.  *)
EXTENDS Integers, Sequences, FiniteSets, SequencesExt, FiniteSetsExt

CONSTANTS
    NodeIds, LinkIds, GroupIds, SubgraphIds, RelationIds, Ports,
    PortDefs,      \* the definition of each port
    LinkDefs,      \* the four endpoints of each link
    RelationDefs,  \* the two nodes of each relation
    PortSets,      \* the port sets a node is created with
    PatchOps,      \* the operations that patches are made of
    MaxPatchLen,   \* bound: operations in one patch
    Baselines      \* schemas that compute_diff() is given as `from`

VARIABLES
    schema,            \* FlowGraph::schema
    execution_states,  \* keys of FlowGraph::execution_states, all of them Idle
    contract,          \* a NodeExecutionContract and its node
    patched            \* history: the links that a patch has put in

vars == <<schema, execution_states, contract, patched>>

PortDef == [name : STRING, direction : {"In", "Out"},
            data_type : {"Any", "Number", "String", "Bool", "Json", "Array"},
            required : BOOLEAN]

Link == [source_node : NodeIds, source_port : Ports, target_node : NodeIds, target_port : Ports]

(* The kinds of patch operation.  UpdateNode stands for UpdateNodeLabel,      *)
(* UpdateNodeParams and MoveNode, whose values are not modelled.              *)
GraphPatchOp ==
    {"AddNode", "RemoveNode", "UpdateNode", "AddLink", "RemoveLink", "AddGroup", "RemoveGroup",
     "AddNodeToGroup", "RemoveNodeFromGroup", "AddSubgraph", "RemoveSubgraph"}

ASSUME GraphAssumption ==
    /\ NodeIds \subseteq Nat /\ LinkIds \subseteq Nat /\ Ports \subseteq Nat
    /\ PortDefs \in [Ports -> PortDef]
    /\ LinkDefs \in [LinkIds -> Link]
    /\ PortSets \subseteq SUBSET Ports
    /\ \A o \in PatchOps : o.op \in GraphPatchOp

GraphNode == SUBSET Ports

Group == SUBSET NodeIds

NodeRelation == [from_node : NodeIds, to_node : NodeIds]

NodeExecutionState == {"Idle", "Running", "Progress", "Complete", "Failed", "Cancelled"}

(* nodes maps a node to its ports, groups a group to its members.             *)
FlowGraphSchema ==
    [nodes : UNION {[ns -> GraphNode] : ns \in SUBSET NodeIds},
     links : SUBSET LinkIds,
     groups : UNION {[gs -> Group] : gs \in SUBSET GroupIds},
     subgraphs : SUBSET SubgraphIds,
     relations : SUBSET RelationIds]

Empty == [x \in {} |-> {}]

EmptySchema ==
    [nodes |-> Empty, links |-> {}, groups |-> Empty, subgraphs |-> {}, relations |-> {}]

Insert(f, k, v) == [x \in DOMAIN f \cup {k} |-> IF x = k THEN v ELSE f[x]]

Without(f, k) == [x \in DOMAIN f \ {k} |-> f[x]]

IsCompatibleWith(p, q) ==
    LET a == PortDefs[p].data_type  b == PortDefs[q].data_type
    IN  a = "Any" \/ b = "Any" \/ a = b

HasPort(s, n, p) == n \in DOMAIN s.nodes /\ p \in s.nodes[n]

TouchesNode(l, n) == LinkDefs[l].source_node = n \/ LinkDefs[l].target_node = n

(* A node goes with its links and its group memberships; its relations stay.  *)
DropNodeOnly(s, n) == [s EXCEPT !.nodes = Without(@, n)]

DropNode(s, n) ==
    [s EXCEPT !.nodes = Without(@, n),
              !.links = {l \in @ : ~TouchesNode(l, n)},
              !.groups = [g \in DOMAIN @ |-> @[g] \ {n}]]

-------------------------------------------------------------------------------
(* adjacency_list(): the targets of a node's links, in the order of link ids, *)
(* one per link, also for links from nodes that do not exist.                 *)
Adjacency(s, n) ==
    LET ls == SetToSortSeq({l \in s.links : LinkDefs[l].source_node = n}, <)
    IN  [i \in DOMAIN ls |-> LinkDefs[ls[i]].target_node]

(* detect_cycle(), dfs_cycle(): white 0, grey 1, black 2.  A configuration is *)
(* the recursion: the grey path and what is left of each frame's loop.        *)
VisitNode(s, c, n) ==
    [c EXCEPT !.colour[n] = 1, !.stack = Append(@, n), !.todo = Append(@, Adjacency(s, n))]

DfsStep(s, c) ==
    LET white == {n \in DOMAIN s.nodes : c.colour[n] = 0}
        depth == Len(c.stack)
        rest  == c.todo[depth]
        next  == Head(rest)
        loop  == [c EXCEPT !.todo[depth] = Tail(rest)]
    IN  CASE c.cyclic -> c
          [] ~c.cyclic /\ depth = 0 -> IF white = {} THEN c ELSE VisitNode(s, c, Min(white))
          [] ~c.cyclic /\ depth > 0 /\ rest = <<>> ->
                [c EXCEPT !.colour[c.stack[depth]] = 2, !.stack = Front(@), !.todo = Front(@)]
          [] ~c.cyclic /\ depth > 0 /\ rest # <<>> ->
                CASE c.colour[next] = 1 -> [c EXCEPT !.cyclic = TRUE]
                  [] c.colour[next] = 0 -> VisitNode(s, loop, next)
                  [] c.colour[next] = 2 -> loop

DfsSteps == 2 * Cardinality(NodeIds) + Cardinality(LinkIds)

DetectCycle(s) ==
    LET start == [colour |-> [n \in NodeIds |-> 0], stack |-> <<>>, todo |-> <<>>,
                  cyclic |-> FALSE]
    IN  FoldLeft(LAMBDA c, i : DfsStep(s, c), start, [i \in 1..DfsSteps |-> i]).cyclic

(* topological_order(): Kahn's algorithm.  in_degree counts links, and gets   *)
(* entries for the missing targets of links too.                              *)
InDegreeOfNodes(s, n) ==
    Cardinality({LinkDefs[l].source_node : l \in {k \in s.links : LinkDefs[k].target_node = n}})

InDegree(s, n) == Cardinality({l \in s.links : LinkDefs[l].target_node = n})

KahnStep(s, c) ==
    LET node  == Head(c.queue)
        out   == {l \in s.links : LinkDefs[l].source_node = node}
        deg   == [n \in NodeIds |->
                    c.deg[n] - Cardinality({l \in out : LinkDefs[l].target_node = n})]
        batch == SetToSortSeq({n \in NodeIds : deg[n] = 0 /\ c.deg[n] > 0}, <)
    IN  IF c.queue = <<>> THEN c
        ELSE [deg |-> deg, queue |-> Tail(c.queue) \o batch, order |-> Append(c.order, node)]

KahnOrder(s) ==
    LET deg   == [n \in NodeIds |-> InDegree(s, n)]
        start == [deg |-> deg, order |-> <<>>,
                  queue |-> SetToSortSeq({n \in DOMAIN s.nodes : deg[n] = 0}, <)]
    IN  FoldLeft(LAMBDA c, i : KahnStep(s, c), start, [i \in 1..Cardinality(NodeIds) |-> i]).order

(* Ok(order), or CycleDetected where the lengths differ.                      *)
TopologicalOrder(s) ==
    LET order == KahnOrder(s)
    IN  [ok |-> Len(order) = Cardinality(DOMAIN s.nodes), order |-> order]

(* validate(): the kinds of the issues it reports.                            *)
LinkIssues(s, l) ==
    LET d   == LinkDefs[l]
        src == PortDefs[d.source_port]
        tgt == PortDefs[d.target_port]
        When(kind, cond) == IF cond THEN {kind} ELSE {}
    IN  CASE ~HasPort(s, d.source_node, d.source_port) ->
                {IF d.source_node \in DOMAIN s.nodes THEN "missing_source_port"
                 ELSE "missing_source_node"}
          [] HasPort(s, d.source_node, d.source_port)
             /\ ~HasPort(s, d.target_node, d.target_port) ->
                {IF d.target_node \in DOMAIN s.nodes THEN "missing_target_port"
                 ELSE "missing_target_node"}
          [] OTHER ->
                When("wrong_source_port_direction", src.direction # "Out")
                \cup When("wrong_target_port_direction", tgt.direction # "In")
                \cup When("type_mismatch", ~IsCompatibleWith(d.source_port, d.target_port))

(* Only a link whose two ports exist counts as incoming.                      *)
IsFed(s, n, p) ==
    \E l \in s.links :
        /\ LinkDefs[l].target_node = n /\ LinkDefs[l].target_port = p
        /\ HasPort(s, LinkDefs[l].source_node, LinkDefs[l].source_port)

UnfedPorts(s) ==
    {<<n, p>> \in (DOMAIN s.nodes) \X Ports :
        /\ p \in s.nodes[n] /\ PortDefs[p].direction = "In" /\ PortDefs[p].required
        /\ ~IsFed(s, n, p)}

Validate(s) ==
    UNION {LinkIssues(s, l) : l \in s.links}
    \cup (IF UnfedPorts(s) = {} THEN {} ELSE {"unconnected_required_port"})
    \cup (IF DetectCycle(s) THEN {"cycle_detected"} ELSE {})

-------------------------------------------------------------------------------
(* A patch operation is a record with its op and its subject: id, and ports   *)
(* for AddNode, node for the group memberships.                               *)
Applicable(s, o) ==
    CASE o.op = "AddNode" -> o.id \notin DOMAIN s.nodes
      [] o.op \in {"RemoveNode", "UpdateNode"} -> o.id \in DOMAIN s.nodes
      [] o.op = "AddLink" -> o.id \notin s.links
      [] o.op = "RemoveLink" -> o.id \in s.links
      [] o.op = "AddGroup" -> o.id \notin DOMAIN s.groups
      [] o.op \in {"RemoveGroup", "AddNodeToGroup", "RemoveNodeFromGroup"} ->
            o.id \in DOMAIN s.groups
      [] o.op = "AddSubgraph" -> o.id \notin s.subgraphs
      [] o.op = "RemoveSubgraph" -> o.id \in s.subgraphs

(* apply_op_to_schema(), for an operation that is applicable.                 *)
ApplyOp(s, o) ==
    CASE o.op = "AddNode" -> [s EXCEPT !.nodes = Insert(@, o.id, o.ports)]
      [] o.op = "RemoveNode" -> DropNode(s, o.id)
      [] o.op = "UpdateNode" -> s
      [] o.op = "AddLink" -> [s EXCEPT !.links = @ \cup {o.id}]
      [] o.op = "RemoveLink" -> [s EXCEPT !.links = @ \ {o.id}]
      [] o.op = "AddGroup" -> [s EXCEPT !.groups = Insert(@, o.id, o.members)]
      [] o.op = "RemoveGroup" -> [s EXCEPT !.groups = Without(@, o.id)]
      [] o.op = "AddNodeToGroup" -> [s EXCEPT !.groups[o.id] = @ \cup {o.node}]
      [] o.op = "RemoveNodeFromGroup" -> [s EXCEPT !.groups[o.id] = @ \ {o.node}]
      [] o.op = "AddSubgraph" -> [s EXCEPT !.subgraphs = @ \cup {o.id}]
      [] o.op = "RemoveSubgraph" -> [s EXCEPT !.subgraphs = @ \ {o.id}]

(* The operations of a patch on a working copy; ok is FALSE from the first    *)
(* one that fails.                                                            *)
ApplyOps(s, ops) ==
    FoldLeft(LAMBDA w, o : IF w.ok /\ Applicable(w.schema, o)
                           THEN [ok |-> TRUE, schema |-> ApplyOp(w.schema, o)]
                           ELSE [w EXCEPT !.ok = FALSE],
             [ok |-> TRUE, schema |-> s], ops)

(* compute_diff(): eight loops, added before removed, nodes before links.     *)
OpsFor(op, ids) == [i \in 1..Cardinality(ids) |-> [op |-> op, id |-> SetToSortSeq(ids, <)[i]]]

ComputeDiffAssumingCascade(from, to) ==
    LET new == SetToSortSeq(DOMAIN to.nodes \ DOMAIN from.nodes, <)
    IN  [i \in DOMAIN new |-> [op |-> "AddNode", id |-> new[i], ports |-> to.nodes[new[i]]]]
        \o OpsFor("RemoveNode", DOMAIN from.nodes \ DOMAIN to.nodes)
        \o OpsFor("AddLink", to.links \ from.links)

ComputeDiff(from, to) ==
    LET new    == SetToSortSeq(DOMAIN to.nodes \ DOMAIN from.nodes, <)
        grouped == SetToSortSeq(DOMAIN to.groups \ DOMAIN from.groups, <)
    IN  [i \in DOMAIN new |-> [op |-> "AddNode", id |-> new[i], ports |-> to.nodes[new[i]]]]
        \o OpsFor("RemoveNode", DOMAIN from.nodes \ DOMAIN to.nodes)
        \o OpsFor("AddLink", to.links \ from.links)
        \o OpsFor("RemoveLink", from.links \ to.links)
        \o [i \in DOMAIN grouped |->
              [op |-> "AddGroup", id |-> grouped[i], members |-> to.groups[grouped[i]]]]
        \o OpsFor("RemoveGroup", DOMAIN from.groups \ DOMAIN to.groups)
        \o OpsFor("AddSubgraph", to.subgraphs \ from.subgraphs)
        \o OpsFor("RemoveSubgraph", from.subgraphs \ to.subgraphs)

-------------------------------------------------------------------------------
NoContract == [node |-> 0, state |-> "None"]

Init ==
    /\ schema = EmptySchema
    /\ execution_states = {}
    /\ contract = NoContract
    /\ patched = {}

KeepRun == UNCHANGED <<execution_states, contract>>

(* add_node() inserts: a node of the same id is replaced.                     *)
AddNode(n, ps) ==
    /\ schema' = [schema EXCEPT !.nodes = Insert(@, n, ps)]
    /\ execution_states' = execution_states \cup {n}
    /\ UNCHANGED <<contract, patched>>

RemoveNode(n) ==
    /\ n \in DOMAIN schema.nodes
    /\ schema' = DropNode(schema, n)
    /\ execution_states' = execution_states \ {n}
    /\ patched' = patched \cap schema'.links
    /\ UNCHANGED contract

(* GraphNode::add_port() on a node of the graph (get_node_mut()).             *)
AddPort(n, p) ==
    /\ n \in DOMAIN schema.nodes
    /\ \A q \in schema.nodes[n] : PortDefs[q].name # PortDefs[p].name
    /\ schema' = [schema EXCEPT !.nodes[n] = @ \cup {p}]
    /\ KeepRun /\ UNCHANGED patched

AddLink(l) ==
    LET d == LinkDefs[l]
    IN  /\ HasPort(schema, d.source_node, d.source_port)
        /\ HasPort(schema, d.target_node, d.target_port)
        /\ IsCompatibleWith(d.source_port, d.target_port)
        /\ schema' = [schema EXCEPT !.links = @ \cup {l}]
        /\ patched' = patched \ {l}
        /\ KeepRun

RemoveLink(l) ==
    /\ l \in schema.links
    /\ schema' = [schema EXCEPT !.links = @ \ {l}]
    /\ patched' = patched \ {l}
    /\ KeepRun

AddGroup(g, members) ==
    /\ schema' = [schema EXCEPT !.groups = Insert(@, g, members)]
    /\ KeepRun /\ UNCHANGED patched

RemoveGroup(g) ==
    /\ g \in DOMAIN schema.groups
    /\ schema' = [schema EXCEPT !.groups = Without(@, g)]
    /\ KeepRun /\ UNCHANGED patched

AddSubgraph(s) ==
    /\ schema' = [schema EXCEPT !.subgraphs = @ \cup {s}]
    /\ KeepRun /\ UNCHANGED patched

RemoveSubgraph(s) ==
    /\ s \in schema.subgraphs
    /\ schema' = [schema EXCEPT !.subgraphs = @ \ {s}]
    /\ KeepRun /\ UNCHANGED patched

AddRelation(r) ==
    /\ {RelationDefs[r].from_node, RelationDefs[r].to_node} \subseteq DOMAIN schema.nodes
    /\ schema' = [schema EXCEPT !.relations = @ \cup {r}]
    /\ KeepRun /\ UNCHANGED patched

RemoveRelation(r) ==
    /\ r \in schema.relations
    /\ schema' = [schema EXCEPT !.relations = @ \ {r}]
    /\ KeepRun /\ UNCHANGED patched

(* apply_patch(): the schema of the working copy; execution_states keeps its  *)
(* keys.                                                                      *)
ApplyPatch(ops) ==
    LET w == ApplyOps(schema, ops)
    IN  /\ w.ok
        /\ schema' = w.schema
        /\ patched' = w.schema.links \cap
              (patched \cup {o.id : o \in {q \in ToSet(ops) : q.op = "AddLink"}})
        /\ KeepRun

(* execution_contract(): a new contract, bound to the node's id only.         *)
ExecutionContract(n) ==
    /\ n \in DOMAIN schema.nodes
    /\ contract' = [node |-> n, state |-> "Idle"]
    /\ UNCHANGED <<schema, execution_states, patched>>

Transition(from, to) ==
    /\ contract.state \in from
    /\ contract' = [contract EXCEPT !.state = to]
    /\ UNCHANGED <<schema, execution_states, patched>>

Start == Transition({"Idle"}, "Running")

Progress == Transition({"Running", "Progress"}, "Progress")

Complete == Transition({"Running", "Progress"}, "Complete")

Fail == Transition({"Running", "Progress"}, "Failed")

Cancel == Transition({"Running", "Progress"}, "Cancelled")

Next ==
    \/ \E n \in NodeIds :
          \/ \E ps \in PortSets : AddNode(n, ps)
          \/ \E p \in Ports : AddPort(n, p)
          \/ RemoveNode(n)
          \/ ExecutionContract(n)
    \/ \E l \in LinkIds : AddLink(l) \/ RemoveLink(l)
    \/ \E g \in GroupIds : (\E ns \in Group : AddGroup(g, ns)) \/ RemoveGroup(g)
    \/ \E s \in SubgraphIds : AddSubgraph(s) \/ RemoveSubgraph(s)
    \/ \E r \in RelationIds : AddRelation(r) \/ RemoveRelation(r)
    \/ \E k \in 1..MaxPatchLen : \E ops \in [1..k -> PatchOps] : ApplyPatch(ops)
    \/ Start \/ Progress \/ Complete \/ Fail \/ Cancel

Spec == Init /\ [][Next]_vars

-------------------------------------------------------------------------------
(* Types of the graph, its run states and the contract.                       *)
TypeOK ==
    /\ DOMAIN schema.nodes \subseteq NodeIds
    /\ \A n \in DOMAIN schema.nodes : schema.nodes[n] \subseteq Ports
    /\ schema.links \subseteq LinkIds
    /\ DOMAIN schema.groups \subseteq GroupIds
    /\ \A g \in DOMAIN schema.groups : schema.groups[g] \subseteq NodeIds
    /\ schema.subgraphs \subseteq SubgraphIds /\ schema.relations \subseteq RelationIds
    /\ execution_states \subseteq NodeIds
    /\ contract = NoContract \/ contract \in [node : NodeIds, state : NodeExecutionState]

(* What the planner is measured against: the nodes reachable over links.      *)
Edges(s) == {<<LinkDefs[l].source_node, LinkDefs[l].target_node>> : l \in s.links}

Reaches(s) ==
    FoldLeft(LAMBDA r, k : r \cup {<<p[1], q[2]>> : <<p, q>> \in {x \in r \X r : x[1][2] = x[2][1]}},
             Edges(s), [k \in 1..Cardinality(NodeIds) |-> k])

Acyclic(s) == \A n \in NodeIds : <<n, n>> \notin Reaches(s)

Attached(s, l) == {LinkDefs[l].source_node, LinkDefs[l].target_node} \subseteq DOMAIN s.nodes

(* detect_cycle() finds a cycle exactly if there is one that a node of the    *)
(* graph leads to; and if every link has its two nodes, topological_order()   *)
(* gives an order of all nodes, each once and after everything it depends on, *)
(* exactly if there is no cycle.  So a graph that validate() accepts has a    *)
(* plan, in which every required input is fed by a node before it.            *)
PlanCorrect ==
    LET plan == TopologicalOrder(schema)
        pos(n) == CHOOSE i \in DOMAIN plan.order : plan.order[i] = n
    IN  /\ DetectCycle(schema) <=>
              \E n \in DOMAIN schema.nodes, m \in NodeIds :
                 <<m, m>> \in Reaches(schema) /\ (n = m \/ <<n, m>> \in Reaches(schema))
        /\ (\A l \in schema.links : Attached(schema, l)) =>
              /\ plan.ok <=> Acyclic(schema)
              /\ plan.ok => /\ ToSet(plan.order) = DOMAIN schema.nodes
                            /\ \A e \in Edges(schema) : pos(e[1]) < pos(e[2])
        /\ Validate(schema) = {} => plan.ok /\ UnfedPorts(schema) = {}

(* A link that lacks a node was put in by a patch, which checks no endpoints: *)
(* the methods of the graph, remove_node() with its cascade above all, never  *)
(* leave one behind.                                                          *)
DanglingIsPatched == \A l \in schema.links : ~Attached(schema, l) => l \in patched

SameShape(s, t) ==
    /\ DOMAIN s.nodes = DOMAIN t.nodes /\ s.links = t.links
    /\ DOMAIN s.groups = DOMAIN t.groups /\ s.subgraphs = t.subgraphs

(* compute_diff(from, to) applied to `from` gives the nodes, links, groups    *)
(* and subgraphs of `to`, whenever no node that goes has a link in `from`.    *)
DiffTransforms ==
    \A from \in Baselines :
        (\A n \in DOMAIN from.nodes \ DOMAIN schema.nodes :
            \A l \in from.links : ~TouchesNode(l, n)) =>
        LET w == ApplyOps(from, ComputeDiff(from, schema)) IN w.ok /\ SameShape(w.schema, schema)

(* The documentation of compute_diff() without the condition: a patch that    *)
(* transforms `from` into `to` (graph.rs:1731), here from the graph as it is  *)
(* to one of the others, while no patch has left it a link without its nodes. *)
DiffAlwaysTransforms ==
    \A to \in Baselines : (\A l \in schema.links : Attached(schema, l)) =>
        LET w == ApplyOps(schema, ComputeDiff(schema, to)) IN w.ok /\ SameShape(w.schema, to)
================================================================================
