------------------------------ MODULE NodeEditing ------------------------------
(* Node editing of ify-controller (node.rs): NodeGraph keeps the nodes of a    *)
(* canvas with the commands that undo and redo its edits; NodeCustomizer       *)
(* applies templates and presets to a copy of a node that a client holds.      *)
(*                                                                             *)
(* Both are used through &mut: calls do not overlap.  Node ids are naturals,   *)
(* each new one the next.  Names, descriptions, type hints, tools, memory and  *)
(* flow configuration, and log entries are dropped: nothing here reads them.   *)
EXTENDS Integers, Sequences, Functions

CONSTANTS
    Templates,     \* the templates that clients use
    Updates,       \* parameter maps that clients pass
    Positions,
    MaxNodes,      \* bound: nodes ever added
    MaxEdits,      \* bound: edits, undone ones included
    None

VARIABLES
    nodes,         \* NodeGraph::nodes
    undo_stack, redo_stack,
    registered,    \* NodeCustomizer::templates
    held,          \* the copy of a node that a client customizes, or None
    undone, ahead, \* ghosts: the graphs behind the undo and the redo stack
    made           \* nodes and edits made so far

vars == <<nodes, undo_stack, redo_stack, registered, held, undone, ahead, made>>

NodeParameter(default, required) == [default |-> default, required |-> required]

(* A template: its parameters and its presets, both by name.                   *)
NodeTemplate(parameters, presets) == [parameters |-> parameters, presets |-> presets]

Node(template, parameters, position) ==
    [template_id |-> template, parameters |-> parameters, position |-> position]

Init ==
    /\ nodes = <<>> /\ undo_stack = <<>> /\ redo_stack = <<>> /\ registered = {}
    /\ held = None /\ undone = <<>> /\ ahead = <<>>
    /\ made = [nodes |-> 0, edits |-> 0]

-------------------------------------------------------------------------------
(* Commands.  Invert is NodeCommand::inverse().                                *)

Extend(params, updates) ==
    [p \in DOMAIN params \cup DOMAIN updates |-> IF p \in DOMAIN updates THEN updates[p] ELSE params[p]]

Put(g, id, node) == [x \in DOMAIN g \cup {id} |-> IF x = id THEN node ELSE g[x]]

InvertUpdatingAgain(c) ==
    CASE c.is = "Add"    -> [c EXCEPT !.is = "Remove"]
      [] c.is = "Remove" -> [c EXCEPT !.is = "Add"]
      [] c.is = "Update" -> [c EXCEPT !.old = c.new]
      [] c.is = "Move"   -> [c EXCEPT !.old = c.new, !.new = c.old]

Invert(c) ==
    CASE c.is = "Add"    -> [c EXCEPT !.is = "Remove"]
      [] c.is = "Remove" -> [c EXCEPT !.is = "Add"]
      [] c.is \in {"Update", "Move"} -> [c EXCEPT !.old = c.new, !.new = c.old]

(* execute_command(): an update or a move of a missing node does nothing.      *)
ExecuteCommand(g, c) ==
    CASE c.is = "Add"    -> Put(g, c.id, c.node)
      [] c.is = "Remove" -> Restrict(g, DOMAIN g \ {c.id})
      [] c.is \in {"Update", "Move"} /\ c.id \notin DOMAIN g -> g
      [] c.is = "Update" /\ c.id \in DOMAIN g -> Put(g, c.id, [g[c.id] EXCEPT !.parameters = c.new])
      [] c.is = "Move" /\ c.id \in DOMAIN g -> Put(g, c.id, [g[c.id] EXCEPT !.position = c.new])

ApplyCommand(c) ==
    /\ made.edits < MaxEdits
    /\ nodes' = ExecuteCommand(nodes, c)
    /\ undo_stack' = Append(undo_stack, Invert(c))
    /\ redo_stack' = <<>>
    /\ undone' = Append(undone, nodes) /\ ahead' = <<>>
    /\ UNCHANGED <<registered, held>>

Edited == made' = [made EXCEPT !.edits = @ + 1]

(* The required parameters of a template that a node lacks.                    *)
Missing(template, params) ==
    {p \in DOMAIN template.parameters : template.parameters[p].required} \ DOMAIN params

Defaults(template) ==
    Restrict([p \in DOMAIN template.parameters |-> template.parameters[p].default],
             {p \in DOMAIN template.parameters : template.parameters[p].default # None})

AddNode(t, position, params) ==
    LET final_params == Extend(Defaults(Templates[t]), params)
        id == made.nodes + 1
    IN  /\ id <= MaxNodes
        /\ Missing(Templates[t], final_params) = {}
        /\ ApplyCommand([is |-> "Add", id |-> id, node |-> Node(t, final_params, position)])
        /\ made' = [nodes |-> id, edits |-> made.edits + 1]

RemoveNode(id) ==
    /\ ApplyCommand([is |-> "Remove", id |-> id, node |-> nodes[id]])
    /\ Edited

UpdateNode(id, updates) ==
    /\ ApplyCommand([is |-> "Update", id |-> id, old |-> nodes[id].parameters,
                     new |-> Extend(nodes[id].parameters, updates)])
    /\ Edited

MoveNode(id, position) ==
    /\ ApplyCommand([is |-> "Move", id |-> id, old |-> nodes[id].position, new |-> position])
    /\ Edited

Top(s) == s[Len(s)]

Pop(s) == SubSeq(s, 1, Len(s) - 1)

Undo ==
    /\ made.edits < MaxEdits
    /\ undo_stack # <<>>
    /\ nodes' = ExecuteCommand(nodes, Top(undo_stack))
    /\ undo_stack' = Pop(undo_stack)
    /\ redo_stack' = Append(redo_stack, Invert(Top(undo_stack)))
    /\ undone' = Pop(undone) /\ ahead' = Append(ahead, nodes)
    /\ Edited /\ UNCHANGED <<registered, held>>

Redo ==
    /\ made.edits < MaxEdits
    /\ redo_stack # <<>>
    /\ nodes' = ExecuteCommand(nodes, Top(redo_stack))
    /\ redo_stack' = Pop(redo_stack)
    /\ undo_stack' = Append(undo_stack, Invert(Top(redo_stack)))
    /\ ahead' = Pop(ahead) /\ undone' = Append(undone, nodes)
    /\ Edited /\ UNCHANGED <<registered, held>>

-------------------------------------------------------------------------------
(* The customizer works on a copy of a node; what it changes reaches the graph *)
(* only if the client passes the parameters to update_node().                  *)

graph_vars == <<nodes, undo_stack, redo_stack, undone, ahead>>

RegisterTemplate(t) ==
    /\ registered' = registered \cup {t}
    /\ UNCHANGED <<graph_vars, held, made>>

Hold(id) ==
    /\ held' = nodes[id]
    /\ UNCHANGED <<graph_vars, registered, made>>

ApplyPreset(t, preset) ==
    /\ held # None
    /\ t \in registered
    /\ preset \in DOMAIN Templates[t].presets
    /\ held' = [held EXCEPT !.parameters = Extend(@, Templates[t].presets[preset])]
    /\ UNCHANGED <<graph_vars, registered, made>>

(* customize() extends the node before it tells that a parameter is missing.   *)
Customize(updates) ==
    /\ held # None
    /\ held' = [held EXCEPT !.parameters = Extend(@, updates)]
    /\ UNCHANGED <<graph_vars, registered, made>>

(* validate_params(): a node of a template that is not registered passes.      *)
ValidateParams(node) ==
    node.template_id \in registered => Missing(Templates[node.template_id], node.parameters) = {}

SendBack(id) ==
    /\ held # None
    /\ ValidateParams(held)
    /\ UpdateNode(id, held.parameters)

EditNext ==
    \/ \E t \in DOMAIN Templates, p \in Positions, u \in Updates : AddNode(t, p, u)
    \/ \E id \in DOMAIN nodes :
          \/ RemoveNode(id) \/ SendBack(id)
          \/ \E u \in Updates : UpdateNode(id, u)
          \/ \E p \in Positions : MoveNode(id, p)
    \/ Undo \/ Redo

CustomNext ==
    \/ \E t \in DOMAIN Templates :
          \/ RegisterTemplate(t)
          \/ \E p \in DOMAIN Templates[t].presets : ApplyPreset(t, p)
    \/ \E id \in DOMAIN nodes : Hold(id)
    \/ \E u \in Updates : Customize(u)

Next == EditNext \/ CustomNext

Spec == Init /\ [][Next]_vars

-------------------------------------------------------------------------------
(* Each command of a stack makes, of the graph after it, the graph it is kept  *)
(* with; the graph after the top one is the graph as it is.                    *)
LeadsThrough(stack, graphs) ==
    /\ Len(graphs) = Len(stack)
    /\ \A k \in 1..Len(stack) :
          ExecuteCommand(IF k = Len(stack) THEN nodes ELSE graphs[k + 1], stack[k]) = graphs[k]

(* After any sequence of edits, undos and redos, the commands still on the     *)
(* undo stack lead back through exactly the graphs that the edits replaced,    *)
(* and those on the redo stack forward through the graphs that were undone: no *)
(* command is applied to a graph in which it means something else.             *)
UndoExact == LeadsThrough(undo_stack, undone) /\ LeadsThrough(redo_stack, ahead)

(* add_node() promises the required parameters; no later edit takes one away.  *)
RequiredPresent ==
    \A id \in DOMAIN nodes : Missing(Templates[nodes[id].template_id], nodes[id].parameters) = {}
================================================================================
