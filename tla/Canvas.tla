-------------------------------- MODULE Canvas --------------------------------
(* The parts of ify-canvas that keep state which clients share or return to:   *)
(* the conflict resolver of concurrent edits (collaboration.rs) and the node   *)
(* adder with its bounded undo stack (node_adder.rs).                          *)
(*                                                                             *)
(* Each client has a resolver of its own.  Operations reach it over a network: *)
(* in any order, repeatedly, and not at all for a while.  Op ids are naturals  *)
(* for strings: they are only compared.  Labels, colours, parameters and the   *)
(* cursors of other users are dropped.                                         *)
EXTENDS Integers, Sequences, FiniteSets

CONSTANTS
    Clients,
    Ops,           \* the operations that collaborators make
    Points,
    Templates,     \* by id: the default position
    Capacity,      \* UndoStack::capacity: 64 in NodeAdder::new()
    MaxMoves,      \* bound: entries pushed
    None

(* "Globally unique operation ID." (EditOperation::op_id): with it, of two     *)
(* different operations one is newer than the other.                           *)
ASSUME OpsAssumption ==
    /\ \A op \in Ops : op.timestamp_ms \in Nat /\ op.op_id \in Nat
    /\ \A op, other \in Ops : op.op_id = other.op_id => op = other

(* With no capacity at all, push() would find nothing to drop and never again  *)
(* a stack of exactly that length.                                             *)
ASSUME CapacityAssumption == Capacity \in Nat \ {0} /\ MaxMoves \in Nat

VARIABLES
    accepted,      \* ConflictResolver::accepted of the clients
    received,      \* ghost: the operations that each client has received
    next_id, undo, redo,
    templates,     \* NodeAdder::templates
    timeline       \* ghost: the entries that are done, and those undone since

vars == <<accepted, received, next_id, undo, redo, templates, timeline>>
share_vars == <<accepted, received>>
adder_vars == <<next_id, undo, redo, templates, timeline>>

Init ==
    /\ accepted = [c \in Clients |-> <<>>]
    /\ received = [c \in Clients |-> {}]
    /\ next_id = 1 /\ undo = <<>> /\ redo = <<>>
    /\ templates \in SUBSET DOMAIN Templates
    /\ timeline = [done |-> <<>>, undone |-> <<>>]

-------------------------------------------------------------------------------
(* Collaboration.                                                              *)

(* HashMap::insert().                                                          *)
Insert(map, key, value) == [k \in DOMAIN map \cup {key} |-> IF k = key THEN value ELSE map[k]]

EditOperation(op_id, timestamp_ms, node_id, change) ==
    [op_id |-> op_id, timestamp_ms |-> timestamp_ms, node_id |-> node_id, change |-> change]

(* The four NodeChange variants.  An edge is <<from, port, to, port>>.         *)
Move(p) == [is |-> "Move", position |-> p]

SetParameter(name, value) == [is |-> "SetParameter", name |-> name, value |-> value]

AddEdge(edge) == [is |-> "AddEdge", edge |-> edge]

RemoveEdge(edge) == [is |-> "RemoveEdge", edge |-> edge]

(* What an operation writes: additions and removals of one edge conflict,      *)
(* whatever node they name.                                                    *)
FieldKey(op) ==
    CASE op.change.is = "Move"         -> <<op.node_id, "position">>
      [] op.change.is = "SetParameter" -> <<op.node_id, "param", op.change.name>>
      [] op.change.is \in {"AddEdge", "RemoveEdge"} -> <<"edge", op.change.edge>>

NewerByTime(op, existing) == op.timestamp_ms >= existing.timestamp_ms

(* Last writer wins; op ids break ties.                                        *)
Newer(op, existing) ==
    \/ op.timestamp_ms > existing.timestamp_ms
    \/ op.timestamp_ms = existing.timestamp_ms /\ op.op_id > existing.op_id

(* apply() of the resolver of c.                                               *)
Apply(c, op) ==
    LET key == FieldKey(op)
    IN  /\ accepted' = IF key \in DOMAIN accepted[c] /\ ~Newer(op, accepted[c][key]) THEN accepted
                       ELSE [accepted EXCEPT ![c] = Insert(@, key, op)]
        /\ received' = [received EXCEPT ![c] = @ \cup {op}]
        /\ UNCHANGED adder_vars

-------------------------------------------------------------------------------
(* The node adder.                                                             *)

RegisterTemplate(t) ==
    /\ templates' = templates \cup {t}
    /\ UNCHANGED <<share_vars, next_id, undo, redo, timeline>>

PushKeepingAll(stack, entry) == Append(stack, entry)

(* UndoStack::push() drops the oldest entry of a full stack.                   *)
Push(stack, entry) == Append(IF Len(stack) = Capacity THEN Tail(stack) ELSE stack, entry)

Pushed(entry) ==
    /\ undo' = Push(undo, entry)
    /\ redo' = <<>>
    /\ timeline' = [done |-> Append(timeline.done, entry), undone |-> <<>>]

(* add_node(): the position is the request's or the template's.                *)
AddNode(t, position) ==
    /\ next_id <= MaxMoves
    /\ t \in templates
    /\ Pushed([is |-> "AddNode", node_id |-> next_id,
               position |-> IF position = None THEN Templates[t] ELSE position])
    /\ next_id' = next_id + 1
    /\ UNCHANGED <<share_vars, templates>>

Top(s) == s[Len(s)]

Pop(s) == SubSeq(s, 1, Len(s) - 1)

Undo ==
    /\ undo # <<>>
    /\ undo' = Pop(undo) /\ redo' = Append(redo, Top(undo))
    /\ timeline' = [done |-> Pop(timeline.done), undone |-> Append(timeline.undone, Top(timeline.done))]
    /\ UNCHANGED <<share_vars, next_id, templates>>

Redo ==
    /\ redo # <<>>
    /\ redo' = Pop(redo) /\ undo' = Append(undo, Top(redo))
    /\ timeline' = [done |-> Append(timeline.done, Top(timeline.undone)), undone |-> Pop(timeline.undone)]
    /\ UNCHANGED <<share_vars, next_id, templates>>

ShareNext == \E c \in Clients, op \in Ops : Apply(c, op)

AdderNext ==
    \/ \E t \in DOMAIN Templates : RegisterTemplate(t) \/ \E p \in Points \cup {None} : AddNode(t, p)
    \/ Undo \/ Redo

Next == ShareNext \/ AdderNext

Spec == Init /\ [][Next]_vars

-------------------------------------------------------------------------------
(* Two clients that have received the same operations, in whatever order and   *)
(* however often, have accepted the same ones; and a field that they both have *)
(* received all writes of is the same in both, whatever else they received.    *)
ClientsConverge ==
    \A c, d \in Clients : \A key \in {FieldKey(op) : op \in received[c]} :
        (\A op \in Ops : FieldKey(op) = key => (op \in received[c] <=> op \in received[d]))
        => /\ key \in DOMAIN accepted[c] /\ key \in DOMAIN accepted[d]
           /\ accepted[c][key] = accepted[d][key]

(* The undo stack holds the newest of the entries that are done, and with the  *)
(* redo stack never more than its capacity: to undo all and redo all returns   *)
(* to the same stack, whatever was dropped at its bottom in between.           *)
UndoHoldsNewest ==
    /\ Len(undo) + Len(redo) <= Capacity
    /\ redo = timeline.undone
    /\ undo = SubSeq(timeline.done, Len(timeline.done) - Len(undo) + 1, Len(timeline.done))
================================================================================
