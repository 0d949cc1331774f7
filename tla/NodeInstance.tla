------------------------------ MODULE NodeInstance ------------------------------
(* Templates and instances of ify-controller (node_instance.rs): a registry of *)
(* templates that are edited, cloned, forked, exported and imported, and the   *)
(* instances that are expanded from them.                                      *)
(*                                                                             *)
(* The registry is used through &mut: calls do not overlap.  Ids are naturals, *)
(* each new one the next.  A template keeps its parameters and the parameters  *)
(* of the nodes of its snapshot; graphs, names, tags, labels, positions,       *)
(* receipts and log entries are dropped.                                       *)
EXTENDS Integers, FiniteSets

CONSTANTS
    Params, Values, NodeIds,
    NodeParams,    \* parameters that the nodes of a snapshot have of their own
    MaxTemplates,  \* bound: templates made
    MaxInstances,  \* bound: instances made
    MaxEdits,      \* bound: edits of templates
    None

VARIABLES
    templates,     \* InstanceRegistry::templates
    instances,     \* InstanceRegistry::instances
    exported,      \* templates that a client holds as JSON
    made           \* the templates, instances and edits made so far

vars == <<templates, instances, exported, made>>

(* The three constructors of ParamSchema.                                      *)
Param(inheritance, default) == [inheritance |-> inheritance, default_value |-> default]

OverridableParam(v) == Param("Overridable", v)

FrozenParam(v) == Param("Frozen", v)

InstanceOnlyParam == Param("InstanceOnly", None)

ParamSchemas == {OverridableParam(v) : v \in Values} \cup {FrozenParam(v) : v \in Values}
                \cup {InstanceOnlyParam}

LockPolicy == {"Editable", "ReadOnly"}

NewTemplate(nodes) ==
    [version |-> 1, param_schema |-> <<>>, nodes |-> nodes, lock_policy |-> "Editable",
     forked_from |-> None, forked_from_version |-> None]

Put(f, k, v) == [x \in DOMAIN f \cup {k} |-> IF x = k THEN v ELSE f[x]]

(* `over` wins where both have a value.                                        *)
Merge(base, over) ==
    [p \in DOMAIN base \cup DOMAIN over |-> IF p \in DOMAIN over THEN over[p] ELSE base[p]]

Overrides == UNION {[ps -> Values] : ps \in SUBSET Params}

(* resolve_params(): which overrides it refuses, and what it returns.          *)
IgnoresFrozen(t, overrides) == t.lock_policy = "ReadOnly" => overrides = <<>>

Accepts(t, overrides) ==
    /\ t.lock_policy = "ReadOnly" => overrides = <<>>
    /\ \A p \in DOMAIN overrides \cap DOMAIN t.param_schema :
          t.param_schema[p].inheritance # "Frozen"

Defaults(t) ==
    [p \in {q \in DOMAIN t.param_schema : t.param_schema[q].default_value # None} |->
        t.param_schema[p].default_value]

ResolveParams(t, overrides) == Merge(Defaults(t), overrides)

(* migrate_params(): a downgrade is refused, anything else left as it is.      *)
MigrateParams(t, params, from) == IF from > t.version THEN "MigrationFailed" ELSE params

(* NodeInstance::expand(): a node's own parameters win over the resolved ones. *)
Expand(id, t, overrides) ==
    LET resolved == ResolveParams(t, overrides)
    IN  [template_id |-> id, template |-> t, overrides |-> overrides, resolved_params |-> resolved,
         nodes |-> [n \in NodeIds |-> Merge(resolved, t.nodes)]]

-------------------------------------------------------------------------------
AddTemplate(t) ==
    /\ made.templates < MaxTemplates
    /\ templates' = Put(templates, made.templates + 1, t)
    /\ made' = [made EXCEPT !.templates = @ + 1]
    /\ UNCHANGED <<instances, exported>>

RegisterTemplate(nodes) == AddTemplate(NewTemplate(nodes))

(* get_template_mut(): the client edits in place, and may forget the version.  *)
EditTemplate(id, t) ==
    /\ id \in DOMAIN templates /\ t # templates[id] /\ made.edits < MaxEdits
    /\ templates' = Put(templates, id, t)
    /\ made' = [made EXCEPT !.edits = @ + 1]
    /\ UNCHANGED <<instances, exported>>

BumpVersion(id) == EditTemplate(id, [templates[id] EXCEPT !.version = @ + 1])

SetLock(id, policy) == EditTemplate(id, [templates[id] EXCEPT !.lock_policy = policy])

WithParam(id, p, schema) ==
    EditTemplate(id, [templates[id] EXCEPT !.param_schema = Put(@, p, schema)])

RemoveTemplate(id) ==
    /\ id \in DOMAIN templates
    /\ templates' = [x \in DOMAIN templates \ {id} |-> templates[x]]
    /\ UNCHANGED <<instances, exported, made>>

Derived(id, version) ==
    [templates[id] EXCEPT !.version = version, !.lock_policy = "Editable",
                          !.forked_from = id, !.forked_from_version = templates[id].version]

(* A clone starts again at version 1, a fork goes on from its source's.        *)
CloneTemplate(id) == id \in DOMAIN templates /\ AddTemplate(Derived(id, 1))

ForkTemplate(id) == id \in DOMAIN templates /\ AddTemplate(Derived(id, templates[id].version))

Export(id) ==
    /\ id \in DOMAIN templates
    /\ exported' = Put(exported, id, templates[id])
    /\ UNCHANGED <<templates, instances, made>>

(* import_template() replaces the template of that id, newer or not.           *)
Import(id) ==
    /\ id \in DOMAIN exported
    /\ templates' = Put(templates, id, exported[id])
    /\ UNCHANGED <<instances, exported, made>>

Instantiate(id, overrides) ==
    /\ id \in DOMAIN templates /\ made.instances < MaxInstances
    /\ Accepts(templates[id], overrides)
    /\ instances' = Put(instances, made.instances + 1, Expand(id, templates[id], overrides))
    /\ made' = [made EXCEPT !.instances = @ + 1]
    /\ UNCHANGED <<templates, exported>>

RemoveInstance(i) ==
    /\ i \in DOMAIN instances
    /\ instances' = [x \in DOMAIN instances \ {i} |-> instances[x]]
    /\ UNCHANGED <<templates, exported, made>>

Init ==
    templates = <<>> /\ instances = <<>> /\ exported = <<>>
    /\ made = [templates |-> 0, instances |-> 0, edits |-> 0]

Next ==
    \/ \E n \in NodeParams : RegisterTemplate(n)
    \/ \E id \in DOMAIN templates :
          \/ BumpVersion(id) \/ RemoveTemplate(id) \/ CloneTemplate(id) \/ ForkTemplate(id) \/ Export(id)
          \/ \E p \in LockPolicy : SetLock(id, p)
          \/ \E p \in Params, s \in ParamSchemas : WithParam(id, p, s)
          \/ \E o \in Overrides : Instantiate(id, o)
    \/ \E id \in DOMAIN exported : Import(id)
    \/ \E i \in DOMAIN instances : RemoveInstance(i)

Spec == Init /\ [][Next]_vars

-------------------------------------------------------------------------------
(* Whatever is edited, replaced or removed later, an instance has the values   *)
(* that its template froze, none but those if the template was read-only, and  *)
(* its nodes have a value for every resolved parameter.  (resolve_params() and *)
(* expand(); `template` is the template as it was.)                            *)
FrozenHolds ==
    \A i \in DOMAIN instances :
        LET x == instances[i]  t == x.template IN
        /\ \A p \in DOMAIN t.param_schema :
              t.param_schema[p].inheritance = "Frozen" /\ t.param_schema[p].default_value # None
              => x.resolved_params[p] = t.param_schema[p].default_value
        /\ t.lock_policy = "ReadOnly" => x.resolved_params = Defaults(t)
        /\ \A n \in NodeIds : DOMAIN x.resolved_params \subseteq DOMAIN x.nodes[n]
=================================================================================
