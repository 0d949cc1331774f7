---------------------------------- MODULE Mesh ----------------------------------
(* The mesh artifact store of ify-controller (mesh.rs): artifacts, snapshots   *)
(* and patches of nodes, their index, node revisions, schemas, notifications,  *)
(* garbage collection, and replication between stores.                         *)
(*                                                                             *)
(* The maps of a store have a mutex each, and a call takes them one after the  *)
(* other: an action is what a thread does under one lock, and call[t] is what  *)
(* is left of its call.  Artifacts, snapshots and patches have distinct ids,   *)
(* so that `items` stands for the three maps.  Payloads, operations, time and  *)
(* log entries are dropped; `old` says that an item is before the GC cutoff.   *)
EXTENDS Integers, Sequences, FiniteSets, SequencesExt, FiniteSetsExt

CONSTANTS
    Stores, Threads, Nodes,
    Replicators,   \* the pairs <<source, target>> of the MeshReplicators
    Origins,       \* the stores that clients write to
    Drafts,        \* the artifacts that clients build
    FirstId,       \* ids from here on are those of snapshots and patches
    Schemas,       \* the pairs <<content type, version>> that clients register
    Requests,      \* the inputs of patch_with_revision()
    Policies,      \* garbage collection policies
    Filters,       \* filters of the subscription that each replicator follows
    Capacity,      \* of the broadcast channel
    MaxCalls,      \* bound: calls by clients
    None, Malformed

VARIABLES
    items,         \* artifacts, snapshots and patches of each store, by id
    index,         \* ArtifactIndex: the ids under each key, oldest first
    node_states,   \* revision and last ids of each node of each store
    schemas,       \* the versions in the registry of each store
    sent,          \* every notification of each store, in order of sending
    subs,          \* each replicator's MeshSubscription: filter, cursor, Lagged
    call,          \* what each thread has left to do
    calls,         \* calls made by clients so far
    lost           \* history: ids indexed again between two steps of a collection

vars == <<items, index, node_states, schemas, sent, subs, call, calls, lost>>

-------------------------------------------------------------------------------
(* Schemas: a version is a triple, or Malformed when it does not parse.        *)
DefaultSchema == <<"application/json", <<1, 0, 0>>>>

Validate(s, type, version) ==
    LET versions == {v[2] : v \in {w \in schemas[s] : w[1] = type}}
    IN  CASE version = Malformed -> "InvalidSchemaVersion"
          [] version # Malformed /\ version \in versions -> "Ok"
          [] OTHER -> IF version # Malformed /\ \E v \in versions : v[1] = version[1]
                      THEN "SchemaVersionMismatch" ELSE "SchemaNotRegistered"

(* What MeshArtifactBuilder makes; content type and version may be empty.      *)
MeshArtifact ==
    [id : Nat, dimension : STRING, task : STRING, node : Nodes \cup {None}, agent : STRING \cup {None},
     tags : Seq(STRING), content_type : STRING, version : (Nat \X Nat \X Nat) \cup {None, Malformed},
     tier : 0..2, old : BOOLEAN]

ASSUME MeshAssumption ==
    /\ Origins \subseteq Stores /\ Replicators \subseteq Stores \X Stores
    /\ FirstId \in Nat /\ MaxCalls \in Nat /\ Capacity \in Nat \ {0}
    /\ \A d \in Drafts : d \in MeshArtifact /\ d.id < FirstId
    /\ \A r \in Requests : r.node \in Nodes /\ r.expected \in Nat
    /\ None \notin Nodes

(* prepare_artifact(): defaults, and the tags as a set.                        *)
PrepareArtifact(d) ==
    [d EXCEPT !.content_type = IF @ = "" THEN DefaultSchema[1] ELSE @,
              !.version = IF @ = None THEN DefaultSchema[2] ELSE @,
              !.tags = ToSet(@)]

KeysOf(a) ==
    {<<"dimension", a.dimension>>, <<"task", a.task>>} \cup {<<"tag", t>> : t \in a.tags}
    \cup (IF a.node = None THEN {} ELSE {<<"node", a.node>>})
    \cup (IF a.agent = None THEN {} ELSE {<<"agent", a.agent>>})

Keys == UNION {KeysOf(PrepareArtifact(d)) : d \in Drafts}

IndexInsert(ix, a) == [k \in Keys |-> IF k \in KeysOf(a) THEN Append(ix[k], a.id) ELSE ix[k]]

IndexRemove(ix, gone) ==
    [k \in Keys |-> SelectSeq(ix[k], LAMBDA i : \A a \in gone : k \in KeysOf(a) => i # a.id)]

Put(f, k, v) == [x \in DOMAIN f \cup {k} |-> IF x = k THEN v ELSE f[x]]

MeshNodeState == [revision : Nat, last_artifact_id : Nat \cup {None},
                  last_snapshot_id : Nat \cup {None}, last_patch_id : Nat \cup {None}]

NewNodeState ==
    [revision |-> 0, last_artifact_id |-> None, last_snapshot_id |-> None, last_patch_id |-> None]

StateOf(s, n) == IF n \in DOMAIN node_states[s] THEN node_states[s][n] ELSE NewNodeState

CurrentRevision(s, n) == StateOf(s, n).revision

TouchNodeState(s, n, st) == node_states' = [node_states EXCEPT ![s] = Put(@, n, st)]

(* The locked section of produce(): the entries of the artifact that the id    *)
(* had before go first.                                                        *)
IndexAgain(ix, its, a) == IndexInsert(ix, a)

Reindex(ix, its, a) ==
    IndexInsert(IF a.id \in DOMAIN its THEN IndexRemove(ix, {its[a.id]}) ELSE ix, a)

-------------------------------------------------------------------------------
(* Notifications, and the subscription through which a replicator follows.    *)
Note(kind, ids, a) ==
    [kind |-> kind, ids |-> ids, dimension |-> a.dimension, task |-> a.task, node |-> a.node,
     tags |-> a.tags, content_type |-> a.content_type]

(* SubscriptionFilter::matches(); a filter has the fields that it asks about.  *)
Matches(filter, note) ==
    /\ \A f \in DOMAIN filter \ {"tag", "kinds"} : note[f] = filter[f]
    /\ "tag" \in DOMAIN filter => filter.tag \in note.tags
    /\ "kinds" \in DOMAIN filter => note.kind \in filter.kinds

Idle == [pc |-> "idle"]

Busy(t, c) == call' = [call EXCEPT ![t] = c]

(* A client starts a call.                                                     *)
Begin(t, s) ==
    call[t] = Idle /\ s \in Origins /\ calls < MaxCalls /\ calls' = calls + 1

(* notify(): the last step of a call, or of one round of a replication.        *)
Notify(t) ==
    LET c == call[t] IN
    /\ c.pc = "notify"
    /\ sent' = [sent EXCEPT ![c.store] = Append(@, c.note)]
    /\ Busy(t, c.then)
    /\ UNCHANGED <<items, index, node_states, schemas, subs, calls, lost>>

ToNotify(s, note, then) == [pc |-> "notify", store |-> s, note |-> note, then |-> then]

(* touch_node_state(), which writes the fields of c.set; a replicated item may *)
(* do so only if it is as recent as what the node has.                         *)
TouchIfNewer(c, st) == c.replica => c.set.revision > st.revision

TouchAllowed(c, st) == c.replica => c.set.revision >= st.revision

Touch(t) ==
    LET c == call[t]  st == StateOf(c.store, c.node) IN
    /\ c.pc = "touch"
    /\ TouchNodeState(c.store, c.node,
          IF TouchAllowed(c, st)
          THEN [f \in DOMAIN st |-> IF f \in DOMAIN c.set THEN c.set[f] ELSE st[f]] ELSE st)
    /\ Busy(t, ToNotify(c.store, c.note, c.then))
    /\ UNCHANGED <<items, index, schemas, sent, subs, calls, lost>>

(* What follows an insertion: a touch, unless the artifact has no node.        *)
AfterInsert(s, a, set, replica, note, then) ==
    IF a.node = None THEN ToNotify(s, note, then)
    ELSE [pc |-> "touch", store |-> s, node |-> a.node, set |-> set, replica |-> replica,
          note |-> note, then |-> then]

-------------------------------------------------------------------------------
RegisterSchema(t, s, schema) ==
    /\ Begin(t, s) /\ schema[2] # Malformed
    /\ schemas' = [schemas EXCEPT ![s] = @ \cup {schema}]
    /\ UNCHANGED <<items, index, node_states, sent, subs, call, lost>>

(* Ids that a collection has removed and not yet taken out of the index.       *)
Uncollected(s) ==
    UNION {{a.id : a \in call[t].removed} :
              t \in {u \in Threads : call[u].pc = "gc_index" /\ call[u].store = s}}

(* produce_batch(), and produce() as a batch of one artifact.                  *)
SameBatch(batch) ==
    \A i, j \in DOMAIN batch : \A f \in {"dimension", "task", "node", "content_type", "tags"} :
        batch[i][f] = batch[j][f]

Kept(a) ==
    [kind |-> "artifact", id |-> a.id, dimension |-> a.dimension, task |-> a.task, node |-> a.node,
     agent |-> a.agent, tags |-> a.tags, content_type |-> a.content_type, version |-> a.version,
     tier |-> a.tier, old |-> a.old, consumed |-> FALSE]

PutAll(its, arts) ==
    [i \in DOMAIN its \cup {arts[j].id : j \in DOMAIN arts} |->
        LET same == {j \in DOMAIN arts : arts[j].id = i}
        IN  IF same = {} THEN its[i] ELSE Kept(arts[Max(same)])]

ReindexAll(ix, its, arts) ==
    FoldLeft(LAMBDA acc, a : [ix |-> Reindex(acc.ix, acc.its, a), its |-> Put(acc.its, a.id, Kept(a))],
             [ix |-> ix, its |-> its], arts).ix

StoreBatch(t, s, batch, kind) ==
    LET arts == [i \in DOMAIN batch |-> PrepareArtifact(batch[i])]
        ids  == [i \in DOMAIN arts |-> arts[i].id]
    IN  /\ SameBatch(arts)
        /\ items' = [items EXCEPT ![s] = PutAll(@, arts)]
        /\ index' = [index EXCEPT ![s] = ReindexAll(@, items[s], arts)]
        /\ Busy(t, AfterInsert(s, arts[1], [last_artifact_id |-> Last(ids)], FALSE,
                               Note(kind, ids, arts[1]), Idle))
        /\ lost' = lost \cup ({s} \X (ToSet(ids) \cap Uncollected(s)))
        /\ UNCHANGED <<node_states, schemas, sent, subs>>

Produce(t, s, d) == Begin(t, s) /\ StoreBatch(t, s, <<d>>, "Produced")

ProduceValidated(t, s, d) ==
    /\ Begin(t, s)
    /\ LET a == PrepareArtifact(d) IN Validate(s, a.content_type, a.version) = "Ok"
    /\ StoreBatch(t, s, <<d>>, "Produced")

ProduceBatch(t, s, d, e) == Begin(t, s) /\ StoreBatch(t, s, <<d, e>>, "BatchProduced")

(* consume(): one locked section, notification and all.                        *)
Consume(t, s, id) ==
    /\ Begin(t, s)
    /\ id \in DOMAIN items[s] /\ items[s][id].kind = "artifact" /\ ~items[s][id].consumed
    /\ items' = [items EXCEPT ![s] = Put(@, id, [@[id] EXCEPT !.consumed = TRUE])]
    /\ sent' = [sent EXCEPT ![s] = Append(@, Note("Consumed", <<id>>, items[s][id]))]
    /\ UNCHANGED <<index, node_states, schemas, subs, call, lost>>

(* Snapshots and patches: the item has the fields that a notification needs.   *)
FreshId == FirstId + calls

NodeSnapshot(id, n, d, revision) ==
    [kind |-> "Snapshot", id |-> id, node |-> n, dimension |-> d, task |-> "t", tags |-> {},
     content_type |-> DefaultSchema[1], old |-> FALSE, revision |-> revision]

DiffPatch(id, n, d, base, conflict, origin) ==
    [kind |-> "Patch", id |-> id, node |-> n, dimension |-> d, task |-> "t", tags |-> {},
     content_type |-> DefaultSchema[1], old |-> FALSE, revision |-> base + 1,
     base_revision |-> base, conflict |-> conflict, origin |-> origin]

(* snapshot_node(): the revision is read first, the snapshot stored later.     *)
SnapshotNode(t, s, n, d) ==
    /\ Begin(t, s)
    /\ Busy(t, [pc |-> "store", store |-> s,
                item |-> NodeSnapshot(FreshId, n, d, CurrentRevision(s, n))])
    /\ UNCHANGED <<items, index, node_states, schemas, sent, subs, lost>>

(* patch() and force_patch() read the revision that they expect; a             *)
(* patch_with_revision() is given it, and advances at once.                    *)
Patch(t, s, n, d) ==
    /\ Begin(t, s)
    /\ Busy(t, [pc |-> "advance", store |-> s, expected |-> CurrentRevision(s, n),
                strategy |-> "LastWriteWins", id |-> FreshId, node |-> n, dimension |-> d])
    /\ UNCHANGED <<items, index, node_states, schemas, sent, subs, lost>>

PatchWithRevision(t, s, r) ==
    /\ Begin(t, s)
    /\ Busy(t, [pc |-> "advance", store |-> s, expected |-> r.expected,
                strategy |-> r.strategy, id |-> FreshId, node |-> r.node, dimension |-> r.dimension])
    /\ UNCHANGED <<items, index, node_states, schemas, sent, subs, lost>>

(* advance_revision(): the conflict test and the increment under one lock.  A  *)
(* rejected edit leaves the node's state, which it may have created.           *)
AdvanceFromExpected(c) == c.expected

AdvanceFrom(c) == CurrentRevision(c.store, c.node)

AdvanceRevision(t) ==
    LET c == call[t]  st == StateOf(c.store, c.node)
        base == AdvanceFrom(c)
        conflict == base # c.expected
        rejected == conflict /\ c.strategy = "Reject"
    IN  /\ c.pc = "advance"
        /\ TouchNodeState(c.store, c.node,
              IF rejected THEN st ELSE [st EXCEPT !.revision = base + 1, !.last_patch_id = c.id])
        /\ Busy(t, IF rejected THEN Idle
                   ELSE [pc |-> "store", store |-> c.store,
                         item |-> DiffPatch(c.id, c.node, c.dimension, base, conflict, c.store)])
        /\ UNCHANGED <<items, index, schemas, sent, subs, calls, lost>>

(* The insertion of snapshot_node(), and store_patch().                        *)
StoreItem(t) ==
    LET c == call[t]  note == Note(c.item.kind, <<c.item.id>>, c.item) IN
    /\ c.pc = "store"
    /\ items' = [items EXCEPT ![c.store] = Put(@, c.item.id, c.item)]
    /\ Busy(t, IF c.item.kind = "Patch" THEN ToNotify(c.store, note, Idle)
               ELSE AfterInsert(c.store, c.item, [last_snapshot_id |-> c.item.id], FALSE, note, Idle))
    /\ UNCHANGED <<index, node_states, schemas, sent, subs, calls, lost>>

-------------------------------------------------------------------------------
(* collect_garbage(): artifacts, their index entries, the pointers to them,    *)
(* the known nodes, snapshots, patches, each under a lock of its own.          *)
Inactive(p, i) == p.active_dimensions # {} /\ i.dimension \notin p.active_dimensions

Garbage(p, i, known) ==
    \/ p.expire /\ i.old
    \/ Inactive(p, i) /\ (i.kind = "artifact" => i.tier <= 1)
    \/ i.kind = "artifact" /\ p.remove_consumed_ephemeral /\ i.tier = 0 /\ i.consumed
    \/ i.kind = "Snapshot" /\ p.remove_orphaned_nodes /\ i.node \notin known

Retain(s, p, kind, known) ==
    LET gone == {i \in DOMAIN items[s] : items[s][i].kind = kind /\ Garbage(p, items[s][i], known)}
    IN  items' = [items EXCEPT ![s] = [i \in DOMAIN @ \ gone |-> @[i]]]

GcArtifacts(t, s, p) ==
    /\ Begin(t, s)
    /\ Retain(s, p, "artifact", {})
    /\ Busy(t, [pc |-> "gc_index", store |-> s, policy |-> p,
                removed |-> {items[s][i] : i \in DOMAIN items[s] \ DOMAIN items'[s]}])
    /\ UNCHANGED <<index, node_states, schemas, sent, subs, lost>>

GcIndex(t) ==
    LET c == call[t] IN
    /\ c.pc = "gc_index"
    /\ index' = [index EXCEPT ![c.store] = IndexRemove(@, c.removed)]
    /\ Busy(t, [c EXCEPT !.pc = "gc_states"])
    /\ UNCHANGED <<items, node_states, schemas, sent, subs, calls, lost>>

GcStates(t) ==
    LET c == call[t]
        dead(n, id) == \E a \in c.removed : a.node = n /\ a.id = id
    IN  /\ c.pc = "gc_states"
        /\ node_states' = [node_states EXCEPT ![c.store] =
              [n \in DOMAIN @ |-> IF dead(n, @[n].last_artifact_id)
                                  THEN [@[n] EXCEPT !.last_artifact_id = None] ELSE @[n]]]
        /\ Busy(t, [pc |-> "gc_known", store |-> c.store, policy |-> c.policy])
        /\ UNCHANGED <<items, index, schemas, sent, subs, calls, lost>>

GcKnown(t) ==
    LET c == call[t] IN
    /\ c.pc = "gc_known"
    /\ Busy(t, [pc |-> "gc_snapshots", store |-> c.store, policy |-> c.policy,
                known |-> DOMAIN node_states[c.store]])
    /\ UNCHANGED <<items, index, node_states, schemas, sent, subs, calls, lost>>

GcItems(t) ==
    LET c == call[t]  snaps == c.pc = "gc_snapshots" IN
    /\ c.pc \in {"gc_snapshots", "gc_patches"}
    /\ Retain(c.store, c.policy, IF snaps THEN "Snapshot" ELSE "Patch", c.known)
    /\ Busy(t, IF snaps THEN [c EXCEPT !.pc = "gc_patches"] ELSE Idle)
    /\ UNCHANGED <<index, node_states, schemas, sent, subs, calls, lost>>

-------------------------------------------------------------------------------
(* A follower of the source's notifications passes each to the replicator.     *)
(* MeshSubscription::recv(): what does not match is skipped; a receiver that   *)
(* falls behind the channel's capacity gets Lagged, and goes on at the oldest. *)
Recv(t, r) ==
    LET all == sent[r[1]]  sub == subs[r]
        oldest == IF Len(all) > Capacity THEN Len(all) - Capacity + 1 ELSE 1
        hits == {i \in sub.next..Len(all) : Matches(sub.filter, all[i])}
        at == IF hits = {} THEN Len(all) ELSE Min(hits)
    IN  /\ call[t] = Idle /\ sub.next <= Len(all)
        /\ IF sub.next < oldest
           THEN subs' = [subs EXCEPT ![r].next = oldest, ![r].lagged = TRUE] /\ UNCHANGED call
           ELSE /\ subs' = [subs EXCEPT ![r].next = at + 1]
                /\ IF hits = {} THEN UNCHANGED call
                   ELSE Busy(t, [pc |-> "replicate", pair |-> r, kind |-> all[at].kind,
                                 ids |-> all[at].ids])
        /\ UNCHANGED <<items, index, node_states, schemas, sent, calls, lost>>

(* replicate_notification(), one id at a time: the item is read from the       *)
(* source and inserted in the target.  The first error ends the call.          *)
KindWanted(kind, i) ==
    CASE kind \in {"Snapshot", "Patch"} -> i.kind = kind
      [] kind = "Replicated" -> TRUE
      [] OTHER -> i.kind = "artifact"

Replicate(t) ==
    LET c == call[t]  source == items[c.pair[1]]  id == Head(c.ids)
        found == id \in DOMAIN source /\ KindWanted(c.kind, source[id])
    IN  /\ c.pc = "replicate"
        /\ Busy(t, IF found THEN [pc |-> "insert", pair |-> c.pair, kind |-> c.kind,
                                  ids |-> c.ids, item |-> source[id]]
                   ELSE Idle)
        /\ UNCHANGED <<items, index, node_states, schemas, sent, subs, calls, lost>>

Continue(c) ==
    IF Len(c.ids) = 1 THEN Idle
    ELSE [pc |-> "replicate", pair |-> c.pair, kind |-> c.kind, ids |-> Tail(c.ids)]

(* insert_replicated_artifact() touches the node under the artifacts' lock.    *)
InsertReplicatedArtifact(t) ==
    LET c == call[t]  s == c.pair[2]  a == c.item
        note == Note("Replicated", <<a.id>>, a)
    IN  /\ c.pc = "insert" /\ a.kind = "artifact"
        /\ \/ /\ a.id \in DOMAIN items[s]      \* AlreadyExists
              /\ Busy(t, Idle)
              /\ UNCHANGED <<items, index, node_states, lost>>
           \/ /\ a.id \notin DOMAIN items[s]
              /\ items' = [items EXCEPT ![s] = Put(@, a.id, a)]
              /\ index' = [index EXCEPT ![s] = IndexInsert(@, a)]
              /\ IF a.node = None THEN UNCHANGED node_states
                 ELSE TouchNodeState(s, a.node, [StateOf(s, a.node) EXCEPT !.last_artifact_id = a.id])
              /\ Busy(t, ToNotify(s, note, Continue(c)))
              /\ lost' = lost \cup ({s} \X ({a.id} \cap Uncollected(s)))
        /\ UNCHANGED <<schemas, sent, subs, calls>>

(* insert_replicated_snapshot() and insert_replicated_patch().                 *)
InsertReplicatedItem(t) ==
    LET c == call[t]  s == c.pair[2]  i == c.item
        field == IF i.kind = "Patch" THEN "last_patch_id" ELSE "last_snapshot_id"
        set == [f \in {field, "revision"} |-> IF f = "revision" THEN i.revision ELSE i.id]
        fresh == i.id \notin DOMAIN items[s]
    IN  /\ c.pc = "insert" /\ i.kind # "artifact"
        /\ items' = IF fresh THEN [items EXCEPT ![s] = Put(@, i.id, i)] ELSE items
        /\ Busy(t, IF fresh THEN AfterInsert(s, i, set, TRUE, Note("Replicated", <<i.id>>, i), Continue(c))
                   ELSE Idle)
        /\ UNCHANGED <<index, node_states, schemas, sent, subs, calls, lost>>

-------------------------------------------------------------------------------
Init ==
    /\ items = [s \in Stores |-> <<>>]
    /\ index = [s \in Stores |-> [k \in Keys |-> <<>>]]
    /\ node_states = [s \in Stores |-> <<>>]
    /\ schemas = [s \in Stores |-> {DefaultSchema}]
    /\ sent = [s \in Stores |-> <<>>]
    /\ \E f \in Filters : subs = [r \in Replicators |-> [filter |-> f, next |-> 1, lagged |-> FALSE]]
    /\ call = [t \in Threads |-> Idle]
    /\ calls = 0 /\ lost = {}

ClientStep(t, s) ==
    \/ \E x \in Schemas : RegisterSchema(t, s, x)
    \/ \E d \in Drafts : Produce(t, s, d)
    \/ \E d \in Drafts : ProduceValidated(t, s, d)
    \/ \E d, e \in Drafts : ProduceBatch(t, s, d, e)
    \/ \E id \in DOMAIN items[s] : Consume(t, s, id)
    \/ \E n \in Nodes, d \in {a.dimension : a \in Drafts} :
          SnapshotNode(t, s, n, d) \/ Patch(t, s, n, d)
    \/ \E r \in Requests : PatchWithRevision(t, s, r)
    \/ \E p \in Policies : GcArtifacts(t, s, p)

CallStep(t) ==
    \/ Touch(t) \/ Notify(t) \/ AdvanceRevision(t) \/ StoreItem(t)
    \/ GcIndex(t) \/ GcStates(t) \/ GcKnown(t) \/ GcItems(t)
    \/ Replicate(t) \/ InsertReplicatedArtifact(t) \/ InsertReplicatedItem(t)

Next ==
    \E t \in Threads :
        \/ \E s \in Stores : ClientStep(t, s)
        \/ \E r \in Replicators : Recv(t, r)
        \/ CallStep(t)

Spec == Init /\ [][Next]_vars

-------------------------------------------------------------------------------
(* The index agrees with the artifacts, whatever calls interleave: each        *)
(* artifact is once under each of its keys, and nothing else is, apart from    *)
(* what a collection is about to take out.  (ArtifactIndex; an id produced     *)
(* again in the middle of its own collection is the exception that the         *)
(* separate locks of collect_garbage() allow.)                                 *)
IndexExact ==
    \A s \in Stores, k \in Keys :
        LET safe == {i \in DOMAIN items[s] : items[s][i].kind = "artifact"} \ {x[2] : x \in lost}
            ids == SelectSeq(index[s][k], LAMBDA i : <<s, i>> \notin lost)
            held == {i \in safe : k \in KeysOf(items[s][i])}
        IN  IsInjective(ids) /\ held \subseteq ToSet(ids) /\ ToSet(ids) \ held \subseteq Uncollected(s)

(* Two edits made through one store never get the same revision, however their *)
(* reads and writes interleave, and a node is never behind a patch or snapshot *)
(* that its store holds, once that has been recorded.  (advance_revision() and *)
(* the comparison in insert_replicated_*().)                                   *)
RevisionsHold ==
    \A s \in Stores :
        LET held == {i \in DOMAIN items[s] : items[s][i].kind # "artifact"}
            mine == {i \in held : items[s][i].kind = "Patch" /\ items[s][i].origin = s}
            recording == {call[t].note.ids[1] : t \in {u \in Threads : call[u].pc = "touch"}}
        IN  /\ \A i, j \in mine : items[s][i].node = items[s][j].node /\ i # j
                                  => items[s][i].revision # items[s][j].revision
            /\ \A i \in held \ recording : items[s][i].revision <= CurrentRevision(s, items[s][i].node)

(* A store that only follows another one reaches its revisions and its latest  *)
(* patches, in whatever order the items come, if no notification was filtered  *)
(* out or lost to lag and nothing was collected on the way.  What artifacts it *)
(* has, and what a batch left undone, is not compared.  (MeshReplicator.)      *)
ReplicaConverges ==
    \A r \in Replicators :
        (/\ \A t \in Threads : call[t] = Idle
         /\ r[2] \notin Origins /\ subs[r].next > Len(sent[r[1]])
         /\ ~subs[r].lagged /\ subs[r].filter = <<>>
         /\ \A i \in DOMAIN sent[r[1]] : ToSet(sent[r[1]][i].ids) \subseteq DOMAIN items[r[1]])
        => \A n \in Nodes : /\ CurrentRevision(r[2], n) = CurrentRevision(r[1], n)
                            /\ StateOf(r[2], n).last_patch_id = StateOf(r[1], n).last_patch_id
=================================================================================
