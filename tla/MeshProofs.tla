------------------------------- MODULE MeshProofs -------------------------------
(***************************************************************************)
(* Proofs about the revisions in Mesh: for any stores, any replicators     *)
(* between them (cycles too), any threads, nodes, drafts, requests,        *)
(* policies and filters, and any number of calls.                          *)
(***************************************************************************)
EXTENDS Mesh, TLAPS

(* The state of a node has a revision.                                        *)
StateFields == {"revision", "last_artifact_id", "last_snapshot_id", "last_patch_id"}

StatesSound ==
    /\ DOMAIN node_states = Stores
    /\ \A s \in Stores : \A n \in DOMAIN node_states[s] :
          /\ DOMAIN node_states[s][n] = StateFields
          /\ node_states[s][n].revision \in Nat

(* What a thread is in the middle of: only a replicated item may write a      *)
(* revision, and after a notification a thread is idle or goes on with its    *)
(* replication.                                                               *)
GcSteps == {"gc_index", "gc_states", "gc_known", "gc_snapshots", "gc_patches"}

GoesOn(c) == c.pc = "idle" \/ (c.pc = "replicate" /\ c.pair \in Replicators)

CallForm(c) ==
    /\ GoesOn(c) \/ c.pc \in {"advance", "store", "insert", "touch", "notify"} \cup GcSteps
    /\ c.pc \in {"advance", "store", "touch", "notify"} => c.store \in Stores
    /\ c.pc \in GcSteps => c.store \in Stores /\ {"pc", "store", "policy"} \subseteq DOMAIN c
    /\ c.pc = "advance" => c.node \in Nodes
    /\ c.pc = "store" => c.item.kind # "artifact"
    /\ c.pc = "insert" => c.pair \in Replicators
    /\ c.pc \in {"touch", "notify"} => GoesOn(c.then)
    /\ c.pc = "touch" => /\ c.replica \in BOOLEAN
                         /\ c.replica => "revision" \in DOMAIN c.set /\ c.set.revision \in Nat
                         /\ ~c.replica => "revision" \notin DOMAIN c.set

(* A thread that is about to store an item has its revision from that store.  *)
CallsSound ==
    /\ DOMAIN call = Threads
    /\ \A t \in Threads :
          /\ CallForm(call[t])
          /\ call[t].pc = "store"
               => call[t].item.revision <= CurrentRevision(call[t].store, call[t].item.node)

(* The items that are in a store, or that a thread carries to one.            *)
Carries(c) == c.pc \in {"store", "insert"}

Held(s) == {items[s][i] : i \in DOMAIN items[s]}

Carried == {call[t].item : t \in {u \in Threads : Carries(call[u])}}

Known == (UNION {Held(s) : s \in Stores}) \cup Carried

NodeForm(p) ==
    /\ p.kind \in {"Snapshot", "Patch"} /\ p.node \in Nodes /\ p.revision \in Nat
    /\ p.kind = "Patch" => p.origin \in Stores

(* No patch, wherever it is, is ahead of the store that made it.              *)
KnownSound ==
    \A p \in Known :
        /\ "kind" \in DOMAIN p
        /\ p.kind # "artifact" => NodeForm(p)
        /\ p.kind = "Patch" => p.revision <= CurrentRevision(p.origin, p.node)

(* Edits of a node through one store have different revisions, wherever they  *)
(* have been copied to.                                                       *)
SameEdit(p, q) ==
    /\ p.kind = "Patch" /\ q.kind = "Patch"
    /\ p.origin = q.origin /\ p.node = q.node /\ p.revision = q.revision

EditsDiffer == \A p, q \in Known : SameEdit(p, q) => p.id = q.id

(* A call that is about to record the item in the state of its node.          *)
Records(c, s, p) ==
    /\ c.pc = "touch" /\ c.store = s /\ c.node = p.node /\ c.replica = TRUE
    /\ c.set.revision = p.revision /\ c.note.ids[1] = p.id

HeldSound ==
    /\ DOMAIN items = Stores
    /\ \A s \in Stores : \A i \in DOMAIN items[s] :
          items[s][i].kind # "artifact" =>
             /\ items[s][i].id = i
             /\ \/ items[s][i].revision <= CurrentRevision(s, items[s][i].node)
                \/ \E t \in Threads : Records(call[t], s, items[s][i])

(* The inductive invariant.                                                   *)
MeshInv == StatesSound /\ CallsSound /\ KnownSound /\ EditsDiffer /\ HeldSound

-----------------------------------------------------------------------------
(***************************************************************************)
(* What every step does: the revisions rise, one thread moves, and what it *)
(* carries or stores was known, or is a patch later than all others.       *)
(***************************************************************************)
RevisionAfter(s, n) ==
    (IF n \in DOMAIN node_states'[s] THEN node_states'[s][n] ELSE NewNodeState).revision

Rises == \A s \in Stores, n \in Nodes : CurrentRevision(s, n) <= RevisionAfter(s, n)

NewItem(p) ==
    /\ "kind" \in DOMAIN p /\ NodeForm(p)
    /\ p.kind = "Patch" =>
          /\ p.revision <= RevisionAfter(p.origin, p.node)
          /\ \A q \in Known : ~SameEdit(p, q)

CallMoves(t) ==
    /\ DOMAIN call' = Threads
    /\ \A u \in Threads \ {t} : call'[u] = call[u]
    /\ CallForm(call'[t])
    /\ Carries(call'[t]) => call'[t].item \in Known \/ NewItem(call'[t].item)
    /\ call'[t].pc = "store"
         => call'[t].item.revision <= RevisionAfter(call'[t].store, call'[t].item.node)
    /\ call[t].pc = "touch" /\ call[t].replica = TRUE
         => call[t].set.revision <= RevisionAfter(call[t].store, call[t].node)

ItemsKept(t) ==
    /\ DOMAIN items' = Stores
    /\ \A s \in Stores : \A i \in DOMAIN items'[s] :
          /\ "kind" \in DOMAIN items'[s][i]
          /\ items'[s][i].kind # "artifact" =>
                /\ items'[s][i].id = i /\ items'[s][i] \in Known
                /\ \/ i \in DOMAIN items[s] /\ items'[s][i] = items[s][i]
                   \/ items'[s][i].revision <= RevisionAfter(s, items'[s][i].node)
                   \/ Records(call'[t], s, items'[s][i])

(* Revisions are natural numbers.                                             *)
LEMMA RevisionTyped ==
    ASSUME StatesSound, NEW s \in Stores, NEW n
    PROVE  /\ DOMAIN StateOf(s, n) = StateFields
           /\ StateOf(s, n).revision \in Nat
           /\ CurrentRevision(s, n) = StateOf(s, n).revision
  BY DEF StatesSound, StateOf, NewNodeState, StateFields, CurrentRevision

LEMMA AfterTyped ==
    ASSUME StatesSound', NEW s \in Stores, NEW n
    PROVE  RevisionAfter(s, n) \in Nat
  BY DEF StatesSound, RevisionAfter, NewNodeState

(* A known item is in a store or with a thread.                               *)
LEMMA KnownWhere ==
    /\ \A s \in Stores : \A i \in DOMAIN items[s] : items[s][i] \in Known
    /\ \A t \in Threads : Carries(call[t]) => call[t].item \in Known
<1>1. \A s \in Stores : \A i \in DOMAIN items[s] : items[s][i] \in Held(s)
  BY DEF Held
<1>2. \A t \in Threads : Carries(call[t]) => call[t].item \in Carried
  BY DEF Carried
<1>3. \A s \in Stores : Held(s) \subseteq UNION {Held(r) : r \in Stores}
  OBVIOUS
<1> QED BY <1>1, <1>2, <1>3 DEF Known

LEMMA KnownAfter ==
    ASSUME NEW p \in Known'
    PROVE  \/ \E s \in Stores : \E i \in DOMAIN items'[s] : p = items'[s][i]
           \/ \E t \in Threads : Carries(call'[t]) /\ p = call'[t].item
<1>1. p \in UNION {{items'[s][i] : i \in DOMAIN items'[s]} : s \in Stores} \/ p \in Carried'
  BY DEF Known, Held
<1>2. CASE p \in UNION {{items'[s][i] : i \in DOMAIN items'[s]} : s \in Stores}
  <2>1. PICK s \in Stores : p \in {items'[s][i] : i \in DOMAIN items'[s]}
    BY <1>2
  <2> QED BY <2>1
<1>3. CASE p \in Carried'
  BY <1>3 DEF Carried, Carries
<1> QED BY <1>1, <1>2, <1>3

(* Such a step keeps the invariant.                                           *)
LEMMA MeshKeeps ==
    ASSUME MeshInv, NEW t \in Threads, StatesSound', Rises, CallMoves(t), ItemsKept(t)
    PROVE  MeshInv'
<1>0. /\ \A s \in Stores, n \in Nodes :
            /\ CurrentRevision(s, n) \in Nat /\ RevisionAfter(s, n) \in Nat
            /\ CurrentRevision(s, n) <= RevisionAfter(s, n)
  BY RevisionTyped, AfterTyped DEF MeshInv, Rises
<1>00. \A s \in Stores, n \in Nodes : CurrentRevision(s, n)' = RevisionAfter(s, n)
  BY DEF CurrentRevision, StateOf, RevisionAfter, NewNodeState
<1>1. \A p \in Known' :
         \/ p \in Known
         \/ "kind" \in DOMAIN p /\ p.kind = "artifact"
         \/ Carries(call'[t]) /\ p = call'[t].item /\ NewItem(p)
  <2> SUFFICES ASSUME NEW p \in Known'
               PROVE  \/ p \in Known
                      \/ "kind" \in DOMAIN p /\ p.kind = "artifact"
                      \/ Carries(call'[t]) /\ p = call'[t].item /\ NewItem(p)
    OBVIOUS
  <2>1. CASE \E s \in Stores : \E i \in DOMAIN items'[s] : p = items'[s][i]
    BY <2>1 DEF ItemsKept
  <2>2. CASE \E u \in Threads : Carries(call'[u]) /\ p = call'[u].item
    <3>1. PICK u \in Threads : Carries(call'[u]) /\ p = call'[u].item
      BY <2>2
    <3>2. CASE u = t
      BY <3>1, <3>2 DEF CallMoves
    <3>3. CASE u # t
      BY <3>1, <3>3, KnownWhere DEF CallMoves
    <3> QED BY <3>2, <3>3
  <2> QED BY <2>1, <2>2, KnownAfter
<1>2. KnownSound'
  <2> SUFFICES ASSUME NEW p \in Known'
               PROVE  /\ "kind" \in DOMAIN p
                      /\ p.kind # "artifact" => NodeForm(p)
                      /\ p.kind = "Patch" => p.revision <= RevisionAfter(p.origin, p.node)
    <3>1. ASSUME NEW p \in Known', p.kind = "Patch", NodeForm(p)
          PROVE  CurrentRevision(p.origin, p.node)' = RevisionAfter(p.origin, p.node)
      BY <1>00, <3>1 DEF NodeForm
    <3> QED BY <3>1 DEF KnownSound
  <2>1. CASE p \in Known
    <3>1. /\ "kind" \in DOMAIN p
          /\ p.kind # "artifact" => NodeForm(p)
          /\ p.kind = "Patch" => p.revision <= CurrentRevision(p.origin, p.node)
      BY <2>1 DEF MeshInv, KnownSound
    <3>2. p.kind = "Patch" => p.origin \in Stores /\ p.node \in Nodes /\ p.revision \in Nat
      BY <3>1 DEF NodeForm
    <3> QED BY <1>0, <3>1, <3>2
  <2>2. CASE "kind" \in DOMAIN p /\ p.kind = "artifact"
    BY <2>2
  <2>3. CASE NewItem(p)
    BY <2>3 DEF NewItem
  <2> QED BY <1>1, <2>1, <2>2, <2>3
<1>3. EditsDiffer'
  <2> SUFFICES ASSUME NEW p \in Known', NEW q \in Known', SameEdit(p, q)
               PROVE  p.id = q.id
    BY DEF EditsDiffer
  <2>1. p.kind = "Patch" /\ q.kind = "Patch" /\ SameEdit(q, p)
    BY DEF SameEdit
  <2>2. CASE p \in Known /\ q \in Known
    BY <2>2 DEF MeshInv, EditsDiffer
  <2>3. CASE p \in Known /\ NewItem(q)
    BY <2>1, <2>3 DEF NewItem
  <2>4. CASE NewItem(p) /\ q \in Known
    BY <2>1, <2>4 DEF NewItem
  <2>5. CASE p = call'[t].item /\ q = call'[t].item
    BY <2>5
  <2> QED BY <1>1, <2>1, <2>2, <2>3, <2>4, <2>5
<1>4. \A p \in Known : p.kind # "artifact" => p.node \in Nodes /\ p.revision \in Nat
  BY DEF MeshInv, KnownSound, NodeForm
<1>5. CallsSound'
  <2>1. \A u \in Threads : CallForm(call'[u])
    BY DEF MeshInv, CallsSound, CallMoves
  <2>2. ASSUME NEW u \in Threads, call'[u].pc = "store"
        PROVE  call'[u].item.revision <= CurrentRevision(call[u].store, call[u].item.node)'
    <3>1. call'[u].store \in Stores /\ call'[u].item.kind # "artifact" /\ Carries(call'[u])
      BY <2>1, <2>2 DEF CallForm, Carries
    <3>2. call'[u].item \in Known \/ NewItem(call'[u].item)
      BY <3>1, KnownWhere DEF CallMoves
    <3>3. call'[u].item.node \in Nodes /\ call'[u].item.revision \in Nat
      BY <1>4, <3>1, <3>2 DEF NewItem, NodeForm
    <3>4. call'[u].item.revision <= RevisionAfter(call'[u].store, call'[u].item.node)
      <4>1. CASE u = t
        BY <2>2, <4>1 DEF CallMoves
      <4>2. CASE u # t
        <5>1. call'[u] = call[u]
          BY <4>2 DEF CallMoves
        <5>2. call[u].item.revision <= CurrentRevision(call[u].store, call[u].item.node)
          BY <2>2, <5>1 DEF MeshInv, CallsSound
        <5> QED BY <1>0, <3>1, <3>3, <5>1, <5>2
      <4> QED BY <4>1, <4>2
    <3> QED BY <1>00, <3>1, <3>3, <3>4 DEF CurrentRevision, StateOf, RevisionAfter, NewNodeState
  <2> QED BY <2>1, <2>2 DEF CallsSound, CallMoves
<1>6. HeldSound'
  <2> SUFFICES ASSUME NEW s \in Stores, NEW i \in DOMAIN items'[s], items'[s][i].kind # "artifact"
               PROVE  /\ items'[s][i].id = i
                      /\ \/ items'[s][i].revision <= RevisionAfter(s, items'[s][i].node)
                         \/ \E u \in Threads : Records(call'[u], s, items'[s][i])
    BY DEF HeldSound, ItemsKept, CurrentRevision, StateOf, RevisionAfter, NewNodeState
  <2> DEFINE p == items'[s][i]
  <2>1. /\ p.id = i /\ p \in Known
        /\ \/ i \in DOMAIN items[s] /\ p = items[s][i]
           \/ p.revision <= RevisionAfter(s, p.node)
           \/ Records(call'[t], s, p)
    BY DEF ItemsKept
  <2>2. p.node \in Nodes /\ p.revision \in Nat
    BY <1>4, <2>1
  <2>3. CASE i \in DOMAIN items[s] /\ p = items[s][i]
    <3>1. \/ p.revision <= CurrentRevision(s, p.node)
          \/ \E u \in Threads : Records(call[u], s, p)
      BY <2>3 DEF MeshInv, HeldSound
    <3>2. CASE p.revision <= CurrentRevision(s, p.node)
      BY <1>0, <2>1, <2>2, <3>2
    <3>3. ASSUME NEW u \in Threads, Records(call[u], s, p)
          PROVE  \/ p.revision <= RevisionAfter(s, p.node)
                 \/ \E v \in Threads : Records(call'[v], s, p)
      <4>1. CASE u = t
        BY <3>3, <4>1 DEF Records, CallMoves
      <4>2. CASE u # t
        BY <3>3, <4>2 DEF CallMoves
      <4> QED BY <4>1, <4>2
    <3> QED BY <2>1, <3>1, <3>2, <3>3
  <2> QED BY <2>1, <2>3
<1> QED BY <1>2, <1>3, <1>5, <1>6 DEF MeshInv

-----------------------------------------------------------------------------
(* The parts of a step that leave things as they are.                         *)
LEMMA StatesSame ==
    ASSUME StatesSound, node_states' = node_states
    PROVE  StatesSound' /\ Rises
<1>1. \A s \in Stores, n \in Nodes :
         CurrentRevision(s, n) = RevisionAfter(s, n) /\ CurrentRevision(s, n) \in Nat
  BY RevisionTyped DEF CurrentRevision, StateOf, RevisionAfter
<1>2. StatesSound'
  BY DEF StatesSound
<1> QED BY <1>1, <1>2 DEF Rises

(* A store may lose items and get artifacts.                                  *)
LEMMA ItemsFewer ==
    ASSUME MeshInv, NEW t \in Threads, DOMAIN items' = Stores,
           \A s \in Stores : \A i \in DOMAIN items'[s] :
              \/ "kind" \in DOMAIN items'[s][i] /\ items'[s][i].kind = "artifact"
              \/ i \in DOMAIN items[s] /\ items'[s][i] = items[s][i]
    PROVE  ItemsKept(t)
  BY KnownWhere DEF MeshInv, KnownSound, HeldSound, ItemsKept

LEMMA ItemsSame ==
    ASSUME MeshInv, NEW t \in Threads, items' = items
    PROVE  ItemsKept(t)
  BY ItemsFewer DEF MeshInv, HeldSound

(* A store gets one item.                                                     *)
PutInto(s, k, v) == items' = [items EXCEPT ![s] = Put(@, k, v)]

Gets(s, k, v) ==
    /\ DOMAIN items' = Stores
    /\ \A r \in Stores : \A i \in DOMAIN items'[r] :
          \/ r = s /\ i = k /\ items'[r][i] = v
          \/ i \in DOMAIN items[r] /\ items'[r][i] = items[r][i]

LEMMA PutItem ==
    ASSUME DOMAIN items = Stores, NEW s \in Stores, NEW k, NEW v, PutInto(s, k, v)
    PROVE  Gets(s, k, v)
  BY DEF Put, PutInto, Gets

(* The item that it gets was known, and is recorded or about to be.           *)
LEMMA PutKeeps ==
    ASSUME MeshInv, NEW t \in Threads, NEW s \in Stores, NEW p \in Known,
           Gets(s, p.id, p),
           \/ p.kind = "artifact"
           \/ p.revision <= RevisionAfter(s, p.node)
           \/ Records(call'[t], s, p)
    PROVE  ItemsKept(t)
<1>1. "kind" \in DOMAIN p
  BY DEF MeshInv, KnownSound
<1> SUFFICES ASSUME NEW r \in Stores, NEW i \in DOMAIN items'[r]
             PROVE  /\ "kind" \in DOMAIN items'[r][i]
                    /\ items'[r][i].kind # "artifact" =>
                          /\ items'[r][i].id = i /\ items'[r][i] \in Known
                          /\ \/ i \in DOMAIN items[r] /\ items'[r][i] = items[r][i]
                             \/ items'[r][i].revision <= RevisionAfter(r, items'[r][i].node)
                             \/ Records(call'[t], r, items'[r][i])
  BY DEF ItemsKept, Gets
<1>2. CASE r = s /\ i = p.id /\ items'[r][i] = p
  BY <1>1, <1>2
<1>3. CASE i \in DOMAIN items[r] /\ items'[r][i] = items[r][i]
  BY <1>3, KnownWhere DEF MeshInv, KnownSound, HeldSound
<1> QED BY <1>2, <1>3 DEF Gets

(* A collection only takes items out.                                         *)
LEMMA RetainKeeps ==
    ASSUME MeshInv, NEW t \in Threads, NEW s \in Stores, NEW p, NEW kind, NEW known,
           Retain(s, p, kind, known)
    PROVE  ItemsKept(t)
<1> DEFINE gone == {i \in DOMAIN items[s] : items[s][i].kind = kind /\ Garbage(p, items[s][i], known)}
<1>1. DOMAIN items = Stores
  BY DEF MeshInv, HeldSound
<1>2. items' = [items EXCEPT ![s] = [i \in DOMAIN items[s] \ gone |-> items[s][i]]]
  BY <1>1 DEF Retain
<1> HIDE DEF gone
<1>3. /\ DOMAIN items' = Stores
      /\ \A r \in Stores : \A i \in DOMAIN items'[r] :
            i \in DOMAIN items[r] /\ items'[r][i] = items[r][i]
  BY <1>1, <1>2
<1> QED BY <1>3, ItemsFewer

(* A thread that is not recording goes on to c.                               *)
LEMMA BusyMoves ==
    ASSUME MeshInv, NEW t \in Threads, NEW c, Busy(t, c), call[t].pc # "touch", CallForm(c),
           Carries(c) => c.item \in Known \/ NewItem(c.item),
           c.pc = "store" => c.item.revision <= RevisionAfter(c.store, c.item.node)
    PROVE  CallMoves(t)
<1>1. DOMAIN call = Threads
  BY DEF MeshInv, CallsSound
<1>2. call'[t] = c /\ DOMAIN call' = Threads /\ \A u \in Threads \ {t} : call'[u] = call[u]
  BY <1>1 DEF Busy
<1> QED BY <1>2 DEF CallMoves

(* It stays where it is, or it takes nothing along.                           *)
LEMMA IdleStays ==
    ASSUME MeshInv, NEW t \in Threads, call[t] = Idle, call' = call
    PROVE  CallMoves(t)
<1>1. call'[t].pc = "idle" /\ call[t].pc = "idle" /\ DOMAIN call' = Threads
  BY DEF Idle, MeshInv, CallsSound
<1>2. CallForm(call'[t])
  BY DEF MeshInv, CallsSound
<1> QED BY <1>1, <1>2 DEF CallMoves, Carries

LEMMA LightMoves ==
    ASSUME MeshInv, NEW t \in Threads, NEW c, Busy(t, c), call[t].pc # "touch", CallForm(c),
           ~Carries(c)
    PROVE  CallMoves(t)
<1>1. c.pc # "store"
  BY DEF Carries
<1> QED BY <1>1, BusyMoves

(* The forms of the calls.                                                    *)
LEMMA IdleForm == CallForm(Idle) /\ GoesOn(Idle) /\ ~Carries(Idle)
  BY DEF Idle, CallForm, GoesOn, Carries, GcSteps

LEMMA NotifyForm ==
    ASSUME NEW s \in Stores, NEW note, NEW then, GoesOn(then)
    PROVE  CallForm(ToNotify(s, note, then)) /\ ~Carries(ToNotify(s, note, then))
  BY DEF ToNotify, CallForm, GoesOn, Carries, GcSteps

LEMMA AfterInsertForm ==
    ASSUME NEW s \in Stores, NEW a, NEW set, NEW replica \in BOOLEAN, NEW note, NEW then,
           GoesOn(then),
           replica => "revision" \in DOMAIN set /\ set.revision \in Nat,
           ~replica => "revision" \notin DOMAIN set
    PROVE  /\ CallForm(AfterInsert(s, a, set, replica, note, then))
           /\ ~Carries(AfterInsert(s, a, set, replica, note, then))
<1>1. CASE a.node = None
  BY <1>1, NotifyForm DEF AfterInsert
<1>2. CASE a.node # None
  <2> DEFINE c == [pc |-> "touch", store |-> s, node |-> a.node, set |-> set, replica |-> replica,
                   note |-> note, then |-> then]
  <2>1. /\ c.pc = "touch" /\ c.store = s /\ c.set = set /\ c.replica = replica /\ c.then = then
    OBVIOUS
  <2> HIDE DEF c
  <2>2. CallForm(c) /\ ~Carries(c)
    BY <2>1 DEF CallForm, Carries, GcSteps
  <2> QED BY <1>2, <2>2 DEF AfterInsert, c
<1> QED BY <1>1, <1>2

(* A write to the state of one node that does not take its revision back.     *)
LEMMA TouchStates ==
    ASSUME StatesSound, NEW r \in Stores, NEW m, NEW st, DOMAIN st = StateFields,
           st.revision \in Nat, CurrentRevision(r, m) <= st.revision, TouchNodeState(r, m, st)
    PROVE  StatesSound' /\ Rises /\ RevisionAfter(r, m) = st.revision
<1>1. /\ DOMAIN node_states' = Stores
      /\ \A s \in Stores \ {r} : node_states'[s] = node_states[s]
      /\ DOMAIN node_states'[r] = DOMAIN node_states[r] \cup {m}
      /\ node_states'[r][m] = st
      /\ \A n \in DOMAIN node_states[r] \ {m} : node_states'[r][n] = node_states[r][n]
  BY DEF StatesSound, TouchNodeState, Put
<1>2. StatesSound'
  BY <1>1 DEF StatesSound
<1>3. RevisionAfter(r, m) = st.revision
  BY <1>1 DEF RevisionAfter
<1>4. Rises
  <2> SUFFICES ASSUME NEW s \in Stores, NEW n \in Nodes
               PROVE  CurrentRevision(s, n) <= RevisionAfter(s, n)
    BY DEF Rises
  <2>0. CurrentRevision(s, n) \in Nat
    BY RevisionTyped
  <2>1. CASE s = r /\ n = m
    BY <1>3, <2>1
  <2>2. CASE s # r \/ n # m
    <3>1. CurrentRevision(s, n) = RevisionAfter(s, n)
      BY <1>1, <2>2 DEF CurrentRevision, StateOf, RevisionAfter
    <3> QED BY <2>0, <3>1
  <2> QED BY <2>1, <2>2
<1> QED BY <1>2, <1>3, <1>4

-----------------------------------------------------------------------------
(* Clients' calls.                                                            *)
LEMMA BeginIdle ==
    ASSUME NEW t, NEW s, Begin(t, s)
    PROVE  call[t] = Idle /\ call[t].pc = "idle" /\ call[t].pc # "touch" /\ s \in Stores
  BY MeshAssumption DEF Begin, Idle

LEMMA RegisterSchemaKeeps ==
    ASSUME MeshInv, NEW t \in Threads, NEW s, NEW x, RegisterSchema(t, s, x)
    PROVE  MeshInv'
<1>1. call[t] = Idle /\ call' = call /\ items' = items /\ node_states' = node_states
  BY BeginIdle DEF RegisterSchema
<1>2. StatesSound' /\ Rises
  BY <1>1, StatesSame DEF MeshInv
<1>3. CallMoves(t) /\ ItemsKept(t)
  BY <1>1, IdleStays, ItemsSame
<1> QED BY <1>2, <1>3, MeshKeeps

(* What PutAll() does to the items that are not artifacts.                    *)
LEMMA PutAllKeeps ==
    ASSUME NEW its, NEW arts, NEW i \in DOMAIN PutAll(its, arts)
    PROVE  \/ "kind" \in DOMAIN PutAll(its, arts)[i] /\ PutAll(its, arts)[i].kind = "artifact"
           \/ i \in DOMAIN its /\ PutAll(its, arts)[i] = its[i]
<1> DEFINE same == {j \in DOMAIN arts : arts[j].id = i}
<1>1. i \in DOMAIN its \cup {arts[j].id : j \in DOMAIN arts}
  BY DEF PutAll
<1>2. PutAll(its, arts)[i] = IF same = {} THEN its[i] ELSE Kept(arts[Max(same)])
  BY <1>1 DEF PutAll
<1>3. same = {} => i \in DOMAIN its
  BY <1>1
<1> HIDE DEF same
<1>4. \A a : "kind" \in DOMAIN Kept(a) /\ Kept(a).kind = "artifact"
  BY DEF Kept
<1> QED BY <1>2, <1>3, <1>4

LEMMA StoreBatchKeeps ==
    ASSUME MeshInv, NEW t \in Threads, NEW s, NEW batch, NEW kind,
           Begin(t, s), StoreBatch(t, s, batch, kind)
    PROVE  MeshInv'
<1> DEFINE arts == [i \in DOMAIN batch |-> PrepareArtifact(batch[i])]
           ids  == [i \in DOMAIN arts |-> arts[i].id]
           set  == [last_artifact_id |-> Last(ids)]
           c    == AfterInsert(s, arts[1], set, FALSE, Note(kind, ids, arts[1]), Idle)
<1>1. call[t].pc # "touch" /\ s \in Stores
  BY BeginIdle
<1>2. /\ items' = [items EXCEPT ![s] = PutAll(@, arts)]
      /\ Busy(t, c) /\ node_states' = node_states
  BY DEF StoreBatch
<1>3. "revision" \notin DOMAIN set
  OBVIOUS
<1> HIDE DEF arts, ids, set
<1>4. CallForm(c) /\ ~Carries(c)
  BY <1>1, <1>3, IdleForm, AfterInsertForm
<1> HIDE DEF c
<1>5. CallMoves(t)
  BY <1>1, <1>2, <1>4, LightMoves
<1>6. ItemsKept(t)
  <2>1. DOMAIN items = Stores
    BY DEF MeshInv, HeldSound
  <2>2. /\ DOMAIN items' = Stores /\ items'[s] = PutAll(items[s], arts)
        /\ \A r \in Stores \ {s} : items'[r] = items[r]
    BY <1>1, <1>2, <2>1
  <2>3. \A r \in Stores : \A i \in DOMAIN items'[r] :
              \/ "kind" \in DOMAIN items'[r][i] /\ items'[r][i].kind = "artifact"
              \/ i \in DOMAIN items[r] /\ items'[r][i] = items[r][i]
    BY <2>2, PutAllKeeps
  <2> QED BY <2>2, <2>3, ItemsFewer
<1>7. StatesSound' /\ Rises
  BY <1>2, StatesSame DEF MeshInv
<1> QED BY <1>5, <1>6, <1>7, MeshKeeps

LEMMA ConsumeKeeps ==
    ASSUME MeshInv, NEW t \in Threads, NEW s, NEW id, Consume(t, s, id)
    PROVE  MeshInv'
<1>1. call[t] = Idle /\ call' = call /\ node_states' = node_states /\ s \in Stores
  BY BeginIdle DEF Consume
<1>2. StatesSound' /\ Rises
  BY <1>1, StatesSame DEF MeshInv
<1>3. ItemsKept(t)
  <2>1. DOMAIN items = Stores
    BY DEF MeshInv, HeldSound
  <2>2. id \in DOMAIN items[s] /\ items[s][id].kind = "artifact"
    BY DEF Consume
  <2>3. "kind" \in DOMAIN items[s][id]
    BY <1>1, <2>2, KnownWhere DEF MeshInv, KnownSound
  <2> DEFINE a == [items[s][id] EXCEPT !.consumed = TRUE]
  <2>4. PutInto(s, id, a)
    BY <1>1, <2>1 DEF Consume, PutInto
  <2>5. "kind" \in DOMAIN a /\ a.kind = "artifact"
    BY <2>2, <2>3
  <2> HIDE DEF a
  <2>7. Gets(s, id, a)
    BY <1>1, <2>1, <2>4, PutItem
  <2> QED BY <2>5, <2>7, ItemsFewer DEF Gets
<1>4. CallMoves(t)
  BY <1>1, IdleStays
<1> QED BY <1>2, <1>3, <1>4, MeshKeeps

(* A snapshot has the revision that the node has when it is taken.            *)
LEMMA SnapshotNodeKeeps ==
    ASSUME MeshInv, NEW t \in Threads, NEW s, NEW n \in Nodes, NEW d, SnapshotNode(t, s, n, d)
    PROVE  MeshInv'
<1> DEFINE p == NodeSnapshot(FreshId, n, d, CurrentRevision(s, n))
           c == [pc |-> "store", store |-> s, item |-> p]
<1>1. /\ call[t].pc # "touch" /\ s \in Stores /\ Busy(t, c)
      /\ items' = items /\ node_states' = node_states
  BY BeginIdle DEF SnapshotNode
<1>2. StatesSound' /\ Rises
  BY <1>1, StatesSame DEF MeshInv
<1>3. /\ "kind" \in DOMAIN p /\ p.kind = "Snapshot" /\ p.node = n
      /\ p.revision = CurrentRevision(s, n)
  BY DEF NodeSnapshot
<1>4. c.pc = "store" /\ c.store = s /\ c.item = p
  OBVIOUS
<1> HIDE DEF p, c
<1>5. CurrentRevision(s, n) \in Nat /\ CurrentRevision(s, n) <= RevisionAfter(s, n)
  BY <1>1, <1>2, RevisionTyped DEF MeshInv, Rises
<1>6. NewItem(p)
  BY <1>3, <1>5 DEF NewItem, NodeForm
<1>7. CallForm(c)
  BY <1>1, <1>3, <1>4 DEF CallForm, GcSteps
<1>8. CallMoves(t)
  BY <1>1, <1>3, <1>4, <1>5, <1>6, <1>7, BusyMoves
<1>9. ItemsKept(t)
  BY <1>1, ItemsSame
<1> QED BY <1>2, <1>8, <1>9, MeshKeeps

(* A patch is only asked for.                                                 *)
LEMMA PatchKeeps ==
    ASSUME MeshInv, NEW t \in Threads, NEW s \in Stores, NEW c, Busy(t, c),
           call[t].pc # "touch", c.pc = "advance", c.store = s, c.node \in Nodes,
           items' = items, node_states' = node_states
    PROVE  MeshInv'
<1>1. CallForm(c) /\ ~Carries(c)
  BY DEF CallForm, GcSteps, Carries
<1>2. CallMoves(t) /\ ItemsKept(t)
  BY <1>1, LightMoves, ItemsSame
<1>3. StatesSound' /\ Rises
  BY StatesSame DEF MeshInv
<1> QED BY <1>2, <1>3, MeshKeeps

LEMMA PatchesKeep ==
    ASSUME MeshInv, NEW t \in Threads, NEW s,
           \/ \E n \in Nodes : \E d : Patch(t, s, n, d)
           \/ \E r \in Requests : PatchWithRevision(t, s, r)
    PROVE  MeshInv'
<1>1. ASSUME NEW n \in Nodes, NEW d, Patch(t, s, n, d) PROVE MeshInv'
  <2> DEFINE c == [pc |-> "advance", store |-> s, expected |-> CurrentRevision(s, n),
                   strategy |-> "LastWriteWins", id |-> FreshId, node |-> n, dimension |-> d]
  <2>1. call[t].pc # "touch" /\ s \in Stores /\ Busy(t, c) /\ items' = items /\ node_states' = node_states
    BY <1>1, BeginIdle DEF Patch
  <2>2. c.pc = "advance" /\ c.store = s /\ c.node \in Nodes
    OBVIOUS
  <2> HIDE DEF c
  <2> QED BY <2>1, <2>2, PatchKeeps
<1>2. ASSUME NEW r \in Requests, PatchWithRevision(t, s, r) PROVE MeshInv'
  <2> DEFINE c == [pc |-> "advance", store |-> s, expected |-> r.expected,
                   strategy |-> r.strategy, id |-> FreshId, node |-> r.node, dimension |-> r.dimension]
  <2>1. call[t].pc # "touch" /\ s \in Stores /\ Busy(t, c) /\ items' = items /\ node_states' = node_states
    BY <1>2, BeginIdle DEF PatchWithRevision
  <2>2. c.pc = "advance" /\ c.store = s /\ c.node \in Nodes
    BY MeshAssumption
  <2> HIDE DEF c
  <2> QED BY <2>1, <2>2, PatchKeeps
<1> QED BY <1>1, <1>2

LEMMA GcArtifactsKeeps ==
    ASSUME MeshInv, NEW t \in Threads, NEW s, NEW p, GcArtifacts(t, s, p)
    PROVE  MeshInv'
<1> DEFINE removed == {items[s][i] : i \in DOMAIN items[s] \ DOMAIN items'[s]}
           c == [pc |-> "gc_index", store |-> s, policy |-> p, removed |-> removed]
<1>1. /\ call[t].pc # "touch" /\ s \in Stores /\ Busy(t, c)
      /\ Retain(s, p, "artifact", {}) /\ node_states' = node_states
  BY BeginIdle DEF GcArtifacts
<1>2. c.pc = "gc_index" /\ c.store = s /\ {"pc", "store", "policy"} \subseteq DOMAIN c
  OBVIOUS
<1> HIDE DEF c
<1>3. CallForm(c) /\ ~Carries(c)
  BY <1>1, <1>2 DEF CallForm, GcSteps, Carries
<1>4. CallMoves(t)
  BY <1>1, <1>3, LightMoves
<1>5. ItemsKept(t)
  BY <1>1, RetainKeeps
<1>6. StatesSound' /\ Rises
  BY <1>1, StatesSame DEF MeshInv
<1> QED BY <1>4, <1>5, <1>6, MeshKeeps

-----------------------------------------------------------------------------
(* The steps that a call is made of.                                          *)
LEMMA NotifyKeeps ==
    ASSUME MeshInv, NEW t \in Threads, Notify(t)
    PROVE  MeshInv'
<1>1. /\ call[t].pc = "notify" /\ Busy(t, call[t].then)
      /\ items' = items /\ node_states' = node_states
  BY DEF Notify
<1>2. GoesOn(call[t].then)
  BY <1>1 DEF MeshInv, CallsSound, CallForm
<1>3. CallForm(call[t].then) /\ ~Carries(call[t].then)
  BY <1>2 DEF GoesOn, CallForm, Carries, GcSteps
<1>4. CallMoves(t) /\ ItemsKept(t)
  BY <1>1, <1>3, LightMoves, ItemsSame
<1>5. StatesSound' /\ Rises
  BY <1>1, StatesSame DEF MeshInv
<1> QED BY <1>4, <1>5, MeshKeeps

(* What is recorded is the later of the two revisions.                        *)
LEMMA TouchKeeps ==
    ASSUME MeshInv, NEW t \in Threads, Touch(t)
    PROVE  MeshInv'
<1> DEFINE c == call[t]
           st == StateOf(c.store, c.node)
           merged == [f \in DOMAIN st |-> IF f \in DOMAIN c.set THEN c.set[f] ELSE st[f]]
           new == IF TouchAllowed(c, st) THEN merged ELSE st
<1>1. /\ c.pc = "touch" /\ TouchNodeState(c.store, c.node, new)
      /\ Busy(t, ToNotify(c.store, c.note, c.then)) /\ items' = items
  BY DEF Touch
<1>2. CallForm(c) /\ DOMAIN call = Threads
  BY DEF MeshInv, CallsSound
<1>3. /\ c.store \in Stores /\ GoesOn(c.then) /\ c.replica \in BOOLEAN
      /\ c.replica => "revision" \in DOMAIN c.set /\ c.set.revision \in Nat
      /\ ~c.replica => "revision" \notin DOMAIN c.set
  BY <1>1, <1>2 DEF CallForm
<1>4. /\ DOMAIN st = StateFields /\ st.revision \in Nat
      /\ CurrentRevision(c.store, c.node) = st.revision
  BY <1>3, RevisionTyped DEF MeshInv
<1>5. /\ DOMAIN merged = StateFields
      /\ merged.revision = IF "revision" \in DOMAIN c.set THEN c.set.revision ELSE st.revision
  BY <1>4 DEF StateFields
<1> HIDE DEF merged
<1>6. /\ DOMAIN new = StateFields
      /\ new.revision \in Nat /\ st.revision <= new.revision
      /\ c.replica = TRUE => c.set.revision <= new.revision
  BY <1>3, <1>4, <1>5 DEF TouchAllowed
<1> HIDE DEF new
<1>7. StatesSound' /\ Rises /\ RevisionAfter(c.store, c.node) = new.revision
  BY <1>1, <1>3, <1>4, <1>6, TouchStates DEF MeshInv
<1> DEFINE d == ToNotify(c.store, c.note, c.then)
<1>8. CallForm(d) /\ ~Carries(d)
  BY <1>3, NotifyForm
<1>9. call'[t] = d /\ DOMAIN call' = Threads /\ \A u \in Threads \ {t} : call'[u] = call[u]
  BY <1>1, <1>2 DEF Busy
<1>10. d.pc # "store"
  BY DEF ToNotify
<1> HIDE DEF d
<1>11. CallMoves(t)
  BY <1>6, <1>7, <1>8, <1>9, <1>10 DEF CallMoves
<1>12. ItemsKept(t)
  BY <1>1, ItemsSame
<1> QED BY <1>7, <1>11, <1>12, MeshKeeps

(* An edit gets a revision that no known edit of the node through the store   *)
(* has, because none is ahead of the store.                                   *)
LEMMA AdvanceRevisionKeeps ==
    ASSUME MeshInv, NEW t \in Threads, AdvanceRevision(t)
    PROVE  MeshInv'
<1> DEFINE c == call[t]
           st == StateOf(c.store, c.node)
           base == AdvanceFrom(c)
           conflict == base # c.expected
           rejected == conflict /\ c.strategy = "Reject"
           edited == [st EXCEPT !.revision = base + 1, !.last_patch_id = c.id]
           p == DiffPatch(c.id, c.node, c.dimension, base, conflict, c.store)
           d == [pc |-> "store", store |-> c.store, item |-> p]
<1>1. /\ c.pc = "advance" /\ TouchNodeState(c.store, c.node, IF rejected THEN st ELSE edited)
      /\ Busy(t, IF rejected THEN Idle ELSE d) /\ items' = items
  BY DEF AdvanceRevision
<1>2. c.store \in Stores /\ c.node \in Nodes
  BY <1>1 DEF MeshInv, CallsSound, CallForm
<1>3. /\ DOMAIN st = StateFields /\ st.revision \in Nat
      /\ CurrentRevision(c.store, c.node) = st.revision /\ base = st.revision
  BY <1>2, RevisionTyped DEF MeshInv, AdvanceFrom
<1>4. ItemsKept(t)
  BY <1>1, ItemsSame
<1>5. c.pc # "touch"
  BY <1>1
<1>6. CASE rejected
  <2>1. TouchNodeState(c.store, c.node, st) /\ Busy(t, Idle)
    BY <1>1, <1>6
  <2>2. StatesSound' /\ Rises
    BY <1>2, <1>3, <2>1, TouchStates DEF MeshInv
  <2>3. CallMoves(t)
    BY <1>5, <2>1, IdleForm, LightMoves
  <2> QED BY <1>4, <2>2, <2>3, MeshKeeps
<1>7. CASE ~rejected
  <2>1. TouchNodeState(c.store, c.node, edited) /\ Busy(t, d)
    BY <1>1, <1>7
  <2>2. DOMAIN edited = StateFields /\ edited.revision = base + 1
    BY <1>3 DEF StateFields
  <2>3. /\ "kind" \in DOMAIN p /\ p.kind = "Patch" /\ p.node = c.node /\ p.origin = c.store
        /\ p.revision = base + 1
    BY DEF DiffPatch
  <2>4. d.pc = "store" /\ d.store = c.store /\ d.item = p
    OBVIOUS
  <2> HIDE DEF edited, p, d, rejected, conflict
  <2>5. base \in Nat /\ base + 1 \in Nat /\ CurrentRevision(c.store, c.node) <= base + 1
    BY <1>3
  <2>6. StatesSound' /\ Rises /\ RevisionAfter(c.store, c.node) = base + 1
    BY <1>2, <2>1, <2>2, <2>5, TouchStates DEF MeshInv
  <2>7. \A q \in Known : ~SameEdit(p, q)
    <3> SUFFICES ASSUME NEW q \in Known, SameEdit(p, q) PROVE FALSE
      OBVIOUS
    <3>1. q.kind = "Patch" /\ q.origin = c.store /\ q.node = c.node /\ q.revision = base + 1
      BY <2>3 DEF SameEdit
    <3>2. q.revision <= CurrentRevision(q.origin, q.node)
      BY <3>1 DEF MeshInv, KnownSound
    <3> QED BY <1>3, <2>5, <3>1, <3>2
  <2>8. NewItem(p)
    BY <1>2, <2>3, <2>5, <2>6, <2>7 DEF NewItem, NodeForm
  <2>9. CallForm(d)
    BY <1>2, <2>3, <2>4 DEF CallForm, GcSteps
  <2>10. p.revision <= RevisionAfter(d.store, p.node)
    BY <2>3, <2>4, <2>5, <2>6
  <2>11. CallMoves(t)
    BY <1>5, <2>1, <2>4, <2>8, <2>9, <2>10, BusyMoves
  <2> QED BY <1>4, <2>6, <2>11, MeshKeeps
<1> QED BY <1>6, <1>7

(* The item goes from the thread to the store.                                *)
LEMMA StoreItemKeeps ==
    ASSUME MeshInv, NEW t \in Threads, StoreItem(t)
    PROVE  MeshInv'
<1> DEFINE c == call[t]
           note == Note(c.item.kind, <<c.item.id>>, c.item)
           set == [last_snapshot_id |-> c.item.id]
           d == IF c.item.kind = "Patch" THEN ToNotify(c.store, note, Idle)
                ELSE AfterInsert(c.store, c.item, set, FALSE, note, Idle)
<1>1. /\ c.pc = "store" /\ items' = [items EXCEPT ![c.store] = Put(@, c.item.id, c.item)]
      /\ Busy(t, d) /\ node_states' = node_states
  BY DEF StoreItem
<1>2. /\ c.store \in Stores /\ c.item.kind # "artifact"
      /\ c.item.revision <= CurrentRevision(c.store, c.item.node)
  BY <1>1 DEF MeshInv, CallsSound, CallForm
<1>3. "revision" \notin DOMAIN set
  OBVIOUS
<1> HIDE DEF note, set
<1>4. CallForm(d) /\ ~Carries(d)
  BY <1>2, <1>3, IdleForm, NotifyForm, AfterInsertForm
<1> HIDE DEF d
<1>5. c.pc # "touch"
  BY <1>1
<1>6. CallMoves(t)
  BY <1>1, <1>4, <1>5, LightMoves
<1>7. StatesSound' /\ Rises
  BY <1>1, StatesSame DEF MeshInv
<1>8. c.item \in Known
  BY <1>1, KnownWhere DEF Carries
<1>9. c.item.node \in Nodes /\ c.item.revision \in Nat /\ "kind" \in DOMAIN c.item
  BY <1>2, <1>8 DEF MeshInv, KnownSound, NodeForm
<1>10. c.item.revision <= RevisionAfter(c.store, c.item.node)
  <2>1. /\ CurrentRevision(c.store, c.item.node) <= RevisionAfter(c.store, c.item.node)
        /\ CurrentRevision(c.store, c.item.node) \in Nat
        /\ RevisionAfter(c.store, c.item.node) \in Nat
    BY <1>2, <1>7, <1>9, RevisionTyped, AfterTyped DEF MeshInv, Rises
  <2> QED BY <1>2, <1>9, <2>1
<1>11. ItemsKept(t)
  <2>1. DOMAIN items = Stores
    BY DEF MeshInv, HeldSound
  <2>2. PutInto(c.store, c.item.id, c.item)
    BY <1>1 DEF PutInto
  <2>3. Gets(c.store, c.item.id, c.item)
    BY <1>2, <2>1, <2>2, PutItem
  <2> QED BY <1>2, <1>8, <1>10, <2>3, PutKeeps
<1> QED BY <1>6, <1>7, <1>11, MeshKeeps

(* A collection: it writes no revision, and its last steps only remove.       *)
LEMMA GcStepsKeep ==
    ASSUME MeshInv, NEW t \in Threads, GcIndex(t) \/ GcKnown(t)
    PROVE  MeshInv'
<1> DEFINE c == call[t]
           known == DOMAIN node_states[c.store]
           d == IF c.pc = "gc_index" THEN [c EXCEPT !.pc = "gc_states"]
                ELSE [pc |-> "gc_snapshots", store |-> c.store, policy |-> c.policy, known |-> known]
<1>1. /\ c.pc \in {"gc_index", "gc_known"} /\ Busy(t, d)
      /\ items' = items /\ node_states' = node_states
  BY DEF GcIndex, GcKnown
<1>2. c.store \in Stores /\ {"pc", "store", "policy"} \subseteq DOMAIN c
  BY <1>1 DEF MeshInv, CallsSound, CallForm, GcSteps
<1> HIDE DEF known
<1>3. /\ d.pc \in {"gc_states", "gc_snapshots"} /\ d.store = c.store
      /\ {"pc", "store", "policy"} \subseteq DOMAIN d
  BY <1>2
<1>4. c.pc # "touch"
  BY <1>1
<1> HIDE DEF c, d
<1>5. CallForm(d) /\ ~Carries(d)
  BY <1>2, <1>3 DEF CallForm, GcSteps, Carries
<1>6. CallMoves(t) /\ ItemsKept(t)
  BY <1>1, <1>4, <1>5, LightMoves, ItemsSame DEF c
<1>7. StatesSound' /\ Rises
  BY <1>1, StatesSame DEF MeshInv
<1> QED BY <1>6, <1>7, MeshKeeps

LEMMA GcStatesKeeps ==
    ASSUME MeshInv, NEW t \in Threads, GcStates(t)
    PROVE  MeshInv'
<1> DEFINE c == call[t]
           dead(n, id) == \E a \in c.removed : a.node = n /\ a.id = id
           ns == node_states[c.store]
           swept == [n \in DOMAIN ns |-> IF dead(n, ns[n].last_artifact_id)
                                         THEN [ns[n] EXCEPT !.last_artifact_id = None] ELSE ns[n]]
           d == [pc |-> "gc_known", store |-> c.store, policy |-> c.policy]
<1>1. c.pc = "gc_states" /\ Busy(t, d) /\ items' = items
  BY DEF GcStates
<1>2. c.store \in Stores
  BY <1>1 DEF MeshInv, CallsSound, CallForm, GcSteps
<1>3. StatesSound
  BY DEF MeshInv
<1>4. node_states' = [node_states EXCEPT ![c.store] = swept]
  BY <1>2, <1>3 DEF GcStates, StatesSound
<1>5. /\ DOMAIN swept = DOMAIN ns
      /\ \A n \in DOMAIN ns : /\ DOMAIN swept[n] = StateFields
                              /\ swept[n].revision = ns[n].revision
  BY <1>2, <1>3 DEF StatesSound, StateFields
<1>6. d.pc = "gc_known" /\ d.store = c.store /\ {"pc", "store", "policy"} \subseteq DOMAIN d
  OBVIOUS
<1> HIDE DEF swept, d
<1>7. StatesSound'
  BY <1>2, <1>3, <1>4, <1>5 DEF StatesSound
<1>8. \A s \in Stores, n \in Nodes : RevisionAfter(s, n) = CurrentRevision(s, n)
  BY <1>2, <1>3, <1>4, <1>5 DEF StatesSound, RevisionAfter, CurrentRevision, StateOf
<1>9. Rises
  BY <1>3, <1>8, RevisionTyped DEF Rises
<1>10. CallForm(d) /\ ~Carries(d)
  BY <1>2, <1>6 DEF CallForm, GcSteps, Carries
<1>11. c.pc # "touch"
  BY <1>1
<1>12. CallMoves(t) /\ ItemsKept(t)
  BY <1>1, <1>10, <1>11, LightMoves, ItemsSame
<1> QED BY <1>7, <1>9, <1>12, MeshKeeps

LEMMA GcItemsKeeps ==
    ASSUME MeshInv, NEW t \in Threads, GcItems(t)
    PROVE  MeshInv'
<1> DEFINE c == call[t]
           snaps == c.pc = "gc_snapshots"
           d == IF snaps THEN [c EXCEPT !.pc = "gc_patches"] ELSE Idle
<1>1. /\ c.pc \in {"gc_snapshots", "gc_patches"} /\ Busy(t, d) /\ node_states' = node_states
      /\ Retain(c.store, c.policy, IF snaps THEN "Snapshot" ELSE "Patch", c.known)
  BY DEF GcItems
<1>2. c.store \in Stores /\ {"pc", "store", "policy"} \subseteq DOMAIN c /\ c.pc # "touch"
  BY <1>1 DEF MeshInv, CallsSound, CallForm, GcSteps
<1>3. CallForm(d) /\ ~Carries(d)
  <2> DEFINE e == [c EXCEPT !.pc = "gc_patches"]
  <2>1. e.pc = "gc_patches" /\ e.store = c.store /\ {"pc", "store", "policy"} \subseteq DOMAIN e
    BY <1>2
  <2> HIDE DEF e
  <2>2. CallForm(e) /\ ~Carries(e)
    BY <1>2, <2>1 DEF CallForm, GcSteps, Carries
  <2> QED BY <2>2, IdleForm DEF e
<1> HIDE DEF d
<1>4. CallMoves(t)
  BY <1>1, <1>2, <1>3, LightMoves
<1>5. ItemsKept(t)
  BY <1>1, <1>2, RetainKeeps
<1>6. StatesSound' /\ Rises
  BY <1>1, StatesSame DEF MeshInv
<1> QED BY <1>4, <1>5, <1>6, MeshKeeps

-----------------------------------------------------------------------------
(* Replication: what it carries was in the source.                            *)
LEMMA RecvKeeps ==
    ASSUME MeshInv, NEW t \in Threads, NEW r \in Replicators, Recv(t, r)
    PROVE  MeshInv'
<1>1. call[t] = Idle /\ items' = items /\ node_states' = node_states
  BY DEF Recv
<1>2. call' = call \/ \E k, ids : Busy(t, [pc |-> "replicate", pair |-> r, kind |-> k, ids |-> ids])
  BY DEF Recv
<1>3. ASSUME NEW k, NEW ids, Busy(t, [pc |-> "replicate", pair |-> r, kind |-> k, ids |-> ids])
      PROVE  CallMoves(t)
  <2> DEFINE d == [pc |-> "replicate", pair |-> r, kind |-> k, ids |-> ids]
  <2>1. d.pc = "replicate" /\ d.pair = r
    OBVIOUS
  <2>2. Busy(t, d)
    BY <1>3
  <2> HIDE DEF d
  <2>3. CallForm(d) /\ ~Carries(d)
    BY <2>1 DEF CallForm, GoesOn, GcSteps, Carries
  <2>4. call[t].pc # "touch"
    BY <1>1 DEF Idle
  <2> QED BY <2>2, <2>3, <2>4, LightMoves
<1>4. CallMoves(t)
  BY <1>1, <1>2, <1>3, IdleStays
<1>5. ItemsKept(t)
  BY <1>1, ItemsSame
<1>6. StatesSound' /\ Rises
  BY <1>1, StatesSame DEF MeshInv
<1> QED BY <1>4, <1>5, <1>6, MeshKeeps

LEMMA ReplicateKeeps ==
    ASSUME MeshInv, NEW t \in Threads, Replicate(t)
    PROVE  MeshInv'
<1> DEFINE c == call[t]
           source == items[c.pair[1]]
           id == Head(c.ids)
           found == id \in DOMAIN source /\ KindWanted(c.kind, source[id])
           d == [pc |-> "insert", pair |-> c.pair, kind |-> c.kind, ids |-> c.ids, item |-> source[id]]
<1>1. /\ c.pc = "replicate" /\ Busy(t, IF found THEN d ELSE Idle)
      /\ items' = items /\ node_states' = node_states
  BY DEF Replicate
<1>2. c.pair \in Replicators /\ c.pair[1] \in Stores /\ c.pc # "touch"
  BY <1>1, MeshAssumption DEF MeshInv, CallsSound, CallForm, GoesOn, GcSteps
<1>3. d.pc = "insert" /\ d.pair = c.pair /\ d.item = source[id]
  OBVIOUS
<1>4. found => id \in DOMAIN source
  OBVIOUS
<1>5. found => source[id] \in Known
  BY <1>2, <1>4, KnownWhere
<1> HIDE DEF d, found, source, id
<1>6. CallForm(d) /\ d.pc # "store"
  BY <1>2, <1>3 DEF CallForm, GcSteps
<1>7. CASE found
  <2>1. Busy(t, d) /\ d.item \in Known
    BY <1>1, <1>3, <1>5, <1>7
  <2> QED BY <1>2, <1>6, <1>1, <2>1, BusyMoves, ItemsSame, StatesSame, MeshKeeps DEF MeshInv
<1>8. CASE ~found
  <2>1. Busy(t, Idle)
    BY <1>1, <1>8
  <2>2. CallMoves(t)
    BY <1>2, <2>1, IdleForm, LightMoves
  <2> QED BY <1>1, <2>2, ItemsSame, StatesSame, MeshKeeps DEF MeshInv
<1> QED BY <1>7, <1>8

LEMMA ContinueForm ==
    ASSUME NEW c, c.pair \in Replicators
    PROVE  GoesOn(Continue(c))
  BY DEF Continue, GoesOn, Idle

(* The thread inserts an item that was known.                                 *)
LEMMA InsertCarried ==
    ASSUME MeshInv, NEW t \in Threads, call[t].pc = "insert"
    PROVE  /\ call[t].pair \in Replicators /\ call[t].pair[2] \in Stores /\ call[t].pc # "touch"
           /\ call[t].item \in Known /\ "kind" \in DOMAIN call[t].item
           /\ call[t].item.kind # "artifact" => NodeForm(call[t].item)
<1>1. call[t].pair \in Replicators
  BY DEF MeshInv, CallsSound, CallForm
<1>2. call[t].item \in Known
  BY KnownWhere DEF Carries
<1>3. "kind" \in DOMAIN call[t].item /\ (call[t].item.kind # "artifact" => NodeForm(call[t].item))
  BY <1>2 DEF MeshInv, KnownSound
<1> QED BY <1>1, <1>2, <1>3, MeshAssumption

LEMMA InsertArtifactKeeps ==
    ASSUME MeshInv, NEW t \in Threads, InsertReplicatedArtifact(t)
    PROVE  MeshInv'
<1> DEFINE c == call[t]
           s == c.pair[2]
           a == c.item
           note == Note("Replicated", <<a.id>>, a)
           st == [StateOf(s, a.node) EXCEPT !.last_artifact_id = a.id]
<1>1. c.pc = "insert" /\ a.kind = "artifact"
  BY DEF InsertReplicatedArtifact
<1>2. /\ c.pair \in Replicators /\ s \in Stores /\ c.pc # "touch"
      /\ a \in Known /\ "kind" \in DOMAIN a
  BY <1>1, InsertCarried
<1>3. CASE Busy(t, Idle) /\ items' = items /\ node_states' = node_states
  <2>1. CallMoves(t)
    BY <1>2, <1>3, IdleForm, LightMoves
  <2> QED BY <1>3, <2>1, ItemsSame, StatesSame, MeshKeeps DEF MeshInv
<1>4. CASE /\ PutInto(s, a.id, a)
           /\ a.node = None => node_states' = node_states
           /\ a.node # None => TouchNodeState(s, a.node, st)
           /\ Busy(t, ToNotify(s, note, Continue(c)))
  <2>1. CallForm(ToNotify(s, note, Continue(c))) /\ ~Carries(ToNotify(s, note, Continue(c)))
    BY <1>2, ContinueForm, NotifyForm
  <2>2. CallMoves(t)
    BY <1>2, <1>4, <2>1, LightMoves
  <2>3. Gets(s, a.id, a)
    BY <1>2, <1>4, PutItem DEF MeshInv, HeldSound
  <2>4. ItemsKept(t)
    BY <1>1, <1>2, <2>3, PutKeeps
  <2>5. StatesSound' /\ Rises
    <3>1. CASE a.node = None
      BY <1>4, <3>1, StatesSame DEF MeshInv
    <3>2. CASE a.node # None
      <4>1. /\ DOMAIN StateOf(s, a.node) = StateFields /\ StateOf(s, a.node).revision \in Nat
            /\ CurrentRevision(s, a.node) = StateOf(s, a.node).revision
        BY <1>2, RevisionTyped DEF MeshInv
      <4>2. DOMAIN st = StateFields /\ st.revision = StateOf(s, a.node).revision
        BY <4>1 DEF StateFields
      <4>3. TouchNodeState(s, a.node, st)
        BY <1>4, <3>2
      <4> HIDE DEF st
      <4>4. st.revision \in Nat /\ CurrentRevision(s, a.node) <= st.revision
        BY <4>1, <4>2
      <4> QED BY <1>2, <4>2, <4>3, <4>4, TouchStates DEF MeshInv
    <3> QED BY <3>1, <3>2
  <2> QED BY <2>2, <2>4, <2>5, MeshKeeps
<1> QED BY <1>3, <1>4 DEF InsertReplicatedArtifact, PutInto

(* The revision of the item is recorded, or the call that inserts it is about *)
(* to record it.                                                              *)
LEMMA InsertItemKeeps ==
    ASSUME MeshInv, NEW t \in Threads, InsertReplicatedItem(t)
    PROVE  MeshInv'
<1> DEFINE c == call[t]
           s == c.pair[2]
           i == c.item
           field == IF i.kind = "Patch" THEN "last_patch_id" ELSE "last_snapshot_id"
           set == [f \in {field, "revision"} |-> IF f = "revision" THEN i.revision ELSE i.id]
           note == Note("Replicated", <<i.id>>, i)
           d == AfterInsert(s, i, set, TRUE, note, Continue(c))
<1>1. c.pc = "insert" /\ i.kind # "artifact" /\ node_states' = node_states
  BY DEF InsertReplicatedItem
<1>2. /\ c.pair \in Replicators /\ s \in Stores /\ c.pc # "touch"
      /\ i \in Known /\ NodeForm(i)
  BY <1>1, InsertCarried
<1>3. i.node \in Nodes /\ i.node # None /\ i.revision \in Nat
  BY <1>2, MeshAssumption DEF NodeForm
<1>4. StatesSound' /\ Rises
  BY <1>1, StatesSame DEF MeshInv
<1>5. CASE i.id \in DOMAIN items[s]
  <2>1. items' = items /\ Busy(t, Idle)
    BY <1>5 DEF InsertReplicatedItem
  <2>2. CallMoves(t)
    BY <1>2, <2>1, IdleForm, LightMoves
  <2> QED BY <1>4, <2>1, <2>2, ItemsSame, MeshKeeps
<1>6. CASE i.id \notin DOMAIN items[s]
  <2>1. PutInto(s, i.id, i) /\ Busy(t, d)
    BY <1>6 DEF InsertReplicatedItem, PutInto
  <2>2. "revision" \in DOMAIN set /\ set.revision = i.revision
    OBVIOUS
  <2>3. note.ids[1] = i.id
    BY DEF Note
  <2> HIDE DEF set, note
  <2>4. CallForm(d) /\ ~Carries(d)
    BY <1>2, <1>3, <2>2, ContinueForm, AfterInsertForm
  <2>5. Records(d, s, i)
    BY <1>3, <2>2, <2>3 DEF AfterInsert, Records
  <2> HIDE DEF d
  <2>6. CallMoves(t)
    BY <1>2, <2>1, <2>4, LightMoves
  <2>7. call'[t] = d
    BY <2>1 DEF Busy, MeshInv, CallsSound
  <2>8. Gets(s, i.id, i)
    BY <1>2, <2>1, PutItem DEF MeshInv, HeldSound
  <2>9. Records(call'[t], s, i)
    BY <2>5, <2>7
  <2>10. ItemsKept(t)
    BY <1>2, <2>8, <2>9, PutKeeps
  <2> QED BY <1>4, <2>6, <2>10, MeshKeeps
<1> QED BY <1>5, <1>6

-----------------------------------------------------------------------------
LEMMA MeshStutter ==
    ASSUME MeshInv, UNCHANGED vars
    PROVE  MeshInv'
  BY DEF vars, MeshInv, StatesSound, CallsSound, KnownSound, EditsDiffer, HeldSound, Known, Held,
     Carried, CurrentRevision, StateOf

LEMMA MeshInvInit == Init => MeshInv
<1> SUFFICES ASSUME Init PROVE MeshInv
  OBVIOUS
<1>1. /\ items = [s \in Stores |-> <<>>] /\ node_states = [s \in Stores |-> <<>>]
      /\ call = [t \in Threads |-> Idle]
  BY DEF Init
<1>2. StatesSound
  BY <1>1 DEF StatesSound
<1>3. CallsSound
  BY <1>1, IdleForm DEF CallsSound, Idle
<1>4. \A p : p \notin Known
  <2>1. \A s \in Stores : Held(s) = {}
    BY <1>1 DEF Held
  <2>2. Carried = {}
    BY <1>1 DEF Carried, Carries, Idle
  <2> QED BY <2>1, <2>2 DEF Known
<1>5. KnownSound /\ EditsDiffer
  BY <1>4 DEF KnownSound, EditsDiffer
<1>6. HeldSound
  BY <1>1 DEF HeldSound
<1> QED BY <1>2, <1>3, <1>5, <1>6 DEF MeshInv

LEMMA MeshInvNext == MeshInv /\ [Next]_vars => MeshInv'
<1> SUFFICES ASSUME MeshInv, [Next]_vars PROVE MeshInv'
  OBVIOUS
<1>1. CASE UNCHANGED vars
  BY <1>1, MeshStutter
<1>2. ASSUME NEW t \in Threads, NEW s \in Stores, ClientStep(t, s) PROVE MeshInv'
  <2>1. ASSUME NEW x \in Schemas, RegisterSchema(t, s, x) PROVE MeshInv'
    BY <2>1, RegisterSchemaKeeps
  <2>2. ASSUME NEW batch, NEW kind, Begin(t, s), StoreBatch(t, s, batch, kind) PROVE MeshInv'
    BY <2>2, StoreBatchKeeps
  <2>3. ASSUME NEW d \in Drafts, Produce(t, s, d) \/ ProduceValidated(t, s, d) PROVE MeshInv'
    BY <2>2, <2>3 DEF Produce, ProduceValidated
  <2>4. ASSUME NEW d \in Drafts, NEW e \in Drafts, ProduceBatch(t, s, d, e) PROVE MeshInv'
    BY <2>2, <2>4 DEF ProduceBatch
  <2>5. ASSUME NEW id, Consume(t, s, id) PROVE MeshInv'
    BY <2>5, ConsumeKeeps
  <2>6. ASSUME NEW n \in Nodes, NEW d, SnapshotNode(t, s, n, d) PROVE MeshInv'
    BY <2>6, SnapshotNodeKeeps
  <2>7. ASSUME NEW n \in Nodes, NEW d, Patch(t, s, n, d) PROVE MeshInv'
    BY <2>7, PatchesKeep
  <2>8. ASSUME NEW r \in Requests, PatchWithRevision(t, s, r) PROVE MeshInv'
    BY <2>8, PatchesKeep
  <2>9. ASSUME NEW p \in Policies, GcArtifacts(t, s, p) PROVE MeshInv'
    BY <2>9, GcArtifactsKeeps
  <2> QED BY ONLY <1>2, <2>1, <2>3, <2>4, <2>5, <2>6, <2>7, <2>8, <2>9 DEF ClientStep
<1>3. ASSUME NEW t \in Threads, NEW r \in Replicators, Recv(t, r) PROVE MeshInv'
  BY <1>3, RecvKeeps
<1>4. ASSUME NEW t \in Threads, CallStep(t) PROVE MeshInv'
  BY <1>4, TouchKeeps, NotifyKeeps, AdvanceRevisionKeeps, StoreItemKeeps, GcStepsKeep,
     GcStatesKeeps, GcItemsKeeps, ReplicateKeeps, InsertArtifactKeeps, InsertItemKeeps DEF CallStep
<1> QED BY <1>1, <1>2, <1>3, <1>4 DEF Next

LEMMA MeshInvariant == Spec => []MeshInv
  BY MeshInvInit, MeshInvNext, PTL DEF Spec

(* RevisionsHold: two edits of a node made through one store never get the    *)
(* same revision (advance_revision()), and a node is never behind what its    *)
(* store holds except for an item that a thread is about to record (the       *)
(* comparison in insert_replicated_snapshot() and insert_replicated_patch()). *)
THEOREM EditsNeverCollide == Spec => []RevisionsHold
<1>1. MeshInv => RevisionsHold
  <2> SUFFICES ASSUME MeshInv, NEW s \in Stores
               PROVE  LET held == {i \in DOMAIN items[s] : items[s][i].kind # "artifact"}
                          mine == {i \in held : items[s][i].kind = "Patch" /\ items[s][i].origin = s}
                          recording == {call[t].note.ids[1] : t \in {u \in Threads : call[u].pc = "touch"}}
                      IN  /\ \A i, j \in mine : items[s][i].node = items[s][j].node /\ i # j
                                                => items[s][i].revision # items[s][j].revision
                          /\ \A i \in held \ recording :
                                items[s][i].revision <= CurrentRevision(s, items[s][i].node)
    BY DEF RevisionsHold
  <2> DEFINE recording == {call[t].note.ids[1] : t \in {u \in Threads : call[u].pc = "touch"}}
  <2>1. ASSUME NEW i \in DOMAIN items[s], NEW j \in DOMAIN items[s],
               items[s][i].kind = "Patch", items[s][j].kind = "Patch",
               items[s][i].origin = s, items[s][j].origin = s,
               items[s][i].node = items[s][j].node, items[s][i].revision = items[s][j].revision
        PROVE  i = j
    <3>1. items[s][i] \in Known /\ items[s][j] \in Known
      BY KnownWhere
    <3>2. items[s][i].id = items[s][j].id
      BY <2>1, <3>1 DEF MeshInv, EditsDiffer, SameEdit
    <3>3. items[s][i].id = i /\ items[s][j].id = j
      BY <2>1 DEF MeshInv, HeldSound
    <3> QED BY <3>2, <3>3
  <2>2. ASSUME NEW i \in DOMAIN items[s], items[s][i].kind # "artifact", i \notin recording
        PROVE  items[s][i].revision <= CurrentRevision(s, items[s][i].node)
    <3>1. ASSUME NEW t \in Threads, Records(call[t], s, items[s][i]) PROVE FALSE
      <4>1. call[t].pc = "touch" /\ call[t].note.ids[1] = items[s][i].id
        BY <3>1 DEF Records
      <4>2. items[s][i].id = i
        BY <2>2 DEF MeshInv, HeldSound
      <4> QED BY <2>2, <4>1, <4>2
    <3> QED BY <2>2, <3>1 DEF MeshInv, HeldSound
  <2> QED BY <2>1, <2>2
<1> QED BY <1>1, MeshInvariant, PTL

=================================================================================
