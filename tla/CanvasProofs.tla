------------------------------ MODULE CanvasProofs ------------------------------
(***************************************************************************)
(* Proofs about Canvas, for any clients, operations and orders of delivery.*)
(***************************************************************************)
EXTENDS Canvas, SequenceTheorems, TLAPS

(* The inductive invariant: a client's resolver has, for each field that it   *)
(* has received a write of, the newest of them.                               *)
Keys(c) == {FieldKey(op) : op \in received[c]}

NewestAccepted(c) ==
    /\ received[c] \subseteq Ops
    /\ DOMAIN accepted[c] = Keys(c)
    /\ \A key \in Keys(c) :
          /\ accepted[c][key] \in received[c]
          /\ FieldKey(accepted[c][key]) = key
          /\ \A op \in received[c] : FieldKey(op) = key => ~Newer(op, accepted[c][key])

ResolverInv ==
    /\ DOMAIN accepted = Clients /\ DOMAIN received = Clients
    /\ \A c \in Clients : NewestAccepted(c)

-----------------------------------------------------------------------------
(* Of three operations the newest is the newest of all.                       *)
LEMMA NewerTransitive ==
  ASSUME NEW a \in Ops, NEW b \in Ops, NEW c \in Ops, ~Newer(a, b), Newer(c, b)
  PROVE  ~Newer(a, c)
  BY OpsAssumption DEF Newer

LEMMA NewerTotal ==
  ASSUME NEW a \in Ops, NEW b \in Ops, ~Newer(a, b), ~Newer(b, a)
  PROVE  a = b
  <1>1. a.timestamp_ms = b.timestamp_ms /\ a.op_id = b.op_id
    BY OpsAssumption DEF Newer
  <1> QED BY <1>1, OpsAssumption

LEMMA NewerIrreflexive == ASSUME NEW a \in Ops PROVE ~Newer(a, a)
  BY OpsAssumption DEF Newer

-----------------------------------------------------------------------------
(* apply() keeps the newest write of every field.                             *)
LEMMA ApplyKeeps ==
  ASSUME ResolverInv, NEW c \in Clients, NEW op \in Ops, Apply(c, op)
  PROVE  ResolverInv'
  <1> DEFINE key == FieldKey(op)
  <1>1. /\ NewestAccepted(c) /\ DOMAIN accepted = Clients /\ DOMAIN received = Clients
        /\ received' = [received EXCEPT ![c] = @ \cup {op}]
    BY DEF ResolverInv, Apply
  <1>2. received'[c] = received[c] \cup {op}
    BY <1>1
  <1>3. \A d \in Clients : d # c => received'[d] = received[d]
    BY <1>1
  <1>4. Keys(c)' = Keys(c) \cup {key}
    BY <1>2 DEF Keys
  <1>5. /\ DOMAIN accepted' = Clients /\ DOMAIN received' = Clients
        /\ \A d \in Clients : d # c => accepted'[d] = accepted[d]
    BY <1>1 DEF Apply
  <1>6. NewestAccepted(c)'
    <2>1. CASE key \in DOMAIN accepted[c] /\ ~Newer(op, accepted[c][key])
      <3>1. accepted' = accepted /\ Keys(c)' = Keys(c)
        BY <1>1, <1>4, <2>1 DEF Apply, NewestAccepted
      <3> QED BY <1>1, <1>2, <2>1, <3>1 DEF NewestAccepted
    <2>2. CASE ~(key \in DOMAIN accepted[c] /\ ~Newer(op, accepted[c][key]))
      <3>1. accepted'[c] = Insert(accepted[c], key, op)
        BY <1>1, <2>2 DEF Apply
      <3>2. /\ DOMAIN accepted'[c] = Keys(c) \cup {key}
            /\ accepted'[c][key] = op
            /\ \A k \in Keys(c) : k # key => accepted'[c][k] = accepted[c][k]
        BY <1>1, <3>1 DEF Insert, NewestAccepted
      <3>3. ASSUME NEW p \in received[c], FieldKey(p) = key
            PROVE  ~Newer(p, op)
        <4>1. key \in Keys(c)
          BY <3>3 DEF Keys
        <4>2. Newer(op, accepted[c][key]) /\ accepted[c][key] \in Ops /\ p \in Ops /\ ~Newer(p, accepted[c][key])
          BY <1>1, <2>2, <3>3, <4>1 DEF NewestAccepted
        <4> QED BY <4>2, NewerTransitive
      <3>4. ASSUME NEW k \in Keys(c) \cup {key}
            PROVE  /\ accepted'[c][k] \in received'[c]
                   /\ FieldKey(accepted'[c][k]) = k
                   /\ \A p \in received'[c] : FieldKey(p) = k => ~Newer(p, accepted'[c][k])
        <4>1. CASE k = key
          BY <1>2, <3>2, <3>3, <4>1, NewerIrreflexive
        <4>2. CASE k # key
          BY <1>1, <1>2, <3>2, <4>2 DEF NewestAccepted
        <4> QED BY <4>1, <4>2
      <3>5. received'[c] \subseteq Ops
        BY <1>1, <1>2 DEF NewestAccepted
      <3> QED BY <1>4, <3>2, <3>4, <3>5 DEF NewestAccepted
    <2> QED BY <2>1, <2>2
  <1>7. ASSUME NEW d \in Clients, d # c PROVE NewestAccepted(d)'
    <2>1. NewestAccepted(d) /\ accepted'[d] = accepted[d] /\ received'[d] = received[d]
      BY <1>3, <1>5, <1>7 DEF ResolverInv
    <2> QED BY <2>1 DEF NewestAccepted, Keys
  <1> QED BY <1>5, <1>6, <1>7 DEF ResolverInv

(* Clients converge, in whatever order and however often operations arrive.   *)
LEMMA NewestConverges ==
  ASSUME ResolverInv
  PROVE  ClientsConverge
  <1> SUFFICES ASSUME NEW c \in Clients, NEW d \in Clients, NEW key \in Keys(c),
                      \A op \in Ops : FieldKey(op) = key => (op \in received[c] <=> op \in received[d])
               PROVE  /\ key \in DOMAIN accepted[c] /\ key \in DOMAIN accepted[d]
                      /\ accepted[c][key] = accepted[d][key]
    BY DEF ClientsConverge, Keys
  <1>1. NewestAccepted(c) /\ NewestAccepted(d)
    BY DEF ResolverInv
  <1>2. PICK op \in received[c] : FieldKey(op) = key
    BY DEF Keys
  <1>3. key \in Keys(d)
    BY <1>1, <1>2 DEF Keys, NewestAccepted
  <1> DEFINE a == accepted[c][key]
             b == accepted[d][key]
  <1>4. a \in received[c] /\ a \in Ops /\ FieldKey(a) = key /\ b \in received[d] /\ b \in Ops /\ FieldKey(b) = key
    BY <1>1, <1>3 DEF NewestAccepted
  <1>5. ~Newer(b, a) /\ ~Newer(a, b)
    BY <1>1, <1>3, <1>4 DEF NewestAccepted
  <1>6. a = b
    BY <1>4, <1>5, NewerTotal
  <1> QED BY <1>1, <1>3, <1>6 DEF NewestAccepted

(* The resolvers of all clients agree on every field that they have received  *)
(* the same writes of (ConflictResolver::apply(), collaboration.rs).          *)
THEOREM ResolversConverge == Spec => []ClientsConverge
  <1>1. Init => ResolverInv
    BY DEF Init, ResolverInv, NewestAccepted, Keys
  <1>2. ResolverInv /\ [Next]_vars => ResolverInv'
    <2> SUFFICES ASSUME ResolverInv, [Next]_vars PROVE ResolverInv'
      OBVIOUS
    <2>1. CASE UNCHANGED <<accepted, received>>
      BY <2>1 DEF ResolverInv, NewestAccepted, Keys
    <2>2. CASE \E c \in Clients, op \in Ops : Apply(c, op)
      BY <2>2, ApplyKeeps
    <2>3. UNCHANGED <<accepted, received>> \/ \E c \in Clients, op \in Ops : Apply(c, op)
      BY DEF Next, ShareNext, AdderNext, RegisterTemplate, AddNode, Undo,
           Redo, share_vars, vars
    <2> QED BY <2>1, <2>2, <2>3
  <1>3. ResolverInv => ClientsConverge
    BY NewestConverges
  <1> QED BY <1>1, <1>2, <1>3, PTL DEF Spec

-----------------------------------------------------------------------------
(* The undo stack.  Its entries, as add_node() makes them:                    *)
Entry ==
    [is : {"AddNode"}, node_id : Nat,
     position : Points \cup {Templates[t] : t \in DOMAIN Templates}]

(* A stack is the end of a list of entries.                                   *)
EndsWith(list, stack) ==
    /\ Len(stack) <= Len(list)
    /\ \A i \in 1..Len(stack) : stack[i] = list[Len(list) - Len(stack) + i]

(* The inductive invariant: UndoHoldsNewest, entry by entry, with the types.  *)
AdderInv ==
    /\ next_id \in Nat /\ templates \subseteq DOMAIN Templates
    /\ undo \in Seq(Entry) /\ redo \in Seq(Entry)
    /\ timeline \in [done : Seq(Entry), undone : Seq(Entry)]
    /\ redo = timeline.undone
    /\ Len(undo) + Len(redo) <= Capacity
    /\ EndsWith(timeline.done, undo)

(* An entry appended to both keeps a stack the end of a list, ...             *)
LEMMA AppendEnds ==
  ASSUME NEW S, NEW list \in Seq(S), NEW stack \in Seq(S), NEW e \in S, EndsWith(list, stack)
  PROVE  EndsWith(Append(list, e), Append(stack, e))
  <1>1. Len(stack) \in Nat /\ Len(list) \in Nat
    BY LenProperties
  <1>2. /\ Len(Append(stack, e)) = Len(stack) + 1
        /\ \A i \in 1..Len(stack) : Append(stack, e)[i] = stack[i]
        /\ Append(stack, e)[Len(stack) + 1] = e
    BY AppendProperties
  <1>3. /\ Len(Append(list, e)) = Len(list) + 1
        /\ \A i \in 1..Len(list) : Append(list, e)[i] = list[i]
        /\ Append(list, e)[Len(list) + 1] = e
    BY AppendProperties
  <1> QED BY <1>1, <1>2, <1>3 DEF EndsWith

(* ... Push() keeps the newest entries, ...                                   *)
LEMMA PushEnds ==
  ASSUME NEW S, NEW list \in Seq(S), NEW stack \in Seq(S), NEW e \in S,
         EndsWith(list, stack), Len(stack) <= Capacity
  PROVE  /\ Push(stack, e) \in Seq(S) /\ Len(Push(stack, e)) <= Capacity
         /\ EndsWith(Append(list, e), Push(stack, e))
  <1> DEFINE kept == IF Len(stack) = Capacity THEN Tail(stack) ELSE stack
  <1>1. /\ kept \in Seq(S) /\ Len(kept) < Capacity /\ Len(kept) <= Len(stack)
        /\ \A i \in 1..Len(kept) : kept[i] = stack[Len(stack) - Len(kept) + i]
    <2>1. CASE Len(stack) = Capacity
      <3>1. stack # <<>>
        BY <2>1, CapacityAssumption
      <3>2. kept = Tail(stack)
        BY <2>1
      <3> HIDE DEF kept
      <3>3. /\ kept \in Seq(S) /\ Len(kept) = Len(stack) - 1
            /\ \A i \in 1..Len(kept) : kept[i] = stack[i + 1]
        BY <3>1, <3>2, HeadTailProperties
      <3>4. Len(stack) \in Nat /\ Capacity \in Nat
        BY LenProperties, CapacityAssumption
      <3>5. \A i \in 1..Len(kept) : Len(stack) - Len(kept) + i = i + 1
        BY ONLY <3>3, <3>4
      <3> QED BY ONLY <2>1, <3>3, <3>4, <3>5
    <2>2. CASE Len(stack) # Capacity
      <3>1. kept = stack
        BY <2>2
      <3> HIDE DEF kept
      <3>2. Len(stack) \in Nat /\ Capacity \in Nat
        BY LenProperties, CapacityAssumption
      <3>3. \A i \in 1..Len(stack) : Len(stack) - Len(stack) + i = i
        BY ONLY <3>2
      <3>4. Len(stack) < Capacity
        BY <2>2, <3>2
      <3> QED BY <3>1, <3>2, <3>3, <3>4
    <2> QED BY <2>1, <2>2
  <1> HIDE DEF kept
  <1>2. Len(kept) \in Nat /\ Len(stack) \in Nat /\ Len(list) \in Nat
    BY <1>1, LenProperties
  <1>3. EndsWith(list, kept)
    BY <1>1, <1>2 DEF EndsWith
  <1>4. Append(kept, e) \in Seq(S) /\ Len(Append(kept, e)) = Len(kept) + 1
    BY <1>1, AppendProperties
  <1>6. EndsWith(Append(list, e), Append(kept, e))
    BY <1>1, <1>3, AppendEnds
  <1>7. Len(Append(kept, e)) <= Capacity
    BY <1>1, <1>2, <1>4, CapacityAssumption
  <1> QED BY <1>4, <1>6, <1>7 DEF Push, kept

(* ... and what is undone is the newest of both.                              *)
LEMMA PopEnds ==
  ASSUME NEW S, NEW list \in Seq(S), NEW stack \in Seq(S), EndsWith(list, stack), stack # <<>>
  PROVE  /\ Pop(stack) \in Seq(S) /\ Pop(list) \in Seq(S) /\ Len(Pop(stack)) = Len(stack) - 1
         /\ Top(stack) \in S /\ Top(list) = Top(stack)
         /\ EndsWith(Pop(list), Pop(stack))
  <1>1. Len(stack) \in Nat /\ Len(list) \in Nat /\ Len(stack) > 0 /\ Len(list) >= Len(stack)
    BY LenProperties, EmptySeq DEF EndsWith
  <1>2. ASSUME NEW s \in Seq(S), Len(s) \in Nat, Len(s) > 0
        PROVE  /\ Pop(s) \in Seq(S) /\ Len(Pop(s)) = Len(s) - 1
               /\ \A i \in 1..(Len(s) - 1) : Pop(s)[i] = s[i]
    <2> DEFINE n == Len(s) - 1
    <2>1. n \in 0..Len(s) /\ 1 \in 1..(Len(s) + 1)
      BY <1>2
    <2> HIDE DEF n
    <2>2. /\ SubSeq(s, 1, n) \in Seq(S) /\ Len(SubSeq(s, 1, n)) = IF 1 <= n THEN n - 1 + 1 ELSE 0
          /\ \A i \in 1..(n - 1 + 1) : SubSeq(s, 1, n)[i] = s[1 + i - 1]
      BY <2>1, SubSeqProperties
    <2>3. n \in Nat
      BY <1>2, <2>1
    <2>4. Len(SubSeq(s, 1, n)) = n /\ \A i \in 1..n : SubSeq(s, 1, n)[i] = s[i]
      <3>1. n - 1 + 1 = n /\ \A i \in 1..n : 1 + i - 1 = i
        BY ONLY <2>3
      <3>2. (IF 1 <= n THEN n - 1 + 1 ELSE 0) = n
        BY ONLY <2>3
      <3> QED BY ONLY <2>2, <3>1, <3>2
    <2> QED BY <2>2, <2>4 DEF Pop, n
  <1>3. Top(stack) \in S /\ Top(list) = Top(stack)
    BY <1>1, ElementOfSeq DEF Top, EndsWith
  <1>4. /\ Pop(stack) \in Seq(S) /\ Len(Pop(stack)) = Len(stack) - 1
        /\ \A i \in 1..(Len(stack) - 1) : Pop(stack)[i] = stack[i]
    BY <1>1, <1>2
  <1>5. /\ Pop(list) \in Seq(S) /\ Len(Pop(list)) = Len(list) - 1
        /\ \A i \in 1..(Len(list) - 1) : Pop(list)[i] = list[i]
    BY <1>1, <1>2
  <1>6. EndsWith(Pop(list), Pop(stack))
    BY <1>1, <1>4, <1>5 DEF EndsWith
  <1> QED BY <1>3, <1>4, <1>5, <1>6

LEMMA AddNodeKeeps ==
  ASSUME AdderInv, NEW t \in DOMAIN Templates, NEW position \in Points \cup {None}, AddNode(t, position)
  PROVE  AdderInv'
  <1> DEFINE e == [is |-> "AddNode", node_id |-> next_id,
                   position |-> IF position = None THEN Templates[t] ELSE position]
  <1>1. e \in Entry
    BY DEF Entry, AdderInv
  <1>2. /\ undo' = Push(undo, e) /\ redo' = <<>>
        /\ timeline' = [done |-> Append(timeline.done, e), undone |-> <<>>]
        /\ next_id' = next_id + 1 /\ UNCHANGED templates
    BY DEF AddNode, Pushed
  <1> HIDE DEF e
  <1>3. timeline.done \in Seq(Entry) /\ undo \in Seq(Entry) /\ EndsWith(timeline.done, undo)
    BY DEF AdderInv
  <1>4. Len(undo) <= Capacity
    BY LenProperties, CapacityAssumption DEF AdderInv
  <1>5. /\ Push(undo, e) \in Seq(Entry) /\ Len(Push(undo, e)) <= Capacity
        /\ EndsWith(Append(timeline.done, e), Push(undo, e))
    BY <1>1, <1>3, <1>4, PushEnds
  <1>6. Append(timeline.done, e) \in Seq(Entry) /\ <<>> \in Seq(Entry) /\ Len(<<>>) = 0
    BY <1>1, <1>3, AppendProperties
  <1>7. /\ timeline' \in [done : Seq(Entry), undone : Seq(Entry)]
        /\ timeline'.done = Append(timeline.done, e) /\ timeline'.undone = <<>>
    BY <1>2, <1>6
  <1>8. Len(undo') + Len(redo') <= Capacity
    BY <1>2, <1>5, <1>6, LenProperties, CapacityAssumption
  <1>9. EndsWith(timeline'.done, undo')
    BY <1>2, <1>5, <1>7
  <1>10. next_id' \in Nat /\ templates' \subseteq DOMAIN Templates
    BY <1>2 DEF AdderInv
  <1> QED BY <1>2, <1>5, <1>6, <1>7, <1>8, <1>9, <1>10 DEF AdderInv, EndsWith

LEMMA UndoKeeps ==
  ASSUME AdderInv, Undo
  PROVE  AdderInv'
  <1>1. /\ timeline.done \in Seq(Entry) /\ undo \in Seq(Entry) /\ redo \in Seq(Entry)
        /\ redo = timeline.undone /\ EndsWith(timeline.done, undo)
    BY DEF AdderInv
  <1>2. /\ undo # <<>> /\ undo' = Pop(undo) /\ redo' = Append(redo, Top(undo))
        /\ timeline' = [done |-> Pop(timeline.done),
                         undone |-> Append(timeline.undone, Top(timeline.done))]
        /\ UNCHANGED <<next_id, templates>>
    BY DEF Undo
  <1>3. /\ Pop(undo) \in Seq(Entry) /\ Pop(timeline.done) \in Seq(Entry)
        /\ Len(Pop(undo)) = Len(undo) - 1
        /\ Top(undo) \in Entry /\ Top(timeline.done) = Top(undo)
        /\ EndsWith(Pop(timeline.done), Pop(undo))
    BY <1>1, <1>2, PopEnds
  <1>4. Append(redo, Top(undo)) \in Seq(Entry) /\ Len(Append(redo, Top(undo))) = Len(redo) + 1
    BY <1>1, <1>3, AppendProperties
  <1>5. /\ timeline' \in [done : Seq(Entry), undone : Seq(Entry)]
        /\ timeline'.done = Pop(timeline.done) /\ timeline'.undone = redo'
    BY <1>1, <1>2, <1>3, <1>4
  <1>6. Len(undo') + Len(redo') <= Capacity
    <2>1. Len(undo) \in Nat /\ Len(redo) \in Nat /\ Len(undo) + Len(redo) <= Capacity /\ Capacity \in Nat
      BY <1>1, LenProperties, CapacityAssumption DEF AdderInv
    <2>2. Len(undo') = Len(undo) - 1 /\ Len(redo') = Len(redo) + 1
      BY <1>2, <1>3, <1>4
    <2> QED BY ONLY <2>1, <2>2
  <1>7. EndsWith(timeline'.done, undo')
    BY <1>2, <1>3, <1>5
  <1>8. next_id' \in Nat /\ templates' \subseteq DOMAIN Templates
    BY <1>2 DEF AdderInv
  <1> QED BY <1>2, <1>3, <1>4, <1>5, <1>6, <1>7, <1>8 DEF AdderInv, EndsWith

LEMMA RedoKeeps ==
  ASSUME AdderInv, Redo
  PROVE  AdderInv'
  <1>1. /\ timeline.done \in Seq(Entry) /\ undo \in Seq(Entry) /\ redo \in Seq(Entry)
        /\ redo = timeline.undone /\ EndsWith(timeline.done, undo)
    BY DEF AdderInv
  <1>2. /\ redo # <<>> /\ redo' = Pop(redo) /\ undo' = Append(undo, Top(redo))
        /\ timeline' = [done |-> Append(timeline.done, Top(redo)), undone |-> Pop(redo)]
        /\ UNCHANGED <<next_id, templates>>
    BY <1>1 DEF Redo
  <1>3. EndsWith(redo, redo)
    BY <1>1, LenProperties DEF EndsWith
  <1>4. Pop(redo) \in Seq(Entry) /\ Len(Pop(redo)) = Len(redo) - 1 /\ Top(redo) \in Entry
    BY <1>1, <1>2, <1>3, PopEnds
  <1>5. /\ Append(undo, Top(redo)) \in Seq(Entry) /\ Len(Append(undo, Top(redo))) = Len(undo) + 1
        /\ Append(timeline.done, Top(redo)) \in Seq(Entry)
        /\ EndsWith(Append(timeline.done, Top(redo)), Append(undo, Top(redo)))
    BY <1>1, <1>4, AppendProperties, AppendEnds
  <1>6. /\ timeline' \in [done : Seq(Entry), undone : Seq(Entry)]
        /\ timeline'.done = Append(timeline.done, Top(redo)) /\ timeline'.undone = redo'
    BY <1>2, <1>4, <1>5
  <1>7. Len(undo') + Len(redo') <= Capacity
    <2>1. Len(undo) \in Nat /\ Len(redo) \in Nat /\ Len(undo) + Len(redo) <= Capacity /\ Capacity \in Nat
      BY <1>1, LenProperties, CapacityAssumption DEF AdderInv
    <2>2. Len(undo') = Len(undo) + 1 /\ Len(redo') = Len(redo) - 1
      BY <1>2, <1>4, <1>5
    <2> QED BY ONLY <2>1, <2>2
  <1>8. EndsWith(timeline'.done, undo')
    BY <1>2, <1>5, <1>6
  <1>9. next_id' \in Nat /\ templates' \subseteq DOMAIN Templates
    BY <1>2 DEF AdderInv
  <1> QED BY <1>2, <1>4, <1>5, <1>6, <1>7, <1>8, <1>9 DEF AdderInv, EndsWith

(* However many entries are added, undone and redone, the undo stack holds    *)
(* the newest that are done and the two stacks together no more than the      *)
(* capacity (UndoStack, node_adder.rs).                                       *)
THEOREM UndoStackIsFaithful == Spec => []UndoHoldsNewest
  <1>1. Init => AdderInv
    <2> SUFFICES ASSUME Init PROVE AdderInv
      OBVIOUS
    <2>1. <<>> \in Seq(Entry) /\ Len(<<>>) = 0 /\ Capacity \in Nat
      BY CapacityAssumption
    <2>2. /\ timeline \in [done : Seq(Entry), undone : Seq(Entry)]
          /\ timeline.done = <<>> /\ timeline.undone = <<>>
      BY <2>1 DEF Init
    <2> QED BY <2>1, <2>2 DEF Init, AdderInv, EndsWith
  <1>2. AdderInv /\ [Next]_vars => AdderInv'
    <2> SUFFICES ASSUME AdderInv, [Next]_vars PROVE AdderInv'
      OBVIOUS
    <2>1. CASE ShareNext \/ UNCHANGED vars
      <3>1. UNCHANGED <<next_id, undo, redo, templates, timeline>>
        BY <2>1 DEF ShareNext, Apply, adder_vars, vars
      <3> QED BY <3>1 DEF AdderInv, EndsWith
    <2>2. CASE \E t \in DOMAIN Templates : RegisterTemplate(t)
      BY <2>2 DEF RegisterTemplate, AdderInv, EndsWith
    <2>3. CASE \E t \in DOMAIN Templates, p \in Points \cup {None} : AddNode(t, p)
      BY <2>3, AddNodeKeeps
    <2>4. CASE Undo \/ Redo
      BY <2>4, UndoKeeps, RedoKeeps
    <2> QED BY <2>1, <2>2, <2>3, <2>4 DEF Next, AdderNext
  <1>3. AdderInv => UndoHoldsNewest
    <2> SUFFICES ASSUME AdderInv PROVE UndoHoldsNewest
      OBVIOUS
    <2> DEFINE done == timeline.done
               n == Len(done)
               k == Len(undo)
               newest == SubSeq(done, n - k + 1, n)
    <2>1. /\ done \in Seq(Entry) /\ undo \in Seq(Entry) /\ k <= n
          /\ \A i \in 1..k : undo[i] = done[n - k + i]
      BY DEF AdderInv, EndsWith
    <2>2. n \in Nat /\ k \in Nat
      BY <2>1, LenProperties
    <2>3. \A i \in (n - k + 1)..n : done[i] \in Entry
      BY <2>1, <2>2, ElementOfSeq
    <2> HIDE DEF done, n, k
    <2>4. n - k + 1 \in Int /\ n \in Int /\ n - (n - k + 1) + 1 = k
      BY ONLY <2>1, <2>2
    <2>5. /\ newest \in Seq(Entry)
          /\ Len(newest) = IF n - k + 1 <= n THEN n - (n - k + 1) + 1 ELSE 0
          /\ \A i \in 1..(n - (n - k + 1) + 1) : newest[i] = done[n - k + 1 + i - 1]
      BY <2>3, <2>4, SubSeqProperties
    <2> HIDE DEF newest
    <2>6. Len(newest) = k
      BY ONLY <2>1, <2>2, <2>5
    <2>7. \A i \in 1..k : newest[i] = undo[i]
      <3>1. \A i \in 1..k : n - k + 1 + i - 1 = n - k + i
        BY ONLY <2>1, <2>2
      <3> QED BY ONLY <2>1, <2>4, <2>5, <3>1
    <2>8. undo = newest
      BY <2>1, <2>5, <2>6, <2>7, SeqEqual DEF k
    <2> QED BY <2>8 DEF UndoHoldsNewest, AdderInv, newest, done, n, k
  <1> QED BY <1>1, <1>2, <1>3, PTL DEF Spec
================================================================================
