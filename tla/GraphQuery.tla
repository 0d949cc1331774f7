------------------------------ MODULE GraphQuery ------------------------------
(* Queries over a flow graph and messages between its nodes (graph_query.rs): *)
(* NodeCondition, NodeSelector, NodeSample and NodeCommunicator.  Conditions  *)
(* on kinds, labels and parameters are sets of nodes that satisfy them.       *)
EXTENDS FlowGraph

CONSTANTS
    Channels,
    MaxMessages,  \* bound: messages ever sent
    Queries,      \* the sets of conditions that selectors have
    Factors       \* the factors <<p, q>>, for p/q in [0, 1], that scale() is given

VARIABLES
    inbox,     \* NodeCommunicator::inbox, by node
    sent,      \* history: every message delivered to an inbox, in order
    drained    \* history: every message handed to its node, in order

comm_vars == <<inbox, sent, drained>>

NodeMessage == [id : 1..MaxMessages, to_node : NodeIds, channel : Channels]

-------------------------------------------------------------------------------
(* NodeCondition::matches().  Kind, label, parameter and subgraph conditions  *)
(* are [is |-> "Attribute", nodes |-> ...].                                   *)
RECURSIVE Matches(_, _, _)
Matches(c, n, s) ==
    CASE c.is = "Attribute" -> n \in c.nodes
      [] c.is = "InGroup" -> c.group \in DOMAIN s.groups /\ n \in s.groups[c.group]
      [] c.is = "HasPortMatching" -> \E p \in s.nodes[n] : PortDefs[p].direction \in c.directions
                                                          /\ PortDefs[p].data_type \in c.types
      [] c.is = "Not" -> ~Matches(c.inner, n, s)
      [] c.is = "And" -> \A d \in c.conds : Matches(d, n, s)
      [] c.is = "Or" -> \E d \in c.conds : Matches(d, n, s)

(* NodeSelector::apply(): the nodes that meet every condition, ordered by id. *)
Select(conds, s) ==
    SetToSortSeq({n \in DOMAIN s.nodes : \A c \in conds : Matches(c, n, s)}, <)

(* NodeSample::range(): both ends are clamped.  Not called with from > to,     *)
(* where the code panics.                                                     *)
SampleRange(sample, from, to) ==
    SubSeq(sample, Min({from, Len(sample)}) + 1, Min({to, Len(sample)}))

(* NodeSample::scale(), in exact arithmetic: floor(n * p / q) nodes, at least *)
(* one if p > 0, at the indices floor(i * n / target).                        *)
ScaleWithoutFloor(sample, f) ==
    LET n == Len(sample)
        target == (n * f[1]) \div f[2]
    IN  IF target >= n THEN sample ELSE [i \in 1..target |-> sample[((i - 1) * n) \div target + 1]]

Scale(sample, f) ==
    LET n      == Len(sample)
        floor  == (n * f[1]) \div f[2]
        target == IF floor = 0 /\ f[1] > 0 THEN 1 ELSE floor
    IN  IF n = 0 \/ target >= n THEN sample
        ELSE [i \in 1..target |-> sample[Min({((i - 1) * n) \div target, n - 1}) + 1]]

-------------------------------------------------------------------------------
CommInit ==
    /\ inbox = [n \in NodeIds |-> <<>>]
    /\ sent = <<>>
    /\ drained = <<>>

Message(k, n, ch) == [id |-> Len(sent) + k, to_node |-> n, channel |-> ch]

(* send() of a unicast message; one without a recipient is dropped.           *)
Send(n, ch) ==
    /\ Len(sent) < MaxMessages
    /\ inbox' = [inbox EXCEPT ![n] = Append(@, Message(1, n, ch))]
    /\ sent' = Append(sent, Message(1, n, ch))
    /\ UNCHANGED drained

(* broadcast(): a copy for every recipient of the list, repetitions included. *)
Broadcast(recipients, ch) ==
    LET copies == [i \in DOMAIN recipients |-> Message(i, recipients[i], ch)]
    IN  /\ Len(sent) + Len(recipients) <= MaxMessages
        /\ inbox' = [n \in NodeIds |-> inbox[n] \o SelectSeq(copies, LAMBDA m : m.to_node = n)]
        /\ sent' = sent \o copies
        /\ UNCHANGED drained

DrainInbox(n) ==
    /\ inbox' = [inbox EXCEPT ![n] = <<>>]
    /\ drained' = drained \o inbox[n]
    /\ UNCHANGED sent

DrainChannelDroppingRest(n, ch) ==
    /\ inbox' = [inbox EXCEPT ![n] = <<>>]
    /\ drained' = drained \o SelectSeq(inbox[n], LAMBDA m : m.channel = ch)
    /\ UNCHANGED sent

(* drain_channel(): partition, put the remaining ones back.                   *)
DrainChannel(n, ch) ==
    /\ inbox' = [inbox EXCEPT ![n] = SelectSeq(@, LAMBDA m : m.channel # ch)]
    /\ drained' = drained \o SelectSeq(inbox[n], LAMBDA m : m.channel = ch)
    /\ UNCHANGED sent

CommNext ==
    \/ \E n \in NodeIds, ch \in Channels : Send(n, ch) \/ DrainChannel(n, ch)
    \/ \E k \in 0..2, ch \in Channels : \E rs \in [1..k -> NodeIds] : Broadcast(rs, ch)
    \/ \E n \in NodeIds : DrainInbox(n)

-------------------------------------------------------------------------------
(* Every message reaches its node once, and on each channel in the order in   *)
(* which it was sent: what a node has drained, followed by what waits in its  *)
(* inbox, is what was sent to it.                                             *)
DeliveredInOrder ==
    \A n \in NodeIds, ch \in Channels :
        LET For(ms) == SelectSeq(ms, LAMBDA m : m.to_node = n /\ m.channel = ch)
        IN  For(drained) \o For(inbox[n]) = For(sent)

(* What a query selects can be read page by page, range(0, k) and range(k, n)  *)
(* being all of it; and scale() keeps its order, repeats no node, and gives as *)
(* many nodes as its code and its test of the factor 0 say: the floor of the   *)
(* share, one where a factor above 0 would leave none, and none for 0.         *)
SamplingSound ==
    \A conds \in Queries :
        LET sample == Select(conds, schema)
            n      == Len(sample)
        IN  /\ \A k \in 0..n + 1 : SampleRange(sample, 0, k) \o SampleRange(sample, k, n + 1) = sample
            /\ \A f \in Factors :
                  LET scaled == Scale(sample, f)
                  IN  /\ \A i \in 1..Len(scaled) - 1 : scaled[i] < scaled[i + 1]
                      /\ ToSet(scaled) \subseteq ToSet(sample)
                      /\ Len(scaled) = IF n = 0 \/ f[1] = 0 THEN 0
                                       ELSE Max({1, (n * f[1]) \div f[2]})
================================================================================
