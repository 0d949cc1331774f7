--------------------------------- MODULE MCMesh ---------------------------------
(* An instance for TLC: a store that two threads of clients use, a second one  *)
(* that follows it, and a third that follows the second.                       *)
(* A behaviour has three calls that nobody follows, or two and their copies.   *)
EXTENDS Mesh

VARIABLE part

MCInit ==
    /\ Init /\ part \in {"calls", "copies"}
    /\ part = "calls" => \A r \in Replicators : subs[r].filter = <<>>

MCNext ==
    /\ Next /\ UNCHANGED part
    /\ part = "calls" => UNCHANGED subs
    /\ part = "copies" => calls' < MaxCalls

MCSpec == MCInit /\ [][MCNext]_<<vars, part>>

MCSymmetry == Permutations(Threads)

MCDraft(id, dimension, tags, tier) ==
    [id |-> id, dimension |-> dimension, task |-> "t", node |-> "n", agent |-> "a", tags |-> tags,
     content_type |-> "", version |-> None, tier |-> tier, old |-> FALSE]

MCDrafts ==
    {MCDraft(1, "d", <<"x", "x">>, 0), MCDraft(1, "e", <<>>, 2),
     [MCDraft(2, "d", <<"x">>, 1) EXCEPT !.agent = None],
     [MCDraft(3, "e", <<"x">>, 1) EXCEPT !.node = None, !.version = <<1, 1, 0>>, !.old = TRUE]}

MCSchemas == {<<"application/json", <<1, 1, 0>>>>}

MCReplicators == {<<"source", "replica">>, <<"replica", "mirror">>}

MCRequests ==
    {[node |-> "n", dimension |-> "d", expected |-> 0, strategy |-> "Reject"],
     [node |-> "n", dimension |-> "d", expected |-> 1, strategy |-> "LastWriteWins"]}

MCPolicies ==
    {[active_dimensions |-> {}, remove_consumed_ephemeral |-> TRUE, remove_orphaned_nodes |-> TRUE,
      expire |-> FALSE],
     [active_dimensions |-> {"e"}, remove_consumed_ephemeral |-> FALSE,
      remove_orphaned_nodes |-> FALSE, expire |-> TRUE]}

MCFilters == {<<>>, [dimension |-> "d", tag |-> "x", kinds |-> {"Produced", "Consumed"}]}
=================================================================================
