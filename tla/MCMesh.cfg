CONSTANTS
    Stores = {"source", "replica", "mirror"}
    Threads = {t1, t2}
    Nodes = {"n"}
    Replicators <- MCReplicators
    Origins = {"source"}
    Drafts <- MCDrafts
    FirstId = 11
    Schemas <- MCSchemas
    Requests <- MCRequests
    Policies <- MCPolicies
    Filters <- MCFilters
    Capacity = 2
    MaxCalls = 3
    None = None
    Malformed = Malformed
SPECIFICATION MCSpec
SYMMETRY MCSymmetry
CHECK_DEADLOCK FALSE
INVARIANTS
    IndexExact RevisionsHold ReplicaConverges
