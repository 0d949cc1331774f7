CONSTANTS
    None = None
    Clients = {"c", "d"}
    Ops <- MCOps
    Points = {0, 1}
    Templates <- MCTemplates
    Capacity = 2
    MaxMoves = 4
SPECIFICATION MCSpec
CHECK_DEADLOCK FALSE
INVARIANTS
    UndoFaithful LogsFollow LeastPriorityDecides  SignalsTold HealthTold ClientsConverge ViewFits
