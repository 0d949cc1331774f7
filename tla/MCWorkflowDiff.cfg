CONSTANTS
    NodeIds = {1, 2, 3}
    LinkIds = {1, 2, 3, 4}
    GroupIds = {1}
    SubgraphIds = {1}
    RelationIds = {1}
    Ports = {1, 2, 3}
    PortDefs <- MCPortDefs
    LinkDefs <- MCLinkDefs
    RelationDefs <- MCRelationDefs
    PortSets = {{1, 2}}
    PatchOps <- MCPatchOps
    MaxPatchLen = 2
    MaxItems = 6
    None = None
    Channels = {"a", "b"}
    MaxMessages = 3
    Queries <- MCQueries
    Factors <- MCFactors
    Baselines <- MCBaselines
SPECIFICATION MCSpec
CHECK_DEADLOCK FALSE
INVARIANT DiffAlwaysTransforms
