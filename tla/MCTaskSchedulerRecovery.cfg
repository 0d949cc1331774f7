CONSTANTS
    t1 = t1  t2 = t2  dA = dA
    Tasks = {t1, t2}
    Dims = {dA}
    OwnDim = dA
    Specs <- MCSpecs
    Quotas <- MCQuotas
    Templates = {}
    U32Max = 100
    MaxResumes = 0
    MaxCrashes = 1
    MaxEntries = 1
SPECIFICATION FairRecoverySpec
CHECK_DEADLOCK FALSE
INVARIANTS
    RestoredAccounted
PROPERTIES RestoredIsDispatched
