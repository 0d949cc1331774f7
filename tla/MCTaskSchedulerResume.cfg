CONSTANTS
    t1 = t1  t2 = t2  t3 = t3  dA = dA  dB = dB
    Tasks = {t1, t2, t3}
    Dims = {dA, dB}
    OwnDim = dA
    Specs <- MCSpecs
    Quotas <- MCQuotas
    Templates <- MCTemplates
    U32Max = 100
    MaxResumes = 1
SPECIFICATION Spec
CHECK_DEADLOCK FALSE
INVARIANT DepsRespected
