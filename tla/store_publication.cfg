\* A manual job with a retry under two successive coordinators, or two
\* automatic jobs of one graph under one; two attempts that publish under two
\* successive coordinators.
\* Deadlock: both rest when jobs, attempts and epochs run out.
CONSTANTS
    a1 = a1
    a2 = a2
    m1 = m1
    g1 = g1
    genX = genX
    genY = genY
    c1 = c1
    c2 = c2
    Jobs = {a1, a2, m1}
    Graphs = {g1}
    Generations = {genX, genY}
    Keys = {genX, genY, m1}
    Request <- MCRequest
    NoJob = NoJob
    NoGeneration = NoGeneration
    MaxAttempts = 2
    MaxNonterminalJobs = 2
    MaxQueuedManual = 1
    MaxEpoch = 2
    Claims = {c1, c2}
    NoClaim = NoClaim
    FencingEpochs = {1, 2}
    Leases = {1, 2}
    Faults = {}
SPECIFICATION StoreAndPublication
CONSTRAINT ManualOrAutomatic
INVARIANTS StoreInv ReplacementIsRetained UnpublishedStaysUnpublished
PROPERTIES UncertaintyNeedsEvidence StaleOwnerCannotAdvance DispositionIsFinal FenceIsRespected
CHECK_DEADLOCK FALSE
