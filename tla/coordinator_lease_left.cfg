\* A crash at the wrong moment.
CONSTANTS
    m1 = m1
    g1 = g1
    s1 = s1
    k1 = k1
    Jobs = {m1}
    Graphs = {g1}
    Generations = {s1}
    Keys = {k1}
    Request <- OneJob
    NoJob = NoJob
    NoGeneration = NoGeneration
    NoClaim = NoClaim
    MaxAttempts = 1
    MaxNonterminalJobs = 1
    MaxQueuedManual = 1
    MaxEpoch = 2
    Disturbances = {{"crash"}}
    Faults = {}
SPECIFICATION CoordinatorSpec
INVARIANTS NoLeaseRemains
CHECK_DEADLOCK FALSE
