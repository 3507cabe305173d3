\* One job with a retry, one coordinator that stays up; one graph, three
\* generations of its source; two operations and two commands.
\* Deadlock: the system is at rest when the job is over.
CONSTANTS
    m1 = m1
    g1 = g1
    s1 = s1
    k1 = k1
    Jobs = {m1}
    Graphs = {g1}
    Generations = {s1}
    Keys = {k1}
    Request <- OneJob
    NoJob = NoJob
    NoGeneration = NoGeneration
    NoClaim = NoClaim
    MaxAttempts = 2
    MaxNonterminalJobs = 1
    MaxQueuedManual = 1
    MaxEpoch = 1
    Disturbances = {{"cancel"}}
    Faults = {}
    SourceGenerations = {1, 2, 3}
    None = None
SPECIFICATION ProgressSpec
PROPERTIES JobsEnd ConvergesAndRests CommandEnds
CHECK_DEADLOCK FALSE
