\* Two coordinators and a job with a retry: crashes; takeovers of a live
\* coordinator; errors, cancellations and workers that cannot be reaped.
\* Deadlock: coordinators may crash for good and jobs run out.
CONSTANTS
    m1 = m1
    g1 = g1
    s1 = s1
    k1 = k1
    Jobs = {m1}
    Graphs = {g1}
    Generations = {s1}
    Keys = {k1}
    Request <- OneJob
    NoJob = NoJob
    NoGeneration = NoGeneration
    NoClaim = NoClaim
    MaxAttempts = 2
    MaxNonterminalJobs = 1
    MaxQueuedManual = 1
    MaxEpoch = 2
    Disturbances = {{"crash"}, {"singleton_expiry", "lease_expiry"}, {"crash", "control_error", "cancel", "unproved"}}
    Faults = {}
SPECIFICATION CoordinatorSpec
CONSTRAINT SecondAttemptAfterCrash
INVARIANTS PublishedAtMostOnce ReportsAreTrue
PROPERTIES StoreSpec PublicationSpec
CHECK_DEADLOCK FALSE
