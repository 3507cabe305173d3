\* Three graphs and one poll at a time, so that a graph could starve.
SPECIFICATION FairPollingSpec
CONSTANTS
    g1 = g1
    g2 = g2
    g3 = g3
    Graphs = {g1, g2, g3}
    MaxConcurrent = 1
    StartupBatch = 1
    Interval = 1
    Retry = 1
    MaxRetry = 2
    MaxFailures = 2
    Jitter <- NoJitter
    Broken = Broken
    Malformed = Malformed
    Configs <- Changing
INVARIANTS
    PollsAreBounded
PROPERTIES
    PolledAgain
    StopEnds
