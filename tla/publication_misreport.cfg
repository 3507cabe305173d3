\* Two attempts of the jobs of one graph, two successive coordinators.
\* Deadlock: a graph without further jobs is at rest.
SPECIFICATION PubSpec
CONSTANTS
    c1 = c1
    c2 = c2
    Claims = {c1, c2}
    NoClaim = NoClaim
    Epochs = {1, 2}
    Leases = {1, 2}
    FencingEpochs = {1, 2}
    Faults = {"readback", "post_commit"}
INVARIANTS UnpublishedStaysUnpublished
CHECK_DEADLOCK FALSE
