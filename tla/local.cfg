\* Two processes, three attempts, two temporary names.
\* Deadlock: tokens and names are bounded and an operator may stop.
SPECIFICATION Spec
CONSTANTS
    Procs = {p1, p2}
    NoProc = NoProc
    Attempts = {a1, a2, a3}
    NoAttempt = NoAttempt
    Faults = {"crash", "power", "sync", "io", "commit", "restore"}
    Runners = {p1, p2}
    NoRunner = NoRunner
    Tokens = {t1, t2}
    Old = Old
    NoFile = NoFile
    MaxGen = 2
    FileFaults = {"crash", "power", "sync", "io", "commit", "move"}
    Writers = {a1, a2, a3}
    NoOne = NoOne
    FaultSets = {{"io"}, {"crash", "power"}, {"unlink"}, {"io", "unlink"}, {"interrupt"}}
SYMMETRY Symmetry
CONSTRAINT FewBackups
INVARIANTS
    SettledIsTrue DecidableUntilReturn FinalIsComplete BackupIsWhole
PROPERTIES
    SettlesTruly CommitsBehindDurableRecord
    DatabaseIsKept CleanupSpares
CHECK_DEADLOCK FALSE
