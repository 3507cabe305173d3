CONSTANTS
    Control = control
    g1 = g1
    g2 = g2
    attempt = attempt
    direct = direct
    load = load
    submit = submit
    dumpAll = dumpAll
    upgrade = upgrade
    drop = drop
    dump = dump
    dropControl = dropControl
    GraphOrder <- MCGraphOrder
    Ops = {attempt, direct, load, submit}
    OpKind <- MCOpKind
    OpGraph <- MCOpGraph
    Commands = {dumpAll, upgrade, drop, dump, dropControl}
    CommandKind <- MCCommandKind
    Target <- MCTarget
    Casts <- MCCasts
    MaxFaults = 1
    Newest = 4
    Identity = 2
    Removal = 3
    Roots = {"here", "there"}
    Here = "here"
    Fences <- MCFences
    MaxEpoch = 2
    MaxMishaps = 2
    Invocations = {"first", "second"}
    Order <- MCOrder
    RestoreFaults <- MCRestoreFaults
SPECIFICATION UpkeepSpec
INVARIANTS
    BackupSetIsStable
    NothingUnbacked
    LedgerTellsSchema
    NoRunAheadOfAuthority
    LeftoversAreNamed
    OnlyItsOwn
    SuccessIsWhole
PROPERTIES
    ChangesAreGuarded
    UpgradesConverge
