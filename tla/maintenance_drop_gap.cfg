CONSTANTS
    Control = control
    g1 = g1
    g2 = g2
    attempt = attempt
    direct = direct
    load = load
    submit = submit
    dumpAll = dumpAll
    upgrade = upgrade
    drop = drop
    dump = dump
    dropControl = dropControl
    GraphOrder <- MCGraphOrder
    Ops = {load}
    OpKind <- MCOpKind
    OpGraph <- MCOpGraph
    Commands = {drop}
    CommandKind <- MCCommandKind
    Target <- MCTarget
    Casts <- LoadAndDrop
    MaxFaults = 0
SPECIFICATION Spec
INVARIANTS
    NothingUnbacked
