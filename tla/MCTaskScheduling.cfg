SPECIFICATION FairSpec
CONSTANTS
    a = a
    b = b
    c = c
    p = p
    q = q
    g = g
    Tasks = {a, b, c}
    Procs = {p, q}
    NoGroup = NoGroup
    NoProc = NoProc
    NoTask = NoTask
    ConflictGroup <- MCGroup
    DependsOn <- MCDependsOn
    BlockedOn = {b}
    Mode = "local"
    MaxCommands = 3
    MaxOutside = 1
INVARIANTS
    AgentsExclusive
PROPERTIES
    VerdictsHold
    CommandsEnd
CHECK_DEADLOCK FALSE
