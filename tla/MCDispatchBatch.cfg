SPECIFICATION WorkSpec
CONSTANTS
    p1 = p1
    p2 = p2
    c1 = c1
    c2 = c2
    Plans = {p1, p2}
    Starters = {c1, c2}
    Members <- MCMembers
    Nobody = none
    T1 = T1
    T2 = T2
    T3 = T3
    T4 = T4
    G = G
    cursor = cursor
    codex = codex
    claude = claude
    local = local
    auto = auto
    Tasks = {T1, T2, T3, T4}
    TaskOrder <- MCTaskOrder
    ConflictGroup <- MCConflictGroup
    NoGroup = NoGroup
    BlockedOn <- MCBlockedOn
    Executor <- MCExecutor
    Reviewer <- MCExecutor
    MaxParallel = 2
    Providers <- MCProviders
    Auto = auto
    Configured = {local}
    Barred = {cursor}
    Parallel = 2
    PerBackend = 1
    MaxOthers = 1
    MaxComings = 1
PROPERTIES
    ExecutedOnce
    BatchEnds
    QueueMoves
