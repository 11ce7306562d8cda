SPECIFICATION ScopesSpec
CONSTANTS
    T1 = T1
    T2 = T2
    A = A
    B = B
    G = G
    D = D
    Codex = Codex
    Claude = Claude
    NoGroup = NoGroup
    Nothing = Nothing
    Tasks <- MCTasks
    TaskOrder <- MCTaskOrder
    ConflictGroup <- MCConflictGroup
    BlockedOn <- MCBlockedOn
    Executor <- MCExecutor
    Reviewer <- MCReviewer
    Objectives <- MCObjectives
    InitialTargets <- MCInitialTargets
    DepsOf <- MCDepsOf
    Decisions <- MCDecisions
    MaxParallel = 2
    MaxEvents = 4
    MaxFailed = 1
INVARIANTS
    AuthorityHolds
    WavesGo
CHECK_DEADLOCK FALSE
