SPECIFICATION Spec
CONSTANTS
    Tasks = {a, b}
    NoGroup = NoGroup
    ConflictGroup <- OneGroup
    DependsOn <- NoDependencies
    Mode = "external"
    Procs = {p, q}
    NoProc = NoProc
    Principals = {r1, r2, r3}
    None = None
    RequireSignoff = TRUE
    Clocks = {0}
    MaxClaims = 2
    MaxBundles = 2
    MaxAnswers = 1
    MaxOverrides = 1
SYMMETRY ClaimSymmetry
INVARIANTS
    GroupsExclusive
    DoneIsAttested
PROPERTIES
    EvidenceBound
CHECK_DEADLOCK FALSE
