SPECIFICATION Spec
CONSTANTS
    h1 = h1
    h2 = h2
    Hosts = {h1, h2}
    Explicit = {h1}
    Detections <- MCDetections
    Versions = {1, 2}
    LegacyVersion = 1
    None = None
    Foreign = Foreign
    NoOp = NoOp
    MaxErrors = 2
    MaxCrashes = 1
    MaxTouches = 1
    Files <- MCFiles
    Gone = Gone
    Nothing = Nothing
    Denied = {2}
    MaxEdits = 2
    MaxCommits = 1
    MaxRoutes = 1
    MaxFaults = 1
    Processes = {p, q}
    LastVersion = 2
    MaxDay = 1
    MaxSwitches = 1
    Roots = {r1, r2}
    Aliases = {"app", "App", "app-2"}
    Fold <- MCFold
    OwnNames <- MCOwnNames
    NoAlias = NoAlias
    Commands = {c1, c2}
INVARIANTS
    ContextsHold
    LeftIsFound
    PreferenceKept
    EntriesHold
PROPERTIES
    InstallsSettle
    ForeignKept
SYMMETRY Symmetric
CHECK_DEADLOCK FALSE
