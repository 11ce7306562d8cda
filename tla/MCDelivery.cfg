SPECIFICATION Spec
CONSTANTS
    app = app
    lib = lib
    Repos = {app, lib}
    Order <- MCOrder
    None = None
    Creators = {c1, c2}
    Requests <- MCRequests
    MaxBase = 1
    MaxKills = 1
    MaxEdits = 3
    MaxDeaths = 1
    trunk = trunk
    twig = twig
    T = T
    U = U
    Procs = {p, q}
    Lines = {trunk, twig}
    Parent <- MCParent
    Tasks = {T, U}
    LineOf <- MCLineOf
    MaxMerges = 2
    MaxOutside = 1
    MaxCrashes = 1
    Refs <- MCRefs
    Releases = {"release"}
    MaxFetches = 1
    Callers = {x, y}
    Contents = {".git", "src"}
    MaxKilled = 1
INVARIANTS
    LinesWhole
    BundleFollows
    MergesWhole
    CreatedAsShown
    AnchorsWhole
PROPERTIES
    WorkStays
SYMMETRY Symmetric
CHECK_DEADLOCK FALSE
