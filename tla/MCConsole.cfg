SPECIFICATION Spec
CONSTANTS
    Conns = {c1, c2, c3}
    Slots = 2
    SecretLife = 1
    MaxFailures = 2
    IdleLife = 2
    SessionLife = 3
    MaxTime = 3
    MaxNoThread = 1
    NoSession = NoSession
    Spaces = {1, 2, 3}
    Credentials = {3}
    Workers = 2
    Limit = 1
    MaxMoves = 2
    MaxRestarts = 1
    NoPage = NoPage
    Tasks = {t1, t2, t3}
    Lines = {l1}
    Objectives = {o1}
    Odd = {t2}
    Oversized = {t3}
    MaxRows = 1
    MaxChanges = 3
    MaxBreaks = 1
    Redacted = Redacted
    Empty = Empty
INVARIANTS
    ListenerHolds
    PagesAreOne
    PageHonest
SYMMETRY ConnSymmetry
CHECK_DEADLOCK FALSE
