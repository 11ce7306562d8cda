SPECIFICATION Spec
CONSTANTS
    Actions = {execute, review}
    Reviews = {review}
    Schedulers = {p, q}
    Operator = Operator
    NoProc = NoProc
    None = None
    MaxActions = 2
    MaxFailures = 1
    Ttl = 1
    MaxTime = 1
    MaxGen = 3
    MaxSeq = 3
SYMMETRY SchedulerSymmetry
INVARIANTS
    WorkBounded
    JournalHolds
PROPERTIES
    LifecycleHolds
CHECK_DEADLOCK FALSE
