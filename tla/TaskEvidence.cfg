SPECIFICATION Spec
CONSTANTS
    Tasks = {t}
    NoGroup = NoGroup
    ConflictGroup <- Ungrouped
    DependsOn <- NoDependencies
    Mode = "local"
    None = None
    MaxRuns = 2
    MaxCommits = 2
    MaxReviews = 2
    MaxOverrides = 1
PROPERTIES
    DoneIsReviewed
    DeliveredIsReviewed
CHECK_DEADLOCK FALSE
