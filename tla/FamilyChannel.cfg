\* One line and the one forked from it; the fork writes to the operator.
SPECIFICATION ChannelSpec
CONSTANTS
    Lines = {line, fork}
    Parent <- SendersForked
    Operator = Operator
    NoLine = NoLine
    Senders = {fork}
    Recipients = {Operator}
    Retractable = {0, 1}
    Tasks = {t1}
    Artifacts = {a1}
    Procs = {p1, p2}
    RowsPerFile = 1
    PageSize = 2
    Sound = Sound
    Bad = Bad
    MaxRows = 2
    MaxChanges = 2
    MaxFaults = 1
    MaxEvents = 3
SYMMETRY ProcSymmetry
INVARIANTS
    ChangesTold
    ReadingsHold
CHECK_DEADLOCK FALSE
