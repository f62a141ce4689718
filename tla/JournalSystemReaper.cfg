SPECIFICATION FairSystemSpec
CONSTANTS
    Containers = {c1}
    Staff = {s1}
    Contents = {x, y}
    None = None
    PollerFrequency = 5
    Leniency = 0
    TotalSaveDuration = 0
    BatchSize = 1
    LambdaTimeout = 2
    MinGap = 4
    AmbiguousFailures = FALSE
    RowAgeCap = 7
    ReapAge = 4
    Absence = {"none", "omitted"}
    MaxChanges = 1
    MaxFaults = 1
INVARIANTS
    SystemTypeOK
PROPERTIES
    RemovedWereInactive
    LeaversAreReaped
