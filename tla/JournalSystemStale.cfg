SPECIFICATION SystemSpec
CONSTANTS
    Containers = {c1}
    Staff = {s1}
    Contents = {x, y}
    None = None
    PollerFrequency = 5
    Leniency = 2
    TotalSaveDuration = 1
    BatchSize = 1
    LambdaTimeout = 2
    MinGap = 4
    AmbiguousFailures = FALSE
    RowAgeCap = 7
    ReapAge = 4
    Absence = {"none"}
    MaxChanges = 0
    MaxFaults = 0
SYMMETRY InterchangeableContents
INVARIANTS
    HitIsCoherent
