SPECIFICATION Spec
CONSTANTS
    Containers = {c1}
    Staff = {s1, s2}
    Contents = {x, y}
    None = None
    PollerFrequency = 5
    Leniency = 2
    TotalSaveDuration = 1
    BatchSize = 1
    LambdaTimeout = 4
    MinGap = 5
    AmbiguousFailures = FALSE
    RowAgeCap = 0
    Absence = {"none", "omitted"}
    MaxChanges = 2
    MaxFaults = 2
INVARIANTS
    TypeOK
    HitIsCoherent
    SaveAccounts
    NoRedundantWrite
SYMMETRY InterchangeableJournals
