SPECIFICATION FairSpec
CONSTANTS
    Containers = {c1, c2}
    Staff = {s1}
    Contents = {x, y}
    None = None
    PollerFrequency = 5
    Leniency = 0
    TotalSaveDuration = 0
    BatchSize = 1
    LambdaTimeout = 3
    MinGap = 4
    AmbiguousFailures = FALSE
    RowAgeCap = 0
    Absence = {"none"}
    MaxChanges = 2
    MaxFaults = 1
INVARIANTS
    HitIsCoherent
    CoherenceInv
PROPERTIES
    HitIsImmediatelySubsequent
    Converges
