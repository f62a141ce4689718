SPECIFICATION FairSpec
CONSTANTS
    Keys = {k1, k2}
    Details = {x, y}
    None = None
    Pollers = {p1}
    MaxChanges = 1
    MaxFaults = 2
    x = x
    y = y
    StartDay <- Days
    Retain = 1
    LastDay = 3
INVARIANTS
    DelegatedTypeOK
    SuccessMeansCurrent
PROPERTIES
    RetainedUntilExpired
    FollowsSource
    Converges
    Quiesces
