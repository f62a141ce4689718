SPECIFICATION FairSpec
CONSTANTS
    Keys = {k1, k2}
    Details = {x, y}
    None = None
    Pollers = {p1, p2}
    MaxChanges = 1
    MaxFaults = 1
INVARIANTS
    TypeOK
    SuccessMeansCurrent
    RemovesOnlyLeavers
PROPERTIES
    FollowsSource
    Converges
    Quiesces
