SPECIFICATION FairSpec
CONSTANTS
    Keys = {k1, null}
    Details = {x, y, m}
    None = None
    Pollers = {p1}
    MaxChanges = 1
    MaxFaults = 2
    Legacy = Legacy
    Malformed = {m}
    NonNumeric = {null}
INVARIANTS
    TypeOK
    SuccessMeansCurrent
PROPERTIES
    FollowsSource
    Converges
