SPECIFICATION Spec
CONSTANTS
    Keys = {k1}
    Details = {x, y}
    None = None
    Pollers = {p1}
    MaxChanges = 0
    MaxFaults = 1
    Legacy = Legacy
    Malformed = {}
    NonNumeric = {}
INVARIANTS
    DeletesInactiveOrLegacy
SYMMETRY InterchangeableDetails
