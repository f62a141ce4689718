SPECIFICATION Spec
CONSTANTS
    e1 = e1
    e2 = e2
    e3 = e3
    e4 = e4
    NaN = NaN
    Examiners <- MCExaminers
    StaffNumber <- MCStaffNumber
    Numeric <- MCNumeric
    LastDay <- MCLastDay
    Listings <- MCListings
    Contents <- MCContents
    JournalDaysPast = 1
    DaysInAdvance = 1
    NonWorking = {0}
    FutureDays = 0
    AdvanceDays = 3
    CommitmentDays = 3
    DeploymentDays = 2
    Groups = 2
    MaxChanges = 1
    MaxFaults = 1
INVARIANTS
    TypeOK
    NoEntryTwice
    SteadyRecordsPresent
