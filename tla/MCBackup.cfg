SPECIFICATION Spec
CONSTANTS
    Dbs = {d1, d2}
    KeepDaily = 2
    KeepWeekly = 2
    KeepMonthly = 1
    Week = 2
    Month = 3
    MaxAge = 1
    Expiry = 2
    MaxNow = 5
    MaxCuts = 1
SYMMETRY DbSymmetry
INVARIANTS
    QuietMeansRestorable
    SlotsHold
PROPERTY
    LastCopyGoesLoudly
