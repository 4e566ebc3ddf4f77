SPECIFICATION FairSpec
CONSTANTS
    e1 = e1
    e2 = e2
    e3 = e3
    None = None
    Blank = Blank
    Payload <- MCPayload
    Skews <- MCSkews
    Requests <- MCRequests
    Hour = 1
    Day = 2
    MaxDays = 2
    MaxLimit = 2
    MaxMinutes = 1
    Week = 1
    PaidMedia = {"cpc"}
    SearchLabels = {"google"}
    SocialLabels = {"facebook"}
    SocialHosts = {}
    Past = 1
    Future = 1
    KeepFor = 2
    Chunk = 2
    Start = 4
    MaxNow = 6
INVARIANTS
    ReportsWhole
    CompareCountsOnce
    ReportsAgree
PROPERTIES
    SweepLeavesNothingOld
    OldRowsLeave
