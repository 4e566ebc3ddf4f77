SPECIFICATION FairSpec
CONSTANTS
    a = a
    b = b
    f = f
    None = None
    Digest = Digest
    EmailFrom = EmailFrom
    r1 = r1
    Sites = {1, 2}
    Requests = {r1}
    Measured = {1, 2}
    Rows <- MCRows
    Tables <- MCTables
    MaxEdits = 1
    MaxKills = 1
INVARIANTS
    MailStaysHome
    AnsweredMeansMailed
    EachSiteForItself
PROPERTIES
    WeeklyReportsGoOn
