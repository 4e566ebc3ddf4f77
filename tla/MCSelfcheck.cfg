SPECIFICATION FairSpec
CONSTANTS
    Counters = {queue_full}
    ServerFaults = {}
    HostFaults = {disk}
    None = none
    Repeat <- Window
    MaxCount <- Losses
PROPERTIES
    Throttled
    NothingSwallowed
    RisesAreFound
    StandingFaultsAreMailed
