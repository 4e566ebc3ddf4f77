SPECIFICATION Spec
CONSTANTS
    Counters = {queue_full}
    ServerFaults = {}
    HostFaults = {disk}
    None = none
    Repeat <- Window
    MaxCount <- Losses
INVARIANT
    MailDownReachesWatchdog
