SPECIFICATION FairSpec
CONSTANTS
    Sites = {s1, s2}
    Tokens = {t1, t2}
    Handlers = {h1}
    Tick = tick
    None = none
INVARIANTS
    CacheLagsOnlyByLapse
    TokenNeverCrossesTenant
    DeadTokenNeedsLapse
    UngatedOnlyIfEmptied
PROPERTY
    QuietCacheConverges
