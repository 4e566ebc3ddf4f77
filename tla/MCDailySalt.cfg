SPECIFICATION FairSpec
CONSTANTS
    Collectors = {c1, c2}
    Pruner = pruner
    Salts = {k1, k2, k3}
    NoSalt = nosalt
    MaxDay <- Horizon
INVARIANTS
    OneSaltPerDay
    SaltsRotate
PROPERTIES
    OldSaltsLeave
