SPECIFICATION Spec
CONSTANTS
    g1 = g1
    g2 = g2
    g3 = g3
    p1 = p1
    m1 = m1
    i1 = i1
    Requests = {g1, g2, g3, p1, i1}
    Body <- MCBody
    Capacity = 3
    BatchMax = 2
INVARIANTS
    NothingVanishes
    OnePlaceEach
    PoisonCostsOnlyItself
    DuplicateNeedsLostReply
    CountersExact
    ShutdownLossless
SYMMETRY GoodSymmetry
