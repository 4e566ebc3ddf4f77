CONSTANTS
    Sites = {a, b}
    PostIds = {p1, p2}
    ProductIds = {}
    Slugs = {x, y}
    Bad = Bad
    Keep = Keep
    Docs = {}
    Requests = {r1, r2}
    Operator = Operator
    Anonymous = Anonymous
    Unconfigured = Unconfigured
    MaxViews = 1
SYMMETRY Symmetric
SPECIFICATION Spec
INVARIANTS NoOrphans OneRowPerSlug OthersInvisible DraftsInvisible
PROPERTY TenantIsolation
