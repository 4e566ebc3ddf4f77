CONSTANTS
    Sites = {a, b}
    PostIds = {}
    ProductIds = {q}
    Slugs = {x}
    Bad = Bad
    Keep = Keep
    Docs = {d}
    Requests = {r1, r2}
    Operator = Operator
    Anonymous = Anonymous
    Unconfigured = Unconfigured
    MaxViews = 1
SYMMETRY Symmetric
SPECIFICATION Spec
INVARIANTS NoOrphans
PROPERTY TenantIsolation
