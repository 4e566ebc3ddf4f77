SPECIFICATION Spec
CONSTANTS
    Sites = {s1, s2}
    Tokens = {t1, t2}
    Handlers = {h1}
    Tick = tick
    None = none
INVARIANT
    RotatedTokenIsDead
