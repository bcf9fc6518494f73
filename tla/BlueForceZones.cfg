SPECIFICATION RegistrySpec
CONSTANTS
    Assets = {a1, a2}
    Footprints = {p1, p2}
    ZoneIds = {z1, z2, z3}
    Requests = {r1, r2, r3}
    Nil = Nil
    MaxBreakOffs = 1
SYMMETRY Symmetry
INVARIANTS
    ZoneInSync
    AnsweredIsCovered
CHECK_DEADLOCK FALSE
