SPECIFICATION MCSpec
CONSTANTS
    Users = {u1, u2, u3}
    Channels = {v1, v2}
    Conns = {c1, c2, c3}
    MultiDevice = TRUE
    Kicks = TRUE
    None = None
SYMMETRY AllSymmetry
INVARIANTS
    MeshComplete
    NoGhosts
    ExactOnOneDevice
