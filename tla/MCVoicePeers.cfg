SPECIFICATION Spec
CONSTANTS
    Users = {u1, u2}
    MaxJoins = 3
    MaxPcs = 4
    MaxFaults = 1
SYMMETRY UserSymmetry
INVARIANTS
    MeshComplete
    OneOfferer
    NoOrphan
    
\* Nobody need join again.
CHECK_DEADLOCK FALSE
