SPECIFICATION Spec
CONSTANTS
    Msgs = {m1}
    Recipients = {u1, u2}
    Bodies = {b1, b2}
    NoText = NoText
    MaxOps = 2
    Faults = FALSE
    None = None
SYMMETRY AllSymmetry
INVARIANTS
    RemoteIsCurrent
\* The author may stop calling.
CHECK_DEADLOCK FALSE
