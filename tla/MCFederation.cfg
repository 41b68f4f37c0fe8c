SPECIFICATION MCSpec
CONSTANTS
    Msgs = {m1, m2}
    Recipients = {u1, u2}
    Bodies = {b1, b2}
    NoText = NoText
    MaxOps = 3
    Faults = TRUE
    None = None
SYMMETRY AllSymmetry
INVARIANTS
    OriginalKept
    ClientsAreCurrent
    OneDirectConversation
    FailuresAreIsolated
    CopiesAgree
\* The author may stop calling.
CHECK_DEADLOCK FALSE
