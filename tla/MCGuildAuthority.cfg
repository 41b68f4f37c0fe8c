SPECIFICATION HSpec
CONSTANTS
    Users = {u1, u2}
    Channels = {c1}
    Roles = {x1}
    Codes = {i1}
    Reqs = {q1, q2}
    Ops = {"create_guild", "create_invite", "join_guild", "leave_guild",
           "transfer_owner", "kick_member", "ban_member"}
    Faults = TRUE
    None = None
SYMMETRY UserSymmetry
INVARIANTS
    EffectsAuthorised
