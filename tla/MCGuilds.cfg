SPECIFICATION MCSpec
CONSTANTS
    Users = {u1, u2, u3}
    Channels = {c1, c2}
    Roles = {x1, x2}
    Codes = {i1}
    Reqs = {q1}
    Ops = {"create_guild", "create_channel", "create_invite", "revoke_invite",
           "delete_guild", "join_guild", "leave_guild", "grant_admin",
           "revoke_admin", "transfer_owner", "kick_member", "rename_channel",
           "delete_channel", "create_role", "delete_role", "assign_role",
           "unassign_role", "ban_member", "unban_member", "delete_conversation"}
    Faults = TRUE
    None = None
SYMMETRY RowSymmetry
INVARIANTS
    OwnerIsMember
    OneAdminRole
    BannedStayOutUnlessTorn
    ChannelsFollowMembersUnlessTorn
PROPERTIES
    OnlyEmptyConversationsDropped
