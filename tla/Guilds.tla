------------------------------- MODULE Guilds -------------------------------
(***************************************************************************)
(* The guild ("Discord-like server") handlers of feditexter-server:        *)
(* src/crates/feditexter-server/src/api/guilds.rs, and the one handler of  *)
(* api/chat_handlers.rs that also writes a guild's channel memberships.    *)
(*                                                                         *)
(* Every handler is an async function that runs SQL statements on a shared *)
(* connection pool.  Only a few of them open a transaction, and none takes *)
(* a lock on what it has checked, so the unit of atomicity is ONE          *)
(* STATEMENT (or one committed transaction): between two statements of a   *)
(* request any statement of another request may run.  A request is a       *)
(* record with a program counter `pc' that names the next statement.       *)
(*                                                                         *)
(* One guild is modelled: every statement is restricted to one guild id.   *)
(***************************************************************************)
EXTENDS Naturals

CONSTANTS
    Users,      \* user ids
    Channels,   \* conversation ids the guild may use (AUTO_INCREMENT: never reused)
    Roles,      \* guild_roles ids (AUTO_INCREMENT: never reused)
    Codes,      \* invite codes
    Reqs,       \* requests the server handles at the same time
    Ops,        \* the handlers the clients of an instance call
    Faults,     \* may a handler stop between two statements?
    None        \* "no value": no such row, no such argument

OwnerOnly == {"create_invite", "revoke_invite", "delete_guild", "grant_admin",
              "revoke_admin", "transfer_owner", "create_role", "delete_role",
              "assign_role", "unassign_role"}
Moderation == {"kick_member", "ban_member", "unban_member"}
AdminOnly == {"create_channel", "rename_channel", "delete_channel"} \cup Moderation
AnyUser == {"create_guild", "join_guild", "leave_guild", "delete_conversation"}
AllOps == OwnerOnly \cup AdminOnly \cup AnyUser

\* Handlers that answer 400 when the target of the call is the owner.
ShieldsOwner == {"grant_admin", "revoke_admin", "transfer_owner", "assign_role",
                 "unassign_role", "kick_member", "ban_member"}
Targeted == ShieldsOwner \cup {"unban_member"}
\* Handlers of one role that is not the admin role.
OnPlainRole == {"delete_role", "assign_role", "unassign_role"}

ASSUME ConstantsAssumption ==
    /\ None \notin Users \cup Channels \cup Roles \cup Codes
    /\ Ops \subseteq AllOps
    /\ Faults \in BOOLEAN

VARIABLES
    owner,      \* guilds.owner_id, None while the guild row does not exist
    members,    \* guild_members
    chan,       \* status of each conversation row of the guild
    access,     \* conversation_members of each of those conversations
    roles,      \* status of each guild_roles row
    grants,     \* guild_member_roles: <<user, role>> pairs
    bans,       \* guild_bans
    invites,    \* guild_invites that have not expired
    req         \* the requests being handled

tables == <<owner, members, chan, access, roles, grants, bans, invites>>
vars == <<owner, members, chan, access, roles, grants, bans, invites, req>>

\* "tx" is a row inserted by a transaction that has not committed yet.
ChanStatus == {"unused", "tx", "live", "gone"}
RoleStatus == {"unused", "tx", "plain", "admin", "gone"}
Stages == {"idle", "owner", "adminOwner", "adminRole", "member", "role", "channel",
           "invite", "ban", "write", "unmember", "commit", "count", "drop", "list",
           "sync"}

Idle == [pc |-> "idle", op |-> None, user |-> None, target |-> None,
         obj |-> None, todo |-> {}]

Requests == [pc : Stages, op : AllOps \cup {None}, user : Users \cup {None},
             target : Users \cup {None},
             obj : Channels \cup Roles \cup Codes \cup {None},
             todo : SUBSET (Users \cup Channels)]

\* The arguments of each call.
ObjectsOf(op) ==
    CASE op \in {"rename_channel", "delete_channel", "delete_conversation"} -> Channels
      [] op \in OnPlainRole -> Roles
      [] op \in {"join_guild", "revoke_invite"} -> Codes
      [] OTHER -> {None}
TargetsOf(op) == IF op \in Targeted THEN Users ELSE {None}

\* The object of a request is the one named in the call, or the row its open
\* transaction has inserted.
WellFormed(q) ==
    q.pc # "idle" =>
        /\ q.op \in AllOps
        /\ q.user \in Users
        /\ q.target \in TargetsOf(q.op)
        /\ q.pc # "commit" => q.obj \in ObjectsOf(q.op)
        /\ q.pc = "commit" => \/ q.op = "create_channel" /\ q.obj \in Channels
                              \/ q.op = "grant_admin" /\ q.obj \in Roles

TablesOK ==
    /\ owner \in Users \cup {None}
    /\ members \subseteq Users
    /\ chan \in [Channels -> ChanStatus]
    /\ access \in [Channels -> SUBSET Users]
    /\ roles \in [Roles -> RoleStatus]
    /\ grants \subseteq Users \X Roles
    /\ bans \subseteq Users
    /\ invites \subseteq Codes
RequestsOK ==
    /\ req \in [Reqs -> Requests]
    /\ \A r \in Reqs : WellFormed(req[r])

\* Type invariant.
TypeOK == TablesOK /\ RequestsOK

-----------------------------------------------------------------------------
(* Initial states: no guild yet, or a guild created before migration 0020   *)
(* added roles (it has an owner, members and a channel, and no role row).   *)

NoGuild ==
    /\ owner = None
    /\ members = {}
    /\ chan = [c \in Channels |-> "unused"]
    /\ access = [c \in Channels |-> {}]

LegacyGuild ==
    /\ owner \in Users
    /\ members \in {S \in SUBSET Users : owner \in S}
    /\ \E c \in Channels :
         /\ chan = [d \in Channels |-> IF d = c THEN "live" ELSE "unused"]
         /\ access = [d \in Channels |-> IF d = c THEN members ELSE {}]

Init ==
    /\ NoGuild \/ LegacyGuild
    /\ roles = [x \in Roles |-> "unused"]
    /\ grants = {}
    /\ bans = {}
    /\ invites = {}
    /\ req = [r \in Reqs |-> Idle]

-----------------------------------------------------------------------------
(* What the statements read.                                                *)

GuildExists == owner # None
LiveChannels == {c \in Channels : chan[c] = "live"}
AdminRoles == {x \in Roles : roles[x] = "admin"}

\* is_admin, second statement: a grant of an admin role.  The query does not
\* look at guild_members.
HasAdminGrant(u) == \E x \in AdminRoles : <<u, x>> \in grants

\* An INSERT that references the guild row holds a shared lock on it until its
\* transaction ends; UPDATE and DELETE of the row wait for that.
GuildRowLocked == (\E c \in Channels : chan[c] = "tx") \/ (\E x \in Roles : roles[x] = "tx")

-----------------------------------------------------------------------------
(* Requests.                                                                *)

FirstStage(op) ==
    CASE op = "create_guild" -> "write"
      [] op \in {"rename_channel", "delete_channel"} -> "adminOwner"
      [] op = "join_guild" -> "invite"
      [] op = "delete_conversation" -> "channel"
      [] OTHER -> "owner"

\* The statement after the caller's authority is established.
AfterAuthority(op) ==
    CASE op \in {"grant_admin", "revoke_admin", "transfer_owner", "kick_member"} -> "member"
      [] op \in OnPlainRole -> "role"
      [] op = "rename_channel" -> "channel"
      [] OTHER -> "write"

\* A client learns the id of a guild from the answers of the server: only
\* create_guild is called before the guild has been created.
GuildKnown == \E c \in Channels : chan[c] # "unused"

Call(r) ==
    /\ req[r].pc = "idle"
    /\ \E op \in Ops, u \in Users :
         /\ op # "create_guild" => GuildKnown
         /\ \E t \in TargetsOf(op), o \in ObjectsOf(op) :
              req' = [req EXCEPT ![r] = [pc |-> FirstStage(op), op |-> op, user |-> u,
                                         target |-> t, obj |-> o, todo |-> {}]]
    /\ UNCHANGED tables

At(r, stage) == req[r].pc = stage
Writes(r, op) == req[r].pc = "write" /\ req[r].op = op
Goto(r, stage) == req' = [req EXCEPT ![r].pc = stage]
Return(r) == req' = [req EXCEPT ![r] = Idle]

\* A SELECT: go on to `next' when it passes, answer with an error when it does not.
Check(r, stage, passes, next) ==
    /\ At(r, stage)
    /\ IF passes THEN Goto(r, next) ELSE Return(r)
    /\ UNCHANGED tables

\* Faulty variant: the owner may be kicked or banned.
OwnerCheckNoShield(q) ==
    /\ q.op # "leave_guild" => GuildExists
    /\ q.op = "leave_guild" => owner # q.user
    /\ q.op \in OwnerOnly => owner = q.user

\* SELECT owner_id FROM guilds: the owner checks at the head of most handlers.
OwnerCheck(q) ==
    /\ q.op # "leave_guild" => GuildExists
    /\ q.op = "leave_guild" => owner # q.user
    /\ q.op \in OwnerOnly => owner = q.user
    /\ q.op \in ShieldsOwner => q.target # owner
SelectOwner(r) ==
    LET q == req[r] IN
    Check(r, "owner", OwnerCheck(q),
          IF q.op = "create_channel" \/ (q.op \in Moderation /\ owner # q.user)
          THEN "adminOwner" ELSE AfterAuthority(q.op))

\* is_admin reads the owner and, unless that is the caller, counts admin grants.
IsAdminOwner(r) ==
    Check(r, "adminOwner", TRUE,
          IF owner = req[r].user THEN AfterAuthority(req[r].op) ELSE "adminRole")
IsAdminRole(r) == Check(r, "adminRole", HasAdminGrant(req[r].user), AfterAuthority(req[r].op))

\* is_guild_member(target)
IsGuildMember(r) == Check(r, "member", req[r].target \in members, "write")

\* SELECT is_admin FROM guild_roles: the admin role is not deleted or assigned here.
SelectRole(r) ==
    Check(r, "role", roles[req[r].obj] = "plain",
          IF req[r].op = "delete_role" THEN "write" ELSE "member")

\* rename_channel looks the channel up; delete_conversation requires membership of it.
SelectChannel(r) ==
    Check(r, "channel",
          IF req[r].op = "rename_channel" THEN chan[req[r].obj] = "live"
                                          ELSE req[r].user \in access[req[r].obj],
          "write")

\* Faulty variants: the ban list is not read; its answer is ignored.
SelectInviteSkipsBans(r) == Check(r, "invite", req[r].obj \in invites, "write")
SelectBanIgnored(r) == Check(r, "ban", TRUE, "write")

\* join_guild: the invite must be known and not expired, the caller not banned.
SelectInvite(r) == Check(r, "invite", req[r].obj \in invites, "ban")
SelectBan(r) == Check(r, "ban", req[r].user \notin bans, "write")

-----------------------------------------------------------------------------
(* The statements that write.                                               *)

\* An INSERT gives the row an unused id.  It fails when the guild row it
\* references has gone (and, a bound of the model, when no id is left).
FreshChannels == {c \in Channels : GuildExists /\ chan[c] = "unused"}
FreshRoles == {x \in Roles : GuildExists /\ roles[x] = "unused"}

\* One transaction: the guild, its owner as first member, the admin role and
\* its grant, and the #general channel.  Once the guild exists, another call
\* creates another guild and leaves this one alone.
CreateGuild(r) ==
    /\ Writes(r, "create_guild")
    /\ IF ~GuildKnown
       THEN /\ \E c \in Channels, x \in Roles :
                 /\ chan' = [chan EXCEPT ![c] = "live"]
                 /\ access' = [access EXCEPT ![c] = {req[r].user}]
                 /\ roles' = [roles EXCEPT ![x] = "admin"]
                 /\ grants' = {<<req[r].user, x>>}
            /\ owner' = req[r].user
            /\ members' = {req[r].user}
       ELSE UNCHANGED <<owner, members, chan, access, roles, grants>>
    /\ Return(r)
    /\ UNCHANGED <<bans, invites>>

\* create_channel opens a transaction, inserts the conversation and reads the
\* members it will copy; they see the channel when the transaction commits.
BeginChannel(r) ==
    /\ Writes(r, "create_channel")
    /\ \/ \E c \in FreshChannels :
            /\ chan' = [chan EXCEPT ![c] = "tx"]
            /\ req' = [req EXCEPT ![r].pc = "commit", ![r].obj = c, ![r].todo = members]
       \/ FreshChannels = {} /\ Return(r) /\ UNCHANGED chan
    /\ UNCHANGED <<owner, members, access, roles, grants, bans, invites>>

\* Faulty variant: the members are not copied.
CommitChannelCallerOnly(r) ==
    /\ At(r, "commit") /\ req[r].op = "create_channel"
    /\ chan' = [chan EXCEPT ![req[r].obj] = "live"]
    /\ access' = [access EXCEPT ![req[r].obj] = {req[r].user}]
    /\ Return(r)
    /\ UNCHANGED <<owner, members, roles, grants, bans, invites>>

CommitChannel(r) ==
    /\ At(r, "commit") /\ req[r].op = "create_channel"
    /\ chan' = [chan EXCEPT ![req[r].obj] = "live"]
    /\ access' = [access EXCEPT ![req[r].obj] = req[r].todo \cap Users]
    /\ Return(r)
    /\ UNCHANGED <<owner, members, roles, grants, bans, invites>>

CreateInvite(r) ==
    /\ Writes(r, "create_invite")
    /\ \/ GuildExists /\ \E i \in Codes : invites' = invites \cup {i}
       \/ ~GuildExists /\ UNCHANGED invites
    /\ Return(r)
    /\ UNCHANGED <<owner, members, chan, access, roles, grants, bans>>

RevokeInvite(r) ==
    /\ Writes(r, "revoke_invite")
    /\ invites' = invites \ {req[r].obj}
    /\ Return(r)
    /\ UNCHANGED <<owner, members, chan, access, roles, grants, bans>>

\* expires_at passes (7 days after creation).
ExpireInvite(i) ==
    /\ i \in invites
    /\ invites' = invites \ {i}
    /\ UNCHANGED <<owner, members, chan, access, roles, grants, bans, req>>

\* Everything that references the guild is deleted with it (ON DELETE CASCADE).
DeleteGuild(r) ==
    /\ Writes(r, "delete_guild")
    /\ ~GuildRowLocked
    /\ owner' = None
    /\ members' = {} /\ grants' = {} /\ bans' = {} /\ invites' = {}
    /\ chan' = [c \in Channels |-> IF chan[c] = "live" THEN "gone" ELSE chan[c]]
    /\ access' = [c \in Channels |-> {}]
    /\ roles' = [x \in Roles |-> IF roles[x] = "unused" THEN "unused" ELSE "gone"]
    /\ Return(r)

\* INSERT IGNORE: no row is added when the guild has gone.
JoinMember(r) ==
    /\ Writes(r, "join_guild")
    /\ members' = IF GuildExists THEN members \cup {req[r].user} ELSE members
    /\ Goto(r, "list")
    /\ UNCHANGED <<owner, chan, access, roles, grants, bans, invites>>

\* The user a handler moves in or out: the target of a kick or a ban, else the caller.
Subject(q) == IF q.target = None THEN q.user ELSE q.target

\* DELETE FROM guild_members in leave_guild, kick_member and ban_member.  The
\* grants of the user stay.
RemoveMember(r) ==
    /\ \/ Writes(r, "leave_guild")
       \/ Writes(r, "kick_member")
       \/ At(r, "unmember")
    /\ members' = members \ {Subject(req[r])}
    /\ Goto(r, "list")
    /\ UNCHANGED <<owner, chan, access, roles, grants, bans, invites>>

BanMember(r) ==
    /\ Writes(r, "ban_member")
    /\ bans' = IF GuildExists THEN bans \cup {req[r].target} ELSE bans
    /\ Goto(r, "unmember")
    /\ UNCHANGED <<owner, members, chan, access, roles, grants, invites>>

UnbanMember(r) ==
    /\ Writes(r, "unban_member")
    /\ bans' = bans \ {req[r].target}
    /\ Return(r)
    /\ UNCHANGED <<owner, members, chan, access, roles, grants, invites>>

\* (un)sync_guild_member_channels: SELECT the channels, then one statement each.
ListChannels(r) ==
    /\ At(r, "list")
    /\ IF LiveChannels = {} THEN Return(r)
       ELSE req' = [req EXCEPT ![r].pc = "sync", ![r].todo = LiveChannels]
    /\ UNCHANGED tables

Synced(q, c) ==
    IF q.op # "join_guild" THEN access[c] \ {Subject(q)}
    ELSE IF chan[c] = "live" THEN access[c] \cup {q.user} ELSE access[c]
SyncChannel(r) ==
    /\ At(r, "sync")
    /\ \E c \in req[r].todo \cap Channels :
         /\ access' = [access EXCEPT ![c] = Synced(req[r], c)]
         /\ IF req[r].todo = {c} THEN Return(r)
            ELSE req' = [req EXCEPT ![r].todo = @ \ {c}]
    /\ UNCHANGED <<owner, members, chan, roles, grants, bans, invites>>

-----------------------------------------------------------------------------
(* Roles and ownership.                                                     *)

\* set_role(on): one transaction.  ensure_admin_role uses an admin role when
\* it reads one; otherwise it inserts a role that others see only at commit.
GrantAdmin(r) ==
    /\ Writes(r, "grant_admin")
    /\ \/ \E x \in AdminRoles :
            /\ grants' = grants \cup {<<req[r].target, x>>}
            /\ Return(r)
            /\ UNCHANGED roles
       \/ /\ AdminRoles = {}
          /\ \E x \in FreshRoles :
               /\ roles' = [roles EXCEPT ![x] = "tx"]
               /\ req' = [req EXCEPT ![r].pc = "commit", ![r].obj = x]
          /\ UNCHANGED grants
       \/ AdminRoles \cup FreshRoles = {} /\ Return(r) /\ UNCHANGED <<roles, grants>>
    /\ UNCHANGED <<owner, members, chan, access, bans, invites>>

CommitAdminRole(r) ==
    /\ At(r, "commit") /\ req[r].op = "grant_admin"
    /\ roles' = [roles EXCEPT ![req[r].obj] = "admin"]
    /\ grants' = grants \cup {<<req[r].target, req[r].obj>>}
    /\ Return(r)
    /\ UNCHANGED <<owner, members, chan, access, bans, invites>>

RevokeAdmin(r) ==
    /\ Writes(r, "revoke_admin")
    /\ grants' = {g \in grants : ~(g[1] = req[r].target /\ g[2] \in AdminRoles)}
    /\ Return(r)
    /\ UNCHANGED <<owner, members, chan, access, roles, bans, invites>>

\* One transaction whose first statement locks the guild row, so no other write
\* on the guild runs inside it.  An old guild gets its admin role here.
TransferOwner(r) ==
    /\ Writes(r, "transfer_owner")
    /\ ~GuildRowLocked
    /\ \/ \E x \in IF AdminRoles = {} THEN FreshRoles ELSE AdminRoles :
            /\ owner' = req[r].target
            /\ roles' = [roles EXCEPT ![x] = "admin"]
            /\ grants' = grants \cup {<<req[r].target, x>>}
       \/ AdminRoles \cup FreshRoles = {} /\ UNCHANGED <<owner, roles, grants>>
    /\ Return(r)
    /\ UNCHANGED <<members, chan, access, bans, invites>>

\* Faulty variant: the new role carries the admin flag.
CreateRoleAdmin(r) ==
    /\ Writes(r, "create_role")
    /\ \/ \E x \in FreshRoles : roles' = [roles EXCEPT ![x] = "admin"]
       \/ FreshRoles = {} /\ UNCHANGED roles
    /\ Return(r)
    /\ UNCHANGED <<owner, members, chan, access, grants, bans, invites>>

CreateRole(r) ==
    /\ Writes(r, "create_role")
    /\ \/ \E x \in FreshRoles : roles' = [roles EXCEPT ![x] = "plain"]
       \/ FreshRoles = {} /\ UNCHANGED roles
    /\ Return(r)
    /\ UNCHANGED <<owner, members, chan, access, grants, bans, invites>>

DeleteRole(r) ==
    /\ Writes(r, "delete_role")
    /\ roles' = [roles EXCEPT ![req[r].obj] = "gone"]
    /\ grants' = {g \in grants : g[2] # req[r].obj}
    /\ Return(r)
    /\ UNCHANGED <<owner, members, chan, access, bans, invites>>

\* INSERT IGNORE: no grant is added when the role has gone meanwhile.
AssignRole(r) ==
    /\ Writes(r, "assign_role")
    /\ grants' = IF roles[req[r].obj] = "plain"
                 THEN grants \cup {<<req[r].target, req[r].obj>>} ELSE grants
    /\ Return(r)
    /\ UNCHANGED <<owner, members, chan, access, roles, bans, invites>>

UnassignRole(r) ==
    /\ Writes(r, "unassign_role")
    /\ grants' = grants \ {<<req[r].target, req[r].obj>>}
    /\ Return(r)
    /\ UNCHANGED <<owner, members, chan, access, roles, bans, invites>>

-----------------------------------------------------------------------------
(* Channels.                                                                *)

\* UPDATE conversations SET name: names are not modelled.
RenameChannel(r) == Writes(r, "rename_channel") /\ Return(r) /\ UNCHANGED tables

\* The row of channel c is deleted, its members with it.
DropChannel(c) ==
    /\ chan' = [chan EXCEPT ![c] = IF @ = "live" THEN "gone" ELSE @]
    /\ access' = [access EXCEPT ![c] = {}]
    /\ UNCHANGED <<owner, members, roles, grants, bans, invites>>
DeleteChannel(r) == Writes(r, "delete_channel") /\ DropChannel(req[r].obj) /\ Return(r)

\* delete_conversation removes the caller, counts who is left, and deletes the
\* conversation when the count was 0: three statements.
LeaveConversation(r) ==
    /\ Writes(r, "delete_conversation")
    /\ access' = [access EXCEPT ![req[r].obj] = @ \ {req[r].user}]
    /\ Goto(r, "count")
    /\ UNCHANGED <<owner, members, chan, roles, grants, bans, invites>>
\* Faulty variant: the conversation is deleted whoever is left in it.
CountRemainingIgnored(r) == Check(r, "count", TRUE, "drop")

CountRemaining(r) == Check(r, "count", access[req[r].obj] = {}, "drop")
DropConversation(r) == At(r, "drop") /\ DropChannel(req[r].obj) /\ Return(r)

-----------------------------------------------------------------------------
(* A handler may stop between two statements: a statement fails, or the      *)
(* client disconnects and the server drops the handler.  What an open        *)
(* transaction inserted is rolled back; its id is not used again.            *)

\* The row that the open transaction of a request has inserted.
Inserted(r, op, row) == At(r, "commit") /\ req[r].op = op /\ req[r].obj = row
Abandon(r) ==
    /\ Faults
    /\ req[r].pc # "idle"
    /\ chan' = [c \in Channels |-> IF Inserted(r, "create_channel", c) THEN "gone" ELSE chan[c]]
    /\ roles' = [x \in Roles |-> IF Inserted(r, "grant_admin", x) THEN "gone" ELSE roles[x]]
    /\ Return(r)
    /\ UNCHANGED <<owner, members, access, grants, bans, invites>>

Reads(r) ==
    SelectOwner(r) \/ IsAdminOwner(r) \/ IsAdminRole(r) \/ IsGuildMember(r) \/ SelectRole(r)
    \/ SelectChannel(r) \/ SelectInvite(r) \/ SelectBan(r) \/ CountRemaining(r)
GuildWrites(r) ==
    CreateGuild(r) \/ DeleteGuild(r) \/ CreateInvite(r) \/ RevokeInvite(r) \/ TransferOwner(r)
MemberWrites(r) ==
    JoinMember(r) \/ RemoveMember(r) \/ BanMember(r) \/ UnbanMember(r) \/ ListChannels(r)
    \/ SyncChannel(r)
RoleWrites(r) ==
    GrantAdmin(r) \/ CommitAdminRole(r) \/ RevokeAdmin(r) \/ CreateRole(r) \/ DeleteRole(r)
    \/ AssignRole(r) \/ UnassignRole(r)
ChannelWrites(r) ==
    BeginChannel(r) \/ CommitChannel(r) \/ RenameChannel(r) \/ DeleteChannel(r)
    \/ LeaveConversation(r) \/ DropConversation(r)
Statement(r) ==
    Reads(r) \/ GuildWrites(r) \/ MemberWrites(r) \/ RoleWrites(r) \/ ChannelWrites(r)

Next ==
    \/ \E r \in Reqs : Call(r) \/ Statement(r) \/ Abandon(r)
    \/ \E i \in Codes : ExpireInvite(i)

Spec == Init /\ [][Next]_vars

-----------------------------------------------------------------------------
(* Properties.                                                              *)

\* No handler is running: what a client sees once every call has returned.
Quiet == \A r \in Reqs : req[r].pc = "idle"

\* The owner of a guild is one of its members: transfer_owner picks a member and
\* leave_guild, kick_member and ban_member refuse the owner.
OwnerIsMember == GuildExists => owner \in members

\* After ban_member has returned the user is out, and join_guild lets nobody in
\* who is banned ("removes membership and blocks rejoin via invite").
BannedStayOut == Quiet => members \cap bans = {}

\* Whoever leaves a guild, is kicked or is banned loses every channel of it
\* (unsync_guild_member_channels), and a new channel is not given to outsiders.
ChannelsOnlyForMembers == Quiet => \A c \in LiveChannels : access[c] \subseteq members

\* "membership in a guild grants access to every channel it owns"
\* (migrations/0016_guilds.sql:2): join_guild and create_channel copy it.
MembersSeeEveryChannel == Quiet => \A c \in LiveChannels : members \subseteq access[c]

\* "Owner, or a member granted the guild's admin role" (guilds.rs:96): whoever
\* is_admin accepts is the owner or a member.
AdminsAreMembers == Quiet => \A u \in Users : HasAdminGrant(u) => u \in members

\* ensure_admin_role: "Ensure a guild has exactly one admin role" (guilds.rs:122).
OneAdminRole == \A x, y \in AdminRoles : x = y

\* delete_conversation deletes a channel only when no member remains.
OnlyEmptyConversationsDropped ==
    [][\A r \in Reqs : DropConversation(r) => access[req[r].obj] = {}]_vars
=============================================================================
