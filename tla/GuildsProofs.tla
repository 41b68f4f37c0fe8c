---------------------------- MODULE GuildsProofs ----------------------------
(***************************************************************************)
(* Theorems about Guilds, GuildAuthority and GuildFaults, for any number   *)
(* of users, channels, roles and requests.  Those about authority hold     *)
(* under full concurrency; the others name the handler that must not run   *)
(* concurrently, because it checks in one statement and writes in another. *)
(***************************************************************************)
EXTENDS GuildAuthority, GuildFaults, TLAPS

\* Where a request goes next is always a stage of its program.
LEMMA NextStages ==
    ASSUME NEW op \in AllOps
    PROVE  /\ FirstStage(op) \in Stages \ {"idle", "commit"}
           /\ AfterAuthority(op) \in Stages \ {"idle", "commit"}
  BY DEF FirstStage, AfterAuthority, Stages

LEMMA Arguments ==
    ASSUME NEW op \in AllOps
    PROVE  /\ ObjectsOf(op) \subseteq Channels \cup Roles \cup Codes \cup {None}
           /\ TargetsOf(op) \subseteq Users \cup {None}
  BY DEF ObjectsOf, TargetsOf

\* How a statement changes the request that runs it: it ends, it goes on to the
\* next statement, or it is replaced by a well-formed request.
LEMMA RequestStep ==
    ASSUME RequestsOK, NEW r \in Reqs, NEW q \in Requests, WellFormed(q),
           req' = [req EXCEPT ![r] = q]
    PROVE  RequestsOK'
  BY DEF RequestsOK

LEMMA ReturnStep == ASSUME RequestsOK, NEW r \in Reqs, Return(r) PROVE RequestsOK'
  <1>1. Idle \in Requests /\ WellFormed(Idle)
    BY DEF Idle, Requests, WellFormed, Stages
  <1> QED
    BY <1>1, RequestStep DEF Return

LEMMA GotoStep ==
    ASSUME RequestsOK, NEW r \in Reqs, NEW stage \in Stages \ {"idle", "commit"},
           req[r].pc \notin {"idle", "commit"}, Goto(r, stage)
    PROVE  RequestsOK'
  <1> DEFINE q == [req[r] EXCEPT !.pc = stage]
  <1>1. q \in Requests
    BY DEF RequestsOK, Requests
  <1>2. WellFormed(q)
    BY DEF RequestsOK, Requests, WellFormed
  <1>3. req' = [req EXCEPT ![r] = q]
    BY DEF Goto
  <1> QED
    BY <1>1, <1>2, <1>3, RequestStep

\* A SELECT changes only the request that runs it.
LEMMA CheckType ==
    ASSUME TypeOK, NEW r \in Reqs, NEW stage \in Stages \ {"idle", "commit"}, NEW passes,
           NEW next \in Stages \ {"idle", "commit"}, Check(r, stage, passes, next)
    PROVE  TypeOK'
  <1>1. RequestsOK'
    BY ReturnStep, GotoStep DEF Check, At, TypeOK
  <1>2. TablesOK'
    BY DEF Check, TypeOK, TablesOK, tables
  <1> QED
    BY <1>1, <1>2 DEF TypeOK

LEMMA CallType == ASSUME TypeOK, NEW r \in Reqs, Call(r) PROVE TypeOK'
  <1>1. PICK op \in Ops, u \in Users : \E t \in TargetsOf(op), o \in ObjectsOf(op) :
           req' = [req EXCEPT ![r] = [pc |-> FirstStage(op), op |-> op, user |-> u,
                                      target |-> t, obj |-> o, todo |-> {}]]
    BY DEF Call
  <1>2. PICK t \in TargetsOf(op), o \in ObjectsOf(op) :
           req' = [req EXCEPT ![r] = [pc |-> FirstStage(op), op |-> op, user |-> u,
                                      target |-> t, obj |-> o, todo |-> {}]]
    BY <1>1
  <1> DEFINE q == [pc |-> FirstStage(op), op |-> op, user |-> u,
                   target |-> t, obj |-> o, todo |-> {}]
  <1>3. op \in AllOps
    BY ConstantsAssumption
  <1>4. q \in Requests /\ WellFormed(q)
    BY <1>3, NextStages, Arguments DEF Requests, WellFormed
  <1>5. RequestsOK'
    BY <1>2, <1>4, RequestStep DEF TypeOK
  <1> QED
    BY <1>5 DEF Call, TypeOK, TablesOK, tables

LEMMA ReadsType == ASSUME TypeOK, NEW r \in Reqs, Reads(r) PROVE TypeOK'
  <1> DEFINE q == req[r]
  <1>1. q.pc # "idle" => AfterAuthority(q.op) \in Stages \ {"idle", "commit"}
    BY NextStages DEF TypeOK, RequestsOK, WellFormed
  <1>2. CASE SelectOwner(r)
    <2> DEFINE next == IF q.op = "create_channel" \/ (q.op \in Moderation /\ owner # q.user)
                       THEN "adminOwner" ELSE AfterAuthority(q.op)
    <2>1. Check(r, "owner", OwnerCheck(q), next)
      BY <1>2 DEF SelectOwner
    <2>2. next \in Stages \ {"idle", "commit"}
      BY <1>1, <2>1 DEF Stages, Check, At
    <2> QED
      BY <2>1, <2>2, CheckType DEF Stages
  <1>3. CASE IsAdminOwner(r)
    <2> DEFINE next == IF owner = q.user THEN AfterAuthority(q.op) ELSE "adminRole"
    <2>1. Check(r, "adminOwner", TRUE, next)
      BY <1>3 DEF IsAdminOwner
    <2>2. next \in Stages \ {"idle", "commit"}
      BY <1>1, <2>1 DEF Stages, Check, At
    <2> QED
      BY <2>1, <2>2, CheckType DEF Stages
  <1>4. CASE IsAdminRole(r)
    BY <1>1, <1>4, CheckType DEF IsAdminRole, Stages, Check, At
  <1>5. CASE SelectRole(r)
    <2> DEFINE next == IF q.op = "delete_role" THEN "write" ELSE "member"
    <2>1. Check(r, "role", roles[q.obj] = "plain", next)
      BY <1>5 DEF SelectRole
    <2>2. next \in Stages \ {"idle", "commit"}
      BY DEF Stages
    <2> QED
      BY <2>1, <2>2, CheckType DEF Stages
  <1>6. CASE \/ IsGuildMember(r) \/ SelectChannel(r) \/ SelectInvite(r)
             \/ SelectBan(r) \/ CountRemaining(r)
    BY <1>6, CheckType DEF IsGuildMember, SelectChannel, SelectInvite,
       SelectBan, CountRemaining, Stages
  <1> QED
    BY <1>2, <1>3, <1>4, <1>5, <1>6 DEF Reads

\* The caller and the target of a request that writes are users.
LEMMA Parties ==
    ASSUME RequestsOK, NEW r \in Reqs, req[r].pc # "idle"
    PROVE  /\ req[r].user \in Users
           /\ req[r].op \in Targeted => req[r].target \in Users
           /\ Subject(req[r]) \in Users
  BY DEF RequestsOK, WellFormed, TargetsOf, Subject

LEMMA GuildWritesType == ASSUME TypeOK, NEW r \in Reqs, GuildWrites(r) PROVE TypeOK'
  <1>1. CASE CreateGuild(r)
    BY <1>1, ReturnStep, Parties DEF CreateGuild, Writes, TypeOK, TablesOK, ChanStatus, RoleStatus
  <1>2. CASE DeleteGuild(r)
    BY <1>2, ReturnStep DEF DeleteGuild, TypeOK, TablesOK, ChanStatus, RoleStatus
  <1>3. CASE CreateInvite(r) \/ RevokeInvite(r)
    BY <1>3, ReturnStep DEF CreateInvite, RevokeInvite, TypeOK, TablesOK
  <1>4. CASE TransferOwner(r)
    BY <1>4, ReturnStep, Parties DEF TransferOwner, Writes, FreshRoles, AdminRoles,
       RoleStatus, Targeted, ShieldsOwner, TypeOK, TablesOK
  <1> QED
    BY <1>1, <1>2, <1>3, <1>4 DEF GuildWrites

LEMMA MemberWritesType == ASSUME TypeOK, NEW r \in Reqs, MemberWrites(r) PROVE TypeOK'
  <1>1. CASE JoinMember(r) \/ RemoveMember(r)
    BY <1>1, GotoStep, Parties DEF JoinMember, RemoveMember, Writes, At, Stages, TypeOK, TablesOK
  <1>2. CASE BanMember(r)
    BY <1>2, GotoStep, Parties DEF BanMember, Writes, Stages, Targeted, ShieldsOwner,
       TypeOK, TablesOK
  <1>3. CASE UnbanMember(r)
    BY <1>3, ReturnStep DEF UnbanMember, TypeOK, TablesOK
  <1>4. CASE ListChannels(r)
    <2>1. CASE Return(r)
      BY <1>4, <2>1, ReturnStep DEF ListChannels, TypeOK, TablesOK, tables
    <2> DEFINE q == [req[r] EXCEPT !.pc = "sync", !.todo = LiveChannels]
    <2>2. CASE req' = [req EXCEPT ![r] = q]
      <3>1. q \in Requests /\ WellFormed(q)
        BY <1>4 DEF ListChannels, At, TypeOK, RequestsOK, Requests, WellFormed, Stages,
           LiveChannels
      <3> QED
        BY <1>4, <2>2, <3>1, RequestStep DEF ListChannels, TypeOK, TablesOK, tables
    <2> QED
      BY <1>4, <2>1, <2>2 DEF ListChannels
  <1>5. CASE SyncChannel(r)
    <2>1. PICK c \in req[r].todo \cap Channels :
              /\ access' = [access EXCEPT ![c] = Synced(req[r], c)]
              /\ IF req[r].todo = {c} THEN Return(r)
                 ELSE req' = [req EXCEPT ![r].todo = @ \ {c}]
      BY <1>5 DEF SyncChannel
    <2> DEFINE left == req[r].todo \ {c}
               q == [req[r] EXCEPT !.todo = left]
    <2>2. left \in SUBSET (Users \cup Channels) /\ req[r] \in Requests /\ WellFormed(req[r])
      BY DEF TypeOK, RequestsOK, Requests
    <2>3. q \in Requests /\ WellFormed(q)
      <3> HIDE DEF left
      <3> QED
        BY <2>2 DEF Requests, WellFormed
    <2>4. RequestsOK'
      <3>1. CASE Return(r)
        BY <3>1, ReturnStep DEF TypeOK
      <3>2. CASE req' = [req EXCEPT ![r].todo = @ \ {c}]
        <4>1. req' = [req EXCEPT ![r] = q]
          BY <3>2 DEF TypeOK, RequestsOK, Requests
        <4> QED
          BY <2>3, <4>1, RequestStep DEF TypeOK
      <3> QED
        BY <2>1, <3>1, <3>2
    <2>5. Synced(req[r], c) \in SUBSET Users
      BY <1>5, Parties DEF Synced, SyncChannel, At, TypeOK, TablesOK
    <2> QED
      BY <1>5, <2>1, <2>5, <2>4 DEF SyncChannel, TypeOK, TablesOK
  <1> QED
    BY <1>1, <1>2, <1>3, <1>4, <1>5 DEF MemberWrites

LEMMA RoleWritesType == ASSUME TypeOK, NEW r \in Reqs, RoleWrites(r) PROVE TypeOK'
  <1>1. CASE GrantAdmin(r)
    <2>1. CASE Return(r)
      BY <1>1, <2>1, ReturnStep, Parties DEF GrantAdmin, FreshRoles, AdminRoles, Writes, Targeted,
         ShieldsOwner, RoleStatus, TypeOK, TablesOK
    <2>2. CASE \E x \in FreshRoles :
                 /\ roles' = [roles EXCEPT ![x] = "tx"]
                 /\ req' = [req EXCEPT ![r].pc = "commit", ![r].obj = x]
                 /\ UNCHANGED grants
      <3>1. PICK x \in FreshRoles :
                 /\ roles' = [roles EXCEPT ![x] = "tx"]
                 /\ req' = [req EXCEPT ![r].pc = "commit", ![r].obj = x]
                 /\ UNCHANGED grants
        BY <2>2
      <3> DEFINE q == [req[r] EXCEPT !.pc = "commit", !.obj = x]
      <3>2. q \in Requests /\ WellFormed(q)
        BY <1>1 DEF GrantAdmin, Writes, FreshRoles, TypeOK, RequestsOK, Requests, WellFormed, Stages
      <3>3. req' = [req EXCEPT ![r] = q]
        BY <3>1 DEF TypeOK, RequestsOK, Requests
      <3>4. RequestsOK'
        BY <3>2, <3>3, RequestStep DEF TypeOK
      <3> QED
        BY <1>1, <3>1, <3>4 DEF GrantAdmin, FreshRoles, RoleStatus, TypeOK, TablesOK
    <2> QED
      BY <1>1, <2>1, <2>2 DEF GrantAdmin
  <1>2. CASE CommitAdminRole(r)
    <2>1. req[r].obj \in Roles /\ req[r].target \in Users
      BY <1>2, Parties DEF CommitAdminRole, At, TypeOK, RequestsOK, WellFormed, Targeted, ShieldsOwner
    <2> QED
      BY <1>2, <2>1, ReturnStep DEF CommitAdminRole, RoleStatus, TypeOK, TablesOK
  <1>3. CASE RevokeAdmin(r)
    BY <1>3, ReturnStep DEF RevokeAdmin, TypeOK, TablesOK
  <1>4. CASE CreateRole(r) \/ DeleteRole(r)
    BY <1>4, ReturnStep DEF CreateRole, DeleteRole, FreshRoles, RoleStatus, TypeOK, TablesOK
  <1>5. CASE AssignRole(r) \/ UnassignRole(r)
    <2>1. Writes(r, "assign_role") => req[r].obj \in Roles /\ req[r].target \in Users
      BY Parties DEF Writes, TypeOK, RequestsOK, WellFormed, ObjectsOf, OnPlainRole,
         Targeted, ShieldsOwner
    <2> QED
      BY <1>5, <2>1, ReturnStep DEF AssignRole, UnassignRole, TypeOK, TablesOK
  <1> QED
    BY <1>1, <1>2, <1>3, <1>4, <1>5 DEF RoleWrites

LEMMA ChannelWritesType == ASSUME TypeOK, NEW r \in Reqs, ChannelWrites(r) PROVE TypeOK'
  <1>1. CASE BeginChannel(r)
    <2>1. CASE Return(r)
      BY <1>1, <2>1, ReturnStep DEF BeginChannel, FreshChannels, ChanStatus, TypeOK, TablesOK
    <2>2. CASE \E c \in FreshChannels :
                 /\ chan' = [chan EXCEPT ![c] = "tx"]
                 /\ req' = [req EXCEPT ![r].pc = "commit", ![r].obj = c, ![r].todo = members]
      <3>1. PICK c \in FreshChannels :
                 /\ chan' = [chan EXCEPT ![c] = "tx"]
                 /\ req' = [req EXCEPT ![r].pc = "commit", ![r].obj = c, ![r].todo = members]
        BY <2>2
      <3> DEFINE q == [req[r] EXCEPT !.pc = "commit", !.obj = c, !.todo = members]
      <3>0. /\ members \in SUBSET (Users \cup Channels)
            /\ req[r] \in Requests /\ WellFormed(req[r])
            /\ req[r].pc = "write" /\ req[r].op = "create_channel"
        BY <1>1 DEF BeginChannel, Writes, TypeOK, TablesOK, RequestsOK
      <3>2. q \in Requests /\ WellFormed(q)
        BY <3>0 DEF FreshChannels, Requests, WellFormed, Stages
      <3>3. req' = [req EXCEPT ![r] = q]
        BY <3>1 DEF TypeOK, RequestsOK, Requests
      <3>4. RequestsOK'
        BY <3>2, <3>3, RequestStep DEF TypeOK
      <3> QED
        BY <1>1, <3>1, <3>4 DEF BeginChannel, FreshChannels, ChanStatus, TypeOK, TablesOK
    <2> QED
      BY <1>1, <2>1, <2>2 DEF BeginChannel
  <1>2. CASE CommitChannel(r)
    BY <1>2, ReturnStep DEF CommitChannel, ChanStatus, TypeOK, TablesOK
  <1>3. CASE RenameChannel(r)
    BY <1>3, ReturnStep DEF RenameChannel, tables, TypeOK, TablesOK
  <1>4. CASE DeleteChannel(r) \/ DropConversation(r)
    BY <1>4, ReturnStep DEF DeleteChannel, DropConversation, DropChannel, ChanStatus, TypeOK, TablesOK
  <1>5. CASE LeaveConversation(r)
    BY <1>5, GotoStep DEF LeaveConversation, Writes, Stages, TypeOK, TablesOK
  <1> QED
    BY <1>1, <1>2, <1>3, <1>4, <1>5 DEF ChannelWrites

LEMMA StepType == ASSUME TypeOK, [Next]_vars PROVE TypeOK'
  <1>1. CASE UNCHANGED vars
    BY <1>1 DEF vars, TypeOK, TablesOK, RequestsOK
  <1>2. ASSUME NEW i \in Codes, ExpireInvite(i) PROVE TypeOK'
    BY <1>2 DEF ExpireInvite, TypeOK, TablesOK, RequestsOK
  <1>3. ASSUME NEW r \in Reqs, Abandon(r) PROVE TypeOK'
    BY <1>3, ReturnStep DEF Abandon, Inserted, TypeOK, TablesOK, ChanStatus, RoleStatus
  <1>4. ASSUME NEW r \in Reqs, Call(r) \/ Statement(r) PROVE TypeOK'
    BY <1>4, CallType, ReadsType, GuildWritesType, MemberWritesType, RoleWritesType,
       ChannelWritesType DEF Statement
  <1> QED
    BY <1>1, <1>2, <1>3, <1>4 DEF Next

LEMMA InitType == ASSUME Init PROVE TypeOK
  <1>1. Idle \in Requests /\ WellFormed(Idle)
    BY DEF Idle, Requests, WellFormed, Stages
  <1>2. RequestsOK
    BY <1>1 DEF Init, RequestsOK
  <1>3. TablesOK
    BY DEF Init, NoGuild, LegacyGuild, TablesOK, ChanStatus, RoleStatus
  <1> QED
    BY <1>2, <1>3 DEF TypeOK

\* Type correctness: every table keeps its type and every request stays well
\* formed, under any interleaving of any number of requests.
THEOREM TypeCorrect == Spec => []TypeOK
  BY InitType, StepType, PTL DEF Spec

-----------------------------------------------------------------------------
(* The programs of the handlers: which of them is at which stage, and what a *)
(* request has found out when it goes from one stage to the next.            *)

OpsAt(stage) ==
    CASE stage = "owner" -> {op \in AllOps : FirstStage(op) = "owner"}
      [] stage \in {"adminOwner", "adminRole"} -> AdminOnly
      [] stage = "role" -> OnPlainRole
      [] stage = "member" -> Targeted \ {"ban_member", "unban_member"}
      [] stage = "channel" -> {"rename_channel", "delete_conversation"}
      [] stage \in {"invite", "ban"} -> {"join_guild"}
      [] stage = "write" -> AllOps
      [] stage = "unmember" -> {"ban_member"}
      [] stage = "commit" -> {"create_channel", "grant_admin"}
      [] stage \in {"count", "drop"} -> {"delete_conversation"}
      [] OTHER -> {"join_guild", "leave_guild", "kick_member", "ban_member"}
InProgram == \A r \in Reqs : req[r].pc # "idle" => req[r].op \in Ops \cap OpsAt(req[r].pc)

\* The requests that move somebody in or out of the guild.
Removals == {"leave_guild", "kick_member", "ban_member"}

\* From stage q.pc a request may go on to `stage'; the checked fact is still true.
Edge(q, stage) ==
    \/ /\ q.pc = "owner" /\ OwnerCheck(q)
       /\ (stage = "adminOwner" /\ q.op \in AdminOnly) \/ stage = AfterAuthority(q.op)
    \/ q.pc = "adminOwner" /\ stage \in {"adminRole", AfterAuthority(q.op)}
    \/ q.pc = "adminRole" /\ stage = AfterAuthority(q.op)
    \/ q.pc = "member" /\ q.target \in members /\ stage = "write"
    \/ /\ q.pc = "role" /\ roles[q.obj] = "plain"
       /\ stage = IF q.op = "delete_role" THEN "write" ELSE "member"
    \/ /\ q.pc = "channel" /\ stage = "write"
       /\ q.op # "rename_channel" => q.user \in access[q.obj]
    \/ q.pc = "invite" /\ q.obj \in invites /\ stage = "ban"
    \/ q.pc = "ban" /\ q.user \notin bans /\ stage = "write"
    \/ q.pc = "count" /\ access[q.obj] = {} /\ stage = "drop"
    \/ q.pc = "write" /\ q.op \in {"join_guild", "leave_guild", "kick_member"} /\ stage = "list"
    \/ q.pc = "write" /\ q.op = "ban_member" /\ stage = "unmember"
    \/ q.pc = "unmember" /\ stage = "list"
    \/ q.pc \in {"list", "sync"} /\ stage = "sync"
    \/ q.pc = "write" /\ q.op = "delete_conversation" /\ stage = "count"
    \/ q.pc = "write" /\ q.op \in {"create_channel", "grant_admin"} /\ stage = "commit"

Acts(r) == Call(r) \/ Statement(r) \/ Abandon(r)
Starts(r) ==
    /\ Call(r)
    /\ req'[r].op \in Ops /\ req'[r].pc = FirstStage(req'[r].op)
    /\ req'[r].op # "create_guild" => GuildKnown
Continues(r) ==
    /\ req[r].pc # "idle"
    /\ req'[r].op = req[r].op /\ req'[r].user = req[r].user /\ req'[r].target = req[r].target
    /\ req'[r].pc # "commit" => req'[r].obj = req[r].obj
    /\ Edge(req[r], req'[r].pc)
Moves(r) == req'[r] = Idle \/ Starts(r) \/ Continues(r)

LEMMA ReturnMoves == ASSUME TypeOK, NEW r \in Reqs, Return(r) PROVE Moves(r)
  BY DEF Return, Moves, TypeOK, RequestsOK

LEMMA GotoMoves ==
    ASSUME TypeOK, NEW r \in Reqs, NEW stage, Goto(r, stage), req[r].pc # "idle",
           Edge(req[r], stage)
    PROVE  Moves(r)
  BY DEF Goto, Moves, Continues, TypeOK, RequestsOK, Requests

LEMMA CheckMoves ==
    ASSUME TypeOK, NEW r \in Reqs, NEW stage \in Stages \ {"idle"}, NEW passes, NEW next,
           Check(r, stage, passes, next), passes => Edge(req[r], next)
    PROVE  Moves(r)
  BY ReturnMoves, GotoMoves DEF Check, At

LEMMA CallMoves == ASSUME TypeOK, NEW r \in Reqs, Call(r) PROVE Moves(r)
  <1>1. PICK op \in Ops, u \in Users :
           /\ op # "create_guild" => GuildKnown
           /\ \E t \in TargetsOf(op), o \in ObjectsOf(op) :
                 req' = [req EXCEPT ![r] = [pc |-> FirstStage(op), op |-> op, user |-> u,
                                            target |-> t, obj |-> o, todo |-> {}]]
    BY DEF Call
  <1>2. /\ req'[r].op = op
        /\ req'[r].pc = FirstStage(op)
    BY <1>1 DEF TypeOK, RequestsOK
  <1> QED
    BY <1>1, <1>2 DEF Moves, Starts

LEMMA ReadsMove == ASSUME TypeOK, NEW r \in Reqs, Reads(r) PROVE Moves(r)
  <1> DEFINE q == req[r]
  <1>1. CASE SelectOwner(r)
    <2> DEFINE next == IF q.op = "create_channel" \/ (q.op \in Moderation /\ owner # q.user)
                       THEN "adminOwner" ELSE AfterAuthority(q.op)
    <2>1. Check(r, "owner", OwnerCheck(q), next) /\ q.pc = "owner"
      BY <1>1 DEF SelectOwner, Check, At
    <2>2. OwnerCheck(q) => Edge(q, next)
      BY <2>1 DEF Edge, AdminOnly
    <2> QED
      BY <2>1, <2>2, CheckMoves DEF Stages
  <1>2. CASE IsAdminOwner(r)
    <2> DEFINE next == IF owner = q.user THEN AfterAuthority(q.op) ELSE "adminRole"
    <2>1. Check(r, "adminOwner", TRUE, next) /\ q.pc = "adminOwner"
      BY <1>2 DEF IsAdminOwner, Check, At
    <2>2. Edge(q, next)
      BY <2>1 DEF Edge
    <2> QED
      BY <2>1, <2>2, CheckMoves DEF Stages
  <1>3. CASE IsAdminRole(r)
    <2>1. Check(r, "adminRole", HasAdminGrant(q.user), AfterAuthority(q.op)) /\ q.pc = "adminRole"
      BY <1>3 DEF IsAdminRole, Check, At
    <2>2. Edge(q, AfterAuthority(q.op))
      BY <2>1 DEF Edge
    <2> QED
      BY <2>1, <2>2, CheckMoves DEF Stages
  <1>4. CASE SelectRole(r)
    <2> DEFINE next == IF q.op = "delete_role" THEN "write" ELSE "member"
    <2>1. Check(r, "role", roles[q.obj] = "plain", next) /\ q.pc = "role"
      BY <1>4 DEF SelectRole, Check, At
    <2>2. roles[q.obj] = "plain" => Edge(q, next)
      BY <2>1 DEF Edge
    <2> QED
      BY <2>1, <2>2, CheckMoves DEF Stages
  <1>5. CASE SelectChannel(r)
    <2> DEFINE passes == IF q.op = "rename_channel" THEN chan[q.obj] = "live"
                                                    ELSE q.user \in access[q.obj]
    <2>1. Check(r, "channel", passes, "write") /\ q.pc = "channel"
      BY <1>5 DEF SelectChannel, Check, At
    <2>2. passes => Edge(q, "write")
      BY <2>1 DEF Edge
    <2> QED
      BY <2>1, <2>2, CheckMoves DEF Stages
  <1>6. CASE IsGuildMember(r) \/ SelectInvite(r) \/ SelectBan(r) \/ CountRemaining(r)
    BY <1>6, CheckMoves DEF IsGuildMember, SelectInvite, SelectBan, CountRemaining, Stages,
       Edge, Check, At
  <1> QED
    BY <1>1, <1>2, <1>3, <1>4, <1>5, <1>6 DEF Reads

LEMMA WritesMove ==
    ASSUME TypeOK, NEW r \in Reqs,
           GuildWrites(r) \/ MemberWrites(r) \/ RoleWrites(r) \/ ChannelWrites(r) \/ Abandon(r)
    PROVE  Moves(r)
  <1> DEFINE q == req[r]
  <1>1. CASE GuildWrites(r) \/ Abandon(r)
    BY <1>1, ReturnMoves DEF GuildWrites, CreateGuild, DeleteGuild, CreateInvite, RevokeInvite,
       TransferOwner, Abandon
  <1>2. CASE JoinMember(r) \/ RemoveMember(r) \/ BanMember(r)
    BY <1>2, GotoMoves DEF JoinMember, RemoveMember, BanMember, Writes, At, Edge
  <1>3. CASE UnbanMember(r)
    BY <1>3, ReturnMoves DEF UnbanMember
  <1>4. CASE ListChannels(r)
    <2>1. CASE req' = [req EXCEPT ![r].pc = "sync", ![r].todo = LiveChannels]
      <3>1. /\ req'[r].pc = "sync" /\ req'[r].op = q.op /\ req'[r].user = q.user
            /\ req'[r].target = q.target /\ req'[r].obj = q.obj
        BY <2>1 DEF TypeOK, RequestsOK, Requests
      <3> QED
        BY <1>4, <3>1 DEF ListChannels, At, Moves, Continues, Edge
    <2> QED
      BY <1>4, <2>1, ReturnMoves DEF ListChannels
  <1>5. CASE SyncChannel(r)
    <2>1. PICK c \in q.todo \cap Channels :
                IF q.todo = {c} THEN Return(r) ELSE req' = [req EXCEPT ![r].todo = @ \ {c}]
      BY <1>5 DEF SyncChannel
    <2>2. CASE req' = [req EXCEPT ![r].todo = @ \ {c}]
      <3>1. /\ req'[r].pc = q.pc /\ req'[r].op = q.op /\ req'[r].user = q.user
            /\ req'[r].target = q.target /\ req'[r].obj = q.obj
        BY <2>2 DEF TypeOK, RequestsOK, Requests
      <3> QED
        BY <1>5, <3>1 DEF SyncChannel, At, Moves, Continues, Edge
    <2> QED
      BY <2>1, <2>2, ReturnMoves
  <1>6. CASE GrantAdmin(r)
    <2>1. CASE \E x \in FreshRoles : req' = [req EXCEPT ![r].pc = "commit", ![r].obj = x]
      <3>1. PICK x \in FreshRoles : req' = [req EXCEPT ![r].pc = "commit", ![r].obj = x]
        BY <2>1
      <3>2. /\ req'[r].pc = "commit" /\ req'[r].op = q.op /\ req'[r].user = q.user
            /\ req'[r].target = q.target
        BY <3>1 DEF TypeOK, RequestsOK, Requests
      <3> QED
        BY <1>6, <3>2 DEF GrantAdmin, Writes, Moves, Continues, Edge
    <2> QED
      BY <1>6, <2>1, ReturnMoves DEF GrantAdmin
  <1>7. CASE \/ CommitAdminRole(r) \/ RevokeAdmin(r) \/ CreateRole(r)
             \/ DeleteRole(r) \/ AssignRole(r) \/ UnassignRole(r)
    BY <1>7, ReturnMoves DEF CommitAdminRole, RevokeAdmin, CreateRole, DeleteRole, AssignRole,
       UnassignRole
  <1>8. CASE BeginChannel(r)
    <2>1. CASE \E c \in FreshChannels :
                 req' = [req EXCEPT ![r].pc = "commit", ![r].obj = c, ![r].todo = members]
      <3>1. PICK c \in FreshChannels :
                 req' = [req EXCEPT ![r].pc = "commit", ![r].obj = c, ![r].todo = members]
        BY <2>1
      <3>2. /\ req'[r].pc = "commit" /\ req'[r].op = q.op /\ req'[r].user = q.user
            /\ req'[r].target = q.target
        BY <3>1 DEF TypeOK, RequestsOK, Requests
      <3> QED
        BY <1>8, <3>2 DEF BeginChannel, Writes, Moves, Continues, Edge
    <2> QED
      BY <1>8, <2>1, ReturnMoves DEF BeginChannel
  <1>9. CASE LeaveConversation(r)
    BY <1>9, GotoMoves DEF LeaveConversation, Writes, Edge
  <1>10. CASE CommitChannel(r) \/ RenameChannel(r) \/ DeleteChannel(r) \/ DropConversation(r)
    BY <1>10, ReturnMoves DEF CommitChannel, RenameChannel, DeleteChannel, DropConversation
  <1> QED
    BY <1>1, <1>2, <1>3, <1>4, <1>5, <1>6, <1>7, <1>8, <1>9, <1>10
    DEF MemberWrites, RoleWrites, ChannelWrites

\* Whatever a handler does, its request ends, starts or goes along an edge.
LEMMA ActsMove == ASSUME TypeOK, NEW r \in Reqs, Acts(r) PROVE Moves(r)
  BY CallMoves, ReadsMove, WritesMove DEF Acts, Statement

\* A statement of one request leaves the others where they are.
LEMMA OthersStay ==
    ASSUME TypeOK, NEW r \in Reqs, Acts(r),
           NEW s \in Reqs, s # r
    PROVE  req'[s] = req[s]
  <1> USE DEF TypeOK, RequestsOK
  <1>1. CASE Return(r)
    BY <1>1 DEF Return
  <1>2. ASSUME NEW stage, Goto(r, stage) PROVE req'[s] = req[s]
    BY <1>2 DEF Goto
  <1>3. CASE Call(r)
    BY <1>3 DEF Call
  <1>4. CASE Reads(r)
    BY <1>1, <1>2, <1>4 DEF Reads, SelectOwner, IsAdminOwner, IsAdminRole, IsGuildMember, SelectRole,
       SelectChannel, SelectInvite, SelectBan, CountRemaining, Check
  <1>5. CASE GuildWrites(r) \/ Abandon(r)
    BY <1>1, <1>5 DEF GuildWrites, CreateGuild, DeleteGuild, CreateInvite, RevokeInvite,
       TransferOwner, Abandon
  <1>6. CASE MemberWrites(r)
    BY <1>1, <1>2, <1>6 DEF MemberWrites, JoinMember, RemoveMember, BanMember, UnbanMember,
       ListChannels, SyncChannel
  <1>7. CASE RoleWrites(r)
    BY <1>1, <1>7 DEF RoleWrites, GrantAdmin, CommitAdminRole, RevokeAdmin, CreateRole,
       DeleteRole, AssignRole, UnassignRole
  <1>8. CASE ChannelWrites(r)
    BY <1>1, <1>2, <1>8 DEF ChannelWrites, BeginChannel, CommitChannel, RenameChannel,
       DeleteChannel, LeaveConversation, DropConversation
  <1> QED
    BY <1>3, <1>4, <1>5, <1>6, <1>7, <1>8 DEF Acts, Statement

\* A step is a step of one request, or leaves all but the invites alone.
LEMMA StepCases ==
    ASSUME [Next]_vars
    PROVE  \/ \E r \in Reqs : Acts(r)
           \/ UNCHANGED <<owner, members, chan, access, roles, grants, bans, req>>
  BY DEF Next, Acts, ExpireInvite, vars

LEMMA InProgramStep == ASSUME TypeOK, InProgram, [Next]_vars PROVE InProgram'
  <1>1. ASSUME NEW r \in Reqs, Acts(r) PROVE InProgram'
    <2>1. Moves(r)
      BY <1>1, ActsMove
    <2>2. CASE Continues(r)
      <3>1. req[r].op \in Ops \cap OpsAt(req[r].pc) /\ req[r].op \in AllOps
        BY <2>2, ConstantsAssumption DEF InProgram, Continues
      <3>2. req[r].op \in OpsAt(req'[r].pc)
        BY <2>2, <3>1 DEF Continues, Edge, OpsAt, AfterAuthority, FirstStage, OwnerOnly, AdminOnly,
           ShieldsOwner, Targeted, Moderation, OnPlainRole, AllOps, AnyUser
      <3> QED
        BY <1>1, <2>2, <3>1, <3>2, OthersStay DEF InProgram, Continues
    <2>3. CASE Starts(r)
      <3>1. req'[r].op \in AllOps
        BY <2>3, ConstantsAssumption DEF Starts
      <3>2. req'[r].op \in OpsAt(req'[r].pc)
        BY <2>3, <3>1 DEF Starts, OpsAt, FirstStage, AdminOnly, Moderation
      <3> QED
        BY <1>1, <2>3, <3>2, OthersStay DEF InProgram, Starts
    <2>4. CASE req'[r] = Idle
      BY <1>1, <2>4, OthersStay DEF InProgram, Idle
    <2> QED
      BY <2>1, <2>2, <2>3, <2>4 DEF Moves
  <1>2. CASE UNCHANGED req
    BY <1>2 DEF InProgram
  <1> QED
    BY <1>1, <1>2, StepCases

-----------------------------------------------------------------------------
(* Who writes which table.                                                   *)

ReadsOnly(r) == Call(r) \/ Reads(r)

LEMMA ReadsWriteNothing == ASSUME NEW r \in Reqs, ReadsOnly(r) PROVE UNCHANGED tables
  BY DEF ReadsOnly, Call, Reads, SelectOwner, IsAdminOwner, IsAdminRole, IsGuildMember, SelectRole,
     SelectChannel, SelectInvite, SelectBan, CountRemaining, Check

LEMMA Writers ==
    ASSUME NEW r \in Reqs, Acts(r)
    PROVE  /\ owner' = owner \/ CreateGuild(r) \/ DeleteGuild(r) \/ TransferOwner(r)
           /\ members' = members \/ CreateGuild(r) \/ DeleteGuild(r) \/ JoinMember(r)
                 \/ RemoveMember(r)
           /\ chan' = chan \/ CreateGuild(r) \/ DeleteGuild(r) \/ BeginChannel(r)
                 \/ CommitChannel(r) \/ DeleteChannel(r) \/ DropConversation(r) \/ Abandon(r)
           /\ access' = access \/ CreateGuild(r) \/ DeleteGuild(r) \/ CommitChannel(r)
                 \/ SyncChannel(r) \/ LeaveConversation(r) \/ DeleteChannel(r)
                 \/ DropConversation(r)
           /\ roles' = roles \/ CreateGuild(r) \/ DeleteGuild(r) \/ TransferOwner(r)
                 \/ GrantAdmin(r) \/ CommitAdminRole(r) \/ CreateRole(r) \/ DeleteRole(r)
                 \/ Abandon(r)
           /\ bans' = bans \/ DeleteGuild(r) \/ BanMember(r) \/ UnbanMember(r)
  <1>1. CASE ReadsOnly(r)
    BY <1>1, ReadsWriteNothing DEF tables
  <1>2. CASE GuildWrites(r)
    BY <1>2 DEF GuildWrites, CreateGuild, CreateInvite, RevokeInvite, TransferOwner
  <1>3. CASE MemberWrites(r)
    BY <1>3 DEF MemberWrites, JoinMember, RemoveMember, BanMember, UnbanMember, ListChannels,
       SyncChannel, tables
  <1>4. CASE RoleWrites(r)
    BY <1>4 DEF RoleWrites, GrantAdmin, CommitAdminRole, RevokeAdmin, CreateRole, DeleteRole,
       AssignRole, UnassignRole
  <1>5. CASE ChannelWrites(r)
    BY <1>5 DEF ChannelWrites, BeginChannel, CommitChannel, RenameChannel, DeleteChannel,
       LeaveConversation, DropConversation, DropChannel, tables
  <1>6. CASE Abandon(r)
    BY <1>6 DEF Abandon
  <1> QED
    BY <1>1, <1>2, <1>3, <1>4, <1>5, <1>6 DEF Acts, Statement, ReadsOnly

\* Only the stages of a conversation's life it has not yet reached are ahead of it.
LEMMA ChannelLife ==
    ASSUME TypeOK, NEW r \in Reqs, Acts(r), NEW c \in Channels
    PROVE  /\ chan[c] # "unused" => chan'[c] # "unused"
           /\ chan[c] \in {"live", "gone"} => chan'[c] \in {"live", "gone"}
  <1> USE DEF TypeOK, TablesOK
  <1>1. CASE chan' = chan
    BY <1>1
  <1>2. CASE CreateGuild(r)
    BY <1>2 DEF CreateGuild, GuildKnown
  <1>3. CASE DeleteGuild(r)
    BY <1>3 DEF DeleteGuild
  <1>4. CASE BeginChannel(r)
    BY <1>4 DEF BeginChannel, FreshChannels
  <1>5. CASE CommitChannel(r)
    BY <1>5 DEF CommitChannel
  <1>6. CASE DeleteChannel(r) \/ DropConversation(r)
    BY <1>6 DEF DeleteChannel, DropConversation, DropChannel
  <1>7. CASE Abandon(r)
    BY <1>7 DEF Abandon
  <1> QED
    BY <1>1, <1>2, <1>3, <1>4, <1>5, <1>6, <1>7, Writers

\* Until the guild has been created there is nothing but calls of create_guild.
Newcomers ==
    ~GuildKnown => /\ owner = None /\ members = {} /\ bans = {} /\ AdminRoles = {}
                   /\ \A r \in Reqs : req[r].pc # "idle" => req[r].op = "create_guild"

LEMMA NewcomersStep ==
    ASSUME TypeOK, InProgram, Newcomers, [Next]_vars
    PROVE  Newcomers'
  <1>1. ASSUME NEW r \in Reqs, Acts(r), ~GuildKnown' PROVE Newcomers'
    <2>1. ~GuildKnown
      BY <1>1, ChannelLife DEF GuildKnown
    <2>2. req[r].pc # "idle" => req[r].op = "create_guild" /\ req[r].op \in OpsAt(req[r].pc)
      BY <2>1 DEF Newcomers, InProgram
    <2>3. ~CreateGuild(r)
      BY <1>1, <2>1 DEF CreateGuild, GuildKnown, TypeOK, TablesOK
    <2>4. ~(DeleteGuild(r) \/ TransferOwner(r) \/ JoinMember(r) \/ BanMember(r) \/ UnbanMember(r))
      BY <2>2 DEF DeleteGuild, TransferOwner, JoinMember, BanMember, UnbanMember, Writes
    <2>5. ~RemoveMember(r)
      BY <2>2 DEF RemoveMember, Writes, At, OpsAt
    <2>6. ~(GrantAdmin(r) \/ CommitAdminRole(r) \/ CreateRole(r) \/ DeleteRole(r))
      BY <2>2 DEF GrantAdmin, CommitAdminRole, CreateRole, DeleteRole, Writes, At
    <2>7. owner' = None /\ members' = {} /\ bans' = {}
      BY <1>1, <2>1, <2>3, <2>4, <2>5, Writers DEF Newcomers
    <2>8. AdminRoles' = {}
      <3>1. roles' = roles \/ Abandon(r)
        BY <1>1, <2>3, <2>4, <2>6, Writers
      <3> QED
        BY <2>1, <3>1 DEF Abandon, Newcomers, AdminRoles
    <2>9. req'[r].pc # "idle" => req'[r].op = "create_guild"
      BY <1>1, <2>1, <2>2, ActsMove DEF Moves, Starts, Continues, Idle
    <2> QED
      BY <1>1, <2>1, <2>7, <2>8, <2>9, OthersStay DEF Newcomers
  <1>2. CASE UNCHANGED <<owner, members, chan, access, roles, grants, bans, req>>
    BY <1>2 DEF Newcomers, GuildKnown, AdminRoles
  <1> QED
    BY <1>1, <1>2, StepCases DEF Newcomers

\* What every invariant below rests on.
Base == TypeOK /\ InProgram /\ Newcomers

LEMMA BaseInit == ASSUME Init PROVE Base
  <1>1. TypeOK
    BY InitType
  <1>2. InProgram /\ \A r \in Reqs : req[r].pc = "idle"
    BY DEF Init, Idle, InProgram
  <1>3. ~GuildKnown => NoGuild
    BY DEF Init, LegacyGuild, GuildKnown
  <1>4. Newcomers
    BY <1>2, <1>3 DEF Init, NoGuild, Newcomers, AdminRoles
  <1> QED
    BY <1>1, <1>2, <1>4 DEF Base

LEMMA BaseStep == ASSUME Base, [Next]_vars PROVE Base'
  BY StepType, InProgramStep, NewcomersStep DEF Base

\* Until the guild has been created no other handler is at work.
LEMMA NothingBeforeCreation ==
    ASSUME Base, NEW r \in Reqs, CreateGuild(r), ~GuildKnown,
           NEW s \in Reqs, req[s].pc # "idle"
    PROVE  req[s].op = "create_guild"
  BY DEF Base, Newcomers

-----------------------------------------------------------------------------
(* The owner is a member.  transfer_owner reads the membership of the heir   *)
(* before its transaction, so this holds when requests are served one at a   *)
(* time, and for any number of concurrent requests when none is a transfer.  *)

Serial == \A r, s \in Reqs : r = s
Removing(q) ==
    /\ q.op \in Removals
    /\ q.pc \in {"adminOwner", "adminRole", "member", "write", "unmember"}
Shielded == \A r \in Reqs : Removing(req[r]) => Subject(req[r]) # owner
HeirIsMember == \A r \in Reqs : Writes(r, "transfer_owner") => req[r].target \in members
OwnerInv == Base /\ OwnerIsMember /\ Shielded /\ HeirIsMember

LEMMA SubjectIsUser ==
    ASSUME TypeOK, NEW r \in Reqs, req[r].pc # "idle"
    PROVE  Subject(req[r]) \in Users /\ Subject(req[r]) # None
  BY Parties, ConstantsAssumption DEF TypeOK

\* A removal reaches its first shielded stage through the owner check.
LEMMA RemovingFromCheck ==
    ASSUME Base, NEW r \in Reqs, Acts(r), Removing(req'[r])
    PROVE  /\ req[r].pc # "idle" /\ req'[r].op = req[r].op
           /\ Subject(req'[r]) = Subject(req[r])
           /\ Removing(req[r]) \/ (req[r].pc = "owner" /\ OwnerCheck(req[r]))
  <1>1. Moves(r)
    BY ActsMove DEF Base
  <1>2. ~Starts(r)
    BY DEF Starts, Removing, FirstStage, Removals
  <1>3. Continues(r)
    BY <1>1, <1>2 DEF Moves, Idle, Removing
  <1>4. req[r].op \in OpsAt(req[r].pc)
    BY <1>3 DEF Base, InProgram, Continues
  <1>5. req[r].op \in Removals
    BY <1>3 DEF Continues, Removing
  <1>6. Removing(req[r]) \/ (req[r].pc = "owner" /\ OwnerCheck(req[r]))
    BY <1>3, <1>4, <1>5 DEF Continues, Edge, Removing, Removals, OpsAt, OnPlainRole
  <1> QED
    BY <1>3, <1>6 DEF Continues, Subject

\* A removal does not pass the owner check when its subject is the owner.
LEMMA CheckShields ==
    ASSUME TypeOK, NEW r \in Reqs, req[r].op \in Removals, req[r].pc # "idle",
           OwnerCheck(req[r])
    PROVE  Subject(req[r]) # owner
  BY ConstantsAssumption DEF TypeOK, RequestsOK, WellFormed, TargetsOf, OwnerCheck, Removals,
     Subject, Targeted, ShieldsOwner

LEMMA HeirFromCheck ==
    ASSUME Base, NEW r \in Reqs, Acts(r), req'[r].pc = "write", req'[r].op = "transfer_owner"
    PROVE  req'[r].target = req[r].target /\ req[r].pc = "member" /\ req[r].target \in members
  <1>1. Moves(r)
    BY ActsMove DEF Base
  <1>2. ~Starts(r)
    BY DEF Starts, FirstStage
  <1>3. Continues(r)
    BY <1>1, <1>2 DEF Moves, Idle
  <1>4. req[r].op \in OpsAt(req[r].pc)
    BY <1>3 DEF Base, InProgram, Continues
  <1> QED
    BY <1>3, <1>4 DEF Continues, Edge, OpsAt, OnPlainRole, AfterAuthority, AdminOnly, Moderation

LEMMA OwnerIsMemberStep ==
    ASSUME OwnerInv, NEW r \in Reqs, Acts(r)
    PROVE  OwnerIsMember'
  <1> USE DEF OwnerInv, OwnerIsMember, GuildExists
  <1>1. CASE CreateGuild(r)
    BY <1>1 DEF CreateGuild
  <1>2. CASE DeleteGuild(r)
    BY <1>2 DEF DeleteGuild
  <1>3. CASE TransferOwner(r)
    BY <1>3 DEF TransferOwner, HeirIsMember
  <1>4. CASE JoinMember(r)
    BY <1>4 DEF JoinMember
  <1>5. CASE RemoveMember(r)
    <2>1. req[r].pc # "idle" /\ req[r].op \in OpsAt(req[r].pc)
      BY <1>5 DEF RemoveMember, Writes, At, Base, InProgram
    <2>2. Removing(req[r])
      BY <1>5, <2>1 DEF RemoveMember, Writes, At, Removing, Removals, OpsAt
    <2> QED
      BY <1>5, <2>2 DEF RemoveMember, Shielded
  <1>6. CASE owner' = owner /\ members' = members
    BY <1>6
  <1> QED
    BY <1>1, <1>2, <1>3, <1>4, <1>5, <1>6, Writers

LEMMA ShieldedStep ==
    ASSUME OwnerInv, NEW r \in Reqs, Acts(r), Serial \/ "transfer_owner" \notin Ops
    PROVE  Shielded'
  <1>1. ASSUME NEW s \in Reqs, Removing(req'[s])
        PROVE  /\ req[s].pc # "idle" /\ Subject(req'[s]) = Subject(req[s])
               /\ Subject(req[s]) # owner /\ req[s].op \in Removals
    <2>1. CASE s # r
      <3>1. req'[s] = req[s]
        BY <2>1, OthersStay DEF OwnerInv, Base
      <3> QED
        BY <1>1, <3>1 DEF OwnerInv, Shielded, Removing
    <2>2. CASE s = r
      BY <1>1, <2>2, RemovingFromCheck, CheckShields DEF OwnerInv, Base, Shielded, Removing
    <2> QED
      BY <2>1, <2>2
  <1>2. ASSUME NEW s \in Reqs, Removing(req'[s]) PROVE Subject(req[s]) # owner'
    <2>1. CASE owner' = owner
      BY <1>1, <1>2, <2>1
    <2>2. CASE CreateGuild(r) /\ ~GuildKnown
      BY <1>1, <1>2, <2>2, NothingBeforeCreation DEF OwnerInv, Removals
    <2>3. CASE CreateGuild(r) /\ GuildKnown
      BY <2>1, <2>3 DEF CreateGuild
    <2>4. CASE DeleteGuild(r)
      BY <1>1, <1>2, <2>4, SubjectIsUser DEF DeleteGuild, OwnerInv, Base
    <2>5. CASE TransferOwner(r)
      <3>1. req[r].op \in Ops /\ req[r].op = "transfer_owner"
        BY <2>5 DEF TransferOwner, Writes, OwnerInv, Base, InProgram
      <3>2. s = r
        BY <3>1 DEF Serial
      <3> QED
        BY <1>1, <1>2, <3>1, <3>2 DEF Removals
    <2> QED
      BY <2>1, <2>2, <2>3, <2>4, <2>5, Writers
  <1> QED
    BY <1>1, <1>2 DEF Shielded

LEMMA HeirIsMemberStep ==
    ASSUME OwnerInv, NEW r \in Reqs, Acts(r), Serial \/ "transfer_owner" \notin Ops
    PROVE  HeirIsMember'
  <1> SUFFICES ASSUME NEW s \in Reqs, req'[s].pc = "write", req'[s].op = "transfer_owner"
               PROVE  req'[s].target \in members'
    BY DEF HeirIsMember, Writes
  <1>1. "transfer_owner" \in Ops
    <2>1. InProgram'
      BY BaseStep DEF OwnerInv, Base, Acts, Next
    <2> QED
      BY <2>1 DEF InProgram
  <1>2. s = r
    BY <1>1 DEF Serial
  <1>3. req'[r].target = req[r].target /\ req[r].pc = "member" /\ req[r].target \in members
    BY <1>2, HeirFromCheck DEF OwnerInv
  <1>4. members' = members
    BY <1>3, Writers DEF CreateGuild, DeleteGuild, JoinMember, RemoveMember, Writes, At
  <1> QED
    BY <1>2, <1>3, <1>4

LEMMA OwnerInvStep ==
    ASSUME OwnerInv, [Next]_vars, Serial \/ "transfer_owner" \notin Ops
    PROVE  OwnerInv'
  <1>1. Base'
    BY BaseStep DEF OwnerInv
  <1>2. ASSUME NEW r \in Reqs, Acts(r) PROVE (OwnerIsMember /\ Shielded /\ HeirIsMember)'
    BY <1>2, OwnerIsMemberStep, ShieldedStep, HeirIsMemberStep
  <1>3. CASE UNCHANGED <<owner, members, chan, access, roles, grants, bans, req>>
    BY <1>1, <1>3 DEF OwnerInv, OwnerIsMember, GuildExists, Shielded, HeirIsMember, Writes
  <1> QED
    BY <1>1, <1>2, <1>3, StepCases DEF OwnerInv

LEMMA OwnerInvInit == ASSUME Init PROVE OwnerInv
  <1>1. \A r \in Reqs : req[r].pc = "idle"
    BY DEF Init, Idle
  <1>2. OwnerIsMember
    BY DEF Init, NoGuild, LegacyGuild, OwnerIsMember, GuildExists
  <1> QED
    BY <1>1, <1>2, BaseInit DEF OwnerInv, Shielded, Removing, HeirIsMember, Writes

\* The owner of a guild is one of its members, for any users, channels, roles
\* and failures in the middle of handlers: when requests are served one at a
\* time, or when no transfer_owner is among the concurrent ones.
THEOREM OwnerStaysMember ==
    ASSUME Serial \/ "transfer_owner" \notin Ops
    PROVE  Spec => []OwnerIsMember
  <1>1. OwnerInv => OwnerIsMember
    BY DEF OwnerInv
  <1>2. OwnerInv /\ [Next]_vars => OwnerInv'
    BY OwnerInvStep
  <1> QED
    BY <1>1, <1>2, OwnerInvInit, PTL DEF Spec

-----------------------------------------------------------------------------
(* One admin role.  Each handler that needs it looks for one and inserts it  *)
(* when there is none; set_role does so in a transaction that another        *)
(* set_role does not see, in a guild older than the roles migration.         *)

Committing(r) == At(r, "commit") /\ req[r].op = "grant_admin"
InsertedWhenNone == \A r \in Reqs : Committing(r) => AdminRoles = {}
RoleInv == Base /\ OneAdminRole /\ InsertedWhenNone

LEMMA InsertsWhenNone ==
    ASSUME Base, NEW r \in Reqs, Acts(r), req'[r].pc = "commit", req'[r].op = "grant_admin"
    PROVE  GrantAdmin(r) /\ AdminRoles = {} /\ AdminRoles' = {}
  <1>1. Continues(r)
    BY ActsMove DEF Base, Moves, Starts, Idle, FirstStage
  <1>2. req[r].op = "grant_admin" /\ req[r].pc = "write"
    BY <1>1 DEF Continues, Edge, AfterAuthority
  <1>3. ~ReadsOnly(r)
    BY <1>2 DEF ReadsOnly, Call, Reads, SelectOwner, IsAdminOwner, IsAdminRole, IsGuildMember,
       SelectRole, SelectChannel, SelectInvite, SelectBan, CountRemaining, Check, At
  <1>4. ~GuildWrites(r)
    BY <1>2 DEF GuildWrites, CreateGuild, DeleteGuild, CreateInvite, RevokeInvite, TransferOwner, Writes
  <1>5. ~MemberWrites(r)
    BY <1>2 DEF MemberWrites, JoinMember, RemoveMember, BanMember, UnbanMember, ListChannels,
       SyncChannel, Writes, At
  <1>6. ~ChannelWrites(r)
    BY <1>2 DEF ChannelWrites, BeginChannel, CommitChannel, RenameChannel, DeleteChannel,
       LeaveConversation, DropConversation, Writes, At
  <1>7. ~(CommitAdminRole(r) \/ RevokeAdmin(r) \/ CreateRole(r) \/ DeleteRole(r) \/ AssignRole(r)
          \/ UnassignRole(r))
    BY <1>2 DEF CommitAdminRole, RevokeAdmin, CreateRole, DeleteRole, AssignRole, UnassignRole,
       Writes, At
  <1>8. ~Return(r)
    BY DEF Return, Idle, Base, TypeOK, RequestsOK
  <1>9. GrantAdmin(r)
    BY <1>3, <1>4, <1>5, <1>6, <1>7, <1>8 DEF Acts, Statement, ReadsOnly, RoleWrites, Abandon
  <1> QED
    BY <1>8, <1>9 DEF GrantAdmin, FreshRoles, AdminRoles, Base, TypeOK, TablesOK

\* Which roles carry the admin flag after a step.
LEMMA AdminRolesAfter ==
    ASSUME Base, NEW r \in Reqs, Acts(r)
    PROVE  \/ AdminRoles' \subseteq AdminRoles
           \/ AdminRoles = {} /\ \E x \in Roles : AdminRoles' = {x}
           \/ CommitAdminRole(r) /\ AdminRoles' = AdminRoles \cup {req[r].obj}
  <1> USE DEF AdminRoles, Base, TypeOK, TablesOK
  <1>1. CASE CreateGuild(r)
    BY <1>1 DEF CreateGuild, Newcomers
  <1>2. CASE DeleteGuild(r) \/ DeleteRole(r) \/ Abandon(r)
    BY <1>2 DEF DeleteGuild, DeleteRole, Abandon
  <1>3. CASE TransferOwner(r)
    BY <1>3 DEF TransferOwner
  <1>4. CASE GrantAdmin(r)
    BY <1>4 DEF GrantAdmin
  <1>5. CASE CommitAdminRole(r)
    <2>1. req[r].obj \in Roles
      BY <1>5 DEF CommitAdminRole, At, RequestsOK, WellFormed
    <2> QED
      BY <1>5, <2>1 DEF CommitAdminRole
  <1>6. CASE CreateRole(r)
    BY <1>6 DEF CreateRole
  <1>7. CASE roles' = roles
    BY <1>7
  <1> QED
    BY <1>1, <1>2, <1>3, <1>4, <1>5, <1>6, <1>7, Writers

LEMMA OneAdminRoleStep ==
    ASSUME RoleInv, NEW r \in Reqs, Acts(r)
    PROVE  OneAdminRole'
  <1>1. CASE CommitAdminRole(r)
    BY <1>1, AdminRolesAfter DEF RoleInv, OneAdminRole, InsertedWhenNone, Committing, CommitAdminRole
  <1>2. CASE ~CommitAdminRole(r)
    BY <1>2, AdminRolesAfter DEF RoleInv, OneAdminRole
  <1> QED
    BY <1>1, <1>2

LEMMA InsertedWhenNoneStep ==
    ASSUME RoleInv, NEW r \in Reqs, Acts(r), Serial \/ "grant_admin" \notin Ops
    PROVE  InsertedWhenNone'
  <1> SUFFICES ASSUME NEW s \in Reqs, req'[s].pc = "commit", req'[s].op = "grant_admin"
               PROVE  AdminRoles' = {}
    BY DEF InsertedWhenNone, Committing, At
  <1>1. "grant_admin" \in Ops
    <2>1. InProgram'
      BY BaseStep DEF RoleInv, Base, Acts, Next
    <2> QED
      BY <2>1 DEF InProgram
  <1> QED
    BY <1>1, InsertsWhenNone DEF Serial, RoleInv

LEMMA RoleInvStep ==
    ASSUME RoleInv, [Next]_vars, Serial \/ "grant_admin" \notin Ops
    PROVE  RoleInv'
  <1>1. Base'
    BY BaseStep DEF RoleInv
  <1>2. ASSUME NEW r \in Reqs, Acts(r) PROVE (OneAdminRole /\ InsertedWhenNone)'
    BY <1>2, OneAdminRoleStep, InsertedWhenNoneStep
  <1>3. CASE UNCHANGED <<owner, members, chan, access, roles, grants, bans, req>>
    BY <1>1, <1>3 DEF RoleInv, OneAdminRole, InsertedWhenNone, AdminRoles, Committing, At
  <1> QED
    BY <1>1, <1>2, <1>3, StepCases DEF RoleInv

LEMMA RoleInvInit == ASSUME Init PROVE RoleInv
  <1>1. AdminRoles = {}
    BY DEF Init, AdminRoles
  <1> QED
    BY <1>1, BaseInit DEF RoleInv, OneAdminRole, InsertedWhenNone

\* "Ensure a guild has exactly one admin role" (guilds.rs:122), also in a guild
\* older than the roles migration: when requests are served one at a time, or
\* when no set_role(on) is among the concurrent ones.
THEOREM AdminRoleStaysOne ==
    ASSUME Serial \/ "grant_admin" \notin Ops
    PROVE  Spec => []OneAdminRole
  <1>1. RoleInv => OneAdminRole
    BY DEF RoleInv
  <1>2. RoleInv /\ [Next]_vars => RoleInv'
    BY RoleInvStep
  <1> QED
    BY <1>1, <1>2, RoleInvInit, PTL DEF Spec

\* A guild created by this server has its admin role from the start and keeps it.
HasAdminRole == GuildExists => AdminRoles # {}
\* No request is about to delete it, or to insert another.
RoleSpared ==
    \A r \in Reqs : /\ Writes(r, "delete_role") => roles[req[r].obj] \in {"plain", "gone"}
                    /\ ~Committing(r)
NewGuildInv == Base /\ OneAdminRole /\ HasAdminRole /\ RoleSpared

LEMMA DeletesPlainRole ==
    ASSUME Base, NEW r \in Reqs, Acts(r), req'[r].pc = "write", req'[r].op = "delete_role"
    PROVE  /\ req'[r].obj = req[r].obj /\ roles' = roles
           /\ roles[req[r].obj] \in {"plain", "gone"}
  <1>1. Continues(r)
    BY ActsMove DEF Base, Moves, Starts, Idle, FirstStage
  <1>2. req[r].op \in OpsAt(req[r].pc)
    BY <1>1 DEF Base, InProgram, Continues
  <1>3. /\ req'[r].obj = req[r].obj /\ req[r].pc = "role"
        /\ roles[req[r].obj] = "plain"
    BY <1>1, <1>2 DEF Continues, Edge, OpsAt, AfterAuthority, AdminOnly, Moderation, Targeted,
       ShieldsOwner, OnPlainRole
  <1>4. roles' = roles \/ Abandon(r)
    BY <1>3, Writers DEF CreateGuild, DeleteGuild, TransferOwner, GrantAdmin, CommitAdminRole,
       CreateRole, DeleteRole, Writes, At
  <1>5. ~Abandon(r)
    BY DEF Abandon, Return, Idle, Base, TypeOK, RequestsOK
  <1> QED
    BY <1>3, <1>4, <1>5

\* A role that is plain or gone never becomes the admin role.
LEMMA PlainRoleLife ==
    ASSUME NewGuildInv, NEW r \in Reqs, Acts(r), NEW s \in Reqs, Writes(s, "delete_role"),
           NEW x \in Roles, roles[x] \in {"plain", "gone"}
    PROVE  roles'[x] \in {"plain", "gone"}
  <1> USE DEF NewGuildInv, Base, TypeOK, TablesOK
  <1>1. CASE CreateGuild(r)
    BY <1>1, NothingBeforeCreation DEF CreateGuild, Writes
  <1>2. CASE DeleteGuild(r) \/ DeleteRole(r) \/ Abandon(r)
    BY <1>2 DEF DeleteGuild, DeleteRole, Abandon
  <1>3. CASE TransferOwner(r)
    BY <1>3 DEF TransferOwner, FreshRoles, AdminRoles
  <1>4. CASE GrantAdmin(r) \/ CreateRole(r)
    BY <1>4 DEF GrantAdmin, CreateRole, FreshRoles
  <1>5. ~CommitAdminRole(r)
    BY DEF CommitAdminRole, RoleSpared, Committing
  <1>6. CASE roles' = roles
    BY <1>6
  <1> QED
    BY <1>1, <1>2, <1>3, <1>4, <1>5, <1>6, Writers

LEMMA HasAdminRoleStep ==
    ASSUME NewGuildInv, NEW r \in Reqs, Acts(r)
    PROVE  HasAdminRole'
  <1> USE DEF NewGuildInv, Base, TypeOK, TablesOK, HasAdminRole, GuildExists
  <1>1. CASE CreateGuild(r)
    BY <1>1 DEF CreateGuild, AdminRoles
  <1>2. CASE DeleteGuild(r)
    BY <1>2 DEF DeleteGuild
  <1>3. CASE TransferOwner(r)
    BY <1>3 DEF TransferOwner, AdminRoles, FreshRoles
  <1>4. CASE GrantAdmin(r) \/ CreateRole(r)
    BY <1>4 DEF GrantAdmin, CreateRole, FreshRoles, AdminRoles
  <1>5. CASE DeleteRole(r)
    BY <1>5 DEF DeleteRole, RoleSpared, AdminRoles
  <1>6. CASE Abandon(r)
    BY <1>6 DEF Abandon, RoleSpared, Committing, Inserted, AdminRoles
  <1>7. ~CommitAdminRole(r)
    BY DEF CommitAdminRole, RoleSpared, Committing
  <1>8. CASE owner' = owner /\ roles' = roles
    BY <1>8 DEF AdminRoles
  <1> QED
    BY <1>1, <1>2, <1>3, <1>4, <1>5, <1>6, <1>7, <1>8, Writers

LEMMA RoleSparedStep ==
    ASSUME NewGuildInv, NEW r \in Reqs, Acts(r)
    PROVE  RoleSpared'
  <1>1. ASSUME NEW s \in Reqs, req'[s].pc = "write", req'[s].op = "delete_role"
        PROVE  roles'[req'[s].obj] \in {"plain", "gone"}
    <2>1. CASE s = r
      BY <1>1, <2>1, DeletesPlainRole DEF NewGuildInv
    <2>2. CASE s # r
      <3>1. req'[s] = req[s]
        BY <2>2, OthersStay DEF NewGuildInv, Base
      <3>2. Writes(s, "delete_role") /\ req[s].obj \in Roles
        BY <1>1, <3>1 DEF Writes, NewGuildInv, Base, TypeOK, RequestsOK, WellFormed, ObjectsOf,
           OnPlainRole
      <3> QED
        BY <3>1, <3>2, PlainRoleLife DEF NewGuildInv, RoleSpared
    <2> QED
      BY <2>1, <2>2
  <1>2. ASSUME NEW s \in Reqs, req'[s].pc = "commit", req'[s].op = "grant_admin"
        PROVE  FALSE
    <2>1. CASE s = r
      <3>1. GrantAdmin(r) /\ AdminRoles = {}
        BY <1>2, <2>1, InsertsWhenNone DEF NewGuildInv
      <3>2. ~GuildExists
        BY <3>1 DEF NewGuildInv, HasAdminRole
      <3>3. Return(r)
        BY <3>1, <3>2 DEF GrantAdmin, FreshRoles
      <3> QED
        BY <1>2, <2>1, <3>3 DEF Return, Idle, NewGuildInv, Base, TypeOK, RequestsOK
    <2>2. CASE s # r
      <3>1. req'[s] = req[s]
        BY <2>2, OthersStay DEF NewGuildInv, Base
      <3> QED
        BY <1>2, <3>1 DEF NewGuildInv, RoleSpared, Committing, At
    <2> QED
      BY <2>1, <2>2
  <1> QED
    BY <1>1, <1>2 DEF RoleSpared, Writes, Committing, At

LEMMA NewGuildInvStep == ASSUME NewGuildInv, [Next]_vars PROVE NewGuildInv'
  <1>1. Base'
    BY BaseStep DEF NewGuildInv
  <1>2. ASSUME NEW r \in Reqs, Acts(r) PROVE (OneAdminRole /\ HasAdminRole /\ RoleSpared)'
    <2>1. ~CommitAdminRole(r)
      BY DEF CommitAdminRole, NewGuildInv, RoleSpared, Committing
    <2>2. OneAdminRole'
      BY <1>2, <2>1, AdminRolesAfter DEF NewGuildInv, OneAdminRole
    <2> QED
      BY <1>2, <2>2, HasAdminRoleStep, RoleSparedStep
  <1>3. CASE UNCHANGED <<owner, members, chan, access, roles, grants, bans, req>>
    BY <1>1, <1>3 DEF NewGuildInv, OneAdminRole, HasAdminRole, GuildExists, RoleSpared,
       AdminRoles, Committing, Writes, At
  <1> QED
    BY <1>1, <1>2, <1>3, StepCases DEF NewGuildInv

LEMMA NewGuildInvInit == ASSUME Init, NoGuild PROVE NewGuildInv
  <1>1. AdminRoles = {} /\ ~GuildExists /\ \A r \in Reqs : req[r].pc = "idle"
    BY DEF Init, NoGuild, AdminRoles, GuildExists, Idle
  <1> QED
    BY <1>1, BaseInit DEF NewGuildInv, OneAdminRole, HasAdminRole, RoleSpared, Committing,
       Writes, At

\* A guild that this server creates has exactly one admin role as long as it
\* exists, whatever runs concurrently and wherever handlers stop: two set_role
\* requests insert one each only in a guild older than the roles migration.
THEOREM NewGuildHasOneAdminRole ==
    Init /\ NoGuild /\ [][Next]_vars => [](OneAdminRole /\ HasAdminRole)
  <1>1. NewGuildInv => OneAdminRole /\ HasAdminRole
    BY DEF NewGuildInv
  <1>2. Init /\ NoGuild => NewGuildInv
    BY NewGuildInvInit
  <1> QED
    BY <1>1, <1>2, NewGuildInvStep, PTL

-----------------------------------------------------------------------------
(* Only empty conversations are dropped.  delete_conversation counts who is  *)
(* left and deletes in two statements; the one handler that adds somebody to *)
(* an existing conversation is join_guild.                                   *)

Ahead == {"unused", "tx"}
Unborn == \A c \in Channels : chan[c] \in Ahead => access[c] = {}
Bearing(r) == At(r, "commit") /\ req[r].op = "create_channel"
Born ==
    \A r \in Reqs : Bearing(r) =>
        /\ chan[req[r].obj] = "tx"
        /\ \A s \in Reqs : Bearing(s) /\ s # r => req[s].obj # req[r].obj
Leaving(q) == q.op = "delete_conversation" /\ q.pc \in {"write", "count", "drop"}
LeavesBorn == \A r \in Reqs : Leaving(req[r]) => chan[req[r].obj] \notin Ahead
Emptied == \A r \in Reqs : At(r, "drop") => access[req[r].obj] = {}
ConvInv == Base /\ Unborn /\ Born /\ LeavesBorn
EmptyInv == ConvInv /\ Emptied

LEMMA LeavingObject ==
    ASSUME Base, NEW r \in Reqs, req[r].op = "delete_conversation", req[r].pc # "idle"
    PROVE  req[r].obj \in Channels /\ req[r].pc # "commit"
  <1>1. req[r].pc # "commit"
    BY DEF Base, InProgram, OpsAt
  <1> QED
    BY <1>1 DEF Base, TypeOK, RequestsOK, WellFormed, ObjectsOf, OnPlainRole

LEMMA BearingObject ==
    ASSUME Base, NEW r \in Reqs, Bearing(r)
    PROVE  req[r].obj \in Channels
  BY DEF Base, TypeOK, RequestsOK, WellFormed, Bearing, At

LEMMA UnbornStep == ASSUME ConvInv, NEW r \in Reqs, Acts(r) PROVE Unborn'
  <1> USE DEF ConvInv, Base, TypeOK, TablesOK, Unborn, Ahead
  <1>1. CASE CreateGuild(r)
    BY <1>1 DEF CreateGuild
  <1>2. CASE DeleteGuild(r)
    BY <1>2 DEF DeleteGuild
  <1>3. CASE CommitChannel(r)
    BY <1>3 DEF CommitChannel
  <1>4. CASE SyncChannel(r)
    <2>1. PICK c \in Channels : access' = [access EXCEPT ![c] = Synced(req[r], c)]
      BY <1>4 DEF SyncChannel
    <2>2. chan[c] # "live" => Synced(req[r], c) \subseteq access[c]
      BY DEF Synced
    <2> QED
      BY <1>4, <2>1, <2>2 DEF SyncChannel
  <1>5. CASE LeaveConversation(r)
    <2>1. req[r].obj \in Channels
      BY <1>5, LeavingObject DEF LeaveConversation, Writes
    <2> QED
      BY <1>5, <2>1 DEF LeaveConversation
  <1>6. CASE DeleteChannel(r) \/ DropConversation(r)
    BY <1>6 DEF DeleteChannel, DropConversation, DropChannel
  <1>7. CASE BeginChannel(r)
    BY <1>7 DEF BeginChannel, FreshChannels
  <1>8. CASE Abandon(r)
    BY <1>8 DEF Abandon
  <1>9. CASE access' = access /\ chan' = chan
    BY <1>9
  <1> QED
    BY <1>1, <1>2, <1>3, <1>4, <1>5, <1>6, <1>7, <1>8, <1>9, Writers

\* A row that a transaction has inserted is touched by no other request.
LEMMA InsertedRowStays ==
    ASSUME ConvInv, NEW r \in Reqs, Acts(r), NEW s \in Reqs, s # r, Bearing(s)
    PROVE  chan'[req[s].obj] = "tx"
  <1> DEFINE c == req[s].obj
  <1>1. c \in Channels /\ chan[c] = "tx"
    BY BearingObject DEF ConvInv, Born
  <1> USE DEF ConvInv, Base, TypeOK, TablesOK
  <1>2. CASE CreateGuild(r)
    BY <1>1, <1>2 DEF CreateGuild, GuildKnown
  <1>3. CASE DeleteGuild(r)
    BY <1>1, <1>3 DEF DeleteGuild
  <1>4. CASE BeginChannel(r)
    BY <1>1, <1>4 DEF BeginChannel, FreshChannels
  <1>5. CASE CommitChannel(r)
    <2>1. Bearing(r)
      BY <1>5 DEF CommitChannel, Bearing
    <2>2. req[r].obj # c
      BY <2>1 DEF Born
    <2> QED
      BY <1>1, <1>5, <2>2 DEF CommitChannel
  <1>6. CASE DeleteChannel(r) \/ DropConversation(r)
    BY <1>1, <1>6 DEF DeleteChannel, DropConversation, DropChannel
  <1>7. CASE Abandon(r)
    <2>1. ~Inserted(r, "create_channel", c)
      BY DEF Inserted, Born, Bearing
    <2> QED
      BY <1>1, <1>7, <2>1 DEF Abandon
  <1>8. CASE chan' = chan
    BY <1>1, <1>8
  <1> QED
    BY <1>2, <1>3, <1>4, <1>5, <1>6, <1>7, <1>8, Writers

\* create_channel reaches its commit with a row that was unused before.
LEMMA BearsFresh ==
    ASSUME Base, NEW r \in Reqs, Acts(r), req'[r].pc = "commit", req'[r].op = "create_channel"
    PROVE  /\ BeginChannel(r) /\ req'[r].obj \in FreshChannels
           /\ chan' = [chan EXCEPT ![req'[r].obj] = "tx"]
           /\ req'[r].todo = members
  <1>1. Continues(r)
    BY ActsMove DEF Base, Moves, Starts, Idle, FirstStage
  <1>2. req[r].op = "create_channel" /\ req[r].pc = "write"
    BY <1>1 DEF Continues, Edge, AfterAuthority
  <1>3. ~ReadsOnly(r)
    BY <1>2 DEF ReadsOnly, Call, Reads, SelectOwner, IsAdminOwner, IsAdminRole, IsGuildMember,
       SelectRole, SelectChannel, SelectInvite, SelectBan, CountRemaining, Check, At
  <1>4. ~GuildWrites(r)
    BY <1>2 DEF GuildWrites, CreateGuild, DeleteGuild, CreateInvite, RevokeInvite, TransferOwner, Writes
  <1>5. ~MemberWrites(r)
    BY <1>2 DEF MemberWrites, JoinMember, RemoveMember, BanMember, UnbanMember, ListChannels,
       SyncChannel, Writes, At
  <1>6. ~RoleWrites(r)
    BY <1>2 DEF RoleWrites, GrantAdmin, CommitAdminRole, RevokeAdmin, CreateRole, DeleteRole,
       AssignRole, UnassignRole, Writes, At
  <1>7. ~(CommitChannel(r) \/ RenameChannel(r) \/ DeleteChannel(r) \/ LeaveConversation(r)
          \/ DropConversation(r))
    BY <1>2 DEF CommitChannel, RenameChannel, DeleteChannel, LeaveConversation, DropConversation,
       Writes, At
  <1>8. ~Return(r)
    BY DEF Return, Idle, Base, TypeOK, RequestsOK
  <1>9. BeginChannel(r)
    BY <1>3, <1>4, <1>5, <1>6, <1>7, <1>8 DEF Acts, Statement, ReadsOnly, ChannelWrites, Abandon
  <1>10. PICK c \in FreshChannels :
              /\ chan' = [chan EXCEPT ![c] = "tx"]
              /\ req' = [req EXCEPT ![r].pc = "commit", ![r].obj = c, ![r].todo = members]
    BY <1>8, <1>9 DEF BeginChannel
  <1>11. req'[r].obj = c /\ req'[r].todo = members
    BY <1>10 DEF Base, TypeOK, RequestsOK, Requests
  <1> QED
    BY <1>9, <1>10, <1>11

LEMMA BornStep == ASSUME ConvInv, NEW r \in Reqs, Acts(r) PROVE Born'
  <1> DEFINE Bearing2(s) == req'[s].pc = "commit" /\ req'[s].op = "create_channel"
  <1>1. ASSUME NEW s \in Reqs, s # r, Bearing2(s)
        PROVE  /\ req'[s] = req[s] /\ Bearing(s) /\ chan'[req[s].obj] = "tx"
               /\ req[s].obj \in Channels /\ chan[req[s].obj] = "tx"
    <2>1. req'[s] = req[s]
      BY <1>1, OthersStay DEF ConvInv, Base
    <2>2. Bearing(s)
      BY <1>1, <2>1 DEF Bearing, At
    <2> QED
      BY <1>1, <2>1, <2>2, InsertedRowStays, BearingObject DEF ConvInv, Born
  <1>2. ASSUME Bearing2(r)
        PROVE  chan'[req'[r].obj] = "tx" /\ chan[req'[r].obj] = "unused"
    BY <1>2, BearsFresh DEF ConvInv, Base, TypeOK, TablesOK, FreshChannels
  <1>3. ASSUME NEW s \in Reqs, Bearing2(s) PROVE chan'[req'[s].obj] = "tx"
    BY <1>1, <1>2, <1>3
  <1>4. ASSUME NEW s \in Reqs, NEW t \in Reqs, Bearing2(s), Bearing2(t), s # t
        PROVE  req'[t].obj # req'[s].obj
    <2>1. CASE s = r
      BY <1>1, <1>2, <1>4, <2>1
    <2>2. CASE t = r
      BY <1>1, <1>2, <1>4, <2>2
    <2>3. CASE s # r /\ t # r
      BY <1>1, <1>4, <2>3 DEF ConvInv, Born
    <2> QED
      BY <2>1, <2>2, <2>3
  <1> QED
    BY <1>3, <1>4 DEF Born, Bearing, At

LEMMA LeavingFromCheck ==
    ASSUME ConvInv, NEW r \in Reqs, Acts(r), Leaving(req'[r])
    PROVE  /\ req[r].op = "delete_conversation" /\ req'[r].obj = req[r].obj
           /\ req[r].obj \in Channels
           /\ chan[req[r].obj] \notin Ahead
           /\ req'[r].pc = "drop" => req[r].pc = "count" /\ access[req[r].obj] = {}
  <1>1. Continues(r)
    BY ActsMove DEF ConvInv, Base, Moves, Starts, Idle, FirstStage, Leaving
  <1>2. req[r].op \in OpsAt(req[r].pc)
    BY <1>1 DEF ConvInv, Base, InProgram, Continues
  <1>3. req[r].op = "delete_conversation" /\ req'[r].obj = req[r].obj
    BY <1>1 DEF Continues, Leaving
  <1>4. req[r].obj \in Channels
    BY <1>1, <1>3, LeavingObject DEF ConvInv, Continues
  <1>5. \/ Leaving(req[r])
        \/ req[r].pc = "channel" /\ req[r].user \in access[req[r].obj]
    BY <1>1, <1>2, <1>3 DEF Continues, Leaving, Edge, OpsAt, FirstStage, AdminOnly, Moderation,
       OnPlainRole, Targeted, ShieldsOwner
  <1>6. chan[req[r].obj] \notin Ahead
    BY <1>4, <1>5 DEF ConvInv, LeavesBorn, Unborn
  <1>7. req'[r].pc = "drop" => req[r].pc = "count" /\ access[req[r].obj] = {}
    BY <1>1, <1>2, <1>3 DEF Continues, Edge, AfterAuthority
  <1> QED
    BY <1>3, <1>4, <1>6, <1>7

LEMMA LeavesBornStep == ASSUME ConvInv, NEW r \in Reqs, Acts(r) PROVE LeavesBorn'
  <1>1. ASSUME NEW s \in Reqs, Leaving(req'[s])
        PROVE  /\ req'[s].obj = req[s].obj /\ req[s].obj \in Channels
               /\ chan[req[s].obj] \notin Ahead
    <2>1. CASE s = r
      BY <1>1, <2>1, LeavingFromCheck
    <2>2. CASE s # r
      <3>1. req'[s] = req[s]
        BY <2>2, OthersStay DEF ConvInv, Base
      <3> QED
        BY <1>1, <3>1, LeavingObject DEF ConvInv, LeavesBorn, Leaving
    <2> QED
      BY <2>1, <2>2
  <1> QED
    BY <1>1, ChannelLife DEF LeavesBorn, Ahead, ConvInv, Base, TypeOK, TablesOK, ChanStatus

LEMMA ConvInvStep == ASSUME ConvInv, [Next]_vars PROVE ConvInv'
  <1>1. Base'
    BY BaseStep DEF ConvInv
  <1>2. CASE UNCHANGED <<owner, members, chan, access, roles, grants, bans, req>>
    BY <1>1, <1>2 DEF ConvInv, Unborn, Born, Bearing, At, LeavesBorn
  <1> QED
    BY <1>1, <1>2, UnbornStep, BornStep, LeavesBornStep, StepCases DEF ConvInv

LEMMA ConvInvInit == ASSUME Init PROVE ConvInv
  <1>1. \A r \in Reqs : req[r].pc = "idle"
    BY DEF Init, Idle
  <1>2. Unborn
    BY DEF Init, NoGuild, LegacyGuild, Unborn, Ahead
  <1> QED
    BY <1>1, <1>2, BaseInit DEF ConvInv, Born, Bearing, At, LeavesBorn, Leaving

\* Nobody is added to a conversation that a request is about to drop.
LEMMA EmptyStays ==
    ASSUME EmptyInv, NEW r \in Reqs, Acts(r), Serial \/ "join_guild" \notin Ops,
           NEW s \in Reqs, At(s, "drop") \/ (s = r /\ At(s, "count")),
           access[req[s].obj] = {}, req[s].op = "delete_conversation"
    PROVE  access'[req[s].obj] = {}
  <1> DEFINE c == req[s].obj
  <1>1. /\ c \in Channels /\ chan[c] \notin Ahead
        /\ req[s].pc # "idle"
    BY LeavingObject DEF EmptyInv, ConvInv, LeavesBorn, Leaving, At
  <1> USE DEF EmptyInv, ConvInv, Base, TypeOK, TablesOK
  <1>2. CASE CreateGuild(r)
    BY <1>1, <1>2, NothingBeforeCreation DEF CreateGuild
  <1>3. CASE DeleteGuild(r)
    BY <1>1, <1>3 DEF DeleteGuild
  <1>4. CASE CommitChannel(r)
    <2>1. Bearing(r)
      BY <1>4 DEF CommitChannel, Bearing
    <2>2. req[r].obj # c
      BY <1>1, <2>1 DEF Born, Ahead
    <2> QED
      BY <1>1, <1>4, <2>2 DEF CommitChannel
  <1>5. CASE SyncChannel(r)
    <2>1. PICK d \in Channels : access' = [access EXCEPT ![d] = Synced(req[r], d)]
      BY <1>5 DEF SyncChannel
    <2>2. req[r].op # "join_guild"
      <3>1. req[r].op \in Ops
        BY <1>5 DEF SyncChannel, At, InProgram
      <3>2. s = r => req[r].op = "delete_conversation"
        OBVIOUS
      <3> QED
        BY <3>1, <3>2 DEF Serial
    <2> QED
      BY <1>1, <2>1, <2>2 DEF Synced
  <1>6. CASE LeaveConversation(r)
    BY <1>1, <1>6 DEF LeaveConversation
  <1>7. CASE DeleteChannel(r) \/ DropConversation(r)
    BY <1>1, <1>7 DEF DeleteChannel, DropConversation, DropChannel
  <1>8. CASE access' = access
    BY <1>1, <1>8
  <1> QED
    BY <1>2, <1>3, <1>4, <1>5, <1>6, <1>7, <1>8, Writers

LEMMA EmptiedStep ==
    ASSUME EmptyInv, NEW r \in Reqs, Acts(r), Serial \/ "join_guild" \notin Ops
    PROVE  Emptied'
  <1> SUFFICES ASSUME NEW s \in Reqs, req'[s].pc = "drop" PROVE access'[req'[s].obj] = {}
    BY DEF Emptied, At
  <1>1. req'[s].op = "delete_conversation"
    <2>1. InProgram'
      BY BaseStep DEF EmptyInv, ConvInv, Base, Acts, Next
    <2> QED
      BY <2>1 DEF InProgram, OpsAt
  <1>2. CASE s = r
    BY <1>1, <1>2, LeavingFromCheck, EmptyStays DEF EmptyInv, Leaving, At
  <1>3. CASE s # r
    <2>1. req'[s] = req[s]
      BY <1>3, OthersStay DEF EmptyInv, ConvInv, Base
    <2>2. At(s, "drop") /\ access[req[s].obj] = {}
      BY <2>1 DEF EmptyInv, Emptied, At
    <2> QED
      BY <1>1, <2>1, <2>2, EmptyStays
  <1> QED
    BY <1>2, <1>3

LEMMA EmptyInvStep ==
    ASSUME EmptyInv, [Next]_vars, Serial \/ "join_guild" \notin Ops
    PROVE  EmptyInv'
  <1>1. ConvInv'
    BY ConvInvStep DEF EmptyInv
  <1>2. CASE UNCHANGED <<owner, members, chan, access, roles, grants, bans, req>>
    BY <1>1, <1>2 DEF EmptyInv, Emptied, At
  <1> QED
    BY <1>1, <1>2, EmptiedStep, StepCases DEF EmptyInv

LEMMA EmptyInvInit == ASSUME Init PROVE EmptyInv
  <1>1. \A r \in Reqs : req[r].pc = "idle"
    BY DEF Init, Idle
  <1> QED
    BY <1>1, ConvInvInit DEF EmptyInv, Emptied, At

\* delete_conversation deletes a channel only when no member remains in it: when
\* requests are served one at a time, or when no join_guild is among the
\* concurrent ones, whatever else runs and wherever handlers stop.
THEOREM EmptyConversationsDropped ==
    ASSUME Serial \/ "join_guild" \notin Ops
    PROVE  Spec => OnlyEmptyConversationsDropped
  <1>1. EmptyInv /\ [Next]_vars => EmptyInv'
    BY EmptyInvStep
  <1>2. EmptyInv => [\A r \in Reqs : DropConversation(r) => access[req[r].obj] = {}]_vars
    BY DEF EmptyInv, Emptied, DropConversation
  <1> QED
    BY <1>1, <1>2, EmptyInvInit, PTL DEF Spec, OnlyEmptyConversationsDropped

-----------------------------------------------------------------------------
(* Bans.  ban_member inserts the ban and removes the member in two           *)
(* statements, and join_guild reads the ban list one statement before it     *)
(* adds the member.                                                          *)

Expelling(u) == \E r \in Reqs : At(r, "unmember") /\ Subject(req[r]) = u
BansHold == \A u \in members \cap bans : Expelling(u)
JoinerNotBanned == \A r \in Reqs : Writes(r, "join_guild") => req[r].user \notin bans
BanInv == Base /\ (past # "torn" => BansHold /\ JoinerNotBanned)

\* A handler that is not cut short runs its next statement.
Runs(r) == Call(r) \/ Statement(r)

LEMMA OnlyStatementThere ==
    ASSUME NEW r \in Reqs, Runs(r)
    PROVE  /\ At(r, "unmember") => RemoveMember(r)
           /\ At(r, "list") => ListChannels(r)
           /\ At(r, "sync") => SyncChannel(r)
           /\ Writes(r, "join_guild") => JoinMember(r)
           /\ Writes(r, "leave_guild") \/ Writes(r, "kick_member") => RemoveMember(r)
  <1>1. CASE ReadsOnly(r)
    BY <1>1 DEF ReadsOnly, Call, Reads, SelectOwner, IsAdminOwner, IsAdminRole, IsGuildMember,
       SelectRole, SelectChannel, SelectInvite, SelectBan, CountRemaining, Check, At, Writes
  <1>2. CASE GuildWrites(r)
    BY <1>2 DEF GuildWrites, CreateGuild, DeleteGuild, CreateInvite, RevokeInvite, TransferOwner,
       Writes, At
  <1>3. CASE MemberWrites(r)
    BY <1>3 DEF MemberWrites, JoinMember, RemoveMember, BanMember, UnbanMember, ListChannels,
       SyncChannel, Writes, At
  <1>4. CASE RoleWrites(r)
    BY <1>4 DEF RoleWrites, GrantAdmin, CommitAdminRole, RevokeAdmin, CreateRole, DeleteRole,
       AssignRole, UnassignRole, Writes, At
  <1>5. CASE ChannelWrites(r)
    BY <1>5 DEF ChannelWrites, BeginChannel, CommitChannel, RenameChannel, DeleteChannel,
       LeaveConversation, DropConversation, Writes, At
  <1> QED
    BY <1>1, <1>2, <1>3, <1>4, <1>5 DEF Runs, Statement, ReadsOnly

\* How the history of a step relates to what the step does.
Remembers(r) ==
    /\ past' # "torn" => past # "torn" /\ Runs(r)
    /\ past' = "whole" => past = "whole" /\ (req[r].pc = "idle" \/ req[r].op # "delete_conversation")

\* A step of FNext is one of Next, and remembers a handler that was cut short.
LEMMA FStepCases ==
    ASSUME [FNext]_fvars
    PROVE  /\ [Next]_vars
           /\ \/ \E r \in Reqs : Acts(r) /\ Remembers(r)
              \/ /\ UNCHANGED <<owner, members, chan, access, roles, grants, bans, req>>
                 /\ past' = past
  <1>1. ASSUME NEW r \in Reqs, FStatement(r) PROVE Acts(r) /\ Next /\ Remembers(r)
    BY <1>1 DEF FStatement, Acts, Runs, Next, Remembers
  <1>2. ASSUME NEW r \in Reqs, Call(r), UNCHANGED past PROVE Acts(r) /\ Next /\ Remembers(r)
    BY <1>2 DEF Acts, Runs, Next, Remembers, Call
  <1>3. ASSUME NEW r \in Reqs, Abandon(r), past' = "torn" PROVE Acts(r) /\ Next /\ Remembers(r)
    BY <1>3 DEF Acts, Next, Remembers
  <1>4. ASSUME NEW i \in Codes, ExpireInvite(i), UNCHANGED past
        PROVE  /\ Next /\ past' = past
               /\ UNCHANGED <<owner, members, chan, access, roles, grants, bans, req>>
    BY <1>4 DEF ExpireInvite, Next
  <1>5. CASE UNCHANGED fvars
    BY <1>5 DEF fvars, vars
  <1>6. CASE FNext
    BY <1>1, <1>2, <1>3, <1>4, <1>6 DEF FNext
  <1> QED
    BY <1>5, <1>6

LEMMA JoinerFromCheck ==
    ASSUME Base, NEW r \in Reqs, Acts(r), req'[r].pc = "write", req'[r].op = "join_guild"
    PROVE  /\ req'[r].user = req[r].user /\ req[r].user \notin bans
           /\ bans' = bans
  <1>1. Continues(r)
    BY ActsMove DEF Base, Moves, Starts, Idle, FirstStage
  <1>2. req[r].op \in OpsAt(req[r].pc)
    BY <1>1 DEF Base, InProgram, Continues
  <1>3. req'[r].user = req[r].user /\ req[r].user \notin bans /\ req[r].pc = "ban"
    BY <1>1, <1>2 DEF Continues, Edge, OpsAt, FirstStage, AdminOnly, Moderation, OnPlainRole,
       Targeted, ShieldsOwner
  <1>4. bans' = bans
    BY <1>3, Writers DEF DeleteGuild, BanMember, UnbanMember, Writes
  <1> QED
    BY <1>3, <1>4

LEMMA BanTarget ==
    ASSUME Base, NEW r \in Reqs, BanMember(r)
    PROVE  /\ req'[r].pc = "unmember" /\ Subject(req'[r]) = req[r].target
           /\ bans' \subseteq bans \cup {req[r].target}
           /\ req'[r].op = "ban_member"
  <1>1. req[r].target \in Users
    BY Parties DEF Base, TypeOK, BanMember, Writes, Targeted, ShieldsOwner
  <1>2. req'[r] = [req[r] EXCEPT !.pc = "unmember"]
    BY DEF BanMember, Goto, Base, TypeOK, RequestsOK
  <1>3. req'[r].pc = "unmember" /\ req'[r].target = req[r].target /\ req'[r].op = req[r].op
    BY <1>2 DEF Base, TypeOK, RequestsOK, Requests
  <1> QED
    BY <1>1, <1>3, ConstantsAssumption DEF BanMember, Subject, Writes

LEMMA BansHoldStep ==
    ASSUME Base, BansHold, JoinerNotBanned, NEW r \in Reqs, Runs(r)
    PROVE  BansHold'
  <1> SUFFICES ASSUME NEW u \in members', u \in bans'
               PROVE  \E s \in Reqs : req'[s].pc = "unmember" /\ Subject(req'[s]) = u
    BY DEF BansHold, Expelling, At
  <1>0. Acts(r)
    BY DEF Runs, Acts
  <1>1. CASE BanMember(r) /\ u = req[r].target
    BY <1>1, BanTarget
  <1>2. CASE CreateGuild(r) /\ ~GuildKnown
    <2>1. bans' = {}
      BY <1>2 DEF CreateGuild, Base, Newcomers
    <2> QED
      BY <2>1
  <1>3. CASE DeleteGuild(r)
    BY <1>3 DEF DeleteGuild
  <1>4. ASSUME u \in members, u \in bans
        PROVE  \E s \in Reqs : req'[s].pc = "unmember" /\ Subject(req'[s]) = u
    <2>1. PICK s \in Reqs : req[s].pc = "unmember" /\ Subject(req[s]) = u
      BY <1>4 DEF BansHold, Expelling, At
    <2>2. CASE s = r
      <3>1. RemoveMember(r)
        BY <2>1, <2>2, OnlyStatementThere DEF At
      <3> QED
        BY <2>1, <2>2, <3>1 DEF RemoveMember
    <2>3. CASE s # r
      BY <1>0, <2>1, <2>3, OthersStay DEF Base
    <2> QED
      BY <2>2, <2>3
  <1>5. CASE u \in members /\ u \notin bans
    BY <1>0, <1>1, <1>3, <1>5, BanTarget, Writers DEF UnbanMember
  <1>6. CASE u \notin members
    <2>1. CASE JoinMember(r)
      BY <1>6, <2>1 DEF JoinMember, JoinerNotBanned, Writes
    <2>2. CASE RemoveMember(r)
      BY <1>6, <2>2 DEF RemoveMember
    <2>3. CASE CreateGuild(r) /\ GuildKnown
      BY <1>6, <2>3 DEF CreateGuild
    <2> QED
      BY <1>0, <1>2, <1>3, <1>6, <2>1, <2>2, <2>3, Writers
  <1> QED
    BY <1>4, <1>5, <1>6

LEMMA JoinerNotBannedStep ==
    ASSUME Base, JoinerNotBanned, NEW r \in Reqs, Acts(r), Serial \/ "join_guild" \notin Ops
    PROVE  JoinerNotBanned'
  <1> SUFFICES ASSUME NEW s \in Reqs, req'[s].pc = "write", req'[s].op = "join_guild"
               PROVE  req'[s].user \notin bans'
    BY DEF JoinerNotBanned, Writes
  <1>1. "join_guild" \in Ops
    <2>1. InProgram'
      BY BaseStep DEF Base, Acts, Next
    <2> QED
      BY <2>1 DEF InProgram
  <1> QED
    BY <1>1, JoinerFromCheck DEF Serial

LEMMA BanInvStep ==
    ASSUME BanInv, [FNext]_fvars, Serial \/ "join_guild" \notin Ops
    PROVE  BanInv'
  <1>1. Base'
    BY BaseStep, FStepCases DEF BanInv
  <1>2. ASSUME NEW r \in Reqs, Acts(r), Remembers(r)
        PROVE  past' # "torn" => (BansHold /\ JoinerNotBanned)'
    BY <1>2, BansHoldStep, JoinerNotBannedStep DEF BanInv, Remembers
  <1>3. CASE UNCHANGED <<owner, members, chan, access, roles, grants, bans, req>> /\ past' = past
    BY <1>1, <1>3 DEF BanInv, BansHold, Expelling, JoinerNotBanned, At, Writes
  <1> QED
    BY <1>1, <1>2, <1>3, FStepCases DEF BanInv

LEMMA BanInvInit == ASSUME FInit PROVE BanInv
  <1>1. bans = {} /\ \A r \in Reqs : req[r].pc = "idle"
    BY DEF FInit, Init, Idle
  <1> QED
    BY <1>1, BaseInit DEF FInit, BanInv, BansHold, JoinerNotBanned, Writes

\* "Ban a member from the guild [...]: removes membership and blocks rejoin via
\* invite until unbanned" (guilds.rs:919): as long as no handler was cut short,
\* nobody who is banned is a member once the handlers have returned -- when requests
\* are served one at a time, or when no join_guild is among the concurrent ones.
THEOREM BannedStayOutWhenWhole ==
    ASSUME Serial \/ "join_guild" \notin Ops
    PROVE  FSpec => []BannedStayOutUnlessTorn
  <1>1. BanInv => BannedStayOutUnlessTorn
    BY DEF BanInv, BansHold, Expelling, At, BannedStayOutUnlessTorn, BannedStayOut, Quiet
  <1>2. BanInv /\ [FNext]_fvars => BanInv'
    BY BanInvStep
  <1> QED
    BY <1>1, <1>2, BanInvInit, PTL DEF FSpec

-----------------------------------------------------------------------------
(* The channels follow the members.  A member joins or goes in one statement *)
(* and enters or leaves the channels in one statement each, so the members   *)
(* and the channels differ by the subject of a request that is on its way.   *)

Following == {"list", "sync"}
Movers == Removals \cup {"join_guild"}

\* A guild that is gone has no channels.
Gone == ~GuildExists => \A c \in Channels : chan[c] \notin {"live", "tx"}
Copied == \A r \in Reqs : Bearing(r) => req[r].todo = members
SyncsLive == \A r \in Reqs : At(r, "sync") => req[r].todo \subseteq LiveChannels
SubjectMoved ==
    \A r \in Reqs : req[r].pc \in Following /\ GuildExists =>
        (Subject(req[r]) \in members <=> req[r].op = "join_guild")

\* The request is still to visit channel c.
Moving(q, c) == q.pc = "list" \/ (q.pc = "sync" /\ c \in q.todo)
OnlyMembersIn ==
    \A c \in LiveChannels : \A u \in access[c] \ members :
        \E r \in Reqs : req[r].op \in Removals /\ Moving(req[r], c) /\ Subject(req[r]) = u
AllMembersIn ==
    \A c \in LiveChannels : \A u \in members \ access[c] :
        \E r \in Reqs : req[r].op = "join_guild" /\ Moving(req[r], c) /\ Subject(req[r]) = u

SyncInv == ConvInv /\ Gone /\ Copied /\ SyncsLive /\ SubjectMoved
FollowInv ==
    /\ SyncInv
    /\ past # "torn" => OnlyMembersIn
    /\ past = "whole" => AllMembersIn

LEMMA GoneStep == ASSUME SyncInv, NEW r \in Reqs, Acts(r) PROVE Gone'
  <1> USE DEF SyncInv, ConvInv, Base, TypeOK, TablesOK, Gone, GuildExists
  <1>1. CASE CreateGuild(r)
    <2>1. req[r].user # None
      BY <1>1, Parties, ConstantsAssumption DEF CreateGuild, Writes
    <2> QED
      BY <1>1, <2>1 DEF CreateGuild
  <1>2. CASE DeleteGuild(r)
    BY <1>2 DEF DeleteGuild, GuildRowLocked
  <1>3. CASE TransferOwner(r)
    <2>1. req[r].target # None
      BY <1>3, Parties, ConstantsAssumption DEF TransferOwner, Writes, Targeted, ShieldsOwner
    <2> QED
      BY <1>3, <2>1 DEF TransferOwner
  <1>4. CASE owner' = owner /\ BeginChannel(r)
    BY <1>4 DEF BeginChannel, FreshChannels
  <1>5. CASE owner' = owner /\ CommitChannel(r)
    <2>1. Bearing(r) /\ req[r].obj \in Channels
      BY <1>5, BearingObject DEF CommitChannel, Bearing
    <2> QED
      BY <1>5, <2>1 DEF CommitChannel, Born
  <1>6. CASE owner' = owner /\ (DeleteChannel(r) \/ DropConversation(r))
    BY <1>6 DEF DeleteChannel, DropConversation, DropChannel
  <1>7. CASE owner' = owner /\ Abandon(r)
    BY <1>7 DEF Abandon
  <1>8. CASE owner' = owner /\ chan' = chan
    BY <1>8
  <1> QED
    BY <1>1, <1>2, <1>3, <1>4, <1>5, <1>6, <1>7, <1>8, Writers

LEMMA CopiedStep == ASSUME SyncInv, NEW r \in Reqs, Acts(r), Serial PROVE Copied'
  <1> SUFFICES ASSUME NEW s \in Reqs, req'[s].pc = "commit", req'[s].op = "create_channel"
               PROVE  req'[s].todo = members'
    BY DEF Copied, Bearing, At
  <1>1. s = r
    BY DEF Serial
  <1>2. BeginChannel(r) /\ req'[r].todo = members
    BY <1>1, BearsFresh DEF SyncInv, ConvInv
  <1> QED
    BY <1>1, <1>2 DEF BeginChannel

\* What a request does that comes to, or stays at, the stages that follow a move.
LEMMA FollowingFrom ==
    ASSUME Base, NEW r \in Reqs, Acts(r), req'[r].pc \in Following
    PROVE  /\ req'[r].op = req[r].op /\ Subject(req'[r]) = Subject(req[r])
           /\ req[r].op \in Movers
           /\ \/ req'[r].pc = "list" /\ (JoinMember(r) \/ RemoveMember(r))
              \/ /\ req'[r].pc = "sync" /\ ListChannels(r) /\ req'[r].todo = LiveChannels
              \/ /\ req'[r].pc = "sync" /\ SyncChannel(r)
                 /\ req'[r].todo \subseteq req[r].todo
  <1>1. Continues(r)
    BY ActsMove DEF Base, Moves, Starts, Idle, FirstStage, Following
  <1>2. req[r].op \in OpsAt(req[r].pc)
    BY <1>1 DEF Base, InProgram, Continues
  <1>3. Runs(r)
    BY DEF Acts, Runs, Abandon, Return, Idle, Following, Base, TypeOK, RequestsOK
  <1>4. \/ Writes(r, "join_guild") \/ Writes(r, "leave_guild") \/ Writes(r, "kick_member")
        \/ At(r, "unmember") \/ At(r, "list") \/ At(r, "sync")
    BY <1>1, <1>2 DEF Continues, Edge, Following, Writes, At, AfterAuthority
  <1>5. req[r].op \in Movers
    BY <1>2, <1>4 DEF Movers, Removals, Writes, At, OpsAt
  <1>6. Subject(req'[r]) = Subject(req[r])
    BY <1>1 DEF Continues, Subject
  <1>7. CASE Writes(r, "join_guild")
    BY <1>1, <1>3, <1>5, <1>6, <1>7, OnlyStatementThere
    DEF Continues, Edge, Writes, AfterAuthority
  <1>8. CASE Writes(r, "leave_guild") \/ Writes(r, "kick_member") \/ At(r, "unmember")
    BY <1>1, <1>3, <1>5, <1>6, <1>8, OnlyStatementThere
    DEF Continues, Edge, Writes, At, AfterAuthority
  <1>9. CASE At(r, "list")
    <2>1. ListChannels(r)
      BY <1>3, <1>9, OnlyStatementThere
    <2>2. ~Return(r)
      BY DEF Return, Idle, Following, Base, TypeOK, RequestsOK
    <2>3. req'[r].todo = LiveChannels /\ req'[r].pc = "sync"
      BY <2>1, <2>2 DEF ListChannels, Base, TypeOK, RequestsOK, Requests
    <2> QED
      BY <1>1, <1>5, <1>6, <2>1, <2>3 DEF Continues
  <1>10. CASE At(r, "sync")
    <2>1. SyncChannel(r)
      BY <1>3, <1>10, OnlyStatementThere
    <2>2. ~Return(r)
      BY DEF Return, Idle, Following, Base, TypeOK, RequestsOK
    <2>3. req'[r].todo \subseteq req[r].todo /\ req'[r].pc = "sync"
      BY <2>1, <2>2 DEF SyncChannel, At, Base, TypeOK, RequestsOK, Requests
    <2> QED
      BY <1>1, <1>5, <1>6, <2>1, <2>3 DEF Continues
  <1> QED
    BY <1>4, <1>7, <1>8, <1>9, <1>10

LEMMA SyncsLiveStep == ASSUME SyncInv, NEW r \in Reqs, Acts(r), Serial PROVE SyncsLive'
  <1> SUFFICES ASSUME NEW s \in Reqs, req'[s].pc = "sync" PROVE req'[s].todo \subseteq LiveChannels'
    BY DEF SyncsLive, At
  <1>1. s = r
    BY DEF Serial
  <1>2. \/ ListChannels(r) /\ req'[r].todo = LiveChannels
        \/ SyncChannel(r) /\ req'[r].todo \subseteq req[r].todo
    BY <1>1, FollowingFrom DEF SyncInv, ConvInv, Following
  <1>3. chan' = chan
    BY <1>2 DEF ListChannels, SyncChannel, tables
  <1>4. LiveChannels' = LiveChannels
    BY <1>3 DEF LiveChannels
  <1>5. SyncChannel(r) => req[r].todo \subseteq LiveChannels
    BY DEF SyncChannel, SyncInv, SyncsLive
  <1> QED
    BY <1>1, <1>2, <1>4, <1>5

LEMMA SubjectMovedStep == ASSUME SyncInv, NEW r \in Reqs, Acts(r), Serial PROVE SubjectMoved'
  <1> SUFFICES ASSUME NEW s \in Reqs, req'[s].pc \in Following, owner' # None
               PROVE  Subject(req'[s]) \in members' <=> req'[s].op = "join_guild"
    BY DEF SubjectMoved, GuildExists
  <1>1. s = r
    BY DEF Serial
  <1>2. /\ req'[r].op = req[r].op /\ Subject(req'[r]) = Subject(req[r])
        /\ req[r].op \in Movers
        /\ JoinMember(r) \/ RemoveMember(r) \/ ListChannels(r) \/ SyncChannel(r)
    BY <1>1, FollowingFrom DEF SyncInv, ConvInv
  <1>3. CASE JoinMember(r)
    <2>1. Subject(req[r]) = req[r].user
      BY <1>3 DEF JoinMember, Writes, Subject, SyncInv, ConvInv, Base, TypeOK, RequestsOK,
         WellFormed, TargetsOf, Targeted, ShieldsOwner
    <2> QED
      BY <1>1, <1>2, <1>3, <2>1 DEF JoinMember, Writes, GuildExists
  <1>4. CASE RemoveMember(r)
    <2>1. req[r].op \in OpsAt(req[r].pc)
      BY <1>4 DEF RemoveMember, Writes, At, SyncInv, ConvInv, Base, InProgram
    <2>2. req[r].op # "join_guild"
      BY <1>4, <2>1 DEF RemoveMember, Writes, At, OpsAt
    <2> QED
      BY <1>1, <1>2, <1>4, <2>2 DEF RemoveMember
  <1>5. CASE ListChannels(r) \/ SyncChannel(r)
    <2>1. owner' = owner /\ members' = members /\ req[r].pc \in Following
      BY <1>5 DEF ListChannels, SyncChannel, tables, At, Following
    <2> QED
      BY <1>1, <1>2, <2>1 DEF SyncInv, SubjectMoved, GuildExists
  <1> QED
    BY <1>2, <1>3, <1>4, <1>5

\* With one request at a time, whoever differs is the subject of that request.
LEMMA Settled ==
    ASSUME Serial, NEW r \in Reqs, NEW c \in LiveChannels, NEW u
    PROVE  /\ OnlyMembersIn /\ u \in access[c] \ members =>
                 req[r].op \in Removals /\ Moving(req[r], c) /\ Subject(req[r]) = u
           /\ AllMembersIn /\ u \in members \ access[c] =>
                 req[r].op = "join_guild" /\ Moving(req[r], c) /\ Subject(req[r]) = u
  BY DEF Serial, OnlyMembersIn, AllMembersIn

\* Which statements change who is in a live channel, or who is a member.
LEMMA MembershipWriters ==
    ASSUME SyncInv, NEW r \in Reqs, Acts(r), NEW c \in LiveChannels'
    PROVE  \/ access'[c] = members'
           \/ /\ c \in LiveChannels
              /\ \/ JoinMember(r) \/ RemoveMember(r) \/ SyncChannel(r)
                 \/ access'[c] = access[c] /\ members' = members
                 \/ /\ LeaveConversation(r) /\ access'[c] \subseteq access[c]
                    /\ members' = members
  <1>1. c \in Channels /\ chan'[c] = "live"
    BY DEF LiveChannels
  <1> USE DEF SyncInv, ConvInv, Base, TypeOK, TablesOK
  <1>2. CASE CreateGuild(r) /\ ~GuildKnown
    BY <1>1, <1>2 DEF CreateGuild, GuildKnown
  <1>3. CASE CreateGuild(r) /\ GuildKnown
    BY <1>1, <1>3 DEF CreateGuild, LiveChannels
  <1>4. CASE DeleteGuild(r)
    BY <1>1, <1>4 DEF DeleteGuild
  <1>5. CASE CommitChannel(r)
    <2>1. Bearing(r) /\ req[r].todo = members
      BY <1>5 DEF CommitChannel, Bearing, Copied
    <2> QED
      BY <1>1, <1>5, <2>1 DEF CommitChannel, LiveChannels
  <1>6. CASE JoinMember(r) \/ RemoveMember(r) \/ SyncChannel(r)
    BY <1>1, <1>6 DEF JoinMember, RemoveMember, SyncChannel, LiveChannels
  <1>7. CASE LeaveConversation(r)
    <2>1. req[r].obj \in Channels
      BY <1>7, LeavingObject DEF LeaveConversation, Writes
    <2> QED
      BY <1>1, <1>7, <2>1 DEF LeaveConversation, LiveChannels
  <1>8. CASE DeleteChannel(r) \/ DropConversation(r)
    BY <1>1, <1>8 DEF DeleteChannel, DropConversation, DropChannel, LiveChannels
  <1>9. CASE BeginChannel(r)
    BY <1>1, <1>9 DEF BeginChannel, LiveChannels
  <1>10. CASE Abandon(r)
    BY <1>1, <1>10 DEF Abandon, LiveChannels
  <1>11. CASE chan' = chan /\ access' = access /\ members' = members
    BY <1>1, <1>11 DEF LiveChannels
  <1> QED
    BY <1>2, <1>3, <1>4, <1>5, <1>6, <1>7, <1>8, <1>9, <1>10, <1>11, Writers

\* The subject of a request that syncs is a member when it joins, and not when it goes.
LEMMA SubjectAtSync ==
    ASSUME SyncInv, NEW r \in Reqs, SyncChannel(r)
    PROVE  /\ req[r].op \in Movers
           /\ Subject(req[r]) \in members <=> req[r].op = "join_guild"
           /\ req[r].op = "join_guild" => Subject(req[r]) = req[r].user
  <1>1. req[r].op \in OpsAt("sync") /\ req[r].pc = "sync"
    BY DEF SyncChannel, At, SyncInv, ConvInv, Base, InProgram
  <1>2. req[r].op \in Movers
    BY <1>1 DEF OpsAt, Movers, Removals
  <1>3. GuildExists
    <2>1. PICK c \in req[r].todo \cap Channels : TRUE
      BY DEF SyncChannel
    <2>2. c \in LiveChannels
      BY <1>1, <2>1 DEF SyncInv, SyncsLive, At
    <2> QED
      BY <2>2 DEF SyncInv, Gone, LiveChannels
  <1>4. Subject(req[r]) \in members <=> req[r].op = "join_guild"
    BY <1>1, <1>3 DEF SyncInv, SubjectMoved, Following
  <1>5. req[r].op = "join_guild" => Subject(req[r]) = req[r].user
    BY <1>1 DEF Subject, SyncInv, ConvInv, Base, TypeOK, RequestsOK, WellFormed, TargetsOf,
       Targeted, ShieldsOwner
  <1> QED
    BY <1>2, <1>4, <1>5

\* What one statement of a sync does to a channel, and what it leaves to do.
LEMMA SyncEffect ==
    ASSUME SyncInv, NEW r \in Reqs, SyncChannel(r), NEW c \in LiveChannels
    PROVE  /\ \/ access'[c] = access[c] /\ (c \in req[r].todo => Moving(req'[r], c))
              \/ req[r].op = "join_guild" /\ access'[c] = access[c] \cup {Subject(req[r])}
              \/ req[r].op # "join_guild" /\ access'[c] = access[c] \ {Subject(req[r])}
           /\ Moving(req'[r], c) => req'[r].op = req[r].op /\ Subject(req'[r]) = Subject(req[r])
  <1> USE DEF SyncInv, ConvInv, Base, TypeOK, TablesOK
  <1>1. PICK d \in req[r].todo \cap Channels :
            /\ access' = [access EXCEPT ![d] = Synced(req[r], d)]
            /\ IF req[r].todo = {d} THEN Return(r)
               ELSE req' = [req EXCEPT ![r].todo = @ \ {d}]
    BY DEF SyncChannel
  <1>2. req[r].pc = "sync" /\ c \in Channels /\ chan[c] = "live"
    BY DEF SyncChannel, At, LiveChannels
  <1>3. Moving(req'[r], c) => req'[r].op = req[r].op /\ Subject(req'[r]) = Subject(req[r])
    <2>1. req'[r].pc \in Following => /\ req'[r].op = req[r].op
                                      /\ Subject(req'[r]) = Subject(req[r])
      BY FollowingFrom DEF Acts, Statement, MemberWrites
    <2> QED
      BY <2>1 DEF Moving, Following
  <1>4. CASE c = d
    <2>1. access'[c] = Synced(req[r], c)
      BY <1>1, <1>2, <1>4
    <2> QED
      BY <1>2, <1>3, <2>1, SubjectAtSync DEF Synced
  <1>5. CASE c # d
    <2>1. access'[c] = access[c]
      BY <1>1, <1>2, <1>5
    <2>2. ASSUME c \in req[r].todo PROVE Moving(req'[r], c)
      <3>1. req' = [req EXCEPT ![r].todo = @ \ {d}]
        BY <1>1, <1>5, <2>2
      <3>2. req'[r].pc = "sync" /\ c \in req'[r].todo
        BY <1>2, <1>5, <2>2, <3>1 DEF RequestsOK, Requests
      <3> QED
        BY <3>2 DEF Moving
    <2> QED
      BY <1>3, <2>1, <2>2
  <1> QED
    BY <1>4, <1>5

LEMMA OnlyMembersInStep ==
    ASSUME SyncInv, OnlyMembersIn, NEW r \in Reqs, Runs(r), Serial
    PROVE  OnlyMembersIn'
  <1> SUFFICES ASSUME NEW c \in LiveChannels', NEW u \in access'[c], u \notin members'
               PROVE  /\ req'[r].op \in Removals /\ Moving(req'[r], c)
                      /\ Subject(req'[r]) = u
    BY DEF OnlyMembersIn
  <1>0. Acts(r)
    BY DEF Acts, Runs
  <1> DEFINE Stray == /\ req[r].op \in Removals /\ Moving(req[r], c)
                      /\ Subject(req[r]) = u
  <1>1. c \in LiveChannels /\ u \in access[c] /\ u \notin members => Stray
    BY Settled
  <1>2. Stray => At(r, "list") \/ At(r, "sync")
    BY DEF Moving, At
  <1>3. CASE ListChannels(r)
    <2>1. c \in LiveChannels /\ u \in access[c] /\ u \notin members
      BY <1>3 DEF ListChannels, tables, LiveChannels
    <2>2. req' = [req EXCEPT ![r].pc = "sync", ![r].todo = LiveChannels]
      BY <1>3, <2>1 DEF ListChannels
    <2>3. /\ req'[r].pc = "sync" /\ req'[r].todo = LiveChannels /\ req'[r].op = req[r].op
          /\ req'[r].user = req[r].user /\ req'[r].target = req[r].target
      BY <2>2 DEF SyncInv, ConvInv, Base, TypeOK, RequestsOK, Requests
    <2> QED
      BY <1>1, <2>1, <2>3 DEF Moving, Subject
  <1>4. CASE SyncChannel(r)
    <2>1. c \in LiveChannels /\ members' = members
      BY <1>4 DEF SyncChannel, LiveChannels
    <2>2. u \in access[c]
      BY <1>4, <2>1, SyncEffect, SubjectAtSync
    <2>3. Stray
      BY <1>1, <2>1, <2>2
    <2>4. access'[c] = access[c] /\ c \in req[r].todo
      <3>1. req[r].pc = "sync" /\ req[r].op # "join_guild"
        BY <1>4, <2>3 DEF SyncChannel, At, Removals
      <3>2. c \in req[r].todo
        BY <2>3, <3>1 DEF Moving
      <3>3. ~(access'[c] = access[c] \ {Subject(req[r])})
        BY <2>3
      <3> QED
        BY <1>4, <2>1, <3>1, <3>2, <3>3, SyncEffect
    <2>5. Moving(req'[r], c)
      BY <1>4, <2>1, <2>3, <2>4, SyncEffect DEF Removals
    <2> QED
      BY <1>4, <2>1, <2>3, <2>5, SyncEffect
  <1>5. CASE RemoveMember(r)
    <2>1. c \in LiveChannels /\ u \in access[c] /\ ~At(r, "list") /\ ~At(r, "sync")
      BY <1>5 DEF RemoveMember, Writes, At, LiveChannels
    <2>2. u = Subject(req[r])
      BY <1>1, <1>2, <1>5, <2>1 DEF RemoveMember
    <2>3. req'[r].pc = "list" /\ req'[r].op = req[r].op /\ Subject(req'[r]) = Subject(req[r])
      <3>1. req'[r].pc = "list"
        BY <1>5 DEF RemoveMember, Goto, SyncInv, ConvInv, Base, TypeOK, RequestsOK, Requests
      <3> QED
        BY <1>0, <3>1, FollowingFrom DEF Following, SyncInv, ConvInv
    <2>4. req[r].op \in Removals
      BY <1>5 DEF RemoveMember, Writes, At, Removals, SyncInv, ConvInv, Base, InProgram, OpsAt
    <2> QED
      BY <2>2, <2>3, <2>4 DEF Moving
  <1>6. CASE JoinMember(r)
    BY <1>1, <1>2, <1>6 DEF JoinMember, Writes, At, LiveChannels
  <1>7. CASE c \in LiveChannels /\ access'[c] \subseteq access[c] /\ members' = members
    BY <1>1, <1>2, <1>3, <1>4, <1>7, OnlyStatementThere
  <1> QED
    BY <1>0, <1>4, <1>5, <1>6, <1>7, MembershipWriters

LEMMA AllMembersInStep ==
    ASSUME SyncInv, AllMembersIn, NEW r \in Reqs, Runs(r), Serial,
           req[r].pc = "idle" \/ req[r].op # "delete_conversation"
    PROVE  AllMembersIn'
  <1> SUFFICES ASSUME NEW c \in LiveChannels', NEW u \in members', u \notin access'[c]
               PROVE  /\ req'[r].op = "join_guild" /\ Moving(req'[r], c)
                      /\ Subject(req'[r]) = u
    BY DEF AllMembersIn
  <1>0. Acts(r)
    BY DEF Acts, Runs
  <1> DEFINE Late == /\ req[r].op = "join_guild" /\ Moving(req[r], c)
                     /\ Subject(req[r]) = u
  <1>1. c \in LiveChannels /\ u \in members /\ u \notin access[c] => Late
    BY Settled
  <1>2. Late => At(r, "list") \/ At(r, "sync")
    BY DEF Moving, At
  <1>3. CASE ListChannels(r)
    <2>1. c \in LiveChannels /\ u \in members /\ u \notin access[c]
      BY <1>3 DEF ListChannels, tables, LiveChannels
    <2>2. req' = [req EXCEPT ![r].pc = "sync", ![r].todo = LiveChannels]
      BY <1>3, <2>1 DEF ListChannels
    <2>3. /\ req'[r].pc = "sync" /\ req'[r].todo = LiveChannels /\ req'[r].op = req[r].op
          /\ req'[r].user = req[r].user /\ req'[r].target = req[r].target
      BY <2>2 DEF SyncInv, ConvInv, Base, TypeOK, RequestsOK, Requests
    <2> QED
      BY <1>1, <2>1, <2>3 DEF Moving, Subject
  <1>4. CASE SyncChannel(r)
    <2>1. c \in LiveChannels /\ members' = members
      BY <1>4 DEF SyncChannel, LiveChannels
    <2>2. u \notin access[c]
      BY <1>4, <2>1, SyncEffect, SubjectAtSync
    <2>3. Late
      BY <1>1, <2>1, <2>2
    <2>4. access'[c] = access[c] /\ c \in req[r].todo
      <3>1. req[r].pc = "sync" /\ req[r].op = "join_guild"
        BY <1>4, <2>3 DEF SyncChannel, At
      <3>2. c \in req[r].todo
        BY <2>3, <3>1 DEF Moving
      <3>3. ~(access'[c] = access[c] \cup {Subject(req[r])})
        BY <2>3
      <3> QED
        BY <1>4, <2>1, <3>1, <3>2, <3>3, SyncEffect
    <2>5. Moving(req'[r], c)
      BY <1>4, <2>1, <2>3, <2>4, SyncEffect
    <2> QED
      BY <1>4, <2>1, <2>3, <2>5, SyncEffect
  <1>5. CASE RemoveMember(r)
    BY <1>1, <1>2, <1>5 DEF RemoveMember, Writes, At, LiveChannels
  <1>6. CASE JoinMember(r)
    <2>1. c \in LiveChannels /\ u \notin access[c] /\ ~At(r, "list") /\ ~At(r, "sync")
      BY <1>6 DEF JoinMember, Writes, At, LiveChannels
    <2>2. u = req[r].user
      BY <1>1, <1>2, <1>6, <2>1 DEF JoinMember
    <2>3. req'[r].pc = "list" /\ req'[r].op = req[r].op /\ Subject(req'[r]) = Subject(req[r])
      <3>1. req'[r].pc = "list"
        BY <1>6 DEF JoinMember, Goto, SyncInv, ConvInv, Base, TypeOK, RequestsOK, Requests
      <3> QED
        BY <1>0, <3>1, FollowingFrom DEF Following, SyncInv, ConvInv
    <2>4. req[r].op = "join_guild" /\ Subject(req[r]) = req[r].user
      BY <1>6 DEF JoinMember, Writes, Subject, SyncInv, ConvInv, Base, TypeOK, RequestsOK,
         WellFormed, TargetsOf, Targeted, ShieldsOwner
    <2> QED
      BY <2>2, <2>3, <2>4 DEF Moving
  <1>7. CASE c \in LiveChannels /\ access'[c] = access[c] /\ members' = members
    BY <1>1, <1>2, <1>3, <1>4, <1>7, OnlyStatementThere
  <1>8. ~LeaveConversation(r)
    BY DEF LeaveConversation, Writes
  <1> QED
    BY <1>0, <1>4, <1>5, <1>6, <1>7, <1>8, MembershipWriters

LEMMA FollowInvStep == ASSUME FollowInv, [FNext]_fvars, Serial PROVE FollowInv'
  <1>1. ConvInv'
    BY ConvInvStep, FStepCases DEF FollowInv, SyncInv
  <1>2. ASSUME NEW r \in Reqs, Acts(r), Remembers(r) PROVE FollowInv'
    <2>1. SyncInv'
      BY <1>1, <1>2, GoneStep, CopiedStep, SyncsLiveStep, SubjectMovedStep DEF FollowInv, SyncInv
    <2>2. past' # "torn" => OnlyMembersIn'
      BY <1>2, OnlyMembersInStep DEF FollowInv, Remembers
    <2>3. past' = "whole" => AllMembersIn'
      BY <1>2, AllMembersInStep DEF FollowInv, Remembers
    <2> QED
      BY <2>1, <2>2, <2>3 DEF FollowInv
  <1>3. CASE UNCHANGED <<owner, members, chan, access, roles, grants, bans, req>> /\ past' = past
    BY <1>1, <1>3 DEF FollowInv, SyncInv, Gone, GuildExists, Copied, Bearing, SyncsLive,
       SubjectMoved, OnlyMembersIn, AllMembersIn, LiveChannels, At
  <1> QED
    BY <1>2, <1>3, FStepCases

LEMMA FollowInvInit == ASSUME FInit PROVE FollowInv
  <1>1. \A r \in Reqs : req[r].pc = "idle"
    BY DEF FInit, Init, Idle
  <1>2. Gone /\ \A c \in LiveChannels : access[c] = members
    BY ConstantsAssumption DEF FInit, Init, NoGuild, LegacyGuild, Gone, GuildExists, LiveChannels
  <1>3. SyncInv
    BY <1>1, <1>2, ConvInvInit DEF FInit, SyncInv, Copied, Bearing, SyncsLive, SubjectMoved, At,
       Following
  <1>4. OnlyMembersIn /\ AllMembersIn
    BY <1>2 DEF OnlyMembersIn, AllMembersIn
  <1> QED
    BY <1>3, <1>4 DEF FollowInv

\* "membership in a guild grants access to every channel it owns"
\* (migrations/0016_guilds.sql:2): when requests are served one at a time and none
\* was cut short, nobody but the members is in a channel once the handlers have
\* returned, and every member is, until somebody drops out of one.
THEOREM ChannelsFollowMembers ==
    ASSUME Serial
    PROVE  FSpec => []ChannelsFollowMembersUnlessTorn
  <1>1. FollowInv => ChannelsFollowMembersUnlessTorn
    <2> SUFFICES ASSUME FollowInv, \A r \in Reqs : req[r].pc = "idle"
                 PROVE  /\ past # "torn" => \A c \in LiveChannels : access[c] \subseteq members
                        /\ past = "whole" => \A c \in LiveChannels : members \subseteq access[c]
      BY DEF ChannelsFollowMembersUnlessTorn, ChannelsOnlyForMembers, MembersSeeEveryChannel, Quiet
    <2> QED
      BY DEF FollowInv, OnlyMembersIn, AllMembersIn, Moving
  <1>2. FollowInv /\ [FNext]_fvars => FollowInv'
    BY FollowInvStep
  <1> QED
    BY <1>1, <1>2, FollowInvInit, PTL DEF FSpec

-----------------------------------------------------------------------------
(* Authority: under any interleaving of any number of requests, failures     *)
(* included, no handler changes the database without having been authorised. *)

\* The checks that do not depend on the particular handler.
Authority(q, S) ==
    /\ q.op \in OwnerOnly => "owner" \in S
    /\ q.op \in AdminOnly => "owner" \in S \/ "admin" \in S
    /\ q.op \in ShieldsOwner => "targetNotOwner" \in S

\* What has been checked when a request is at each of its stages.
Progress(q, S) ==
    /\ q.pc = "owner" => FirstStage(q.op) = "owner"
    /\ q.pc \in {"adminOwner", "adminRole"} =>
          q.op \in AdminOnly /\ (q.op \in ShieldsOwner => "targetNotOwner" \in S)
    /\ q.pc = "role" => Authority(q, S) /\ q.op \in OnPlainRole
    /\ q.pc = "member" =>
          /\ Authority(q, S) /\ q.op \in Targeted \ {"ban_member", "unban_member"}
          /\ q.op \in OnPlainRole => "plainRole" \in S
    /\ q.pc = "channel" => Authority(q, S) /\ q.op \in {"rename_channel", "delete_conversation"}
    /\ q.pc = "invite" => q.op = "join_guild"
    /\ q.pc = "ban" => q.op = "join_guild" /\ "invited" \in S
    /\ q.pc \in EffectStages => Authorised(q, S)

\* The history is complete, and each request has been checked as far as it has come.
HInv ==
    /\ TypeOK
    /\ seen \in [Reqs -> SUBSET FactNames]
    /\ \A r \in Reqs : req[r].pc # "idle" =>
          Facts(req[r]) \subseteq seen[r] /\ Progress(req[r], seen[r])

LEMMA FactsMeaning ==
    ASSUME NEW q
    PROVE  /\ "owner" \in Facts(q) <=> owner = q.user
           /\ "admin" \in Facts(q) <=> HasAdminGrant(q.user)
           /\ "notOwner" \in Facts(q) <=> owner # q.user
           /\ "targetNotOwner" \in Facts(q) <=> owner # q.target
           /\ "targetMember" \in Facts(q) <=> q.target \in members
           /\ "invited" \in Facts(q) <=> q.obj \in invites
           /\ "notBanned" \in Facts(q) <=> q.user \notin bans
           /\ "inChannel" \in Facts(q) <=> q.obj \in Channels /\ q.user \in access[q.obj]
           /\ "plainRole" \in Facts(q) <=> q.obj \in Roles /\ roles[q.obj] = "plain"
  BY DEF Facts, Holds, FactNames

LEMMA ProgressMonotone ==
    ASSUME NEW q, NEW S, NEW T, S \subseteq T, Progress(q, S)
    PROVE  Progress(q, T)
  BY DEF Progress, Authority, Authorised

\* The facts seen by a request before a step, and what the step must leave true.
Before(r) == IF req[r].pc = "idle" THEN {} ELSE seen[r]
Advances(r) == req'[r].pc = "idle" \/ Progress(req'[r], Before(r))

LEMMA CallAdvances == ASSUME HInv, NEW r \in Reqs, Call(r) PROVE Advances(r)
  <1>1. PICK op \in Ops : \E u \in Users : \E t \in TargetsOf(op), o \in ObjectsOf(op) :
           req' = [req EXCEPT ![r] = [pc |-> FirstStage(op), op |-> op, user |-> u,
                                      target |-> t, obj |-> o, todo |-> {}]]
    BY DEF Call
  <1>2. op \in AllOps
    BY ConstantsAssumption
  <1>3. /\ req'[r].pc = FirstStage(op) /\ req'[r].op = op
    BY <1>1 DEF HInv, TypeOK, RequestsOK
  <1> QED
    BY <1>2, <1>3 DEF Advances, Progress, FirstStage, EffectStages, Authorised, Authority,
       OwnerOnly, AdminOnly, ShieldsOwner, Targeted, Moderation, OnPlainRole, AllOps, AnyUser

LEMMA CheckAdvances ==
    ASSUME HInv, NEW r \in Reqs, NEW stage \in Stages \ {"idle"}, NEW passes, NEW next,
           Check(r, stage, passes, next),
           passes => Progress([req[r] EXCEPT !.pc = next], seen[r])
    PROVE  Advances(r)
  <1>1. CASE Return(r)
    BY <1>1 DEF Return, Advances, Idle, HInv, TypeOK, RequestsOK
  <1>2. CASE passes /\ Goto(r, next)
    <2>1. req'[r] = [req[r] EXCEPT !.pc = next]
      BY <1>2 DEF Goto, HInv, TypeOK, RequestsOK
    <2> QED
      BY <1>2, <2>1 DEF Check, At, Before, Advances
  <1> QED
    BY <1>1, <1>2 DEF Check

\* Each SELECT that lets a request pass has established what the next stage needs.
LEMMA ReadsAdvance == ASSUME HInv, NEW r \in Reqs, Reads(r) PROVE Advances(r)
  <1> DEFINE q == req[r]
             S == seen[r]
             moved(next) == [q EXCEPT !.pc = next]
  <1>1. q.pc # "idle" => q.op \in AllOps /\ Facts(q) \subseteq S /\ Progress(q, S)
    BY DEF HInv, TypeOK, RequestsOK, WellFormed
  <1>2. \A next : moved(next).pc = next /\ moved(next).op = q.op
    BY DEF HInv, TypeOK, RequestsOK, Requests
  <1> USE DEF EffectStages
  <1>3. CASE SelectOwner(r)
    <2> DEFINE next == IF q.op = "create_channel" \/ (q.op \in Moderation /\ owner # q.user)
                       THEN "adminOwner" ELSE AfterAuthority(q.op)
    <2>1. Check(r, "owner", OwnerCheck(q), next) /\ q.pc = "owner"
      BY <1>3 DEF SelectOwner, Check, At
    <2>2. ASSUME OwnerCheck(q) PROVE Progress(moved(next), S)
      <3>1. q.op = "leave_guild" => "notOwner" \in S
        BY <1>1, <2>1, <2>2, FactsMeaning DEF OwnerCheck
      <3>2. q.op \in OwnerOnly => "owner" \in S
        BY <1>1, <2>1, <2>2, FactsMeaning DEF OwnerCheck
      <3>3. q.op \in ShieldsOwner => "targetNotOwner" \in S
        BY <1>1, <2>1, <2>2, FactsMeaning DEF OwnerCheck
      <3>4. q.op \in Moderation /\ owner = q.user => "owner" \in S
        BY <1>1, <2>1, FactsMeaning
      <3>5. q.op \in AllOps /\ FirstStage(q.op) = "owner"
        BY <1>1, <2>1 DEF Progress
      <3> HIDE DEF S
      <3> QED
        BY <1>2, <3>1, <3>2, <3>3, <3>4, <3>5 DEF Progress, Authority, Authorised, AfterAuthority,
           FirstStage, OwnerOnly, AdminOnly, ShieldsOwner, Targeted, Moderation, OnPlainRole,
           AllOps, AnyUser
    <2> QED
      BY <2>1, <2>2, CheckAdvances DEF Stages
  <1>4. CASE IsAdminOwner(r) \/ IsAdminRole(r)
    <2>1. q.pc \in {"adminOwner", "adminRole"}
      BY <1>4 DEF IsAdminOwner, IsAdminRole, Check, At
    <2>2. q.op \in AdminOnly /\ (q.op \in ShieldsOwner => "targetNotOwner" \in S)
      BY <1>1, <2>1 DEF Progress
    <2>3. Progress(moved("adminRole"), S)
      BY <1>2, <2>2 DEF Progress
    <2>4. ASSUME "owner" \in S \/ "admin" \in S PROVE Progress(moved(AfterAuthority(q.op)), S)
      <3> HIDE DEF S
      <3> QED
        BY <1>2, <2>2, <2>4 DEF Progress, Authority, Authorised, AfterAuthority,
           OwnerOnly, AdminOnly, ShieldsOwner, Targeted, Moderation, OnPlainRole
    <2>5. CASE IsAdminOwner(r)
      <3> DEFINE next == IF owner = q.user THEN AfterAuthority(q.op) ELSE "adminRole"
      <3>1. Check(r, "adminOwner", TRUE, next)
        BY <2>5 DEF IsAdminOwner
      <3>2. owner = q.user => "owner" \in S
        BY <1>1, <2>1, FactsMeaning
      <3>3. Progress(moved(next), S)
        BY <2>3, <2>4, <3>2
      <3> QED
        BY <3>1, <3>3, CheckAdvances DEF Stages
    <2>6. CASE IsAdminRole(r)
      <3>1. HasAdminGrant(q.user) => Progress(moved(AfterAuthority(q.op)), S)
        BY <1>1, <2>1, <2>4, FactsMeaning
      <3> QED
        BY <2>6, <3>1, CheckAdvances DEF IsAdminRole, Stages
    <2> QED
      BY <1>4, <2>5, <2>6
  <1>5. CASE IsGuildMember(r)
    <2>1. q.pc = "member"
      BY <1>5 DEF IsGuildMember, Check, At
    <2>2. q.target \in members => "targetMember" \in S
      BY <1>1, <2>1, FactsMeaning
    <2>3. Progress(q, S)
      BY <1>1, <2>1
    <2>4. q.target \in members => Progress(moved("write"), S)
      <3> HIDE DEF S
      <3> QED
        BY <1>2, <2>1, <2>2, <2>3 DEF Progress, Authority, Authorised, Targeted, OnPlainRole,
           ShieldsOwner
    <2> QED
      BY <1>5, <2>4, CheckAdvances DEF IsGuildMember, Stages
  <1>6. CASE SelectRole(r)
    <2> DEFINE next == IF q.op = "delete_role" THEN "write" ELSE "member"
    <2>1. Check(r, "role", roles[q.obj] = "plain", next) /\ q.pc = "role"
      BY <1>6 DEF SelectRole, Check, At
    <2>2. q.obj \in Roles
      BY <1>1, <2>1 DEF Progress, HInv, TypeOK, RequestsOK, WellFormed, ObjectsOf, OnPlainRole
    <2>3. roles[q.obj] = "plain" => "plainRole" \in S
      BY <1>1, <2>1, <2>2, FactsMeaning
    <2>4. Progress(q, S)
      BY <1>1, <2>1
    <2>5. roles[q.obj] = "plain" => Progress(moved(next), S)
      <3> HIDE DEF S
      <3> QED
        BY <1>2, <2>1, <2>3, <2>4 DEF Progress, Authority, Authorised, Targeted, OnPlainRole,
           ShieldsOwner, OwnerOnly
    <2> QED
      BY <2>1, <2>5, CheckAdvances DEF Stages
  <1>7. CASE SelectChannel(r)
    <2> DEFINE passes == IF q.op = "rename_channel" THEN chan[q.obj] = "live"
                                                    ELSE q.user \in access[q.obj]
    <2>1. Check(r, "channel", passes, "write") /\ q.pc = "channel"
      BY <1>7 DEF SelectChannel, Check, At
    <2>2. q.obj \in Channels
      BY <1>1, <2>1 DEF Progress, HInv, TypeOK, RequestsOK, WellFormed, ObjectsOf, OnPlainRole
    <2>3. passes => q.op = "rename_channel" \/ "inChannel" \in S
      BY <1>1, <2>1, <2>2, FactsMeaning
    <2>4. Progress(q, S)
      BY <1>1, <2>1
    <2>5. passes => Progress(moved("write"), S)
      <3> HIDE DEF S, passes
      <3> QED
        BY <1>2, <2>1, <2>3, <2>4 DEF Progress, Authority, Authorised, Targeted, OnPlainRole,
           ShieldsOwner
    <2> QED
      BY <2>1, <2>5, CheckAdvances DEF Stages
  <1>8. CASE SelectInvite(r)
    <2>1. q.pc = "invite"
      BY <1>8 DEF SelectInvite, Check, At
    <2>2. q.obj \in invites => "invited" \in S
      BY <1>1, <2>1, FactsMeaning
    <2>3. q.op = "join_guild"
      BY <1>1, <2>1 DEF Progress
    <2>4. q.obj \in invites => Progress(moved("ban"), S)
      BY <1>2, <2>2, <2>3 DEF Progress
    <2> QED
      BY <1>8, <2>4, CheckAdvances DEF SelectInvite, Stages
  <1>9. CASE SelectBan(r)
    <2>1. q.pc = "ban"
      BY <1>9 DEF SelectBan, Check, At
    <2>2. q.user \notin bans => "notBanned" \in S
      BY <1>1, <2>1, FactsMeaning
    <2>3. Progress(q, S)
      BY <1>1, <2>1
    <2>4. q.user \notin bans => Progress(moved("write"), S)
      BY <1>2, <2>1, <2>2, <2>3 DEF Progress, Authorised, Targeted, OnPlainRole, ShieldsOwner,
         OwnerOnly, AdminOnly, Moderation
    <2> QED
      BY <1>9, <2>4, CheckAdvances DEF SelectBan, Stages
  <1>10. CASE CountRemaining(r)
    <2>1. q.pc = "count"
      BY <1>10 DEF CountRemaining, Check, At
    <2>2. Progress(q, S)
      BY <1>1, <2>1
    <2>3. Progress(moved("drop"), S)
      BY <1>2, <2>1, <2>2 DEF Progress, Authorised
    <2> QED
      BY <1>10, <2>3, CheckAdvances DEF CountRemaining, Stages
  <1> QED
    BY <1>3, <1>4, <1>5, <1>6, <1>7, <1>8, <1>9, <1>10 DEF Reads

\* A statement that writes is the last of its request, or leaves it at a stage
\* that needs no further check.
LEMMA WritesAdvance ==
    ASSUME HInv, NEW r \in Reqs,
           GuildWrites(r) \/ MemberWrites(r) \/ RoleWrites(r) \/ ChannelWrites(r) \/ Abandon(r)
    PROVE  Advances(r)
  <1> DEFINE q == req[r]
  <1>1. q.pc \in EffectStages => Authorised(q, seen[r])
    BY DEF HInv, Progress, EffectStages
  <1>2. CASE Return(r)
    BY <1>2 DEF Return, Advances, Idle, HInv, TypeOK, RequestsOK
  <1>3. ASSUME q.pc \in EffectStages, req'[r].pc \in EffectStages, req'[r].op = q.op
        PROVE  Advances(r)
    <2>1. Authorised(req'[r], Before(r))
      BY <1>1, <1>3 DEF Before, EffectStages, Authorised
    <2> QED
      BY <1>3, <2>1 DEF Advances, Progress, EffectStages
  <1>4. CASE GuildWrites(r)
    BY <1>2, <1>4 DEF GuildWrites, CreateGuild, DeleteGuild, CreateInvite, RevokeInvite, TransferOwner
  <1> USE DEF HInv, TypeOK, RequestsOK, Requests, Writes, At, EffectStages
  <1>5. CASE JoinMember(r) \/ RemoveMember(r) \/ BanMember(r)
    BY <1>3, <1>5 DEF JoinMember, RemoveMember, BanMember, Goto
  <1>6. CASE UnbanMember(r)
    BY <1>2, <1>6 DEF UnbanMember
  <1>7. CASE ListChannels(r) \/ SyncChannel(r)
    BY <1>2, <1>3, <1>7 DEF ListChannels, SyncChannel
  <1>8. CASE RoleWrites(r)
    <2>1. CASE GrantAdmin(r) /\ ~Return(r)
      BY <1>3, <2>1 DEF GrantAdmin
    <2>2. CASE CommitAdminRole(r) \/ RevokeAdmin(r) \/ CreateRole(r)
      BY <1>2, <2>2 DEF CommitAdminRole, RevokeAdmin, CreateRole
    <2>3. CASE DeleteRole(r) \/ AssignRole(r) \/ UnassignRole(r)
      BY <1>2, <2>3 DEF DeleteRole, AssignRole, UnassignRole
    <2> QED
      BY <1>2, <1>8, <2>1, <2>2, <2>3 DEF RoleWrites
  <1>9. CASE ChannelWrites(r)
    <2>1. CASE BeginChannel(r) /\ ~Return(r)
      <3>1. PICK c : req' = [req EXCEPT ![r].pc = "commit", ![r].obj = c, ![r].todo = members]
        BY <2>1 DEF BeginChannel
      <3>2. req'[r].pc = "commit" /\ req'[r].op = q.op
        BY <3>1
      <3>3. q.pc = "write"
        BY <2>1 DEF BeginChannel
      <3> QED  BY <1>3, <3>2, <3>3
    <2>2. CASE LeaveConversation(r)
      BY <1>3, <2>2 DEF LeaveConversation, Goto
    <2>3. CASE CommitChannel(r) \/ RenameChannel(r) \/ DeleteChannel(r) \/ DropConversation(r)
      BY <1>2, <2>3 DEF CommitChannel, RenameChannel, DeleteChannel, DropConversation
    <2> QED
      BY <1>2, <1>9, <2>1, <2>2, <2>3 DEF ChannelWrites
  <1>10. CASE Abandon(r)
    BY <1>2, <1>10 DEF Abandon
  <1> QED
    BY <1>4, <1>5, <1>6, <1>7, <1>8, <1>9, <1>10 DEF MemberWrites

LEMMA HInvStep == ASSUME HInv, [HNext]_hvars PROVE HInv'
  <1>1. CASE UNCHANGED hvars
    BY <1>1 DEF hvars, vars, HInv, TypeOK, TablesOK, RequestsOK, Facts, Holds, HasAdminGrant,
       AdminRoles
  <1>2. CASE HNext
    <2>1. TypeOK'
      BY <1>2, StepType DEF HNext, HInv
    <2>2. seen' = [r \in Reqs |-> IF req'[r].pc = "idle" THEN {} ELSE Before(r) \cup Facts(req[r])']
      BY <1>2 DEF HNext, Before
    <2>3. \A r \in Reqs : Before(r) \subseteq FactNames /\ Facts(req[r])' \subseteq FactNames
      BY DEF Before, Facts, HInv
    <2>4. \A r \in Reqs : req'[r] = req[r] => Advances(r)
      BY DEF Advances, Before, HInv
    <2>5. \A r \in Reqs : Advances(r)
      <3>1. ASSUME NEW s \in Reqs, Call(s) \/ Statement(s) \/ Abandon(s)
            PROVE  \A r \in Reqs : Advances(r)
        <4>1. Advances(s)
          BY <3>1, CallAdvances, ReadsAdvance, WritesAdvance DEF Statement
        <4> QED
          BY <2>4, <3>1, <4>1, OthersStay DEF HInv, Acts
      <3>2. ASSUME NEW i \in Codes, ExpireInvite(i) PROVE \A r \in Reqs : Advances(r)
        BY <2>4, <3>2 DEF ExpireInvite
      <3> QED
        BY <1>2, <3>1, <3>2 DEF HNext, Next
    <2>6. ASSUME NEW r \in Reqs, req'[r].pc # "idle"
          PROVE  Facts(req[r])' \subseteq seen'[r] /\ Progress(req[r], seen[r])'
      <3>1. seen'[r] = Before(r) \cup Facts(req[r])'
        BY <2>2, <2>6
      <3>2. Progress(req'[r], Before(r))
        BY <2>5, <2>6 DEF Advances
      <3>3. Progress(req'[r], seen'[r])
        BY <3>1, <3>2, ProgressMonotone
      <3> QED
        BY <3>1, <3>3 DEF Progress, Authority, Authorised
    <2> QED
      BY <2>1, <2>2, <2>3, <2>6 DEF HInv
  <1> QED
    BY <1>1, <1>2

\* Every statement that changes the database belongs to a request that was
\* authorised at some moment since its call: the checks of the handlers are
\* sound, stale as their answers may be, for any users, channels, roles,
\* number of concurrent requests, and failures in the middle of handlers.
THEOREM OnlyAuthorisedEffects == HSpec => []EffectsAuthorised
  <1>1. HInit => HInv
    <2> SUFFICES ASSUME HInit PROVE HInv
      OBVIOUS
    <2>1. TypeOK
      BY InitType DEF HInit
    <2> QED
      BY <2>1 DEF HInit, HInv, Init, Idle
  <1>2. HInv => EffectsAuthorised
    BY DEF HInv, EffectsAuthorised, Progress, EffectStages
  <1> QED
    BY <1>1, <1>2, HInvStep, PTL DEF HSpec
=============================================================================
