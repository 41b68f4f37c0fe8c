--------------------------- MODULE GuildAuthority ---------------------------
(***************************************************************************)
(* Guilds with a history variable: for each request, what has been true of *)
(* its caller and its target at some moment since the call.  The handlers  *)
(* check first and write later, in separate statements, so what a check    *)
(* found may be stale when the write runs; what CAN be promised under any  *)
(* interleaving is that every effect was authorised at some moment of the  *)
(* request that causes it.                                                 *)
(***************************************************************************)
EXTENDS Guilds

VARIABLE seen   \* seen[r]: the facts that have held during request r

hvars == <<vars, seen>>

FactNames == {"owner", "admin", "notOwner", "targetNotOwner", "targetMember",
              "invited", "notBanned", "inChannel", "plainRole"}

Holds(f, q) ==
    CASE f = "owner" -> owner = q.user
      [] f = "admin" -> HasAdminGrant(q.user)
      [] f = "notOwner" -> owner # q.user
      [] f = "targetNotOwner" -> owner # q.target
      [] f = "targetMember" -> q.target \in members
      [] f = "invited" -> q.obj \in invites
      [] f = "notBanned" -> q.user \notin bans
      [] f = "inChannel" -> q.obj \in Channels /\ q.user \in access[q.obj]
      [] OTHER -> q.obj \in Roles /\ roles[q.obj] = "plain"
Facts(q) == {f \in FactNames : Holds(f, q)}

HInit == Init /\ seen = [r \in Reqs |-> {}]
HNext ==
    /\ Next
    /\ seen' = [r \in Reqs |->
          IF req'[r].pc = "idle" THEN {}
          ELSE (IF req[r].pc = "idle" THEN {} ELSE seen[r]) \cup Facts(req[r])' ]
HSpec == HInit /\ [][HNext]_hvars

\* What must have been true for a request to change anything.
Authorised(q, S) ==
    /\ q.op \in OwnerOnly => "owner" \in S
    /\ q.op \in AdminOnly => "owner" \in S \/ "admin" \in S
    /\ q.op \in ShieldsOwner => "targetNotOwner" \in S
    /\ q.op \in Targeted \ {"ban_member", "unban_member"} => "targetMember" \in S
    /\ q.op \in OnPlainRole => "plainRole" \in S
    /\ q.op = "join_guild" => "invited" \in S /\ "notBanned" \in S
    /\ q.op = "leave_guild" => "notOwner" \in S
    /\ q.op = "delete_conversation" => "inChannel" \in S

EffectStages == {"write", "unmember", "commit", "count", "drop", "list", "sync"}

\* A handler reaches a statement that changes the database only when, at some
\* moment since the call, its caller owned the guild (create_invite, set_role,
\* transfer_owner, ...), owned or administered it (kick, ban, channels), held a
\* live invite and was not banned (join_guild), and its target was a member
\* other than the owner -- whatever other requests do in between.
EffectsAuthorised ==
    \A r \in Reqs : req[r].pc \in EffectStages => Authorised(req[r], seen[r])
=============================================================================
