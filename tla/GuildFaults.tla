---------------------------- MODULE GuildFaults ----------------------------
(***************************************************************************)
(* Guilds with a history variable: whether a member has dropped out of a   *)
(* channel with delete_conversation, and whether a handler was ever cut    *)
(* short between two statements.  Bans and channel memberships are written *)
(* in several statements without a transaction, and agree with the members *)
(* as long as every handler runs to its end.                               *)
(***************************************************************************)
EXTENDS Guilds

VARIABLE past   \* "whole", "left" (delete_conversation has run) or "torn"

fvars == <<vars, past>>

FInit == Init /\ past = "whole"

FStatement(r) ==
    /\ Statement(r)
    /\ past' = IF past = "whole" /\ req[r].op = "delete_conversation" THEN "left" ELSE past

FNext ==
    \/ \E r \in Reqs : FStatement(r) \/ (Call(r) /\ UNCHANGED past)
    \/ \E r \in Reqs : Abandon(r) /\ past' = "torn"
    \/ \E i \in Codes : ExpireInvite(i) /\ UNCHANGED past

FSpec == FInit /\ [][FNext]_fvars

\* "Ban a member from the guild [...]: removes membership and blocks rejoin via
\* invite until unbanned" (guilds.rs:919): a banned user stays out as long as no
\* handler was cut short.
BannedStayOutUnlessTorn == past # "torn" => BannedStayOut

\* Only members of the guild are in its channels ("membership in a guild grants
\* access to every channel it owns", migrations/0016_guilds.sql:2), and all of them
\* are, but for those who have dropped out of one.
ChannelsFollowMembersUnlessTorn ==
    /\ past # "torn" => ChannelsOnlyForMembers
    /\ past = "whole" => MembersSeeEveryChannel
=============================================================================
