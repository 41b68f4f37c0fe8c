------------------------------ MODULE MCGuilds ------------------------------
(***************************************************************************)
(* GuildFaults for TLC, in two scenarios that share one run and bound what *)
(* is called:                                                              *)
(*   "ranks"     every handler but create_channel: one channel;            *)
(*   "channels"  the handlers that move members in and out or create and   *)
(*               drop channels: a second channel comes and goes.           *)
(***************************************************************************)
EXTENDS GuildFaults, TLC

VARIABLE scenario

MCInit == FInit /\ scenario \in {"ranks", "channels"}

ChannelOps == {"create_guild", "create_channel", "create_invite", "delete_guild",
               "join_guild", "leave_guild", "kick_member", "ban_member",
               "unban_member", "delete_channel", "delete_conversation"}
MCOps == IF scenario = "channels" THEN ChannelOps ELSE Ops \ {"create_channel"}

MCNext ==
    /\ FNext
    /\ \A r \in Reqs : req'[r].op \in MCOps \cup {None}
    /\ UNCHANGED scenario

MCSpec == MCInit /\ [][MCNext]_<<fvars, scenario>>

\* Users, channels and roles are interchangeable: no definition names one.
RowSymmetry == Permutations(Users) \cup Permutations(Channels) \cup Permutations(Roles)
=============================================================================
