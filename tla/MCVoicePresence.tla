-------------------------- MODULE MCVoicePresence --------------------------
(***************************************************************************)
(* VoiceDevices for TLC, in two scenarios that share one run:              *)
(*   "single"  every user has at most one connection;                      *)
(*   "mesh"    users with several connections, at most two of them, in one *)
(*             channel, of a guild nobody leaves.                          *)
(***************************************************************************)
EXTENDS VoiceDevices, TLC

VARIABLE scenario

MCInit ==
    /\ DInit
    /\ scenario \in {"single", "mesh"}
    /\ scenario = "mesh" => Cardinality(members) <= 2

\* Who is connected, shown in a channel, or was connected twice; the channels someone
\* is in, on the way to, or shown in.
Present == doubled \cup {u \in Users : ConnsOf(u) # {} \/ \E ch \in Channels : u \in heard[ch]}
InUse == {ch \in Channels : voice[ch] \cup heard[ch] # {} \/ \E c \in Conns : ch \in {conn[c].at, conn[c].ch}}

\* What the scenario has room for; the action has chosen the user, or the channel.
RoomForUser(u) ==
    IF scenario = "single" THEN ConnsOf(u) = {} ELSE Cardinality(Present \cup {u}) <= 2
RoomForChannel(ch) == scenario = "mesh" => InUse \subseteq {ch}

MCNext ==
    \/ \E c \in Conns :
         \/ Connect(c) /\ RoomForUser(conn'[c].user) /\ Counted(c) /\ UNCHANGED scenario
         \/ VoiceJoin(c) /\ RoomForChannel(conn'[c].ch) /\ UNCHANGED <<doubled, scenario>>
         \/ (AnnounceOn(c) \/ SelectMember(c) \/ Evict(c) \/ AnnounceEvicted(c) \/ Insert(c)
             \/ AnnounceJoined(c) \/ SendState(c) \/ LeaveStep(c) \/ RouteSignal(c) \/ SendSignal(c))
            /\ UNCHANGED <<doubled, scenario>>
    \/ \E u \in Users : scenario = "single" /\ ChangeMembership(u) /\ UNCHANGED <<doubled, scenario>>

MCSpec == MCInit /\ [][MCNext]_<<dvars, scenario>>

\* Users, channels and connections are interchangeable: no definition names one.
AllSymmetry == Permutations(Users) \cup Permutations(Channels) \cup Permutations(Conns)
=============================================================================
