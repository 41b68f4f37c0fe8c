--------------------------- MODULE VoicePresence ---------------------------
(***************************************************************************)
(* Online presence and voice channel occupancy:                            *)
(* src/crates/feditexter-server/src/api/ws.rs (ws_loop, voice_join,        *)
(* voice_leave, voice_signal_allowed, route_signal) over the two maps of   *)
(* db.rs that the connections share.                                       *)
(*                                                                         *)
(* A WebSocket connection is a task of a multi-threaded runtime: it runs   *)
(* its own messages in order, and what it does between two awaits or lock  *)
(* sections interleaves with the other connections.  Events are published  *)
(* on the hub after the lock is released.  The hub is a broadcast channel  *)
(* that hands every receiver all events in the order they were sent, so    *)
(* what a caught-up client believes is the last event sent: `announced'    *)
(* and `heard' hold that.                                                  *)
(*                                                                         *)
(* All channels belong to one guild.  Messages that name a text channel or *)
(* another guild, and signals of file transfers, change nothing here.      *)
(***************************************************************************)
EXTENDS Naturals, FiniteSets

CONSTANTS
    Users, Channels,
    Conns,          \* WebSocket connections open at the same time
    MultiDevice,    \* may a user have more than one?
    Kicks,          \* does the membership of the guild change?
    None

ASSUME NoneAssumption == None \notin Users \cup Channels \cup Conns
ASSUME SwitchesAssumption == MultiDevice \in BOOLEAN /\ Kicks \in BOOLEAN

VARIABLES
    members,    \* members of the guild
    online,     \* AppState.presence
    voice,      \* AppState.voice: the occupants of each channel
    conn,       \* the connections
    (* what the hub has published last *)
    announced,  \* users whose last Presence event says online
    heard,      \* heard[ch]: users whose last VoicePresence event for ch says joined
    (* history *)
    told        \* told[ch]: pairs <<u, v>>: since both entered, u was told that v is there

hub == <<announced, heard>>
vars == <<members, online, voice, conn, hub, told>>

Stages == {"closed", "announceOn", "open", "member", "evict", "announceEvicted", "insert",
           "announceJoined", "sendState", "announceLeft", "sendSignal",
           "announceOff", "leaveDropped", "announceDropped"}

\* `at' is the connection's voice_channel; ch, evicted, others, peer are locals of
\* the message it handles: the channel, left_channel, users_before, to_user_id.
Connections == [pc : Stages, user : Users \cup {None}, at : Channels \cup {None},
                ch : Channels \cup {None}, evicted : Channels \cup {None},
                present : BOOLEAN, others : SUBSET Users, peer : Users \cup {None}]
Closed == [pc |-> "closed", user |-> None, at |-> None, ch |-> None, evicted |-> None,
           present |-> FALSE, others |-> {}, peer |-> None]

TypeOK ==
    /\ members \subseteq Users
    /\ online \subseteq Users
    /\ voice \in [Channels -> SUBSET Users]
    /\ conn \in [Conns -> Connections]
    /\ announced \subseteq Users
    /\ heard \in [Channels -> SUBSET Users]
    /\ told \in [Channels -> SUBSET (Users \X Users)]

Init ==
    /\ members \in SUBSET Users
    /\ online = {} /\ announced = {}
    /\ voice = [ch \in Channels |-> {}] /\ heard = voice
    /\ conn = [c \in Conns |-> Closed]
    /\ told = [ch \in Channels |-> {}]

-----------------------------------------------------------------------------
At(c, stage) == conn[c].pc = stage
Goto(c, stage) == conn' = [conn EXCEPT ![c].pc = stage]
\* The message is done: its locals are dropped.
Done(c) == [Closed EXCEPT !.pc = "open", !.user = conn[c].user, !.at = conn[c].at]
Finish(c) == conn' = [conn EXCEPT ![c] = Done(c)]

Open(c) == conn[c].pc # "closed"
ConnsOf(u) == {c \in Conns : Open(c) /\ conn[c].user = u}

\* u is out of channel ch, and out of the pairs told of.
Without(f, u, chs) == [ch \in Channels |-> IF ch \in chs THEN f[ch] \ {u} ELSE f[ch]]
Forget(u, chs) ==
    told' = [ch \in Channels |-> IF ch \in chs THEN {p \in told[ch] : u \notin {p[1], p[2]}} ELSE told[ch]]

-----------------------------------------------------------------------------
(* ws_loop: the connection opens, and announces the user when it is the     *)
(* first to put them online.                                                *)

Connect(c) ==
    /\ At(c, "closed")
    /\ \E u \in Users :
         /\ MultiDevice \/ ConnsOf(u) = {}
         /\ conn' = [conn EXCEPT ![c] = [Closed EXCEPT !.pc = IF u \in online THEN "open" ELSE "announceOn",
                                                       !.user = u]]
         /\ online' = online \cup {u}
    /\ UNCHANGED <<members, voice, hub, told>>

AnnounceOn(c) ==
    /\ At(c, "announceOn")
    /\ announced' = announced \cup {conn[c].user}
    /\ Goto(c, "open")
    /\ UNCHANGED <<members, online, voice, heard, told>>

-----------------------------------------------------------------------------
(* voice_join                                                               *)

VoiceJoin(c) ==
    /\ At(c, "open")
    /\ \E ch \in Channels : conn' = [conn EXCEPT ![c].pc = "member", ![c].ch = ch]
    /\ UNCHANGED <<members, online, voice, hub, told>>

SelectMember(c) ==
    /\ At(c, "member")
    /\ IF conn[c].user \in members THEN Goto(c, "evict") ELSE Finish(c)
    /\ UNCHANGED <<members, online, voice, hub, told>>

Elsewhere(u, ch) == {k \in Channels \ {ch} : u \in voice[k]}

\* First lock section: out of every other channel; only the last one the map's
\* iteration came to is kept for the announcement.
Evict(c) ==
    /\ At(c, "evict")
    /\ LET u == conn[c].user
           left == Elsewhere(u, conn[c].ch)
       IN /\ voice' = Without(voice, u, left)
          /\ Forget(u, left)
          /\ IF left = {} THEN Goto(c, "insert")
             ELSE \E k \in left : conn' = [conn EXCEPT ![c].pc = "announceEvicted", ![c].evicted = k]
    /\ UNCHANGED <<members, online, hub>>

AnnounceEvicted(c) ==
    /\ At(c, "announceEvicted")
    /\ heard' = Without(heard, conn[c].user, {conn[c].evicted})
    /\ Goto(c, "insert")
    /\ UNCHANGED <<members, online, voice, announced, told>>

\* Faulty variant: the filter is inverted.
OthersInverted(ch, u) == voice[ch] \cap {u}

Others(ch, u) == voice[ch] \ {u}

\* Second lock section: who is there, and in.
Insert(c) ==
    /\ At(c, "insert")
    /\ LET u == conn[c].user
           ch == conn[c].ch
       IN /\ voice' = [voice EXCEPT ![ch] = @ \cup {u}]
          /\ conn' = [conn EXCEPT ![c].pc = IF u \in voice[ch] THEN "sendState" ELSE "announceJoined",
                                  ![c].others = Others(ch, u)]
    /\ UNCHANGED <<members, online, hub, told>>

AnnounceJoined(c) ==
    /\ At(c, "announceJoined")
    /\ heard' = [heard EXCEPT ![conn[c].ch] = @ \cup {conn[c].user}]
    /\ Goto(c, "sendState")
    /\ UNCHANGED <<members, online, voice, announced, told>>

\* Faulty variant: the connection does not remember the channel.
SendStateForgets(c) ==
    /\ At(c, "sendState")
    /\ told' = [told EXCEPT ![conn[c].ch] = @ \cup ({conn[c].user} \X conn[c].others)]
    /\ conn' = [conn EXCEPT ![c] = Done(c)]
    /\ UNCHANGED <<members, online, voice, hub>>

\* The occupant list goes to the joiner; voice_channel is set.
SendState(c) ==
    /\ At(c, "sendState")
    /\ told' = [told EXCEPT ![conn[c].ch] = @ \cup ({conn[c].user} \X conn[c].others)]
    /\ conn' = [conn EXCEPT ![c] = [Done(c) EXCEPT !.at = conn[c].ch]]
    /\ UNCHANGED <<members, online, voice, hub>>

-----------------------------------------------------------------------------
(* voice_leave, and the end of the connection.                              *)

\* The lock section of voice_leave.  Nothing is announced when the user was not
\* there any more.
Remove(c, announce, done) ==
    LET u == conn[c].user
        ch == conn[c].at
    IN /\ voice' = Without(voice, u, {ch})
       /\ Forget(u, {ch})
       /\ conn' = [conn EXCEPT ![c] = IF u \in voice[ch]
                                      THEN [@ EXCEPT !.at = None, !.ch = ch, !.pc = announce]
                                      ELSE done]

\* Only for the channel this connection is in.
VoiceLeave(c) ==
    /\ At(c, "open")
    /\ conn[c].at # None
    /\ Remove(c, "announceLeft", [Done(c) EXCEPT !.at = None])
    /\ UNCHANGED <<members, online, hub>>

AnnounceLeft(c) ==
    /\ At(c, "announceLeft")
    /\ heard' = Without(heard, conn[c].user, {conn[c].ch})
    /\ Finish(c)
    /\ UNCHANGED <<members, online, voice, announced, told>>

\* The socket closes, a send fails, or the receiver has lagged.
Disconnect(c) ==
    /\ At(c, "open")
    /\ online' = online \ {conn[c].user}
    /\ Goto(c, "announceOff")
    /\ UNCHANGED <<members, voice, hub, told>>

\* Faulty variant: the connection ends without leaving its channel.
AnnounceOffStays(c) ==
    /\ At(c, "announceOff")
    /\ announced' = announced \ {conn[c].user}
    /\ conn' = [conn EXCEPT ![c] = Closed]
    /\ UNCHANGED <<members, online, voice, heard, told>>

AnnounceOff(c) ==
    /\ At(c, "announceOff")
    /\ announced' = announced \ {conn[c].user}
    /\ conn' = [conn EXCEPT ![c] = IF @.at = None THEN Closed ELSE [@ EXCEPT !.pc = "leaveDropped"]]
    /\ UNCHANGED <<members, online, voice, heard, told>>

LeaveDropped(c) ==
    /\ At(c, "leaveDropped")
    /\ Remove(c, "announceDropped", Closed)
    /\ UNCHANGED <<members, online, hub>>

AnnounceDropped(c) ==
    /\ At(c, "announceDropped")
    /\ heard' = Without(heard, conn[c].user, {conn[c].ch})
    /\ conn' = [conn EXCEPT ![c] = Closed]
    /\ UNCHANGED <<members, online, voice, announced, told>>

-----------------------------------------------------------------------------
(* route_signal for voice signals: the check, then the lookup of the        *)
(* target, then the event.                                                  *)

VoiceSignalAllowed(ch, from, to) == {from, to} \subseteq voice[ch]

RouteSignal(c) ==
    /\ At(c, "open")
    /\ \E ch \in Channels, to \in Users :
         /\ VoiceSignalAllowed(ch, conn[c].user, to)
         /\ conn' = [conn EXCEPT ![c].pc = "sendSignal", ![c].ch = ch, ![c].peer = to]
    /\ UNCHANGED <<members, online, voice, hub, told>>

SendSignal(c) ==
    /\ At(c, "sendSignal")
    /\ Finish(c)
    /\ UNCHANGED <<members, online, voice, hub, told>>

\* Guilds: a join, or a leave, kick or ban.  The occupancy map is left alone.
ChangeMembership(u) ==
    /\ Kicks
    /\ members' = IF u \in members THEN members \ {u} ELSE members \cup {u}
    /\ UNCHANGED <<online, voice, conn, hub, told>>

JoinStep(c) == \/ VoiceJoin(c) \/ SelectMember(c) \/ Evict(c) \/ AnnounceEvicted(c)
               \/ Insert(c) \/ AnnounceJoined(c) \/ SendState(c)
LeaveStep(c) == \/ VoiceLeave(c) \/ AnnounceLeft(c)
                \/ Disconnect(c) \/ AnnounceOff(c) \/ LeaveDropped(c) \/ AnnounceDropped(c)

Next ==
    \/ \E c \in Conns : \/ Connect(c) \/ AnnounceOn(c) \/ JoinStep(c) \/ LeaveStep(c)
                        \/ RouteSignal(c) \/ SendSignal(c)
    \/ \E u \in Users : ChangeMembership(u)

Spec == Init /\ [][Next]_vars

-----------------------------------------------------------------------------
(* Properties.                                                              *)

\* No connection is between two steps of a message.
Quiet == \A c \in Conns : conn[c].pc \in {"closed", "open"}

\* AppState.presence: "Users with an active WebSocket connection" (db.rs:21), and
\* what the clients were last told agrees with it.
PresenceExact ==
    Quiet => /\ online = {u \in Users : ConnsOf(u) # {}}
             /\ announced = online

\* voice_join: "A user may only occupy one voice channel" (ws.rs:278).
OneChannel == \A u \in Users : Cardinality(Elsewhere(u, None)) <= 1

\* The occupants of a channel are the users whose connection is in it, and what the
\* clients were last told agrees with it.
VoiceExact ==
    Quiet => /\ \A ch \in Channels : voice[ch] = {u \in Users : \E c \in ConnsOf(u) : conn[c].at = ch}
             /\ heard = voice

\* However the connections of a user race, once the last one has ended the user is
\* offline for the server and the clients, and in no voice channel.
NoGhosts ==
    \A u \in Users : ConnsOf(u) = {} =>
        /\ u \notin online \cup announced
        /\ \A ch \in Channels : u \notin voice[ch]

\* "Record a `voice_leave` and announce it to the channel's other members"
\* (ws.rs:335): nobody is shown in a channel after their last connection has ended.
LeavesAreHeard ==
    Quiet => \A u \in Users : ConnsOf(u) = {} => \A ch \in Channels : u \notin heard[ch]

\* The mesh: "The joiner connects out to the existing occupants" (ws.rs:328): of two
\* occupants of a channel one was told of the other, or neither would connect.
MeshComplete ==
    Quiet => \A ch \in Channels : \A u, v \in voice[ch] :
                u = v \/ <<u, v>> \in told[ch] \/ <<v, u>> \in told[ch]

\* voice_join: "the channel must be a voice channel of a guild the caller belongs to"
\* (ws.rs:249-250): nobody enters a channel without being a member at that moment.
EntersAsMember ==
    [][\A ch \in Channels : voice'[ch] \ voice[ch] \subseteq members]_vars

\* route_signal: "Voice signaling may only flow between two users who are currently in
\* the same voice channel" (ws.rs:388-389).
VoiceSignalsStayInChannel ==
    [][\A c \in Conns : At(c, "sendSignal") /\ ~(conn'[c].pc = "sendSignal") =>
          {conn[c].user, conn[c].peer} \subseteq voice[conn[c].ch]]_vars
=============================================================================
