---------------------------- MODULE VoiceDevices ----------------------------
(***************************************************************************)
(* VoicePresence with a history variable: the users that have been         *)
(* connected twice at the same time.  The presence set and the occupancy   *)
(* map have one entry per user, and the connections of a user race for it; *)
(* for everybody else the entry, the connection and what the clients were  *)
(* told agree, whatever the others do.                                     *)
(***************************************************************************)
EXTENDS VoicePresence

VARIABLE doubled

dvars == <<vars, doubled>>

DInit == Init /\ doubled = {}

\* The user who connects has a connection already.
Counted(c) == LET u == conn'[c].user IN doubled' = IF ConnsOf(u) = {} THEN doubled ELSE doubled \cup {u}

Runs(c) == AnnounceOn(c) \/ JoinStep(c) \/ LeaveStep(c) \/ RouteSignal(c) \/ SendSignal(c)

DNext ==
    \/ \E c \in Conns : Connect(c) /\ Counted(c)
    \/ \E c \in Conns : Runs(c) /\ UNCHANGED doubled
    \/ \E u \in Users : ChangeMembership(u) /\ UNCHANGED doubled

DSpec == DInit /\ [][DNext]_dvars

\* The user's connection is not between two steps of a message.
Settled(u) == \A c \in ConnsOf(u) : At(c, "open")

\* AppState.presence: "Users with an active WebSocket connection" (db.rs:21); the
\* clients were told the same.
PresentExactly(u) ==
    /\ u \in online <=> ConnsOf(u) # {}
    /\ u \in announced <=> u \in online

\* The user is an occupant of the channel their connection is in, for the clients too.
InVoiceExactly(u) == \A ch \in Channels :
    /\ u \in voice[ch] <=> \E c \in ConnsOf(u) : conn[c].at = ch
    /\ u \in heard[ch] <=> u \in voice[ch]

\* voice_join: "A user may only occupy one voice channel" (ws.rs:278), and presence and
\* occupancy are exact whenever the user's connection is at rest: for every user who was
\* never connected twice at once.
ExactOnOneDevice == \A u \in Users \ doubled :
    /\ Cardinality(Elsewhere(u, None)) <= 1
    /\ Settled(u) => PresentExactly(u) /\ InVoiceExactly(u)
=============================================================================
