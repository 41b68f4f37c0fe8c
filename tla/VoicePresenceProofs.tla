------------------------ MODULE VoicePresenceProofs ------------------------
(***************************************************************************)
(* Theorems about VoicePresence, for any number of users, channels and     *)
(* connections, however many a user has.                                   *)
(***************************************************************************)
EXTENDS VoiceDevices, FiniteSetTheorems, TLAPS

\* An open connection has a user, one that handles voice_join a channel, and one that
\* has left for good is in none.
JoinStages == {"member", "evict", "announceEvicted", "insert", "announceJoined", "sendState"}
WellFormed(q) == /\ q.pc # "closed" => q.user \in Users
                 /\ q.pc \in JoinStages => q.ch \in Channels
                 /\ q.pc = "announceDropped" => q.at = None
Attended == \A c \in Conns : WellFormed(conn[c])

Typed == TypeOK /\ Attended

\* A step replaces the record of one connection.
LEMMA RecordStep ==
    ASSUME Typed, NEW c \in Conns, NEW q \in Connections, WellFormed(q),
           conn' = [conn EXCEPT ![c] = q]
    PROVE  /\ conn' \in [Conns -> Connections]
           /\ Attended'
           /\ conn'[c] = q
           /\ \A d \in Conns \ {c} : conn'[d] = conn[d]
  BY DEF Typed, TypeOK, Attended

LEMMA ClosedType == Closed \in Connections /\ Closed.pc = "closed"
  BY DEF Closed, Connections, Stages

\* A connection goes on to another stage of the message.
LEMMA GotoStep ==
    ASSUME Typed, NEW c \in Conns, NEW stage \in Stages, Goto(c, stage), conn[c].pc # "closed",
           stage \in JoinStages => conn[c].pc \in JoinStages, stage # "announceDropped"
    PROVE  /\ conn' \in [Conns -> Connections]
           /\ Attended'
           /\ conn'[c] = [conn[c] EXCEPT !.pc = stage]
           /\ \A d \in Conns \ {c} : conn'[d] = conn[d]
  <1> DEFINE q == [conn[c] EXCEPT !.pc = stage]
  <1>1. q \in Connections /\ WellFormed(q)
    BY DEF Typed, TypeOK, Attended, WellFormed, Connections
  <1>2. conn' = [conn EXCEPT ![c] = q]
    BY DEF Goto
  <1> QED
    BY <1>1, <1>2, RecordStep

\* A message is done.
LEMMA DoneType ==
    ASSUME Typed, NEW c \in Conns, conn[c].pc # "closed"
    PROVE  /\ Done(c) \in Connections
           /\ Done(c).pc = "open"
           /\ Done(c).user = conn[c].user /\ Done(c).user \in Users
           /\ Done(c).at = conn[c].at
           /\ WellFormed(Done(c))
  BY DEF Typed, TypeOK, Attended, WellFormed, JoinStages, Connections, Done, Closed, Stages

LEMMA FinishStep ==
    ASSUME Typed, NEW c \in Conns, Finish(c), conn[c].pc # "closed"
    PROVE  /\ conn' \in [Conns -> Connections]
           /\ Attended'
           /\ conn'[c] = Done(c)
           /\ \A d \in Conns \ {c} : conn'[d] = conn[d]
  BY DoneType, RecordStep DEF Finish

LEMMA WithoutType ==
    ASSUME NEW f \in [Channels -> SUBSET Users], NEW u, NEW chs
    PROVE  Without(f, u, chs) \in [Channels -> SUBSET Users]
  BY DEF Without

LEMMA ForgetType ==
    ASSUME TypeOK, NEW u, NEW chs, Forget(u, chs)
    PROVE  told' \in [Channels -> SUBSET (Users \X Users)]
  <1> DEFINE t(ch) == IF ch \in chs THEN {p \in told[ch] : u \notin {p[1], p[2]}} ELSE told[ch]
  <1>1. told' = [ch \in Channels |-> t(ch)]
    BY DEF Forget
  <1>2. \A ch \in Channels : t(ch) \in SUBSET (Users \X Users)
    BY DEF TypeOK
  <1> HIDE DEF t
  <1> QED
    BY <1>1, <1>2

-----------------------------------------------------------------------------
(* Type correctness: one step per action.                                   *)

LEMMA ConnectType == ASSUME Typed, NEW c \in Conns, Connect(c) PROVE Typed'
  <1>1. PICK u \in Users :
           /\ conn' = [conn EXCEPT ![c] = [Closed EXCEPT !.pc = IF u \in online THEN "open" ELSE "announceOn",
                                                         !.user = u]]
           /\ online' = online \cup {u}
    BY DEF Connect
  <1> DEFINE q == [Closed EXCEPT !.pc = IF u \in online THEN "open" ELSE "announceOn", !.user = u]
  <1>2. q \in Connections /\ WellFormed(q)
    BY DEF Closed, Connections, Stages, WellFormed, JoinStages
  <1>3. conn' \in [Conns -> Connections] /\ Attended'
    BY <1>1, <1>2, RecordStep
  <1> QED
    BY <1>1, <1>3 DEF Connect, Typed, TypeOK, hub

LEMMA AnnounceOnType == ASSUME Typed, NEW c \in Conns, AnnounceOn(c) PROVE Typed'
  <1>1. conn' \in [Conns -> Connections] /\ Attended'
    BY GotoStep DEF AnnounceOn, At, Stages, JoinStages
  <1>2. conn[c].user \in Users
    BY DEF AnnounceOn, At, Typed, Attended, WellFormed
  <1> QED
    BY <1>1, <1>2 DEF AnnounceOn, Typed, TypeOK

LEMMA VoiceJoinType == ASSUME Typed, NEW c \in Conns, VoiceJoin(c) PROVE Typed'
  <1>1. PICK ch \in Channels : conn' = [conn EXCEPT ![c].pc = "member", ![c].ch = ch]
    BY DEF VoiceJoin
  <1> DEFINE q == [conn[c] EXCEPT !.pc = "member", !.ch = ch]
  <1>2. conn' = [conn EXCEPT ![c] = q]
    BY <1>1
  <1>3. q \in Connections /\ WellFormed(q)
    BY DEF VoiceJoin, At, Typed, TypeOK, Attended, WellFormed, JoinStages, Connections, Stages
  <1>4. conn' \in [Conns -> Connections] /\ Attended'
    BY <1>2, <1>3, RecordStep
  <1> QED
    BY <1>4 DEF VoiceJoin, Typed, TypeOK, hub

LEMMA SelectMemberType == ASSUME Typed, NEW c \in Conns, SelectMember(c) PROVE Typed'
  <1>1. conn' \in [Conns -> Connections] /\ Attended'
    BY GotoStep, FinishStep DEF SelectMember, At, Stages, JoinStages
  <1> QED
    BY <1>1 DEF SelectMember, Typed, TypeOK, hub

LEMMA EvictType == ASSUME Typed, NEW c \in Conns, Evict(c) PROVE Typed'
  <1> DEFINE u == conn[c].user
             left == Elsewhere(u, conn[c].ch)
  <1>1. voice' \in [Channels -> SUBSET Users] /\ told' \in [Channels -> SUBSET (Users \X Users)]
    BY WithoutType, ForgetType DEF Evict, Typed, TypeOK
  <1>2. conn' \in [Conns -> Connections] /\ Attended'
    <2>1. CASE left = {}
      <3>1. Goto(c, "insert") /\ conn[c].pc # "closed"
        BY <2>1 DEF Evict, At
      <3> QED
        BY <2>1, <3>1, GotoStep DEF Evict, At, Stages, JoinStages
    <2>2. CASE left # {}
      <3>1. PICK k \in left : conn' = [conn EXCEPT ![c].pc = "announceEvicted", ![c].evicted = k]
        BY <2>2 DEF Evict
      <3> DEFINE q == [conn[c] EXCEPT !.pc = "announceEvicted", !.evicted = k]
      <3>2. k \in Channels
        BY <3>1 DEF Elsewhere
      <3>3. conn' = [conn EXCEPT ![c] = q]
        BY <3>1
      <3>4. q \in Connections /\ WellFormed(q)
        BY <3>2 DEF Evict, At, Typed, TypeOK, Attended, WellFormed, JoinStages, Connections, Stages
      <3> QED
        BY <3>3, <3>4, RecordStep
    <2> QED
      BY <2>1, <2>2
  <1> QED
    BY <1>1, <1>2 DEF Evict, Typed, TypeOK, hub

LEMMA AnnounceEvictedType == ASSUME Typed, NEW c \in Conns, AnnounceEvicted(c) PROVE Typed'
  <1>1. conn' \in [Conns -> Connections] /\ Attended'
    BY GotoStep DEF AnnounceEvicted, At, Stages, JoinStages
  <1>2. heard' \in [Channels -> SUBSET Users]
    BY WithoutType DEF AnnounceEvicted, Typed, TypeOK
  <1> QED
    BY <1>1, <1>2 DEF AnnounceEvicted, Typed, TypeOK

LEMMA InsertConn ==
    ASSUME Typed, NEW c \in Conns, Insert(c)
    PROVE  /\ conn' \in [Conns -> Connections]
           /\ Attended'
           /\ conn'[c] = [conn[c] EXCEPT
                 !.pc = IF conn[c].user \in voice[conn[c].ch] THEN "sendState" ELSE "announceJoined",
                 !.others = Others(conn[c].ch, conn[c].user)]
           /\ \A d \in Conns \ {c} : conn'[d] = conn[d]
           /\ conn[c].user \in Users /\ conn[c].ch \in Channels
  <1> DEFINE u == conn[c].user
             ch == conn[c].ch
             q == [conn[c] EXCEPT !.pc = IF u \in voice[ch] THEN "sendState" ELSE "announceJoined",
                                  !.others = Others(ch, u)]
  <1>1. conn' = [conn EXCEPT ![c] = q]
    BY DEF Insert
  <1>2. u \in Users /\ ch \in Channels
    BY DEF Insert, At, Typed, Attended, WellFormed, JoinStages
  <1>3. Others(ch, u) \in SUBSET Users
    BY <1>2 DEF Others, Typed, TypeOK
  <1>4. q \in Connections /\ WellFormed(q)
    BY <1>2, <1>3 DEF Typed, TypeOK, WellFormed, Connections, Stages
  <1> QED
    BY <1>1, <1>2, <1>4, RecordStep

LEMMA InsertType == ASSUME Typed, NEW c \in Conns, Insert(c) PROVE Typed'
  <1>1. voice' \in [Channels -> SUBSET Users]
    BY InsertConn DEF Insert, Typed, TypeOK
  <1> QED
    BY <1>1, InsertConn DEF Insert, Typed, TypeOK, hub

LEMMA AnnounceJoinedType == ASSUME Typed, NEW c \in Conns, AnnounceJoined(c) PROVE Typed'
  <1>1. conn' \in [Conns -> Connections] /\ Attended'
    BY GotoStep DEF AnnounceJoined, At, Stages, JoinStages
  <1>2. heard' \in [Channels -> SUBSET Users]
    BY DEF AnnounceJoined, At, Typed, TypeOK, Attended, WellFormed
  <1> QED
    BY <1>1, <1>2 DEF AnnounceJoined, Typed, TypeOK

LEMMA SendStateConn ==
    ASSUME Typed, NEW c \in Conns, SendState(c)
    PROVE  /\ conn' \in [Conns -> Connections]
           /\ Attended'
           /\ conn'[c] = [Done(c) EXCEPT !.at = conn[c].ch]
           /\ \A d \in Conns \ {c} : conn'[d] = conn[d]
  <1> DEFINE q == [Done(c) EXCEPT !.at = conn[c].ch]
  <1>1. conn[c] \in Connections /\ conn[c].pc # "closed"
    BY DEF SendState, At, Typed, TypeOK
  <1>2. q \in Connections /\ WellFormed(q)
    BY <1>1, DoneType DEF Connections, WellFormed, JoinStages
  <1>3. conn' = [conn EXCEPT ![c] = q]
    BY DEF SendState
  <1> QED
    BY <1>2, <1>3, RecordStep

LEMMA SendStateType == ASSUME Typed, NEW c \in Conns, SendState(c) PROVE Typed'
  <1>1. conn[c].user \in Users /\ conn[c].others \in SUBSET Users
    BY DEF SendState, At, Typed, TypeOK, Attended, WellFormed, Connections
  <1>2. told' \in [Channels -> SUBSET (Users \X Users)]
    BY <1>1 DEF SendState, Typed, TypeOK
  <1> QED
    BY <1>2, SendStateConn DEF SendState, Typed, TypeOK, hub

\* The lock section of voice_leave, as voice_leave and the end of the connection run it.
LEMMA RemoveConn ==
    ASSUME Typed, NEW c \in Conns, conn[c].pc # "closed",
           NEW announce \in Stages \ ({"closed"} \cup JoinStages),
           NEW done \in Connections, WellFormed(done), Remove(c, announce, done)
    PROVE  /\ conn' \in [Conns -> Connections]
           /\ Attended'
           /\ \/ conn'[c] = [conn[c] EXCEPT !.at = None, !.ch = conn[c].at, !.pc = announce]
              \/ conn'[c] = done
           /\ \A d \in Conns \ {c} : conn'[d] = conn[d]
           /\ voice' \in [Channels -> SUBSET Users]
           /\ told' \in [Channels -> SUBSET (Users \X Users)]
  <1> DEFINE a == [conn[c] EXCEPT !.at = None, !.ch = conn[c].at, !.pc = announce]
             q == IF conn[c].user \in voice[conn[c].at] THEN a ELSE done
  <1>1. a \in Connections /\ WellFormed(a)
    BY DEF Typed, TypeOK, Attended, WellFormed, Connections
  <1>2. q \in Connections /\ WellFormed(q)
    BY <1>1
  <1>3. conn' = [conn EXCEPT ![c] = q]
    BY DEF Remove
  <1>4. voice' \in [Channels -> SUBSET Users]
    BY WithoutType DEF Remove, Typed, TypeOK
  <1>5. told' \in [Channels -> SUBSET (Users \X Users)]
    BY ForgetType DEF Remove, Typed
  <1> HIDE DEF q
  <1>6. conn'[c] = q
    BY <1>2, <1>3, RecordStep
  <1>7. q = a \/ q = done
    BY DEF q
  <1> QED
    BY <1>2, <1>3, <1>4, <1>5, <1>6, <1>7, RecordStep

LEMMA LeftType ==
    ASSUME Typed, NEW c \in Conns, conn[c].pc # "closed"
    PROVE  /\ [Done(c) EXCEPT !.at = None] \in Connections
           /\ WellFormed([Done(c) EXCEPT !.at = None])
  BY DoneType DEF Connections, WellFormed, JoinStages

LEMMA VoiceLeaveType == ASSUME Typed, NEW c \in Conns, VoiceLeave(c) PROVE Typed'
  <1>1. conn[c].pc # "closed" /\ "announceLeft" \in Stages \ ({"closed"} \cup JoinStages)
    BY DEF VoiceLeave, At, Stages, JoinStages
  <1>2. Remove(c, "announceLeft", [Done(c) EXCEPT !.at = None])
    BY DEF VoiceLeave
  <1> QED
    BY <1>1, <1>2, LeftType, RemoveConn DEF VoiceLeave, Typed, TypeOK, hub

LEMMA AnnounceLeftType == ASSUME Typed, NEW c \in Conns, AnnounceLeft(c) PROVE Typed'
  <1>1. conn' \in [Conns -> Connections] /\ Attended'
    BY FinishStep DEF AnnounceLeft, At
  <1>2. heard' \in [Channels -> SUBSET Users]
    BY WithoutType DEF AnnounceLeft, Typed, TypeOK
  <1> QED
    BY <1>1, <1>2 DEF AnnounceLeft, Typed, TypeOK

LEMMA DisconnectType == ASSUME Typed, NEW c \in Conns, Disconnect(c) PROVE Typed'
  <1>1. conn' \in [Conns -> Connections] /\ Attended'
    BY GotoStep DEF Disconnect, At, Stages, JoinStages
  <1> QED
    BY <1>1 DEF Disconnect, Typed, TypeOK, hub

LEMMA CloseStep ==
    ASSUME Typed, NEW c \in Conns, conn' = [conn EXCEPT ![c] = Closed]
    PROVE  /\ conn' \in [Conns -> Connections]
           /\ Attended'
           /\ conn'[c] = Closed
           /\ \A d \in Conns \ {c} : conn'[d] = conn[d]
  <1>1. WellFormed(Closed)
    BY DEF WellFormed, Closed, JoinStages
  <1> QED
    BY <1>1, ClosedType, RecordStep

LEMMA AnnounceOffConn ==
    ASSUME Typed, NEW c \in Conns, AnnounceOff(c)
    PROVE  /\ conn' \in [Conns -> Connections]
           /\ Attended'
           /\ \/ conn[c].at = None /\ conn'[c] = Closed
              \/ conn[c].at # None /\ conn'[c] = [conn[c] EXCEPT !.pc = "leaveDropped"]
           /\ \A d \in Conns \ {c} : conn'[d] = conn[d]
  <1>1. CASE conn[c].at = None
    <2>1. conn' = [conn EXCEPT ![c] = Closed]
      BY <1>1 DEF AnnounceOff
    <2> QED
      BY <1>1, <2>1, CloseStep
  <1>2. CASE conn[c].at # None
    <2> DEFINE q == [conn[c] EXCEPT !.pc = "leaveDropped"]
    <2>1. conn' = [conn EXCEPT ![c] = q]
      BY <1>2 DEF AnnounceOff
    <2>2. q \in Connections /\ WellFormed(q)
      BY DEF AnnounceOff, At, Typed, TypeOK, Attended, WellFormed, JoinStages, Connections, Stages
    <2> QED
      BY <1>2, <2>1, <2>2, RecordStep
  <1> QED
    BY <1>1, <1>2

LEMMA AnnounceOffType == ASSUME Typed, NEW c \in Conns, AnnounceOff(c) PROVE Typed'
  BY AnnounceOffConn DEF AnnounceOff, Typed, TypeOK

LEMMA LeaveDroppedType == ASSUME Typed, NEW c \in Conns, LeaveDropped(c) PROVE Typed'
  <1>1. conn[c].pc # "closed" /\ "announceDropped" \in Stages \ ({"closed"} \cup JoinStages)
    BY DEF LeaveDropped, At, Stages, JoinStages
  <1>2. Remove(c, "announceDropped", Closed)
    BY DEF LeaveDropped
  <1>3. Closed \in Connections /\ WellFormed(Closed)
    BY ClosedType DEF WellFormed, Closed, JoinStages
  <1> QED
    BY <1>1, <1>2, <1>3, RemoveConn DEF LeaveDropped, Typed, TypeOK, hub

LEMMA AnnounceDroppedType == ASSUME Typed, NEW c \in Conns, AnnounceDropped(c) PROVE Typed'
  <1>1. conn' \in [Conns -> Connections] /\ Attended'
    BY CloseStep DEF AnnounceDropped
  <1>2. heard' \in [Channels -> SUBSET Users]
    BY WithoutType DEF AnnounceDropped, Typed, TypeOK
  <1> QED
    BY <1>1, <1>2 DEF AnnounceDropped, Typed, TypeOK

LEMMA RouteSignalConn ==
    ASSUME Typed, NEW c \in Conns, RouteSignal(c)
    PROVE  /\ conn' \in [Conns -> Connections]
           /\ Attended'
           /\ conn'[c].pc = "sendSignal"
           /\ conn'[c].user = conn[c].user /\ conn'[c].at = conn[c].at
           /\ \A d \in Conns \ {c} : conn'[d] = conn[d]
  <1>1. PICK ch \in Channels : \E to \in Users :
           conn' = [conn EXCEPT ![c].pc = "sendSignal", ![c].ch = ch, ![c].peer = to]
    BY DEF RouteSignal
  <1>2. PICK to \in Users :
           conn' = [conn EXCEPT ![c].pc = "sendSignal", ![c].ch = ch, ![c].peer = to]
    BY <1>1
  <1> DEFINE q == [conn[c] EXCEPT !.pc = "sendSignal", !.ch = ch, !.peer = to]
  <1>3. conn' = [conn EXCEPT ![c] = q]
    BY <1>2
  <1>4. q \in Connections /\ WellFormed(q)
    <2>1. conn[c] \in Connections /\ conn[c].user \in Users
      BY DEF RouteSignal, At, Typed, TypeOK, Attended, WellFormed
    <2> QED
      BY <2>1 DEF WellFormed, JoinStages, Connections, Stages
  <1>5. q.pc = "sendSignal" /\ q.user = conn[c].user /\ q.at = conn[c].at
    BY DEF Typed, TypeOK, Connections
  <1> HIDE DEF q
  <1> QED
    BY <1>3, <1>4, <1>5, RecordStep

LEMMA RouteSignalType == ASSUME Typed, NEW c \in Conns, RouteSignal(c) PROVE Typed'
  BY RouteSignalConn DEF RouteSignal, Typed, TypeOK, hub

LEMMA SendSignalType == ASSUME Typed, NEW c \in Conns, SendSignal(c) PROVE Typed'
  <1>1. conn' \in [Conns -> Connections] /\ Attended'
    BY FinishStep DEF SendSignal, At
  <1> QED
    BY <1>1 DEF SendSignal, Typed, TypeOK, hub

LEMMA ChangeMembershipType == ASSUME Typed, NEW u \in Users, ChangeMembership(u) PROVE Typed'
  BY DEF ChangeMembership, Typed, TypeOK, Attended, hub

LEMMA InitTyped == ASSUME Init PROVE Typed
  BY ClosedType DEF Init, Typed, TypeOK, Attended, WellFormed, Closed, JoinStages

LEMMA StepTyped == ASSUME Typed, [Next]_vars PROVE Typed'
  <1>1. CASE UNCHANGED vars
    BY <1>1 DEF vars, hub, Typed, TypeOK, Attended
  <1>2. ASSUME NEW c \in Conns, Connect(c) \/ AnnounceOn(c) PROVE Typed'
    BY <1>2, ConnectType, AnnounceOnType
  <1>3. ASSUME NEW c \in Conns, JoinStep(c) PROVE Typed'
    BY <1>3, VoiceJoinType, SelectMemberType, EvictType, AnnounceEvictedType, InsertType,
       AnnounceJoinedType, SendStateType DEF JoinStep
  <1>4. ASSUME NEW c \in Conns, LeaveStep(c) PROVE Typed'
    BY <1>4, VoiceLeaveType, AnnounceLeftType, DisconnectType, AnnounceOffType,
       LeaveDroppedType, AnnounceDroppedType DEF LeaveStep
  <1>5. ASSUME NEW c \in Conns, RouteSignal(c) \/ SendSignal(c) PROVE Typed'
    BY <1>5, RouteSignalType, SendSignalType
  <1> QED
    BY <1>1, <1>2, <1>3, <1>4, <1>5, ChangeMembershipType DEF Next

\* The two shared maps, the connections and what was published keep their types.
THEOREM TypeCorrect == Spec => []TypeOK
  <1>1. Init => Typed
    BY InitTyped
  <1>2. Typed /\ [Next]_vars => Typed'
    BY StepTyped
  <1>3. Typed => TypeOK
    BY DEF Typed
  <1> QED
    BY <1>1, <1>2, <1>3, PTL DEF Spec

-----------------------------------------------------------------------------
(* The mesh has no holes.                                                   *)

\* u was told that v is in ch, or one of u's connections is about to be told.
Meeting(c, ch, u, v) ==
    /\ conn[c].pc \in {"announceJoined", "sendState"}
    /\ conn[c].user = u /\ conn[c].ch = ch /\ v \in conn[c].others
Met(ch, u, v) == <<u, v>> \in told[ch] \/ \E c \in Conns : Meeting(c, ch, u, v)

MeshInv ==
    \A ch \in Channels : \A u, v \in voice[ch] : u = v \/ Met(ch, u, v) \/ Met(ch, v, u)

\* A step that lets nobody in, forgets only pairs of those it takes out, and leaves
\* the pending answers pending.
LEMMA MeshKept ==
    ASSUME MeshInv,
           \A ch \in Channels : voice'[ch] \subseteq voice[ch],
           \A ch \in Channels : \A u, v \in voice'[ch] : <<u, v>> \in told[ch] => <<u, v>> \in told'[ch],
           \A c \in Conns : conn[c].pc \in {"announceJoined", "sendState"} =>
              /\ conn'[c].pc \in {"announceJoined", "sendState"}
              /\ conn'[c].user = conn[c].user /\ conn'[c].ch = conn[c].ch
              /\ conn'[c].others = conn[c].others
    PROVE  MeshInv'
  <1> SUFFICES ASSUME NEW ch \in Channels, NEW u \in voice'[ch], NEW v \in voice'[ch], u # v
               PROVE  Met(ch, u, v)' \/ Met(ch, v, u)'
    BY DEF MeshInv
  <1>1. \A x, y \in voice'[ch] : Met(ch, x, y) => Met(ch, x, y)'
    BY DEF Met, Meeting
  <1>2. Met(ch, u, v) \/ Met(ch, v, u)
    BY DEF MeshInv
  <1> QED
    BY <1>1, <1>2

\* A step of a connection that has no pending answer, on neither map.
LEMMA MeshQuiet ==
    ASSUME MeshInv, NEW c \in Conns, conn[c].pc \notin {"announceJoined", "sendState"},
           \A d \in Conns \ {c} : conn'[d] = conn[d],
           UNCHANGED <<voice, told>>
    PROVE  MeshInv'
  BY MeshKept

\* A step of a connection that has no pending answer and takes u out of channels.
LEMMA MeshLeaves ==
    ASSUME Typed, MeshInv, NEW c \in Conns, conn[c].pc \notin {"announceJoined", "sendState"},
           \A d \in Conns \ {c} : conn'[d] = conn[d],
           NEW u, NEW chs, voice' = Without(voice, u, chs), Forget(u, chs)
    PROVE  MeshInv'
  <1>1. \A ch \in Channels : voice'[ch] \subseteq voice[ch] /\ (ch \in chs => u \notin voice'[ch])
    BY DEF Without
  <1>2. \A ch \in Channels : \A x, y \in voice'[ch] : <<x, y>> \in told[ch] => <<x, y>> \in told'[ch]
    BY <1>1 DEF Forget
  <1> QED
    BY <1>1, <1>2, MeshKept

LEMMA MeshInsert == ASSUME Typed, MeshInv, NEW c \in Conns, Insert(c) PROVE MeshInv'
  <1> DEFINE w == conn[c].user
             k == conn[c].ch
  <1>1. /\ conn'[c].pc \in {"announceJoined", "sendState"}
        /\ conn'[c].user = w /\ conn'[c].ch = k /\ conn'[c].others = voice[k] \ {w}
    <2>1. conn[c] \in Connections
      BY DEF Typed, TypeOK
    <2>2. conn'[c] = [conn[c] EXCEPT !.pc = IF w \in voice[k] THEN "sendState" ELSE "announceJoined",
                                     !.others = Others(k, w)]
      BY InsertConn
    <2> QED
      BY <2>1, <2>2 DEF Others, Connections
  <1>2. /\ \A d \in Conns \ {c} : conn'[d] = conn[d]
        /\ voice' = [voice EXCEPT ![k] = @ \cup {w}]
        /\ told' = told /\ conn[c].pc = "insert" /\ k \in Channels
    BY InsertConn DEF Insert, At
  <1> SUFFICES ASSUME NEW ch \in Channels, NEW u \in voice'[ch], NEW v \in voice'[ch], u # v
               PROVE  Met(ch, u, v)' \/ Met(ch, v, u)'
    BY DEF MeshInv
  <1>3. \A x, y : Met(ch, x, y) => Met(ch, x, y)'
    BY <1>2 DEF Met, Meeting
  <1>4. CASE u \in voice[ch] /\ v \in voice[ch]
    BY <1>3, <1>4 DEF MeshInv
  <1>5. CASE ch = k /\ u = w /\ v \in voice[k]
    <2>1. Meeting(c, ch, u, v)'
      BY <1>1, <1>5 DEF Meeting
    <2> QED
      BY <2>1 DEF Met
  <1>6. CASE ch = k /\ v = w /\ u \in voice[k]
    <2>1. Meeting(c, ch, v, u)'
      BY <1>1, <1>6 DEF Meeting
    <2> QED
      BY <2>1 DEF Met
  <1>7. (u \in voice[ch] \/ (ch = k /\ u = w)) /\ (v \in voice[ch] \/ (ch = k /\ v = w))
    BY <1>2 DEF Typed, TypeOK
  <1> QED
    BY <1>4, <1>5, <1>6, <1>7

LEMMA MeshSendState == ASSUME Typed, MeshInv, NEW c \in Conns, SendState(c) PROVE MeshInv'
  <1>1. /\ \A d \in Conns \ {c} : conn'[d] = conn[d]
        /\ told' = [told EXCEPT ![conn[c].ch] = @ \cup ({conn[c].user} \X conn[c].others)]
        /\ voice' = voice
    BY SendStateConn DEF SendState
  <1> SUFFICES ASSUME NEW ch \in Channels, NEW u \in voice[ch], NEW v \in voice[ch], u # v
               PROVE  Met(ch, u, v)' \/ Met(ch, v, u)'
    BY <1>1 DEF MeshInv
  <1>2. ASSUME NEW x, NEW y, Met(ch, x, y) PROVE Met(ch, x, y)'
    <2>1. CASE <<x, y>> \in told[ch]
      BY <1>1, <2>1 DEF Met, Typed, TypeOK
    <2>2. CASE Meeting(c, ch, x, y)
      <3>1. <<x, y>> \in told'[ch]
        BY <1>1, <2>2 DEF Meeting, Typed, TypeOK
      <3> QED
        BY <3>1 DEF Met
    <2>3. ASSUME NEW d \in Conns \ {c}, Meeting(d, ch, x, y) PROVE Met(ch, x, y)'
      BY <1>1, <2>3 DEF Met, Meeting
    <2> QED
      BY <1>2, <2>1, <2>2, <2>3 DEF Met
  <1> QED
    BY <1>2 DEF MeshInv

LEMMA MeshStep == ASSUME Typed, MeshInv, [Next]_vars PROVE MeshInv'
  <1>1. CASE UNCHANGED vars
    BY <1>1, MeshKept DEF vars
  <1>2. ASSUME NEW c \in Conns, Connect(c) PROVE MeshInv'
    <2>1. \A d \in Conns \ {c} : conn'[d] = conn[d]
      BY <1>2 DEF Connect, Typed, TypeOK
    <2> QED
      BY <1>2, <2>1, MeshQuiet DEF Connect, At
  <1>3. ASSUME NEW c \in Conns, AnnounceOn(c) PROVE MeshInv'
    BY <1>3, GotoStep, MeshQuiet DEF AnnounceOn, At, Stages, JoinStages
  <1>4. ASSUME NEW c \in Conns, VoiceJoin(c) PROVE MeshInv'
    <2>1. \A d \in Conns \ {c} : conn'[d] = conn[d]
      BY <1>4 DEF VoiceJoin, Typed, TypeOK
    <2> QED
      BY <1>4, <2>1, MeshQuiet DEF VoiceJoin, At
  <1>5. ASSUME NEW c \in Conns, SelectMember(c) PROVE MeshInv'
    BY <1>5, GotoStep, FinishStep, MeshQuiet DEF SelectMember, At, Stages, JoinStages
  <1>6. ASSUME NEW c \in Conns, Evict(c) PROVE MeshInv'
    <2>1. \A d \in Conns \ {c} : conn'[d] = conn[d]
      BY <1>6 DEF Evict, Goto, Typed, TypeOK
    <2> QED
      BY <1>6, <2>1, MeshLeaves DEF Evict, At
  <1>7. ASSUME NEW c \in Conns, AnnounceEvicted(c) PROVE MeshInv'
    BY <1>7, GotoStep, MeshQuiet DEF AnnounceEvicted, At, Stages, JoinStages
  <1>8. ASSUME NEW c \in Conns, AnnounceJoined(c) PROVE MeshInv'
    <2>1. /\ conn'[c] = [conn[c] EXCEPT !.pc = "sendState"]
          /\ \A d \in Conns \ {c} : conn'[d] = conn[d]
      BY <1>8, GotoStep DEF AnnounceJoined, At, Stages, JoinStages
    <2>2. /\ conn'[c].pc = "sendState" /\ conn'[c].user = conn[c].user
          /\ conn'[c].ch = conn[c].ch /\ conn'[c].others = conn[c].others
      BY <2>1 DEF Typed, TypeOK, Connections
    <2>3. UNCHANGED <<voice, told>>
      BY <1>8 DEF AnnounceJoined
    <2> QED
      BY <2>1, <2>2, <2>3, MeshKept
  <1>9. ASSUME NEW c \in Conns, VoiceLeave(c) \/ LeaveDropped(c) PROVE MeshInv'
    <2>1. \A d \in Conns \ {c} : conn'[d] = conn[d]
      BY <1>9 DEF VoiceLeave, LeaveDropped, Remove, Typed, TypeOK
    <2> QED
      BY <1>9, <2>1, MeshLeaves DEF VoiceLeave, LeaveDropped, Remove, At
  <1>10. ASSUME NEW c \in Conns, AnnounceLeft(c) \/ SendSignal(c) PROVE MeshInv'
    BY <1>10, FinishStep, MeshQuiet DEF AnnounceLeft, SendSignal, At
  <1>11. ASSUME NEW c \in Conns, Disconnect(c) PROVE MeshInv'
    BY <1>11, GotoStep, MeshQuiet DEF Disconnect, At, Stages, JoinStages
  <1>12. ASSUME NEW c \in Conns, AnnounceOff(c) PROVE MeshInv'
    BY <1>12, AnnounceOffConn, MeshQuiet DEF AnnounceOff, At
  <1>13. ASSUME NEW c \in Conns, AnnounceDropped(c) PROVE MeshInv'
    BY <1>13, CloseStep, MeshQuiet DEF AnnounceDropped, At
  <1>14. ASSUME NEW c \in Conns, RouteSignal(c) PROVE MeshInv'
    BY <1>14, RouteSignalConn, MeshQuiet DEF RouteSignal, At
  <1>15. ASSUME NEW u \in Users, ChangeMembership(u) PROVE MeshInv'
    BY <1>15, MeshKept DEF ChangeMembership
  <1> QED
    BY <1>1, <1>2, <1>3, <1>4, <1>5, <1>6, <1>7, <1>8, <1>9, <1>10, <1>11, <1>12, <1>13, <1>14,
       <1>15, MeshInsert, MeshSendState DEF Next, JoinStep, LeaveStep

\* Of two occupants of a channel one was told of the other: joins, leaves, evictions
\* and the ends of connections, of any number of devices, leave no hole in the mesh.
THEOREM MeshHasNoHoles == Spec => []MeshComplete
  <1>1. Init => Typed /\ MeshInv
    BY InitTyped DEF Init, MeshInv
  <1>2. Typed /\ MeshInv /\ [Next]_vars => Typed' /\ MeshInv'
    BY StepTyped, MeshStep
  <1>3. MeshInv => MeshComplete
    BY DEF MeshInv, MeshComplete, Quiet, Met, Meeting
  <1> QED
    BY <1>1, <1>2, <1>3, PTL DEF Spec

-----------------------------------------------------------------------------
(* Nothing is left behind by the last connection of a user.                 *)

\* Stages in which a connection vouches for the user being online, and for the
\* clients having been told so.
Ended == {"closed", "leaveDropped", "announceDropped"}
KeepsOnline(c, u) == conn[c].user = u /\ conn[c].pc \notin Ended \cup {"announceOff"}
KeepsAnnounced(c, u) == conn[c].user = u /\ conn[c].pc \notin Ended \cup {"announceOn"}

\* Connection c, when it moves on or ends, takes u out of ch: it is in ch and not on
\* its way out, or has just entered.
Evicted == {"announceEvicted", "insert", "announceJoined", "sendState"}
Occupies(c, ch, u) ==
    /\ conn[c].user = u /\ conn[c].pc # "closed"
    /\ \/ conn[c].at = ch /\ (conn[c].pc \in Evicted => conn[c].ch = ch)
       \/ conn[c].ch = ch /\ conn[c].pc \in {"announceJoined", "sendState"}

OnlineInv == \A u \in online : \E c \in Conns : KeepsOnline(c, u)
AnnouncedInv == \A u \in announced : \E c \in Conns : KeepsAnnounced(c, u)
OccupantInv == \A ch \in Channels : \A u \in voice[ch] : \E c \in Conns : Occupies(c, ch, u)

\* A step of connection c that puts nobody new anywhere keeps the three when c still
\* vouches for whom it did, unless they are out.
LEMMA GhostKept ==
    ASSUME NEW c \in Conns, \A d \in Conns \ {c} : conn'[d] = conn[d],
           OnlineInv, AnnouncedInv, OccupantInv,
           \A u \in online' : u \in online /\ (KeepsOnline(c, u) => KeepsOnline(c, u)'),
           \A u \in announced' : u \in announced /\ (KeepsAnnounced(c, u) => KeepsAnnounced(c, u)'),
           \A ch \in Channels : \A u \in voice'[ch] :
              u \in voice[ch] /\ (Occupies(c, ch, u) => Occupies(c, ch, u)')
    PROVE  OnlineInv' /\ AnnouncedInv' /\ OccupantInv'
  <1>1. OnlineInv'
    BY DEF OnlineInv, KeepsOnline
  <1>2. AnnouncedInv'
    BY DEF AnnouncedInv, KeepsAnnounced
  <1>3. OccupantInv'
    BY DEF OccupantInv, Occupies
  <1> QED
    BY <1>1, <1>2, <1>3

\* The common case: c keeps its user and its channel, and nothing is added to a map.
LEMMA GhostMoves ==
    ASSUME Typed, NEW c \in Conns, \A d \in Conns \ {c} : conn'[d] = conn[d],
           OnlineInv, AnnouncedInv, OccupantInv,
           online' = online, announced' = announced, voice' = voice,
           conn[c].pc \notin Ended \cup Evicted \cup {"announceOff", "announceOn"},
           conn'[c].pc \notin Ended \cup Evicted \cup {"announceOff", "announceOn"},
           conn'[c].user = conn[c].user, conn'[c].at = conn[c].at
    PROVE  OnlineInv' /\ AnnouncedInv' /\ OccupantInv'
  <1>1. \A u : KeepsOnline(c, u) => KeepsOnline(c, u)'
    BY DEF KeepsOnline
  <1>2. \A u : KeepsAnnounced(c, u) => KeepsAnnounced(c, u)'
    BY DEF KeepsAnnounced
  <1>3. \A ch, u : Occupies(c, ch, u) => Occupies(c, ch, u)'
    BY DEF Occupies, Ended, Evicted
  <1> QED
    BY <1>1, <1>2, <1>3, GhostKept

GhostInv == OnlineInv /\ AnnouncedInv /\ OccupantInv

LEMMA ConnectGhost == ASSUME Typed, GhostInv, NEW c \in Conns, Connect(c) PROVE GhostInv'
  <1>1. PICK w \in Users :
           /\ conn' = [conn EXCEPT ![c] = [Closed EXCEPT !.pc = IF w \in online THEN "open" ELSE "announceOn",
                                                         !.user = w]]
           /\ online' = online \cup {w}
    BY DEF Connect
  <1>2. /\ conn'[c].user = w /\ conn'[c].pc \in {"open", "announceOn"}
        /\ \A d \in Conns \ {c} : conn'[d] = conn[d]
        /\ conn[c].pc = "closed" /\ announced' = announced /\ voice' = voice
    BY <1>1 DEF Connect, At, Closed, Typed, TypeOK, hub
  <1>3. OnlineInv'
    BY <1>1, <1>2 DEF GhostInv, OnlineInv, KeepsOnline, Ended
  <1>4. AnnouncedInv'
    BY <1>2 DEF GhostInv, AnnouncedInv, KeepsAnnounced, Ended
  <1>5. OccupantInv'
    BY <1>2 DEF GhostInv, OccupantInv, Occupies
  <1> QED
    BY <1>3, <1>4, <1>5 DEF GhostInv

LEMMA AnnounceOnGhost == ASSUME Typed, GhostInv, NEW c \in Conns, AnnounceOn(c) PROVE GhostInv'
  <1>1. /\ conn'[c] = [conn[c] EXCEPT !.pc = "open"]
        /\ \A d \in Conns \ {c} : conn'[d] = conn[d]
    BY GotoStep DEF AnnounceOn, At, Stages, JoinStages
  <1>2. /\ conn'[c].pc = "open" /\ conn'[c].user = conn[c].user
        /\ conn'[c].at = conn[c].at
    BY <1>1 DEF Typed, TypeOK, Connections
  <1>3. /\ conn[c].pc = "announceOn" /\ online' = online /\ voice' = voice
        /\ announced' = announced \cup {conn[c].user}
    BY DEF AnnounceOn, At
  <1>4. OnlineInv'
    <2>1. \A u : \A d \in Conns : KeepsOnline(d, u) => KeepsOnline(d, u)'
      BY <1>1, <1>2 DEF KeepsOnline, Ended
    <2> QED
      BY <1>3, <2>1 DEF GhostInv, OnlineInv
  <1>5. AnnouncedInv'
    <2>1. \A u : \A d \in Conns : KeepsAnnounced(d, u) => KeepsAnnounced(d, u)'
      BY <1>1, <1>2 DEF KeepsAnnounced, Ended
    <2>2. \A u : u = conn[c].user => KeepsAnnounced(c, u)'
      BY <1>2 DEF KeepsAnnounced, Ended
    <2> QED
      BY <1>3, <2>1, <2>2 DEF GhostInv, AnnouncedInv
  <1>7. OccupantInv'
    <2>1. \A ch, u : \A d \in Conns : Occupies(d, ch, u) => Occupies(d, ch, u)'
      BY <1>1, <1>2, <1>3 DEF Occupies, Evicted
    <2> QED
      BY <1>3, <2>1 DEF GhostInv, OccupantInv
  <1> QED
    BY <1>4, <1>5, <1>7 DEF GhostInv

LEMMA VoiceJoinGhost == ASSUME Typed, GhostInv, NEW c \in Conns, VoiceJoin(c) PROVE GhostInv'
  <1>1. PICK ch \in Channels : conn' = [conn EXCEPT ![c].pc = "member", ![c].ch = ch]
    BY DEF VoiceJoin
  <1>2. /\ conn'[c].pc = "member" /\ conn'[c].user = conn[c].user /\ conn'[c].at = conn[c].at
        /\ \A d \in Conns \ {c} : conn'[d] = conn[d]
    BY <1>1 DEF Typed, TypeOK, Connections
  <1> QED
    BY <1>2, GhostMoves DEF VoiceJoin, At, GhostInv, hub, Ended, Evicted

LEMMA FinishGhost ==
    ASSUME Typed, GhostInv, NEW c \in Conns, Finish(c),
           conn[c].pc \in {"member", "announceLeft", "sendSignal"},
           UNCHANGED <<online, announced, voice>>
    PROVE  GhostInv'
  BY FinishStep, DoneType, GhostMoves DEF GhostInv, Ended, Evicted

LEMMA SelectMemberGhost == ASSUME Typed, GhostInv, NEW c \in Conns, SelectMember(c) PROVE GhostInv'
  <1>1. conn[c].pc = "member" /\ UNCHANGED <<online, announced, voice>>
    BY DEF SelectMember, At, hub
  <1>2. CASE Finish(c)
    BY <1>1, <1>2, FinishGhost
  <1>3. CASE Goto(c, "evict")
    <2>1. /\ conn'[c] = [conn[c] EXCEPT !.pc = "evict"]
          /\ \A d \in Conns \ {c} : conn'[d] = conn[d]
      BY <1>1, <1>3, GotoStep DEF Stages, JoinStages
    <2>2. conn'[c].pc = "evict" /\ conn'[c].user = conn[c].user /\ conn'[c].at = conn[c].at
      BY <2>1 DEF Typed, TypeOK, Connections
    <2> QED
      BY <1>1, <2>1, <2>2, GhostMoves DEF GhostInv, Ended, Evicted
  <1> QED
    BY <1>2, <1>3 DEF SelectMember

\* What the first lock section leaves of the joining connection.
LEMMA EvictConn ==
    ASSUME Typed, NEW c \in Conns, Evict(c)
    PROVE  /\ conn'[c].pc \in {"insert", "announceEvicted"}
           /\ conn'[c].user = conn[c].user /\ conn'[c].at = conn[c].at /\ conn'[c].ch = conn[c].ch
           /\ \A d \in Conns \ {c} : conn'[d] = conn[d]
  <1> DEFINE left == Elsewhere(conn[c].user, conn[c].ch)
  <1>1. CASE left = {}
    <2>1. conn' = [conn EXCEPT ![c].pc = "insert"]
      BY <1>1 DEF Evict, Goto
    <2> QED
      BY <2>1 DEF Typed, TypeOK, Connections
  <1>2. CASE left # {}
    <2>1. PICK k \in left : conn' = [conn EXCEPT ![c].pc = "announceEvicted", ![c].evicted = k]
      BY <1>2 DEF Evict
    <2> QED
      BY <2>1 DEF Typed, TypeOK, Connections
  <1> QED
    BY <1>1, <1>2

LEMMA EvictGhost == ASSUME Typed, GhostInv, NEW c \in Conns, Evict(c) PROVE GhostInv'
  <1> DEFINE w == conn[c].user
             k == conn[c].ch
  <1>1. /\ conn[c].pc = "evict" /\ online' = online /\ announced' = announced
        /\ voice' = Without(voice, w, Elsewhere(w, k))
    BY DEF Evict, At, hub
  <1>0. /\ conn'[c].pc \in {"insert", "announceEvicted"}
        /\ conn'[c].user = w /\ conn'[c].at = conn[c].at /\ conn'[c].ch = k
        /\ \A d \in Conns \ {c} : conn'[d] = conn[d]
    BY EvictConn
  <1>2. \A u : KeepsOnline(c, u) => KeepsOnline(c, u)'
    BY <1>0 DEF KeepsOnline, Ended
  <1>3. \A u : KeepsAnnounced(c, u) => KeepsAnnounced(c, u)'
    BY <1>0 DEF KeepsAnnounced, Ended
  <1>4. \A ch \in Channels : voice'[ch] \subseteq voice[ch] /\ (ch # k => w \notin voice'[ch])
    BY <1>1 DEF Without, Elsewhere
  <1>5. \A ch \in Channels : \A u \in voice'[ch] : Occupies(c, ch, u) => Occupies(c, ch, u)'
    BY <1>0, <1>1, <1>4 DEF Occupies, Evicted
  <1> QED
    BY <1>0, <1>1, <1>2, <1>3, <1>4, <1>5, GhostKept DEF GhostInv

LEMMA AnnounceEvictedGhost ==
    ASSUME Typed, GhostInv, NEW c \in Conns, AnnounceEvicted(c) PROVE GhostInv'
  <1>1. /\ conn'[c] = [conn[c] EXCEPT !.pc = "insert"]
        /\ \A d \in Conns \ {c} : conn'[d] = conn[d]
    BY GotoStep DEF AnnounceEvicted, At, Stages, JoinStages
  <1>2. /\ conn'[c].pc = "insert" /\ conn'[c].user = conn[c].user
        /\ conn'[c].at = conn[c].at /\ conn'[c].ch = conn[c].ch
    BY <1>1 DEF Typed, TypeOK, Connections
  <1>3. conn[c].pc = "announceEvicted" /\ UNCHANGED <<online, announced, voice>>
    BY DEF AnnounceEvicted, At
  <1>4. \A u : /\ KeepsOnline(c, u) => KeepsOnline(c, u)'
               /\ KeepsAnnounced(c, u) => KeepsAnnounced(c, u)'
    BY <1>2 DEF KeepsOnline, KeepsAnnounced, Ended
  <1>5. \A ch, u : Occupies(c, ch, u) => Occupies(c, ch, u)'
    BY <1>2, <1>3 DEF Occupies, Evicted
  <1> QED
    BY <1>1, <1>3, <1>4, <1>5, GhostKept DEF GhostInv

LEMMA InsertGhost == ASSUME Typed, GhostInv, NEW c \in Conns, Insert(c) PROVE GhostInv'
  <1> DEFINE w == conn[c].user
             k == conn[c].ch
  <1>1. /\ conn'[c].pc \in {"announceJoined", "sendState"}
        /\ conn'[c].user = w /\ conn'[c].ch = k /\ conn'[c].at = conn[c].at
    <2>1. conn[c] \in Connections
      BY DEF Typed, TypeOK
    <2>2. conn'[c] = [conn[c] EXCEPT !.pc = IF w \in voice[k] THEN "sendState" ELSE "announceJoined",
                                     !.others = Others(k, w)]
      BY InsertConn
    <2> QED
      BY <2>1, <2>2 DEF Connections
  <1>2. /\ \A d \in Conns \ {c} : conn'[d] = conn[d]
        /\ voice' = [voice EXCEPT ![k] = @ \cup {w}]
        /\ conn[c].pc = "insert" /\ online' = online /\ announced' = announced
    BY InsertConn DEF Insert, At, hub
  <1>3. OnlineInv'
    BY <1>1, <1>2 DEF GhostInv, OnlineInv, KeepsOnline, Ended
  <1>4. AnnouncedInv'
    BY <1>1, <1>2 DEF GhostInv, AnnouncedInv, KeepsAnnounced, Ended
  <1>5. OccupantInv'
    <2> SUFFICES ASSUME NEW ch \in Channels, NEW u \in voice'[ch]
                 PROVE  \E d \in Conns : Occupies(d, ch, u)'
      BY DEF OccupantInv
    <2>1. CASE ch = k /\ u = w
      <3>1. Occupies(c, ch, u)'
        BY <1>1, <2>1 DEF Occupies
      <3> QED
        BY <3>1
    <2>2. CASE u \in voice[ch]
      <3>1. PICK d \in Conns : Occupies(d, ch, u)
        BY <2>2 DEF GhostInv, OccupantInv
      <3>2. Occupies(d, ch, u)'
        BY <1>1, <1>2, <3>1 DEF Occupies, Evicted
      <3> QED
        BY <3>2
    <2> QED
      BY <1>2, <2>1, <2>2 DEF Typed, TypeOK
  <1> QED
    BY <1>3, <1>4, <1>5 DEF GhostInv

LEMMA AnnounceJoinedGhost ==
    ASSUME Typed, GhostInv, NEW c \in Conns, AnnounceJoined(c) PROVE GhostInv'
  <1>1. /\ conn'[c] = [conn[c] EXCEPT !.pc = "sendState"]
        /\ \A d \in Conns \ {c} : conn'[d] = conn[d]
    BY GotoStep DEF AnnounceJoined, At, Stages, JoinStages
  <1>2. /\ conn'[c].pc = "sendState" /\ conn'[c].user = conn[c].user
        /\ conn'[c].at = conn[c].at /\ conn'[c].ch = conn[c].ch
    BY <1>1 DEF Typed, TypeOK, Connections
  <1>3. conn[c].pc = "announceJoined" /\ UNCHANGED <<online, announced, voice>>
    BY DEF AnnounceJoined, At
  <1>4. \A u : /\ KeepsOnline(c, u) => KeepsOnline(c, u)'
               /\ KeepsAnnounced(c, u) => KeepsAnnounced(c, u)'
    BY <1>2 DEF KeepsOnline, KeepsAnnounced, Ended
  <1>5. \A ch, u : Occupies(c, ch, u) => Occupies(c, ch, u)'
    BY <1>2, <1>3 DEF Occupies, Evicted
  <1> QED
    BY <1>1, <1>3, <1>4, <1>5, GhostKept DEF GhostInv

LEMMA SendStateGhost == ASSUME Typed, GhostInv, NEW c \in Conns, SendState(c) PROVE GhostInv'
  <1>1. conn[c].pc = "sendState" /\ UNCHANGED <<online, announced, voice>>
    BY DEF SendState, At, hub
  <1>2. Done(c) \in Connections /\ Done(c).pc = "open" /\ Done(c).user = conn[c].user
    BY <1>1, DoneType
  <1>3. /\ conn'[c].pc = "open" /\ conn'[c].user = conn[c].user /\ conn'[c].at = conn[c].ch
        /\ \A d \in Conns \ {c} : conn'[d] = conn[d]
    BY <1>2, SendStateConn DEF Connections
  <1>4. \A u : /\ KeepsOnline(c, u) => KeepsOnline(c, u)'
               /\ KeepsAnnounced(c, u) => KeepsAnnounced(c, u)'
    BY <1>3 DEF KeepsOnline, KeepsAnnounced, Ended
  <1>5. \A ch, u : Occupies(c, ch, u) => Occupies(c, ch, u)'
    BY <1>1, <1>3 DEF Occupies, Evicted
  <1> QED
    BY <1>1, <1>3, <1>4, <1>5, GhostKept DEF GhostInv

\* The lock section of voice_leave: c leaves its channel, to announce it or, when the
\* user was not there any more, for good.
LEMMA RemoveGhost ==
    ASSUME Typed, GhostInv, NEW c \in Conns,
           conn[c].pc \in {"open", "leaveDropped"},
           UNCHANGED <<online, announced>>,
           \A d \in Conns \ {c} : conn'[d] = conn[d],
           voice' = Without(voice, conn[c].user, {conn[c].at}),
           conn[c].pc = "open" => conn'[c].user = conn[c].user /\ conn'[c].pc \in {"open", "announceLeft"}
    PROVE  GhostInv'
  <1>1. \A u : /\ KeepsOnline(c, u) => KeepsOnline(c, u)'
               /\ KeepsAnnounced(c, u) => KeepsAnnounced(c, u)'
    BY DEF KeepsOnline, KeepsAnnounced, Ended
  <1>2. \A ch \in Channels : /\ voice'[ch] \subseteq voice[ch]
                             /\ ch = conn[c].at => conn[c].user \notin voice'[ch]
    BY DEF Without
  <1>3. \A ch \in Channels : \A u \in voice'[ch] : ~Occupies(c, ch, u)
    BY <1>2 DEF Occupies
  <1> QED
    BY <1>1, <1>2, <1>3, GhostKept DEF GhostInv

LEMMA VoiceLeaveGhost == ASSUME Typed, GhostInv, NEW c \in Conns, VoiceLeave(c) PROVE GhostInv'
  <1>1. conn[c].pc = "open" /\ UNCHANGED <<online, announced>>
    BY DEF VoiceLeave, At, hub
  <1>2. Done(c) \in Connections /\ Done(c).pc = "open" /\ Done(c).user = conn[c].user
    BY <1>1, DoneType
  <1>3. voice' = Without(voice, conn[c].user, {conn[c].at})
    BY DEF VoiceLeave, Remove
  <1>4. \A d \in Conns \ {c} : conn'[d] = conn[d]
    BY DEF VoiceLeave, Remove, Typed, TypeOK
  <1>5. conn'[c].user = conn[c].user /\ conn'[c].pc \in {"open", "announceLeft"}
    <2>1. \/ conn'[c] = [conn[c] EXCEPT !.at = None, !.ch = conn[c].at, !.pc = "announceLeft"]
          \/ conn'[c] = [Done(c) EXCEPT !.at = None]
      BY DEF VoiceLeave, Remove, Typed, TypeOK
    <2>2. conn[c] \in Connections
      BY DEF Typed, TypeOK
    <2> QED
      BY <1>2, <2>1, <2>2 DEF Connections
  <1> QED
    BY <1>1, <1>3, <1>4, <1>5, RemoveGhost

LEMMA LeaveDroppedGhost == ASSUME Typed, GhostInv, NEW c \in Conns, LeaveDropped(c) PROVE GhostInv'
  <1>1. conn[c].pc = "leaveDropped" /\ UNCHANGED <<online, announced>>
    BY DEF LeaveDropped, At, hub
  <1>2. /\ voice' = Without(voice, conn[c].user, {conn[c].at})
        /\ \A d \in Conns \ {c} : conn'[d] = conn[d]
    BY DEF LeaveDropped, Remove, Typed, TypeOK
  <1> QED
    BY <1>1, <1>2, RemoveGhost

LEMMA DisconnectGhost == ASSUME Typed, GhostInv, NEW c \in Conns, Disconnect(c) PROVE GhostInv'
  <1>1. /\ conn'[c] = [conn[c] EXCEPT !.pc = "announceOff"]
        /\ \A d \in Conns \ {c} : conn'[d] = conn[d]
    BY GotoStep DEF Disconnect, At, Stages, JoinStages
  <1>2. /\ conn'[c].pc = "announceOff" /\ conn'[c].user = conn[c].user
        /\ conn'[c].at = conn[c].at
    BY <1>1 DEF Typed, TypeOK, Connections
  <1>3. /\ conn[c].pc = "open" /\ online' = online \ {conn[c].user}
        /\ UNCHANGED <<announced, voice>>
    BY DEF Disconnect, At, hub
  <1>4. \A u \in online' : ~KeepsOnline(c, u)
    BY <1>3 DEF KeepsOnline
  <1>5. \A u : KeepsAnnounced(c, u) => KeepsAnnounced(c, u)'
    BY <1>2 DEF KeepsAnnounced, Ended
  <1>6. \A ch, u : Occupies(c, ch, u) => Occupies(c, ch, u)'
    BY <1>2, <1>3 DEF Occupies, Evicted
  <1> QED
    BY <1>1, <1>3, <1>4, <1>5, <1>6, GhostKept DEF GhostInv

LEMMA AnnounceOffGhost == ASSUME Typed, GhostInv, NEW c \in Conns, AnnounceOff(c) PROVE GhostInv'
  <1>1. /\ conn[c].pc = "announceOff" /\ announced' = announced \ {conn[c].user}
        /\ UNCHANGED <<online, voice>>
    BY DEF AnnounceOff, At
  <1>2. \A u : ~KeepsOnline(c, u)
    BY <1>1 DEF KeepsOnline
  <1>3. \A u \in announced' : ~KeepsAnnounced(c, u)
    BY <1>1 DEF KeepsAnnounced
  <1>4. \A u : \A ch \in Channels : Occupies(c, ch, u) => Occupies(c, ch, u)'
    <2>1. CASE conn[c].at = None
      BY <1>1, <2>1, NoneAssumption DEF Occupies
    <2>2. CASE conn[c].at # None
      <3>1. conn'[c] = [conn[c] EXCEPT !.pc = "leaveDropped"]
        BY <2>2, AnnounceOffConn
      <3>2. /\ conn'[c].pc = "leaveDropped" /\ conn'[c].user = conn[c].user
            /\ conn'[c].at = conn[c].at
        BY <3>1 DEF Typed, TypeOK, Connections
      <3> QED
        BY <1>1, <3>2 DEF Occupies, Evicted
    <2> QED
      BY <2>1, <2>2
  <1>5. \A d \in Conns \ {c} : conn'[d] = conn[d]
    BY AnnounceOffConn
  <1> QED
    BY <1>1, <1>2, <1>3, <1>4, <1>5, GhostKept DEF GhostInv

LEMMA AnnounceDroppedGhost ==
    ASSUME Typed, GhostInv, NEW c \in Conns, AnnounceDropped(c) PROVE GhostInv'
  <1>1. conn[c].pc = "announceDropped" /\ UNCHANGED <<online, announced, voice>>
    BY DEF AnnounceDropped, At
  <1>2. \A d \in Conns \ {c} : conn'[d] = conn[d]
    BY CloseStep DEF AnnounceDropped
  <1>3. \A u : ~KeepsOnline(c, u) /\ ~KeepsAnnounced(c, u)
    BY <1>1 DEF KeepsOnline, KeepsAnnounced, Ended
  <1>4. \A u : \A ch \in Channels : ~Occupies(c, ch, u)
    <2>1. conn[c].at = None
      BY <1>1 DEF Typed, Attended, WellFormed
    <2> QED
      BY <1>1, <2>1, NoneAssumption DEF Occupies
  <1> QED
    BY <1>1, <1>2, <1>3, <1>4, GhostKept DEF GhostInv

LEMMA RouteSignalGhost == ASSUME Typed, GhostInv, NEW c \in Conns, RouteSignal(c) PROVE GhostInv'
  BY RouteSignalConn, GhostMoves DEF RouteSignal, At, GhostInv, hub, Ended, Evicted

LEMMA GhostStep == ASSUME Typed, GhostInv, [Next]_vars PROVE GhostInv'
  <1>1. CASE UNCHANGED vars
    BY <1>1 DEF vars, hub, GhostInv, OnlineInv, AnnouncedInv, OccupantInv, KeepsOnline,
                KeepsAnnounced, Occupies
  <1>2. ASSUME NEW c \in Conns, Connect(c) \/ AnnounceOn(c) PROVE GhostInv'
    BY <1>2, ConnectGhost, AnnounceOnGhost
  <1>3. ASSUME NEW c \in Conns, JoinStep(c) PROVE GhostInv'
    BY <1>3, VoiceJoinGhost, SelectMemberGhost, EvictGhost, AnnounceEvictedGhost, InsertGhost,
       AnnounceJoinedGhost, SendStateGhost DEF JoinStep
  <1>4. ASSUME NEW c \in Conns, AnnounceLeft(c) PROVE GhostInv'
    BY <1>4, FinishGhost DEF AnnounceLeft, At
  <1>5. ASSUME NEW c \in Conns, LeaveStep(c) PROVE GhostInv'
    BY <1>4, <1>5, VoiceLeaveGhost, DisconnectGhost, AnnounceOffGhost, LeaveDroppedGhost,
       AnnounceDroppedGhost DEF LeaveStep
  <1>6. ASSUME NEW c \in Conns, SendSignal(c) PROVE GhostInv'
    BY <1>6, FinishGhost DEF SendSignal, At, hub
  <1>7. ASSUME NEW u \in Users, ChangeMembership(u) PROVE GhostInv'
    BY <1>7 DEF ChangeMembership, hub, GhostInv, OnlineInv, AnnouncedInv, OccupantInv, KeepsOnline,
                KeepsAnnounced, Occupies
  <1> QED
    BY <1>1, <1>2, <1>3, <1>5, <1>6, <1>7, RouteSignalGhost DEF Next

\* However many connections a user has and however they race, after the last one has
\* ended the user is neither online, for the server or the clients, nor in a channel.
THEOREM NothingLeftBehind == Spec => []NoGhosts
  <1>1. Init => Typed /\ GhostInv
    BY InitTyped DEF Init, GhostInv, OnlineInv, AnnouncedInv, OccupantInv
  <1>2. Typed /\ GhostInv /\ [Next]_vars => Typed' /\ GhostInv'
    BY StepTyped, GhostStep
  <1>3. GhostInv => NoGhosts
    BY DEF GhostInv, OnlineInv, AnnouncedInv, OccupantInv, NoGhosts, ConnsOf, Open,
           KeepsOnline, KeepsAnnounced, Occupies, Ended
  <1> QED
    BY <1>1, <1>2, <1>3, PTL DEF Spec

-----------------------------------------------------------------------------
(* Users on one device.  Where such a user is, for the server and for the   *)
(* clients, follows from the stage of their only connection; the steps of   *)
(* the connections of other users change nothing of it.                     *)

Occupied(u) == {ch \in Channels : u \in voice[ch]}
Shown(u) == {ch \in Channels : u \in heard[ch]}
Own(q) == {q.at} \ {None}

\* Stages between two messages, or before the message has changed anything.
RestStages == {"announceOn", "open", "member", "evict", "sendSignal", "announceOff", "leaveDropped"}

FitsPresence(q, u) ==
    /\ u \in online <=> q.pc \notin {"announceOff", "leaveDropped", "announceDropped"}
    /\ u \in announced <=> q.pc \notin {"announceOn", "leaveDropped", "announceDropped"}

FitsVoice(q, u) ==
    /\ q.pc = "announceOn" => q.at = None
    /\ q.pc = "leaveDropped" => q.at # None
    /\ q.pc = "announceLeft" => q.at = None
    /\ q.pc \in RestStages => Occupied(u) = Own(q) /\ Shown(u) = Own(q)
    /\ q.pc = "announceEvicted" => Occupied(u) = {} /\ Shown(u) = {q.evicted}
    /\ q.pc = "insert" => Occupied(u) \subseteq {q.ch} /\ Shown(u) = Occupied(u)
    /\ q.pc = "announceJoined" => Occupied(u) = {q.ch} /\ Shown(u) = {}
    /\ q.pc = "sendState" => Occupied(u) = {q.ch} /\ Shown(u) = {q.ch}
    /\ q.pc \in {"announceLeft", "announceDropped"} => Occupied(u) = {} /\ Shown(u) = {q.ch}

Away(u) == u \notin online /\ u \notin announced /\ Occupied(u) = {} /\ Shown(u) = {}

UserInv(u) ==
    /\ \A c, d \in ConnsOf(u) : c = d
    /\ ConnsOf(u) = {} => Away(u)
    /\ \A c \in ConnsOf(u) : FitsPresence(conn[c], u) /\ FitsVoice(conn[c], u)

DeviceInv == \A u \in Users \ doubled : UserInv(u)

\* A step of connection c, of user v, is nothing to the others.
Frame(c, v) ==
    /\ \A d \in Conns \ {c} : conn'[d] = conn[d]
    /\ \A u \in Users \ {v} :
         /\ (u \in online' <=> u \in online) /\ (u \in announced' <=> u \in announced)
         /\ \A ch \in Channels : /\ u \in voice'[ch] <=> u \in voice[ch]
                                 /\ u \in heard'[ch] <=> u \in heard[ch]

LEMMA OthersFramed ==
    ASSUME NEW c \in Conns, NEW v \in Users, Frame(c, v), NEW u \in Users \ {v}, UserInv(u),
           conn[c].pc = "closed" \/ conn[c].user = v, conn'[c].pc = "closed" \/ conn'[c].user = v
    PROVE  UserInv(u)'
  <1>1. ConnsOf(u)' = ConnsOf(u)
    BY DEF ConnsOf, Open, Frame
  <1>2. Occupied(u)' = Occupied(u) /\ Shown(u)' = Shown(u)
    BY DEF Occupied, Shown, Frame
  <1>3. (u \in online' <=> u \in online) /\ (u \in announced' <=> u \in announced)
    BY DEF Frame
  <1>4. c \notin ConnsOf(u)
    BY DEF ConnsOf, Open
  <1>5. \A d \in ConnsOf(u) : conn'[d] = conn[d]
    BY <1>4 DEF ConnsOf, Frame
  <1>6. Away(u) => Away(u)'
    BY <1>2, <1>3 DEF Away
  <1>7. \A d \in ConnsOf(u) : FitsPresence(conn[d], u)' /\ FitsVoice(conn[d], u)'
    <2> TAKE d \in ConnsOf(u)
    <2>1. FitsPresence(conn[d], u) /\ FitsVoice(conn[d], u) /\ conn'[d] = conn[d]
      BY <1>5 DEF UserInv
    <2>2. FitsPresence(conn[d], u)'
      BY <1>3, <2>1 DEF FitsPresence
    <2>3. FitsVoice(conn[d], u)'
      BY <1>2, <2>1 DEF FitsVoice
    <2> QED
      BY <2>2, <2>3
  <1> QED
    BY <1>1, <1>6, <1>7 DEF UserInv

\* A step of the only connection of v.
LEMMA OwnStep ==
    ASSUME NEW c \in Conns, NEW v \in Users, Frame(c, v), UserInv(v), c \in ConnsOf(v),
           \/ conn'[c].pc = "closed" /\ Away(v)'
           \/ /\ conn'[c].pc # "closed" /\ conn'[c].user = v
              /\ FitsPresence(conn[c], v)' /\ FitsVoice(conn[c], v)'
    PROVE  UserInv(v)'
  <1>1. \A d \in Conns \ {c} : conn'[d] = conn[d] /\ d \notin ConnsOf(v)
    BY DEF UserInv, Frame
  <1>2. ConnsOf(v)' \subseteq {c} /\ (conn'[c].pc = "closed" => ConnsOf(v)' = {})
    BY <1>1 DEF ConnsOf, Open
  <1>3. conn'[c].pc # "closed" /\ conn'[c].user = v => c \in ConnsOf(v)'
    BY DEF ConnsOf, Open
  <1> QED
    BY <1>2, <1>3 DEF UserInv

\* What a step of a connection has to show.
Fitting(c, v) ==
    \/ conn'[c].pc = "closed" /\ Away(v)'
    \/ /\ conn'[c].pc # "closed" /\ conn'[c].user = v
       /\ FitsPresence(conn[c], v)' /\ FitsVoice(conn[c], v)'

LEMMA DeviceKept ==
    ASSUME DeviceInv, NEW c \in Conns, NEW v \in Users, conn[c].user = v, conn[c].pc # "closed",
           Frame(c, v), doubled' = doubled, conn'[c].pc = "closed" \/ conn'[c].user = v,
           FitsPresence(conn[c], v) /\ FitsVoice(conn[c], v) => Fitting(c, v)
    PROVE  DeviceInv'
  <1> SUFFICES ASSUME NEW u \in Users \ doubled PROVE UserInv(u)'
    BY DEF DeviceInv
  <1>1. UserInv(u)
    BY DEF DeviceInv
  <1>2. CASE u # v
    BY <1>1, <1>2, OthersFramed
  <1>3. CASE u = v
    <2>1. c \in ConnsOf(v)
      BY DEF ConnsOf, Open
    <2>2. FitsPresence(conn[c], v) /\ FitsVoice(conn[c], v)
      BY <1>1, <1>3, <2>1 DEF UserInv
    <2> QED
      BY <1>1, <1>3, <2>1, <2>2, OwnStep DEF Fitting
  <1> QED
    BY <1>2, <1>3

LEMMA WithoutMember ==
    ASSUME NEW f \in [Channels -> SUBSET Users], NEW v, NEW chs, NEW ch \in Channels, NEW u
    PROVE  u \in Without(f, v, chs)[ch] <=> u \in f[ch] /\ ~(u = v /\ ch \in chs)
  BY DEF Without

-----------------------------------------------------------------------------
LEMMA ConnectDevice ==
    ASSUME Typed, DeviceInv, NEW c \in Conns, Connect(c), Counted(c) PROVE DeviceInv'
  <1>1. PICK w \in Users :
           /\ conn' = [conn EXCEPT ![c] = [Closed EXCEPT !.pc = IF w \in online THEN "open" ELSE "announceOn",
                                                         !.user = w]]
           /\ online' = online \cup {w}
    BY DEF Connect
  <1> DEFINE q == [Closed EXCEPT !.pc = IF w \in online THEN "open" ELSE "announceOn", !.user = w]
  <1>2. q.user = w /\ q.at = None /\ q.pc = IF w \in online THEN "open" ELSE "announceOn"
    BY DEF Closed
  <1> HIDE DEF q
  <1>3. conn'[c] = q /\ \A d \in Conns \ {c} : conn'[d] = conn[d]
    BY <1>1 DEF Typed, TypeOK, q
  <1>4. /\ conn[c].pc = "closed" /\ UNCHANGED <<voice, announced, heard>>
        /\ doubled' = IF ConnsOf(w) = {} THEN doubled ELSE doubled \cup {w}
    BY <1>2, <1>3 DEF Connect, At, hub, Counted
  <1>5. Frame(c, w)
    BY <1>1, <1>3, <1>4 DEF Frame
  <1> SUFFICES ASSUME NEW u \in Users \ doubled' PROVE UserInv(u)'
    BY DEF DeviceInv
  <1>6. u \notin doubled /\ UserInv(u)
    BY <1>4 DEF DeviceInv
  <1>7. CASE u # w
    BY <1>2, <1>3, <1>4, <1>5, <1>6, <1>7, OthersFramed
  <1>8. CASE u = w
    <2>1. ConnsOf(w) = {} /\ Away(w)
      BY <1>4, <1>6, <1>8 DEF UserInv
    <2>2. q.pc = "announceOn"
      BY <1>2, <2>1 DEF Away
    <2>3. ConnsOf(w)' = {c}
      BY <1>2, <1>3, <2>1, <2>2 DEF ConnsOf, Open
    <2>4. /\ Occupied(w)' = {} /\ Shown(w)' = {} /\ Own(q) = {}
          /\ w \in online' /\ w \notin announced'
      BY <1>1, <1>2, <1>4, <2>1 DEF Occupied, Shown, Away, Own
    <2>5. FitsPresence(conn[c], w)'
      BY <1>3, <2>2, <2>4 DEF FitsPresence
    <2>6. FitsVoice(conn[c], w)'
      BY <1>2, <1>3, <2>2, <2>4 DEF FitsVoice, RestStages
    <2> QED
      BY <1>8, <2>3, <2>5, <2>6 DEF UserInv
  <1> QED
    BY <1>7, <1>8

\* What the other steps start from.
LEMMA Actor ==
    ASSUME Typed, NEW c \in Conns, conn[c].pc # "closed"
    PROVE  conn[c] \in Connections /\ conn[c].user \in Users
  BY DEF Typed, TypeOK, Attended, WellFormed

\* A step that changes nothing but the connection.
LEMMA OnlyConn ==
    ASSUME NEW c \in Conns, NEW v, \A d \in Conns \ {c} : conn'[d] = conn[d],
           UNCHANGED <<online, voice, hub>>
    PROVE  Frame(c, v) /\ Occupied(v)' = Occupied(v) /\ Shown(v)' = Shown(v)
  BY DEF Frame, hub, Occupied, Shown

LEMMA RestStep ==
    ASSUME Typed, DeviceInv, NEW c \in Conns, \A d \in Conns \ {c} : conn'[d] = conn[d],
           UNCHANGED <<online, voice, hub, doubled>>,
           conn'[c].user = conn[c].user, conn'[c].at = conn[c].at,
           conn[c].pc \in {"open", "member", "evict", "sendSignal"},
           conn'[c].pc \in {"open", "member", "evict", "sendSignal"}
    PROVE  DeviceInv'
  <1> PICK v \in Users : conn[c].user = v
    BY Actor
  <1>1. Frame(c, v) /\ Occupied(v)' = Occupied(v) /\ Shown(v)' = Shown(v)
    BY OnlyConn
  <1>2. Own(conn[c])' = Own(conn[c])
    BY DEF Own
  <1>3. FitsPresence(conn[c], v) => FitsPresence(conn[c], v)'
    BY DEF FitsPresence, hub
  <1>4. FitsVoice(conn[c], v) => FitsVoice(conn[c], v)'
    BY <1>1, <1>2 DEF FitsVoice, RestStages
  <1> QED
    BY <1>1, <1>3, <1>4, DeviceKept DEF Fitting

LEMMA AnnounceOnDevice ==
    ASSUME Typed, DeviceInv, NEW c \in Conns, AnnounceOn(c), doubled' = doubled PROVE DeviceInv'
  <1>0. conn[c].pc = "announceOn"
    BY DEF AnnounceOn, At
  <1> PICK v \in Users : conn[c].user = v
    BY <1>0, Actor
  <1>1. /\ conn'[c] = [conn[c] EXCEPT !.pc = "open"]
        /\ \A d \in Conns \ {c} : conn'[d] = conn[d]
    BY <1>0, GotoStep DEF AnnounceOn, Stages, JoinStages
  <1>2. conn'[c].pc = "open" /\ conn'[c].user = v /\ conn'[c].at = conn[c].at
    BY <1>0, <1>1, Actor DEF Connections
  <1>3. announced' = announced \cup {v} /\ UNCHANGED <<online, voice, heard>>
    BY DEF AnnounceOn
  <1>4. Frame(c, v) /\ Occupied(v)' = Occupied(v) /\ Shown(v)' = Shown(v)
    BY <1>1, <1>3 DEF Frame, Occupied, Shown
  <1>5. FitsPresence(conn[c], v) => FitsPresence(conn[c], v)'
    BY <1>0, <1>2, <1>3 DEF FitsPresence
  <1>6. FitsVoice(conn[c], v) => FitsVoice(conn[c], v)'
    BY <1>0, <1>2, <1>4 DEF FitsVoice, RestStages, Own
  <1> QED
    BY <1>0, <1>2, <1>4, <1>5, <1>6, DeviceKept DEF Fitting

LEMMA VoiceJoinDevice ==
    ASSUME Typed, DeviceInv, NEW c \in Conns, VoiceJoin(c), doubled' = doubled PROVE DeviceInv'
  <1>0. conn[c].pc = "open"
    BY DEF VoiceJoin, At
  <1>1. PICK ch \in Channels : conn' = [conn EXCEPT ![c].pc = "member", ![c].ch = ch]
    BY DEF VoiceJoin
  <1>2. /\ conn'[c].pc = "member" /\ conn'[c].user = conn[c].user /\ conn'[c].at = conn[c].at
        /\ \A d \in Conns \ {c} : conn'[d] = conn[d]
    BY <1>1 DEF Typed, TypeOK, Connections
  <1> QED
    BY <1>0, <1>2, RestStep DEF VoiceJoin

LEMMA FinishDevice ==
    ASSUME Typed, DeviceInv, NEW c \in Conns, Finish(c), doubled' = doubled,
           UNCHANGED <<online, voice, hub>>, conn[c].pc \in {"member", "sendSignal"}
    PROVE  DeviceInv'
  <1>1. conn'[c] = Done(c) /\ \A d \in Conns \ {c} : conn'[d] = conn[d]
    BY FinishStep
  <1>2. Done(c).pc = "open" /\ Done(c).user = conn[c].user /\ Done(c).at = conn[c].at
    BY DoneType
  <1> QED
    BY <1>1, <1>2, RestStep

LEMMA SelectMemberDevice ==
    ASSUME Typed, DeviceInv, NEW c \in Conns, SelectMember(c), doubled' = doubled PROVE DeviceInv'
  <1>0. conn[c].pc = "member" /\ UNCHANGED <<online, voice, hub>>
    BY DEF SelectMember, At
  <1>1. CASE Goto(c, "evict")
    <2>1. conn'[c] = [conn[c] EXCEPT !.pc = "evict"] /\ \A d \in Conns \ {c} : conn'[d] = conn[d]
      BY <1>0, <1>1, GotoStep DEF Stages, JoinStages
    <2>2. conn'[c].pc = "evict" /\ conn'[c].user = conn[c].user /\ conn'[c].at = conn[c].at
      BY <1>0, <2>1, Actor DEF Connections
    <2> QED
      BY <1>0, <2>1, <2>2, RestStep
  <1>2. CASE Finish(c)
    BY <1>0, <1>2, FinishDevice
  <1> QED
    BY <1>1, <1>2 DEF SelectMember

LEMMA SignalDevice ==
    ASSUME Typed, DeviceInv, NEW c \in Conns, RouteSignal(c) \/ SendSignal(c), doubled' = doubled
    PROVE  DeviceInv'
  <1>1. CASE RouteSignal(c)
    BY <1>1, RouteSignalConn, RestStep DEF RouteSignal, At
  <1>2. CASE SendSignal(c)
    BY <1>2, FinishDevice DEF SendSignal, At
  <1> QED
    BY <1>1, <1>2

\* The two maps, when v is taken out of some channels.
LEMMA VoiceWithout ==
    ASSUME Typed, NEW c \in Conns, NEW v, NEW chs, voice' = Without(voice, v, chs),
           \A d \in Conns \ {c} : conn'[d] = conn[d], UNCHANGED <<online, hub>>
    PROVE  Frame(c, v) /\ Occupied(v)' = Occupied(v) \ chs /\ Shown(v)' = Shown(v)
  <1>1. \A ch \in Channels : \A u : u \in voice'[ch] <=> u \in voice[ch] /\ ~(u = v /\ ch \in chs)
    BY WithoutMember DEF Typed, TypeOK
  <1> QED
    BY <1>1 DEF Frame, Occupied, Shown, hub

LEMMA HeardWithout ==
    ASSUME Typed, NEW c \in Conns, NEW v, NEW chs, heard' = Without(heard, v, chs),
           \A d \in Conns \ {c} : conn'[d] = conn[d], UNCHANGED <<online, voice, announced>>
    PROVE  Frame(c, v) /\ Shown(v)' = Shown(v) \ chs /\ Occupied(v)' = Occupied(v)
  <1>1. \A ch \in Channels : \A u : u \in heard'[ch] <=> u \in heard[ch] /\ ~(u = v /\ ch \in chs)
    BY WithoutMember DEF Typed, TypeOK
  <1> QED
    BY <1>1 DEF Frame, Occupied, Shown

LEMMA EvictDevice ==
    ASSUME Typed, DeviceInv, NEW c \in Conns, Evict(c), doubled' = doubled PROVE DeviceInv'
  <1>0. conn[c].pc = "evict" /\ UNCHANGED <<online, hub>>
    BY DEF Evict, At
  <1> PICK v \in Users : conn[c].user = v
    BY <1>0, Actor
  <1> DEFINE left == Elsewhere(v, conn[c].ch)
  <1>1. left = Occupied(v) \ {conn[c].ch}
    BY DEF Elsewhere, Occupied
  <1>2. /\ conn'[c].pc \in {"insert", "announceEvicted"}
        /\ conn'[c].user = v /\ conn'[c].ch = conn[c].ch
        /\ \A d \in Conns \ {c} : conn'[d] = conn[d]
    BY EvictConn
  <1>3. voice' = Without(voice, v, left)
    BY DEF Evict
  <1> HIDE DEF left
  <1>4. Frame(c, v) /\ Occupied(v)' = Occupied(v) \ left /\ Shown(v)' = Shown(v)
    BY <1>0, <1>2, <1>3, VoiceWithout
  <1>5. FitsPresence(conn[c], v) => FitsPresence(conn[c], v)'
    BY <1>0, <1>2 DEF FitsPresence, hub
  <1>6. ASSUME FitsVoice(conn[c], v) PROVE FitsVoice(conn[c], v)'
    <2>1. Occupied(v) = Own(conn[c]) /\ Shown(v) = Own(conn[c])
      BY <1>0, <1>6 DEF FitsVoice, RestStages
    <2>2. CASE left = {}
      <3>1. conn'[c].pc = "insert"
        <4>1. Goto(c, "insert")
          BY <2>2 DEF Evict, left
        <4> QED
          BY <4>1 DEF Goto, Typed, TypeOK, Connections
      <3>2. Occupied(v)' \subseteq {conn[c].ch} /\ Shown(v)' = Occupied(v)'
        BY <1>1, <1>4, <2>1, <2>2
      <3> QED
        BY <1>2, <3>1, <3>2 DEF FitsVoice, RestStages
    <2>3. CASE left # {}
      <3>1. PICK k \in left : conn' = [conn EXCEPT ![c].pc = "announceEvicted", ![c].evicted = k]
        BY <2>3 DEF Evict, left
      <3>2. conn'[c].pc = "announceEvicted" /\ conn'[c].evicted = k
        BY <3>1 DEF Typed, TypeOK, Connections
      <3>3. Own(conn[c]) = {k} /\ Occupied(v)' = {} /\ Shown(v)' = {k}
        BY <1>1, <1>4, <2>1, <3>1 DEF Own
      <3> QED
        BY <3>2, <3>3 DEF FitsVoice, RestStages
    <2> QED
      BY <2>2, <2>3
  <1> QED
    BY <1>0, <1>2, <1>4, <1>5, <1>6, DeviceKept DEF Fitting

LEMMA AnnounceEvictedDevice ==
    ASSUME Typed, DeviceInv, NEW c \in Conns, AnnounceEvicted(c), doubled' = doubled PROVE DeviceInv'
  <1>0. conn[c].pc = "announceEvicted" /\ UNCHANGED <<online, voice, announced>>
    BY DEF AnnounceEvicted, At
  <1> PICK v \in Users : conn[c].user = v
    BY <1>0, Actor
  <1>1. /\ conn'[c] = [conn[c] EXCEPT !.pc = "insert"]
        /\ \A d \in Conns \ {c} : conn'[d] = conn[d]
    BY <1>0, GotoStep DEF AnnounceEvicted, Stages, JoinStages
  <1>2. conn'[c].pc = "insert" /\ conn'[c].user = v
    BY <1>0, <1>1, Actor DEF Connections
  <1>3. heard' = Without(heard, v, {conn[c].evicted})
    BY DEF AnnounceEvicted
  <1>4. Frame(c, v) /\ Shown(v)' = Shown(v) \ {conn[c].evicted} /\ Occupied(v)' = Occupied(v)
    BY <1>0, <1>1, <1>3, HeardWithout
  <1>5. FitsPresence(conn[c], v) => FitsPresence(conn[c], v)'
    BY <1>0, <1>2 DEF FitsPresence
  <1>6. ASSUME FitsVoice(conn[c], v) PROVE FitsVoice(conn[c], v)'
    <2>1. Occupied(v)' = {} /\ Shown(v)' = {}
      BY <1>0, <1>4, <1>6 DEF FitsVoice
    <2> QED
      BY <1>2, <2>1 DEF FitsVoice, RestStages
  <1> QED
    BY <1>0, <1>2, <1>4, <1>5, <1>6, DeviceKept DEF Fitting

LEMMA InsertDevice ==
    ASSUME Typed, DeviceInv, NEW c \in Conns, Insert(c), doubled' = doubled PROVE DeviceInv'
  <1>0. conn[c].pc = "insert" /\ UNCHANGED <<online, hub>>
    BY DEF Insert, At
  <1> PICK v \in Users : conn[c].user = v
    BY <1>0, Actor
  <1> DEFINE ch == conn[c].ch
             stage == IF v \in voice[ch] THEN "sendState" ELSE "announceJoined"
  <1>1. /\ conn'[c] = [conn[c] EXCEPT !.pc = stage, !.others = Others(ch, v)]
        /\ \A d \in Conns \ {c} : conn'[d] = conn[d] /\ ch \in Channels
    BY InsertConn
  <1>2. conn'[c].pc = stage /\ conn'[c].user = v /\ conn'[c].ch = ch
    BY <1>0, <1>1, Actor DEF Connections
  <1>3. ch \in Channels /\ voice' = [voice EXCEPT ![ch] = @ \cup {v}]
    BY InsertConn DEF Insert
  <1>4. \A k \in Channels : \A u : u \in voice'[k] <=> u \in voice[k] \/ (k = ch /\ u = v)
    BY <1>3 DEF Typed, TypeOK
  <1>5. Frame(c, v) /\ Occupied(v)' = Occupied(v) \cup {ch} /\ Shown(v)' = Shown(v)
    BY <1>0, <1>1, <1>3, <1>4 DEF Frame, Occupied, Shown, hub
  <1>6. stage = "sendState" <=> ch \in Occupied(v)
    BY <1>3 DEF Occupied
  <1> HIDE DEF stage
  <1>7. stage \in {"sendState", "announceJoined"}
    BY DEF stage
  <1>8. FitsPresence(conn[c], v) => FitsPresence(conn[c], v)'
    BY <1>0, <1>2, <1>7 DEF FitsPresence, hub
  <1>9. ASSUME FitsVoice(conn[c], v) PROVE FitsVoice(conn[c], v)'
    <2>1. Occupied(v) \subseteq {ch} /\ Shown(v) = Occupied(v)
      BY <1>0, <1>9 DEF FitsVoice
    <2>2. Occupied(v)' = {ch} /\ (stage = "sendState" => Shown(v)' = {ch})
                             /\ (stage = "announceJoined" => Shown(v)' = {})
      BY <1>5, <1>6, <2>1
    <2> QED
      BY <1>2, <1>7, <2>2 DEF FitsVoice, RestStages
  <1> QED
    BY <1>0, <1>2, <1>5, <1>8, <1>9, DeviceKept, <1>7 DEF Fitting

LEMMA AnnounceJoinedDevice ==
    ASSUME Typed, DeviceInv, NEW c \in Conns, AnnounceJoined(c), doubled' = doubled PROVE DeviceInv'
  <1>0. conn[c].pc = "announceJoined" /\ UNCHANGED <<online, voice, announced>>
    BY DEF AnnounceJoined, At
  <1> PICK v \in Users : conn[c].user = v
    BY <1>0, Actor
  <1> DEFINE ch == conn[c].ch
  <1>1. /\ conn'[c] = [conn[c] EXCEPT !.pc = "sendState"]
        /\ \A d \in Conns \ {c} : conn'[d] = conn[d]
    BY <1>0, GotoStep DEF AnnounceJoined, Stages, JoinStages
  <1>2. conn'[c].pc = "sendState" /\ conn'[c].user = v /\ conn'[c].ch = ch
    BY <1>0, <1>1, Actor DEF Connections
  <1>3. ch \in Channels /\ heard' = [heard EXCEPT ![ch] = @ \cup {v}]
    BY <1>0 DEF AnnounceJoined, Typed, Attended, WellFormed, JoinStages
  <1>4. \A k \in Channels : \A u : u \in heard'[k] <=> u \in heard[k] \/ (k = ch /\ u = v)
    BY <1>3 DEF Typed, TypeOK
  <1>5. Frame(c, v) /\ Shown(v)' = Shown(v) \cup {ch} /\ Occupied(v)' = Occupied(v)
    BY <1>0, <1>1, <1>3, <1>4 DEF Frame, Occupied, Shown
  <1>6. FitsPresence(conn[c], v) => FitsPresence(conn[c], v)'
    BY <1>0, <1>2 DEF FitsPresence
  <1>7. ASSUME FitsVoice(conn[c], v) PROVE FitsVoice(conn[c], v)'
    <2>1. Occupied(v)' = {ch} /\ Shown(v)' = {ch}
      BY <1>0, <1>5, <1>7 DEF FitsVoice
    <2> QED
      BY <1>2, <2>1 DEF FitsVoice, RestStages
  <1> QED
    BY <1>0, <1>2, <1>5, <1>6, <1>7, DeviceKept DEF Fitting

LEMMA SendStateDevice ==
    ASSUME Typed, DeviceInv, NEW c \in Conns, SendState(c), doubled' = doubled PROVE DeviceInv'
  <1>0. conn[c].pc = "sendState" /\ UNCHANGED <<online, voice, hub>>
    BY DEF SendState, At
  <1> PICK v \in Users : conn[c].user = v
    BY <1>0, Actor
  <1>1. /\ conn'[c] = [Done(c) EXCEPT !.at = conn[c].ch]
        /\ \A d \in Conns \ {c} : conn'[d] = conn[d]
    BY SendStateConn
  <1>2. Done(c) \in Connections /\ Done(c).pc = "open" /\ Done(c).user = v
    BY <1>0, DoneType
  <1>3. conn'[c].pc = "open" /\ conn'[c].user = v /\ conn'[c].at = conn[c].ch
    BY <1>1, <1>2 DEF Connections
  <1>4. Frame(c, v) /\ Occupied(v)' = Occupied(v) /\ Shown(v)' = Shown(v)
    BY <1>0, <1>1, OnlyConn
  <1>5. FitsPresence(conn[c], v) => FitsPresence(conn[c], v)'
    BY <1>0, <1>3 DEF FitsPresence, hub
  <1>6. ASSUME FitsVoice(conn[c], v) PROVE FitsVoice(conn[c], v)'
    <2>1. conn[c].ch # None
      BY <1>0, NoneAssumption DEF Typed, Attended, WellFormed, JoinStages
    <2>2. Occupied(v)' = {conn[c].ch} /\ Shown(v)' = {conn[c].ch} /\ Own(conn[c])' = {conn[c].ch}
      BY <1>0, <1>3, <1>4, <1>6, <2>1 DEF FitsVoice, Own
    <2> QED
      BY <1>3, <2>2 DEF FitsVoice, RestStages
  <1> QED
    BY <1>0, <1>3, <1>4, <1>5, <1>6, DeviceKept DEF Fitting

\* The lock section of voice_leave finds such a user in the channel of the connection.
LEMMA RemoveDevice ==
    ASSUME Typed, DeviceInv, NEW c \in Conns, doubled' = doubled, UNCHANGED <<online, hub>>,
           NEW announce, NEW done,
           \/ conn[c].pc = "open" /\ announce = "announceLeft"
           \/ conn[c].pc = "leaveDropped" /\ announce = "announceDropped",
           done \in Connections, WellFormed(done), done.pc = "closed" \/ done.user = conn[c].user,
           conn[c].pc = "open" => conn[c].at # None,
           Remove(c, announce, done)
    PROVE  DeviceInv'
  <1>0. conn[c].pc # "closed"
    OBVIOUS
  <1> PICK v \in Users : conn[c].user = v
    BY <1>0, Actor
  <1> DEFINE a == [conn[c] EXCEPT !.at = None, !.ch = conn[c].at, !.pc = announce]
  <1>1. /\ a.pc = announce /\ a.user = v /\ a.at = None /\ a.ch = conn[c].at
    BY <1>0, Actor DEF Connections
  <1>2. \A d \in Conns \ {c} : conn'[d] = conn[d]
    BY DEF Remove, Typed, TypeOK
  <1>3. conn'[c] = IF v \in voice[conn[c].at] THEN a ELSE done
    BY DEF Remove, Typed, TypeOK
  <1> HIDE DEF a
  <1>4. voice' = Without(voice, v, {conn[c].at})
    BY DEF Remove
  <1>5. Frame(c, v) /\ Occupied(v)' = Occupied(v) \ {conn[c].at} /\ Shown(v)' = Shown(v)
    BY <1>2, <1>4, VoiceWithout
  <1>6. ASSUME FitsPresence(conn[c], v), FitsVoice(conn[c], v) PROVE Fitting(c, v)
    <2>1. Occupied(v) = Own(conn[c]) /\ Shown(v) = Own(conn[c]) /\ conn[c].at # None
      BY <1>6 DEF FitsVoice, RestStages
    <2>2. Own(conn[c]) = {conn[c].at} /\ v \in voice[conn[c].at]
      BY <2>1 DEF Own, Occupied
    <2>3. conn'[c] = a
      BY <1>3, <2>2
    <2>4. Occupied(v)' = {} /\ Shown(v)' = {conn[c].at}
      BY <1>5, <2>1, <2>2
    <2>5. FitsPresence(conn[c], v)'
      BY <1>1, <1>6, <2>3 DEF FitsPresence, hub
    <2>6. FitsVoice(conn[c], v)'
      BY <1>1, <2>3, <2>4 DEF FitsVoice, RestStages
    <2> QED
      BY <1>1, <2>3, <2>5, <2>6 DEF Fitting
  <1>7. conn'[c].pc = "closed" \/ conn'[c].user = v
    BY <1>1, <1>3
  <1> QED
    BY <1>0, <1>5, <1>6, <1>7, DeviceKept

LEMMA VoiceLeaveDevice ==
    ASSUME Typed, DeviceInv, NEW c \in Conns, VoiceLeave(c), doubled' = doubled PROVE DeviceInv'
  <1> DEFINE done == [Done(c) EXCEPT !.at = None]
  <1>1. conn[c].pc = "open" /\ conn[c].at # None /\ UNCHANGED <<online, hub>>
    BY DEF VoiceLeave, At
  <1>2. Remove(c, "announceLeft", done)
    BY DEF VoiceLeave
  <1>3. done \in Connections /\ WellFormed(done)
    BY <1>1, LeftType
  <1>4. done.user = conn[c].user
    BY <1>1, DoneType DEF Connections
  <1> HIDE DEF done
  <1> QED
    BY <1>1, <1>2, <1>3, <1>4, RemoveDevice

LEMMA LeaveDroppedDevice ==
    ASSUME Typed, DeviceInv, NEW c \in Conns, LeaveDropped(c), doubled' = doubled PROVE DeviceInv'
  <1>1. conn[c].pc = "leaveDropped" /\ UNCHANGED <<online, hub>> /\ Remove(c, "announceDropped", Closed)
    BY DEF LeaveDropped, At
  <1>2. Closed \in Connections /\ WellFormed(Closed) /\ Closed.pc = "closed"
    BY ClosedType DEF WellFormed, JoinStages, Closed
  <1> QED
    BY <1>1, <1>2, RemoveDevice

LEMMA AnnounceLeftDevice ==
    ASSUME Typed, DeviceInv, NEW c \in Conns, AnnounceLeft(c), doubled' = doubled PROVE DeviceInv'
  <1>0. conn[c].pc = "announceLeft" /\ UNCHANGED <<online, voice, announced>>
    BY DEF AnnounceLeft, At
  <1> PICK v \in Users : conn[c].user = v
    BY <1>0, Actor
  <1>1. conn'[c] = Done(c) /\ \A d \in Conns \ {c} : conn'[d] = conn[d]
    BY <1>0, FinishStep DEF AnnounceLeft
  <1>2. conn'[c].pc = "open" /\ conn'[c].user = v /\ conn'[c].at = conn[c].at
    BY <1>0, <1>1, DoneType
  <1>3. heard' = Without(heard, v, {conn[c].ch})
    BY DEF AnnounceLeft
  <1>4. Frame(c, v) /\ Shown(v)' = Shown(v) \ {conn[c].ch} /\ Occupied(v)' = Occupied(v)
    BY <1>0, <1>1, <1>3, HeardWithout
  <1>5. FitsPresence(conn[c], v) => FitsPresence(conn[c], v)'
    BY <1>0, <1>2 DEF FitsPresence
  <1>6. ASSUME FitsVoice(conn[c], v) PROVE FitsVoice(conn[c], v)'
    <2>1. Occupied(v)' = {} /\ Shown(v)' = {} /\ Own(conn[c])' = {}
      BY <1>0, <1>2, <1>4, <1>6 DEF FitsVoice, Own
    <2> QED
      BY <1>2, <2>1 DEF FitsVoice, RestStages
  <1> QED
    BY <1>0, <1>2, <1>4, <1>5, <1>6, DeviceKept DEF Fitting

LEMMA DisconnectDevice ==
    ASSUME Typed, DeviceInv, NEW c \in Conns, Disconnect(c), doubled' = doubled PROVE DeviceInv'
  <1>0. conn[c].pc = "open" /\ UNCHANGED <<voice, hub>>
    BY DEF Disconnect, At
  <1> PICK v \in Users : conn[c].user = v
    BY <1>0, Actor
  <1>1. /\ conn'[c] = [conn[c] EXCEPT !.pc = "announceOff"]
        /\ \A d \in Conns \ {c} : conn'[d] = conn[d]
    BY <1>0, GotoStep DEF Disconnect, Stages, JoinStages
  <1>2. conn'[c].pc = "announceOff" /\ conn'[c].user = v /\ conn'[c].at = conn[c].at
    BY <1>0, <1>1, Actor DEF Connections
  <1>3. online' = online \ {v}
    BY DEF Disconnect
  <1>4. Frame(c, v) /\ Occupied(v)' = Occupied(v) /\ Shown(v)' = Shown(v)
    BY <1>0, <1>1, <1>3 DEF Frame, Occupied, Shown, hub
  <1>5. FitsPresence(conn[c], v) => FitsPresence(conn[c], v)'
    BY <1>0, <1>2, <1>3 DEF FitsPresence, hub
  <1>6. FitsVoice(conn[c], v) => FitsVoice(conn[c], v)'
    BY <1>0, <1>2, <1>4 DEF FitsVoice, RestStages, Own
  <1> QED
    BY <1>0, <1>2, <1>4, <1>5, <1>6, DeviceKept DEF Fitting

LEMMA AnnounceOffDevice ==
    ASSUME Typed, DeviceInv, NEW c \in Conns, AnnounceOff(c), doubled' = doubled PROVE DeviceInv'
  <1>0. conn[c].pc = "announceOff" /\ UNCHANGED <<online, voice, heard>>
    BY DEF AnnounceOff, At
  <1> PICK v \in Users : conn[c].user = v
    BY <1>0, Actor
  <1>1. /\ \/ conn[c].at = None /\ conn'[c] = Closed
           \/ conn[c].at # None /\ conn'[c] = [conn[c] EXCEPT !.pc = "leaveDropped"]
        /\ \A d \in Conns \ {c} : conn'[d] = conn[d]
    BY AnnounceOffConn
  <1>2. announced' = announced \ {v}
    BY DEF AnnounceOff
  <1>3. Frame(c, v) /\ Occupied(v)' = Occupied(v) /\ Shown(v)' = Shown(v)
    BY <1>0, <1>1, <1>2 DEF Frame, Occupied, Shown
  <1>4. CASE conn[c].at = None
    <2>1. conn'[c].pc = "closed"
      BY <1>1, <1>4, ClosedType
    <2>2. FitsPresence(conn[c], v) /\ FitsVoice(conn[c], v) => Away(v)'
      BY <1>0, <1>2, <1>3, <1>4 DEF FitsPresence, FitsVoice, RestStages, Own, Away
    <2> QED
      BY <1>0, <1>3, <2>1, <2>2, DeviceKept DEF Fitting
  <1>5. CASE conn[c].at # None
    <2>1. conn'[c].pc = "leaveDropped" /\ conn'[c].user = v /\ conn'[c].at = conn[c].at
      BY <1>0, <1>1, <1>5, Actor DEF Connections
    <2>2. FitsPresence(conn[c], v) => FitsPresence(conn[c], v)'
      BY <1>0, <1>2, <2>1 DEF FitsPresence
    <2>3. FitsVoice(conn[c], v) => FitsVoice(conn[c], v)'
      BY <1>0, <1>3, <1>5, <2>1 DEF FitsVoice, RestStages, Own
    <2> QED
      BY <1>0, <1>3, <2>1, <2>2, <2>3, DeviceKept DEF Fitting
  <1> QED
    BY <1>4, <1>5

LEMMA AnnounceDroppedDevice ==
    ASSUME Typed, DeviceInv, NEW c \in Conns, AnnounceDropped(c), doubled' = doubled PROVE DeviceInv'
  <1>0. conn[c].pc = "announceDropped" /\ UNCHANGED <<online, voice, announced>>
    BY DEF AnnounceDropped, At
  <1> PICK v \in Users : conn[c].user = v
    BY <1>0, Actor
  <1>1. conn'[c].pc = "closed" /\ \A d \in Conns \ {c} : conn'[d] = conn[d]
    BY CloseStep, ClosedType DEF AnnounceDropped
  <1>2. heard' = Without(heard, v, {conn[c].ch})
    BY DEF AnnounceDropped
  <1>3. Frame(c, v) /\ Shown(v)' = Shown(v) \ {conn[c].ch} /\ Occupied(v)' = Occupied(v)
    BY <1>0, <1>1, <1>2, HeardWithout
  <1>4. FitsPresence(conn[c], v) /\ FitsVoice(conn[c], v) => Away(v)'
    BY <1>0, <1>3 DEF FitsPresence, FitsVoice, Away
  <1> QED
    BY <1>0, <1>1, <1>3, <1>4, DeviceKept DEF Fitting

LEMMA DeviceStep == ASSUME Typed, DeviceInv, [DNext]_dvars PROVE DeviceInv'
  <1>1. ASSUME NEW c \in Conns, Connect(c), Counted(c) PROVE DeviceInv'
    BY <1>1, ConnectDevice
  <1>2. ASSUME NEW c \in Conns, JoinStep(c), doubled' = doubled PROVE DeviceInv'
    BY <1>2, VoiceJoinDevice, SelectMemberDevice, EvictDevice, AnnounceEvictedDevice, InsertDevice,
       AnnounceJoinedDevice, SendStateDevice DEF JoinStep
  <1>3. ASSUME NEW c \in Conns, LeaveStep(c), doubled' = doubled PROVE DeviceInv'
    BY <1>3, VoiceLeaveDevice, AnnounceLeftDevice, DisconnectDevice, AnnounceOffDevice,
       LeaveDroppedDevice, AnnounceDroppedDevice DEF LeaveStep
  <1>4. ASSUME UNCHANGED <<online, voice, conn, hub, doubled>> PROVE DeviceInv'
    <2>1. \A u : Occupied(u)' = Occupied(u) /\ Shown(u)' = Shown(u) /\ ConnsOf(u)' = ConnsOf(u)
      BY <1>4 DEF Occupied, Shown, hub, ConnsOf, Open
    <2>2. ASSUME NEW u, NEW q PROVE /\ FitsPresence(q, u)' <=> FitsPresence(q, u)
                                    /\ FitsVoice(q, u)' <=> FitsVoice(q, u)
                                    /\ Away(u)' <=> Away(u)
      BY <1>4, <2>1 DEF FitsPresence, FitsVoice, Away, hub
    <2>3. ASSUME NEW u, UserInv(u) PROVE UserInv(u)'
      BY <1>4, <2>1, <2>2, <2>3 DEF UserInv
    <2> QED
      BY <1>4, <2>3 DEF DeviceInv
  <1>5. ASSUME NEW c \in Conns, Runs(c), doubled' = doubled PROVE DeviceInv'
    BY <1>2, <1>3, <1>5, AnnounceOnDevice, SignalDevice DEF Runs
  <1> QED
    BY <1>1, <1>4, <1>5 DEF DNext, dvars, vars, ChangeMembership

LEMMA DeviceInit == ASSUME DInit PROVE DeviceInv
  <1>1. \A u : ConnsOf(u) = {} /\ Away(u)
    BY ClosedType DEF DInit, Init, ConnsOf, Open, Away, Occupied, Shown
  <1> QED
    BY <1>1 DEF DeviceInv, UserInv

LEMMA AtMostOne == ASSUME NEW S, \A x, y \in S : x = y PROVE Cardinality(S) <= 1
  <1>1. CASE S = {}
    BY <1>1, FS_EmptySet
  <1>2. CASE S # {}
    <2>1. PICK x \in S : S = {x}
      BY <1>2
    <2> QED
      BY <2>1, FS_Singleton
  <1> QED
    BY <1>1, <1>2

LEMMA DeviceExact == ASSUME Typed, DeviceInv PROVE ExactOnOneDevice
  <1> SUFFICES ASSUME NEW u \in Users \ doubled
               PROVE  /\ Cardinality(Elsewhere(u, None)) <= 1
                      /\ Settled(u) => PresentExactly(u) /\ InVoiceExactly(u)
    BY DEF ExactOnOneDevice
  <1>0. UserInv(u)
    BY DEF DeviceInv
  <1>1. Elsewhere(u, None) \subseteq Occupied(u)
    BY DEF Elsewhere, Occupied
  <1>2. CASE ConnsOf(u) = {}
    <2>1. Away(u)
      BY <1>0, <1>2 DEF UserInv
    <2>2. Elsewhere(u, None) = {}
      BY <1>1, <2>1 DEF Away
    <2>3. PresentExactly(u) /\ InVoiceExactly(u)
      BY <1>2, <2>1 DEF Away, PresentExactly, InVoiceExactly, Occupied, Shown
    <2> QED
      BY <2>2, <2>3, FS_EmptySet
  <1>3. CASE ConnsOf(u) # {}
    <2>1. PICK c \in ConnsOf(u) : ConnsOf(u) = {c}
      BY <1>0, <1>3 DEF UserInv
    <2>2. FitsPresence(conn[c], u) /\ FitsVoice(conn[c], u) /\ conn[c].pc \in Stages \ {"closed"}
      BY <1>0, <2>1 DEF UserInv, ConnsOf, Open, Typed, TypeOK, Connections
    <2>3. \A x, y \in Occupied(u) : x = y
      BY <2>2 DEF FitsVoice, RestStages, Own, Stages
    <2>4. Cardinality(Elsewhere(u, None)) <= 1
      BY <1>1, <2>3, AtMostOne
    <2>5. ASSUME Settled(u) PROVE PresentExactly(u) /\ InVoiceExactly(u)
      <3>1. conn[c].pc = "open"
        BY <2>1, <2>5 DEF Settled, At
      <3>2. PresentExactly(u)
        BY <2>1, <2>2, <3>1 DEF FitsPresence, PresentExactly
      <3>3. Occupied(u) = Own(conn[c]) /\ Shown(u) = Own(conn[c])
        BY <2>2, <3>1 DEF FitsVoice, RestStages
      <3>4. InVoiceExactly(u)
        BY <2>1, <3>3, NoneAssumption DEF InVoiceExactly, Occupied, Shown, Own
      <3> QED
        BY <3>2, <3>4
    <2> QED
      BY <2>4, <2>5
  <1> QED
    BY <1>2, <1>3

\* Whatever the connections of other users do, and however the membership of the guild
\* changes, a user who was never connected twice at once is in one voice channel at
\* most; between two messages presence and occupancy are those of the connection, and
\* the clients were told so.
THEOREM OneDeviceIsExact == DSpec => []ExactOnOneDevice
  <1>1. DInit => Typed /\ DeviceInv
    BY InitTyped, DeviceInit DEF DInit
  <1>2. [DNext]_dvars => [Next]_vars
    BY DEF DNext, dvars, Runs, Next
  <1>3. Typed /\ DeviceInv /\ [DNext]_dvars => Typed' /\ DeviceInv'
    BY <1>2, StepTyped, DeviceStep
  <1>4. Typed /\ DeviceInv => ExactOnOneDevice
    BY DeviceExact
  <1> QED
    BY <1>1, <1>3, <1>4, PTL DEF DSpec
=============================================================================
