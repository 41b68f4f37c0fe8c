--------------------------- MODULE VoicePeersProofs ---------------------------
(***************************************************************************)
(* The connections of a voice channel, for any number of users, messages   *)
(* and steps.                                                              *)
(*                                                                         *)
(* ListInv: the member list of a client, with the news on its way to it    *)
(* added, is the list of the server.  It holds of every behaviour, and     *)
(* says the less the more joins overlapped, were refused or went unheard.  *)
(* CalmInv: as long as everybody comes back to a settled channel, who      *)
(* offers to whom is decided by one list, and a task, a signal or a        *)
(* connection of an earlier stay is nowhere left.                          *)
(* MeshInv: as long as, besides, no join is refused and no connection or   *)
(* step towards one fails, of two occupants without a connection the one that joined later has yet to     *)
(* offer, or its offer, or the answer, is on its way.                      *)
(***************************************************************************)
EXTENDS VoicePeers, FiniteSetTheorems, TLAPS

-----------------------------------------------------------------------------
(* Messages of a kind in a queue: a set of messages stands for the kind.   *)

\* No message of S, at most one of S; the last one of S is in L.
Lacks(s, S) == \A i \in DOMAIN s: s[i] \notin S
One(s, S) == \A i, k \in DOMAIN s: s[i] \in S /\ s[k] \in S => i = k
LastIn(s, S, L) == \E i \in DOMAIN s: s[i] \in L /\ \A k \in DOMAIN s: k > i => s[k] \notin S

\* The queue with one message more.
LEMMA MoreMessages ==
    ASSUME NEW T, NEW s \in Seq(T), NEW m \in T, NEW S
    PROVE  /\ Append(s, m) \in Seq(T)
           /\ Lacks(Append(s, m), S) <=> Lacks(s, S) /\ m \notin S
           /\ One(s, S) /\ (m \in S => Lacks(s, S)) => One(Append(s, m), S)
  <1> DEFINE t == Append(s, m)
  <1>1. /\ t \in Seq(T) /\ Len(t) = Len(s) + 1 /\ Len(s) \in Nat
        /\ DOMAIN s = 1..Len(s) /\ DOMAIN t = 1..(Len(s) + 1)
        /\ \A i \in 1..Len(s): t[i] = s[i]
        /\ t[Len(s) + 1] = m
    OBVIOUS
  <1> HIDE DEF t
  <1>2. Lacks(t, S) => Lacks(s, S) /\ m \notin S
    <2>1. Len(s) + 1 \in DOMAIN t
      BY <1>1
    <2> QED
      BY <1>1, <2>1 DEF Lacks
  <1>3. Lacks(s, S) /\ m \notin S => Lacks(t, S)
    BY <1>1 DEF Lacks
  <1>4. ASSUME One(s, S), m \in S => Lacks(s, S) PROVE One(t, S)
    <2> SUFFICES ASSUME NEW i \in DOMAIN t, NEW k \in DOMAIN t, t[i] \in S, t[k] \in S
                 PROVE  i = k
      BY DEF One
    <2>1. CASE i \in DOMAIN s /\ k \in DOMAIN s
      BY <1>1, <1>4, <2>1 DEF One
    <2>2. CASE i \notin DOMAIN s /\ k \notin DOMAIN s
      BY <1>1, <2>2
    <2>3. CASE i \notin DOMAIN s /\ k \in DOMAIN s
      BY <1>1, <1>4, <2>3 DEF Lacks
    <2>4. CASE i \in DOMAIN s /\ k \notin DOMAIN s
      BY <1>1, <1>4, <2>4 DEF Lacks
    <2> QED  BY <2>1, <2>2, <2>3, <2>4
  <1> QED  BY <1>1, <1>2, <1>3, <1>4 DEF t

LEMMA MoreLast ==
    ASSUME NEW T, NEW s \in Seq(T), NEW m \in T, NEW S, NEW L, L \subseteq S
    PROVE  /\ m \in S => (LastIn(Append(s, m), S, L) => m \in L)
           /\ m \notin S => (LastIn(Append(s, m), S, L) => LastIn(s, S, L))
  <1> DEFINE t == Append(s, m)
  <1>1. /\ t \in Seq(T) /\ Len(t) = Len(s) + 1 /\ Len(s) \in Nat
        /\ DOMAIN s = 1..Len(s) /\ DOMAIN t = 1..(Len(s) + 1)
        /\ \A i \in 1..Len(s): t[i] = s[i]
        /\ t[Len(s) + 1] = m
    OBVIOUS
  <1> HIDE DEF t
  <1> SUFFICES ASSUME LastIn(t, S, L)
               PROVE  (m \in S => m \in L) /\ (m \notin S => LastIn(s, S, L))
    BY DEF t
  <1>2. PICK i \in DOMAIN t: t[i] \in L /\ \A k \in DOMAIN t: k > i => t[k] \notin S
    BY DEF LastIn
  <1>3. CASE i = Len(s) + 1
    BY <1>1, <1>2, <1>3
  <1>4. CASE i # Len(s) + 1
    <2>1. i \in DOMAIN s /\ i < Len(s) + 1 /\ Len(s) + 1 \in DOMAIN t
      BY <1>1, <1>4
    <2>2. m \notin S
      BY <1>1, <1>2, <2>1
    <2>3. s[i] \in L /\ \A k \in DOMAIN s: k > i => s[k] \notin S
      BY <1>1, <1>2, <2>1
    <2> QED  BY <2>1, <2>2, <2>3 DEF LastIn
  <1> QED  BY <1>3, <1>4

\* What is left of the queue after some messages at its front were taken.
Behind(t, s) == \E d \in Nat: /\ d <= Len(s) /\ Len(t) = Len(s) - d
                              /\ \A i \in 1..Len(t): t[i] = s[i + d]

LEMMA RestOfQueue ==
    ASSUME NEW T, NEW s \in Seq(T), NEW t \in Seq(T), Behind(t, s), NEW S
    PROVE  /\ Lacks(s, S) => Lacks(t, S)
           /\ One(s, S) => One(t, S)
           /\ \A L: LastIn(t, S, L) => LastIn(s, S, L)
  <1>1. PICK d \in Nat: /\ d <= Len(s) /\ Len(t) = Len(s) - d
                        /\ \A i \in 1..Len(t): t[i] = s[i + d]
    BY DEF Behind
  <1>2. Len(s) \in Nat /\ Len(t) \in Nat /\ DOMAIN s = 1..Len(s) /\ DOMAIN t = 1..Len(t)
    OBVIOUS
  <1>3. \A i \in DOMAIN t: i + d \in DOMAIN s /\ t[i] = s[i + d] /\ i \in Nat
    BY <1>1, <1>2
  <1>4. Lacks(s, S) => Lacks(t, S)
    BY <1>3 DEF Lacks
  <1>5. One(s, S) => One(t, S)
    <2> SUFFICES ASSUME One(s, S), NEW i \in DOMAIN t, NEW k \in DOMAIN t, t[i] \in S, t[k] \in S
                 PROVE  i = k
      BY DEF One
    <2>1. i + d = k + d
      BY <1>3 DEF One
    <2> QED  BY <1>3, <2>1
  <1>6. ASSUME NEW L, LastIn(t, S, L) PROVE LastIn(s, S, L)
    <2>1. PICK i \in DOMAIN t: t[i] \in L /\ \A k \in DOMAIN t: k > i => t[k] \notin S
      BY <1>6 DEF LastIn
    <2>2. s[i + d] \in L /\ i + d \in DOMAIN s
      BY <1>3, <2>1
    <2>3. ASSUME NEW k \in DOMAIN s, k > i + d PROVE s[k] \notin S
      <3>1. k - d \in DOMAIN t /\ k - d > i /\ (k - d) + d = k
        BY <1>1, <1>2, <2>1, <2>3
      <3> QED  BY <1>3, <2>1, <3>1
    <2> QED  BY <2>2, <2>3 DEF LastIn
  <1> QED  BY <1>4, <1>5, <1>6

\* The queue without its head.
LEMMA NextMessage ==
    ASSUME NEW T, NEW s \in Seq(T), s # <<>>, NEW S
    PROVE  /\ Head(s) \in T /\ Tail(s) \in Seq(T)
           /\ Behind(Tail(s), s)
           /\ Lacks(s, S) <=> Lacks(Tail(s), S) /\ Head(s) \notin S
           /\ One(s, S) /\ Head(s) \in S => Lacks(Tail(s), S)
           /\ \A L: Head(s) \in L /\ Lacks(Tail(s), S) => LastIn(s, S, L)
  <1> DEFINE t == Tail(s)
             h == Head(s)
  <1>1. /\ h \in T /\ t \in Seq(T) /\ Len(s) \in Nat /\ Len(s) >= 1 /\ Len(t) = Len(s) - 1
        /\ DOMAIN s = 1..Len(s) /\ DOMAIN t = 1..(Len(s) - 1)
        /\ \A i \in 1..(Len(s) - 1): t[i] = s[i + 1]
        /\ h = s[1]
    OBVIOUS
  <1> HIDE DEF t, h
  <1>2. Behind(t, s)
    <2>1. 1 \in Nat /\ 1 <= Len(s) /\ Len(t) = Len(s) - 1 /\ \A i \in 1..Len(t): t[i] = s[i + 1]
      BY <1>1
    <2> QED  BY <2>1 DEF Behind
  <1>3. \A i \in DOMAIN s: i = 1 \/ (i - 1 \in DOMAIN t /\ t[i - 1] = s[i])
    BY <1>1
  <1>4. \A i \in DOMAIN t: i + 1 \in DOMAIN s /\ t[i] = s[i + 1] /\ i + 1 # 1
    BY <1>1
  <1>5. 1 \in DOMAIN s
    BY <1>1
  <1>6. Lacks(s, S) <=> Lacks(t, S) /\ h \notin S
    BY <1>1, <1>3, <1>4, <1>5 DEF Lacks
  <1>7. One(s, S) /\ h \in S => Lacks(t, S)
    BY <1>1, <1>4, <1>5 DEF One, Lacks
  <1>8. ASSUME NEW L, h \in L, Lacks(t, S) PROVE LastIn(s, S, L)
    <2>1. \A k \in DOMAIN s: k > 1 => s[k] \notin S
      BY <1>1, <1>3, <1>8 DEF Lacks
    <2> QED  BY <1>1, <1>5, <1>8, <2>1 DEF LastIn
  <1> QED  BY <1>1, <1>2, <1>6, <1>7, <1>8 DEF t, h

LEMMA EmptyQueue ==
    ASSUME NEW S
    PROVE  Lacks(<<>>, S) /\ One(<<>>, S) /\ \A L: ~LastIn(<<>>, S, L)
  BY DEF Lacks, One, LastIn

\* Kinds within kinds.
LEMMA FewerKinds ==
    ASSUME NEW s, NEW S, NEW Q, Q \subseteq S
    PROVE  Lacks(s, S) => Lacks(s, Q)
  BY DEF Lacks

-----------------------------------------------------------------------------
(* Types. *)

\* The types of everything but the two counters.
Shapes ==
  /\ chan \in [Users -> BOOLEAN]
  /\ members \in [Users -> SUBSET Users]
  /\ peers \in [Users -> [Users -> Slots]] /\ tracks \in [Users -> [Users -> Slots]]
  /\ pcs \in [PcIds -> Pcs] /\ jobs \in SUBSET Jobs
  /\ up \in [Users -> Seq(UpMessages)] /\ down \in [Users -> Seq(DownMessages)]
  /\ occ \in SUBSET Users /\ seated \in [Users -> BOOLEAN]
  /\ announce \in [Users -> [users: SUBSET Users, new: BOOLEAN, open: BOOLEAN]]
  /\ hasty \in BOOLEAN /\ overlapped \in BOOLEAN /\ dropped \in BOOLEAN
  /\ refused \in BOOLEAN /\ unheard \in BOOLEAN

\* A set of numbers has a least element, so a connection that is free can be chosen.
LEMMA LeastNumber ==
    ASSUME NEW S, S \subseteq PcIds, S # {}
    PROVE  (CHOOSE x \in S: \A y \in S: x <= y) \in S
  <1> DEFINE T == {1..x: x \in S}
  <1>1. S \subseteq Nat
    BY DEF PcIds
  <1>2. T # {} /\ T \subseteq FiniteSubsetsOf(Nat)
    <2>1. \A n \in Nat: 1..n \in SUBSET Nat /\ IsFiniteSet(1..n)
      BY FS_Interval
    <2> QED  BY <1>1, <2>1 DEF FiniteSubsetsOf
  <1>3. PICK z \in T: \A y \in T: <<y, z>> \notin StrictSubsetOrdering(Nat)
    BY <1>2, FS_StrictSubsetOrderingWellFounded, WFMin
  <1>4. PICK x \in S: z = 1..x
    BY <1>3
  <1>5. ASSUME NEW y \in S, ~(x <= y) PROVE FALSE
    <2>1. x \in Nat /\ y \in Nat /\ y < x
      BY <1>1, <1>5
    <2>2. 1..y \subseteq 1..x /\ x \in 1..x /\ x \notin 1..y
      BY <1>1, <1>5, <2>1 DEF PcIds
    <2>3. <<1..y, 1..x>> \in StrictSubsetOrdering(Nat)
      BY <2>1, <2>2 DEF StrictSubsetOrdering
    <2> QED  BY <1>3, <1>4, <2>3
  <1> QED  BY <1>5

LEMMA FreeIsBuilt ==
    ASSUME Free # {}
    PROVE  Unused \in PcIds /\ pcs[Unused].st = "free"
  <1>1. Free \subseteq PcIds
    BY DEF Free
  <1> QED  BY <1>1, LeastNumber DEF Free, Unused

LEMMA SlotFacts == NoPc \notin PcIds /\ PcIds \subseteq Slots /\ NoPc \in Slots
  BY DEF NoPc, PcIds, Slots

LEMMA ClosingType ==
    ASSUME NEW cs \in [PcIds -> Pcs], NEW ns
    PROVE  Closing(cs, ns) \in [PcIds -> Pcs]
  BY DEF Closing, Pcs, PcStates

LEMMA HangupType ==
    ASSUME Shapes, NEW u \in Users, NEW v \in Users, NEW cs \in [PcIds -> Pcs], Hangup(u, v, cs)
    PROVE  /\ peers' \in [Users -> [Users -> Slots]] /\ tracks' \in [Users -> [Users -> Slots]]
           /\ pcs' \in [PcIds -> Pcs]
  BY ClosingType, SlotFacts DEF Hangup, Shapes

LEMMA HangupAllType ==
    ASSUME Shapes, NEW u \in Users, HangupAll(u)
    PROVE  /\ peers' \in [Users -> [Users -> Slots]] /\ tracks' \in [Users -> [Users -> Slots]]
           /\ pcs' \in [PcIds -> Pcs]
  <1>1. pcs' \in [PcIds -> Pcs]
    BY ClosingType DEF HangupAll, Shapes
  <1>2. peers' \in [Users -> [Users -> Slots]]
    BY SlotFacts DEF HangupAll, Shapes
  <1>3. tracks' \in [Users -> [Users -> Slots]]
    BY SlotFacts DEF HangupAll, Shapes
  <1> QED  BY <1>1, <1>2, <1>3

LEMMA MessageTypes ==
    /\ [kind |-> "join"] \in UpMessages /\ [kind |-> "leave"] \in UpMessages
    /\ \A v \in Users: /\ [kind |-> "came", user |-> v] \in DownMessages
                       /\ [kind |-> "gone", user |-> v] \in DownMessages
    /\ \A S \in SUBSET Users: [kind |-> "state", users |-> S] \in DownMessages
    /\ \A k \in {"offer", "answer"}, v \in Users, n \in PcIds:
         /\ [kind |-> k, to |-> v, pc |-> n] \in UpMessages
         /\ [kind |-> k, from |-> v, pc |-> n] \in DownMessages
  BY DEF UpMessages, DownMessages

\* What a message of a kind carries.
LEMMA UpFields ==
    ASSUME NEW m \in UpMessages
    PROVE  /\ m.kind \in {"join", "leave", "offer", "answer"}
           /\ m.kind \in {"join", "leave"} => m = [kind |-> m.kind]
           /\ m.kind \in {"offer", "answer"} =>
                m.to \in Users /\ m.pc \in PcIds /\ m = [kind |-> m.kind, to |-> m.to, pc |-> m.pc]
  BY DEF UpMessages

LEMMA DownFields ==
    ASSUME NEW m \in DownMessages
    PROVE  /\ m.kind \in {"came", "gone", "state", "offer", "answer"}
           /\ m.kind \in {"came", "gone"} => m.user \in Users /\ m = [kind |-> m.kind, user |-> m.user]
           /\ m.kind = "state" => m.users \in SUBSET Users /\ m = [kind |-> "state", users |-> m.users]
           /\ m.kind \in {"offer", "answer"} =>
                m.from \in Users /\ m.pc \in PcIds
                /\ m = [kind |-> m.kind, from |-> m.from, pc |-> m.pc]
  BY DEF DownMessages

LEMMA HeadTyped ==
    ASSUME Shapes, NEW u \in Users
    PROVE  /\ up[u] # <<>> => Head(up[u]) \in UpMessages
           /\ down[u] # <<>> => Head(down[u]) \in DownMessages
  BY DEF Shapes

LEMMA TookType ==
    ASSUME Shapes, NEW u \in Users, up[u] # <<>>, Took(u)
    PROVE  up' \in [Users -> Seq(UpMessages)]
  BY DEF Took, Shapes

LEMMA HandledType ==
    ASSUME Shapes, NEW u \in Users, down[u] # <<>>, Handled(u)
    PROVE  down' \in [Users -> Seq(DownMessages)]
  BY DEF Handled, Shapes

LEMMA ToOthersType ==
    ASSUME NEW d \in [Users -> Seq(DownMessages)], NEW m \in DownMessages, NEW blind
    PROVE  ToOthers(m, d, blind) \in [Users -> Seq(DownMessages)]
  BY DEF ToOthers

LEMMA JoinType == ASSUME Shapes, NEW u \in Users, Join(u) PROVE Shapes'
  <1>1. up' \in [Users -> Seq(UpMessages)]
    BY MessageTypes DEF Join, Shapes
  <1>2. /\ peers' \in [Users -> [Users -> Slots]] /\ tracks' \in [Users -> [Users -> Slots]]
        /\ pcs' \in [PcIds -> Pcs]
    BY HangupAllType DEF Join, Shapes
  <1>3. hasty' \in BOOLEAN
    BY DEF Join, Shapes
  <1>4. chan' \in [Users -> BOOLEAN] /\ members' \in [Users -> SUBSET Users]
    BY DEF Join, Shapes
  <1> QED  BY <1>1, <1>2, <1>3, <1>4 DEF Join, Shapes, server

LEMMA LeaveType == ASSUME Shapes, NEW u \in Users, Leave(u) PROVE Shapes'
  <1>1. up' \in [Users -> Seq(UpMessages)]
    BY MessageTypes DEF Leave, Shapes
  <1>2. /\ peers' \in [Users -> [Users -> Slots]] /\ tracks' \in [Users -> [Users -> Slots]]
        /\ pcs' \in [PcIds -> Pcs]
    BY HangupAllType DEF Leave, Shapes
  <1> QED  BY <1>1, <1>2 DEF Leave, Shapes, server, bounds, history

LEMMA RecordJoinType == ASSUME Shapes, NEW u \in Users, RecordJoin(u) PROVE Shapes'
  <1>1. up' \in [Users -> Seq(UpMessages)]
    BY TookType DEF RecordJoin, Sent
  <1>2. overlapped' \in BOOLEAN
    BY DEF RecordJoin
  <1> QED  BY <1>1, <1>2 DEF RecordJoin, Shapes, client, links, bounds

LEMMA RefuseJoinType == ASSUME Shapes, NEW u \in Users, RefuseJoin(u) PROVE Shapes'
  <1>1. up' \in [Users -> Seq(UpMessages)]
    BY TookType DEF RefuseJoin, Sent
  <1> QED  BY <1>1 DEF RefuseJoin, Shapes, client, links, server

LEMMA AnnounceJoinType == ASSUME Shapes, NEW u \in Users, AnnounceJoin(u) PROVE Shapes'
  <1> DEFINE d(blind) == IF announce[u].new THEN ToOthers([kind |-> "came", user |-> u], down, blind)
                         ELSE down
  <1>1. \A blind: d(blind) \in [Users -> Seq(DownMessages)]
    BY ToOthersType, MessageTypes DEF Shapes
  <1>2. [kind |-> "state", users |-> announce[u].users] \in DownMessages
    BY MessageTypes DEF Shapes
  <1>3. down' \in [Users -> Seq(DownMessages)] /\ unheard' \in BOOLEAN
    <2>1. PICK blind \in SUBSET (Users \ {u}):
            /\ down' = [d(blind) EXCEPT ![u] = Append(@, [kind |-> "state", users |-> announce[u].users])]
            /\ Blind(blind)
      BY DEF AnnounceJoin
    <2> HIDE DEF d
    <2> QED  BY <1>1, <1>2, <2>1 DEF Blind
  <1>4. announce' \in [Users -> [users: SUBSET Users, new: BOOLEAN, open: BOOLEAN]]
    BY DEF AnnounceJoin, Shapes, NoJoin
  <1> QED  BY <1>3, <1>4 DEF AnnounceJoin, Shapes, client, links

LEMMA UnseatType ==
    ASSUME Shapes, NEW u \in Users, NEW blind, Unseat(u, down, blind)
    PROVE  /\ seated' \in [Users -> BOOLEAN] /\ occ' \in SUBSET Users
           /\ down' \in [Users -> Seq(DownMessages)] /\ overlapped' \in BOOLEAN
           /\ unheard' \in BOOLEAN
  BY ToOthersType, MessageTypes DEF Unseat, Blind, Shapes

LEMMA TakeLeaveType == ASSUME Shapes, NEW u \in Users, TakeLeave(u) PROVE Shapes'
  <1>1. up' \in [Users -> Seq(UpMessages)]
    BY TookType DEF TakeLeave, Sent
  <1>2. PICK blind: Unseat(u, down, blind)
    BY DEF TakeLeave
  <1> QED  BY <1>1, <1>2, UnseatType DEF TakeLeave, Shapes, client, links

LEMMA RouteType == ASSUME Shapes, NEW u \in Users, Route(u) PROVE Shapes'
  <1> DEFINE m == Head(up[u])
  <1>1. up' \in [Users -> Seq(UpMessages)]
    BY TookType DEF Route, Sent
  <1>2. m \in UpMessages /\ m.kind \in {"offer", "answer"}
    BY HeadTyped DEF Route, Sent
  <1>3. m.to \in Users /\ [kind |-> m.kind, from |-> u, pc |-> m.pc] \in DownMessages
    BY <1>2, UpFields, MessageTypes
  <1>4. down' \in [Users -> Seq(DownMessages)]
    BY <1>3 DEF Route, Shapes
  <1> QED  BY <1>1, <1>4 DEF Route, Shapes, client, links, server, bounds, history

LEMMA RouteFailsType == ASSUME Shapes, NEW u \in Users, RouteFails(u) PROVE Shapes'
  <1>1. up' \in [Users -> Seq(UpMessages)]
    BY TookType DEF RouteFails, Sent
  <1> QED  BY <1>1 DEF RouteFails, Shapes, client, links, server

LEMMA DisconnectType == ASSUME Shapes, NEW u \in Users, Disconnect(u) PROVE Shapes'
  <1>1. up' \in [Users -> Seq(UpMessages)]
    <2>1. PICK i \in 1..Len(up[u]) + 1:
            up' = [up EXCEPT ![u] = SubSeq(@, i, Len(@)) \o
                                    (IF chan[u] THEN <<[kind |-> "leave"]>> ELSE <<>>)]
      BY DEF Disconnect
    <2>2. up[u] \in Seq(UpMessages)
      BY DEF Shapes
    <2>3. SubSeq(up[u], i, Len(up[u])) \in Seq(UpMessages)
      BY <2>2
    <2>4. (IF chan[u] THEN <<[kind |-> "leave"]>> ELSE <<>>) \in Seq(UpMessages)
      BY MessageTypes
    <2>5. SubSeq(up[u], i, Len(up[u])) \o (IF chan[u] THEN <<[kind |-> "leave"]>> ELSE <<>>)
            \in Seq(UpMessages)
      BY <2>3, <2>4
    <2> QED  BY <2>1, <2>5 DEF Shapes
  <1>2. /\ peers' \in [Users -> [Users -> Slots]] /\ tracks' \in [Users -> [Users -> Slots]]
        /\ pcs' \in [PcIds -> Pcs]
    BY HangupAllType DEF Disconnect, Shapes
  <1>4. chan' \in [Users -> BOOLEAN] /\ members' \in [Users -> SUBSET Users]
    BY DEF Disconnect, Shapes
  <1>5. PICK blind: Unseat(u, down, blind)
    BY DEF Disconnect
  <1> QED  BY <1>1, <1>2, <1>4, <1>5, UnseatType DEF Disconnect, Shapes

LEMMA NewJobType ==
    ASSUME NEW u \in Users, NEW v \in Users, NEW n \in Slots
    PROVE  NewJob(u, v, n) \in Jobs
  BY SlotFacts DEF NewJob, Jobs, Stages

LEMMA OnStateType == ASSUME Shapes, NEW u \in Users, OnState(u) PROVE Shapes'
  <1> DEFINE users == Head(down[u]).users
  <1>1. down' \in [Users -> Seq(DownMessages)]
    BY HandledType DEF OnState, Event
  <1>2. users \in SUBSET Users
    BY HeadTyped, DownFields DEF OnState, Event
  <1>3. members' \in [Users -> SUBSET Users] /\ jobs' \in SUBSET Jobs
    <2>1. CASE chan[u]
      <3>1. /\ members' = [members EXCEPT ![u] = users]
            /\ jobs' = jobs \union {NewJob(u, v, NoPc): v \in {w \in users: peers[u][w] = NoPc}}
        BY <2>1 DEF OnState
      <3>2. \A v \in users: NewJob(u, v, NoPc) \in Jobs
        BY <1>2, NewJobType, SlotFacts
      <3>3. jobs' \in SUBSET Jobs
        BY <3>1, <3>2 DEF Shapes
      <3> QED  BY <1>2, <3>1, <3>3 DEF Shapes
    <2>2. CASE ~chan[u]
      BY <2>2 DEF OnState, Shapes
    <2> QED  BY <2>1, <2>2
  <1> QED  BY <1>1, <1>3 DEF OnState, Shapes, server, bounds, history

LEMMA OnCameType == ASSUME Shapes, NEW u \in Users, OnCame(u) PROVE Shapes'
  <1>1. down' \in [Users -> Seq(DownMessages)]
    BY HandledType DEF OnCame, Event
  <1>2. Head(down[u]).user \in Users
    BY HeadTyped, DownFields DEF OnCame, Event
  <1>3. members' \in [Users -> SUBSET Users]
    BY <1>2 DEF OnCame, Shapes
  <1> QED  BY <1>1, <1>3 DEF OnCame, Shapes, links, server, bounds, history

LEMMA OnGoneType == ASSUME Shapes, NEW u \in Users, OnGone(u) PROVE Shapes'
  <1>1. down' \in [Users -> Seq(DownMessages)]
    BY HandledType DEF OnGone, Event
  <1>2. Head(down[u]).user \in Users
    BY HeadTyped, DownFields DEF OnGone, Event
  <1>3. members' \in [Users -> SUBSET Users]
    <2>1. CASE chan[u]
      <3>1. members' = [members EXCEPT ![u] = members[u] \ {Head(down[u]).user}]
        BY <2>1 DEF OnGone
      <3>2. members[u] \ {Head(down[u]).user} \in SUBSET Users
        BY DEF Shapes
      <3> QED  BY <3>1, <3>2 DEF Shapes
    <2>2. CASE ~chan[u]
      BY <2>2 DEF OnGone, Shapes
    <2> QED  BY <2>1, <2>2
  <1>4. /\ peers' \in [Users -> [Users -> Slots]] /\ tracks' \in [Users -> [Users -> Slots]]
        /\ pcs' \in [PcIds -> Pcs]
    BY <1>2, HangupType DEF OnGone, Shapes
  <1> QED  BY <1>1, <1>3, <1>4 DEF OnGone, Shapes, server, bounds, history

LEMMA OnOfferType == ASSUME Shapes, NEW u \in Users, OnOffer(u) PROVE Shapes'
  <1>1. down' \in [Users -> Seq(DownMessages)]
    BY HandledType DEF OnOffer, Event
  <1>2. Head(down[u]).from \in Users /\ Head(down[u]).pc \in PcIds
    BY HeadTyped, DownFields DEF OnOffer, Event
  <1>3. jobs' \in SUBSET Jobs
    BY <1>2, NewJobType, SlotFacts DEF OnOffer, Shapes
  <1> QED  BY <1>1, <1>3 DEF OnOffer, Shapes, client, server, bounds, history

LEMMA OnAnswerType == ASSUME Shapes, NEW u \in Users, OnAnswer(u) PROVE Shapes'
  <1>1. down' \in [Users -> Seq(DownMessages)]
    BY HandledType DEF OnAnswer, Event
  <1>2. Head(down[u]).from \in Users /\ Head(down[u]).pc \in PcIds
    BY HeadTyped, DownFields DEF OnAnswer, Event
  <1>3. pcs' \in [PcIds -> Pcs]
    <2> DEFINE n == peers[u][Head(down[u]).from]
               c == Head(down[u]).pc
    <2>1. c \in Slots /\ pcs \in [PcIds -> Pcs] /\ n \in Slots
      BY <1>2, SlotFacts DEF Shapes
    <2>2. CASE Live(n) /\ pcs[n].offered /\ pcs[n].remote = NoPc
      <3>1. n \in PcIds
        BY <2>1, <2>2 DEF Live, Slots
      <3>2. pcs[n] \in Pcs
        BY <2>1, <3>1
      <3>3. [pcs[n] EXCEPT !.remote = c] \in Pcs
        BY <2>1, <3>2 DEF Pcs
      <3>4. pcs' = [pcs EXCEPT ![n] = [pcs[n] EXCEPT !.remote = c]]
        BY <2>2 DEF OnAnswer
      <3> QED  BY <2>1, <3>3, <3>4
    <2>3. CASE ~(Live(n) /\ pcs[n].offered /\ pcs[n].remote = NoPc)
      BY <2>1, <2>3 DEF OnAnswer
    <2> QED  BY <2>2, <2>3
  <1> QED  BY <1>1, <1>3 DEF OnAnswer, Shapes, client, server, bounds, history

LEMMA BuildPeerType == ASSUME Shapes, NEW j \in jobs, BuildPeer(j) PROVE Shapes'
  <1> DEFINE n == Unused
  <1>1. j \in Jobs /\ j.own \in Users /\ j.peer \in Users /\ j.offer \in Slots
    BY DEF Shapes, Jobs
  <1>2. CASE Reuses(j)
    <2>1. jobs' \in SUBSET Jobs
      <3>1. peers[j.own][j.peer] \in Slots
        BY <1>1 DEF Shapes
      <3>2. [j EXCEPT !.stage = "registered", !.pc = peers[j.own][j.peer]] \in Jobs
        BY <1>1, <3>1 DEF Jobs, Stages
      <3> QED  BY <1>2, <3>2 DEF BuildPeer, Move, Shapes
    <2> QED  BY <1>2, <2>1 DEF BuildPeer, Shapes, client, server, bounds, history
  <1>3. CASE ~Reuses(j)
    <2>1. n \in PcIds /\ n \in Slots
      BY <1>3, FreeIsBuilt, SlotFacts DEF BuildPeer
    <2>2. /\ pcs' = [pcs EXCEPT ![n] = [FreePc EXCEPT !.own = j.own, !.peer = j.peer, !.st = "live"]]
          /\ tracks' = [tracks EXCEPT ![j.own][j.peer] = n]
          /\ jobs' = (jobs \ {j}) \union {[j EXCEPT !.stage = "built", !.pc = n]}
      BY <1>3 DEF BuildPeer, Move
    <2>3. jobs' \in SUBSET Jobs
      BY <1>1, <2>1, <2>2 DEF Shapes, Jobs, Stages
    <2>4. pcs' \in [PcIds -> Pcs]
      BY <1>1, <2>2, SlotFacts DEF Shapes, Pcs, PcStates, FreePc
    <2>5. tracks' \in [Users -> [Users -> Slots]]
      BY <1>1, <2>1, <2>2 DEF Shapes
    <2> QED  BY <2>3, <2>4, <2>5 DEF BuildPeer, Shapes, client, server, bounds, history
  <1> QED  BY <1>2, <1>3

LEMMA BuildFailsType == ASSUME Shapes, NEW j \in jobs, BuildFails(j) PROVE Shapes'
  <1>1. j.own \in Users /\ j.peer \in Users
    BY DEF Shapes, Jobs
  <1>2. pcs' \in [PcIds -> Pcs] /\ tracks' \in [Users -> [Users -> Slots]]
    <2>1. CASE UNCHANGED <<tracks, pcs>>
      BY <2>1 DEF Shapes
    <2>2. CASE /\ Free # {}
               /\ pcs' = [pcs EXCEPT ![Unused] = [FreePc EXCEPT !.st = "closed"]]
               /\ tracks' = [tracks EXCEPT ![j.own][j.peer] = Unused]
      <3>1. Unused \in PcIds /\ Unused \in Slots
        BY <2>2, FreeIsBuilt, SlotFacts
      <3>2. [FreePc EXCEPT !.st = "closed"] \in Pcs
        BY SlotFacts DEF FreePc, Pcs, PcStates
      <3>3. pcs' \in [PcIds -> Pcs]
        BY <2>2, <3>1, <3>2 DEF Shapes
      <3>4. tracks' \in [Users -> [Users -> Slots]]
        BY <1>1, <2>2, <3>1 DEF Shapes
      <3> QED  BY <3>3, <3>4
    <2> QED  BY <2>1, <2>2 DEF BuildFails
  <1> QED  BY <1>2 DEF BuildFails, Shapes, client, server

LEMMA RegisterPeerType == ASSUME Shapes, NEW j \in jobs, RegisterPeer(j) PROVE Shapes'
  <1>1. j \in Jobs /\ j.own \in Users /\ j.peer \in Users /\ j.pc \in Slots
    BY DEF Shapes, Jobs
  <1>2. jobs' \in SUBSET Jobs
    BY <1>1 DEF RegisterPeer, Move, Shapes, Jobs, Stages
  <1>3. peers' \in [Users -> [Users -> Slots]]
    BY <1>1 DEF RegisterPeer, Shapes
  <1> QED  BY <1>2, <1>3 DEF RegisterPeer, Shapes, client, server, bounds, history

LEMMA AppliedType ==
    ASSUME Shapes, NEW j \in jobs, Able(j)
    PROVE  Applied(j) \in [PcIds -> Pcs] /\ j.pc \in PcIds
  <1>1. j.pc \in Slots /\ j.offer \in Slots
    BY DEF Shapes, Jobs
  <1>2. j.pc \in PcIds
    BY <1>1 DEF Able, Live, Slots
  <1>3. pcs \in [PcIds -> Pcs] /\ pcs[j.pc] \in Pcs
    BY <1>2 DEF Shapes
  <1>4. [pcs[j.pc] EXCEPT !.offered = TRUE] \in Pcs /\ [pcs[j.pc] EXCEPT !.remote = j.offer] \in Pcs
    BY <1>1, <1>3 DEF Pcs
  <1>5. \/ Applied(j) = [pcs EXCEPT ![j.pc] = [pcs[j.pc] EXCEPT !.offered = TRUE]]
        \/ Applied(j) = [pcs EXCEPT ![j.pc] = [pcs[j.pc] EXCEPT !.remote = j.offer]]
    BY DEF Applied
  <1> QED  BY <1>2, <1>3, <1>4, <1>5

LEMMA DescribeType == ASSUME Shapes, NEW j \in jobs, Describe(j) PROVE Shapes'
  <1> DEFINE kind == IF j.offer = NoPc THEN "offer" ELSE "answer"
  <1>1. j \in Jobs /\ j.own \in Users /\ j.peer \in Users
    BY DEF Shapes, Jobs
  <1>2. pcs' \in [PcIds -> Pcs]
    BY AppliedType DEF Describe, Shapes
  <1>3. j.pc \in PcIds => [kind |-> kind, to |-> j.peer, pc |-> j.pc] \in UpMessages
    BY <1>1, MessageTypes
  <1>4. up' \in [Users -> Seq(UpMessages)]
    BY <1>1, <1>3, AppliedType DEF Describe, Shapes
  <1>5. jobs' \in SUBSET Jobs
    BY DEF Describe, Shapes
  <1> QED  BY <1>2, <1>4, <1>5 DEF Describe, Shapes, client, server, bounds, history

LEMMA DescribeFailsType == ASSUME Shapes, NEW j \in jobs, DescribeFails(j) PROVE Shapes'
  <1>1. pcs' \in [PcIds -> Pcs]
    BY AppliedType DEF DescribeFails, Shapes
  <1>2. jobs' \in SUBSET Jobs
    BY DEF DescribeFails, Shapes
  <1> QED  BY <1>1, <1>2 DEF DescribeFails, Shapes, client, server

LEMMA ClosedType == ASSUME Shapes, NEW n \in PcIds, Closed(n), pcs[n].own \in Users, pcs[n].peer \in Users
                    PROVE Shapes'
  <1> DEFINE cs == [pcs EXCEPT ![n] = [FreePc EXCEPT !.st = "closed"]]
  <1>1. cs \in [PcIds -> Pcs]
    BY SlotFacts DEF Shapes, Pcs, PcStates, FreePc
  <1>2. Hangup(pcs[n].own, pcs[n].peer, cs)
    BY DEF Closed
  <1> QED  BY <1>1, <1>2, HangupType DEF Closed, Shapes, client, server, bounds, history

LEMMA StrandedType == ASSUME Shapes, NEW n \in PcIds, Stranded(n), pcs[n].own \in Users, pcs[n].peer \in Users
                      PROVE Shapes'
  <1>1. Closing(pcs, {n}) \in [PcIds -> Pcs]
    BY ClosingType DEF Shapes
  <1>2. Hangup(pcs[n].own, pcs[n].peer, Closing(pcs, {n}))
    BY DEF Stranded
  <1> QED  BY <1>1, <1>2, HangupType DEF Stranded, Shapes, client, server, bounds, history

LEMMA DropType == ASSUME Shapes, NEW n \in PcIds, Drop(n), pcs[n].own \in Users, pcs[n].peer \in Users
                  PROVE Shapes'
  <1>1. Hangup(pcs[n].own, pcs[n].peer, pcs) /\ pcs \in [PcIds -> Pcs]
    BY DEF Drop, Shapes
  <1> QED  BY <1>1, HangupType DEF Drop, Shapes, client, server

-----------------------------------------------------------------------------
(* What each action does to the queues. *)

JoinM == [kind |-> "join"]
LeaveM == [kind |-> "leave"]
Cmds == {JoinM, LeaveM}
Came(u) == [kind |-> "came", user |-> u]
Gone(u) == [kind |-> "gone", user |-> u]
States == [kind: {"state"}, users: SUBSET Users]
StatesWith(v) == {m \in States: v \in m.users}
ToUp(k, v, n) == [kind |-> k, to |-> v, pc |-> n]
FromDown(k, v, n) == [kind |-> k, from |-> v, pc |-> n]

LEMMA Queues ==
    ASSUME Shapes, NEW u \in Users
    PROVE  up[u] \in Seq(UpMessages) /\ down[u] \in Seq(DownMessages)
  BY DEF Shapes

LEMMA GrownQueue ==
    ASSUME NEW T, NEW s \in Seq(T), NEW m \in T, NEW t, t = Append(s, m)
    PROVE  /\ \A S: Lacks(t, S) <=> Lacks(s, S) /\ m \notin S
           /\ \A S: One(s, S) /\ (m \in S => Lacks(s, S)) => One(t, S)
           /\ \A S, L: L \subseteq S /\ LastIn(t, S, L) => IF m \in S THEN m \in L ELSE LastIn(s, S, L)
  BY MoreMessages, MoreLast

\* A message is added to the queue of u.
LEMMA UpGrows ==
    ASSUME Shapes, NEW u \in Users, NEW m \in UpMessages, up' = [up EXCEPT ![u] = Append(@, m)]
    PROVE  /\ \A w \in Users \ {u}: up'[w] = up[w]
           /\ up'[u] = Append(up[u], m)
           /\ \A S: Lacks(up'[u], S) <=> Lacks(up[u], S) /\ m \notin S
           /\ \A S: One(up[u], S) /\ (m \in S => Lacks(up[u], S)) => One(up'[u], S)
           /\ \A S, L: L \subseteq S /\ LastIn(up'[u], S, L) =>
                IF m \in S THEN m \in L ELSE LastIn(up[u], S, L)
  <1>1. up'[u] = Append(up[u], m) /\ \A w \in Users \ {u}: up'[w] = up[w]
    BY DEF Shapes
  <1> QED  BY <1>1, Queues, MoreMessages, MoreLast

\* The head of u's queue is taken.
LEMMA UpTaken ==
    ASSUME Shapes, NEW u \in Users, up[u] # <<>>, Took(u)
    PROVE  /\ \A w \in Users \ {u}: up'[w] = up[w]
           /\ Head(up[u]) \in UpMessages
           /\ \A S: Lacks(up[u], S) <=> Lacks(up'[u], S) /\ Head(up[u]) \notin S
           /\ \A S: One(up[u], S) => One(up'[u], S)
           /\ \A S: One(up[u], S) /\ Head(up[u]) \in S => Lacks(up'[u], S)
           /\ \A S, L: LastIn(up'[u], S, L) => LastIn(up[u], S, L)
           /\ \A S, L: Head(up[u]) \in L /\ Lacks(up'[u], S) => LastIn(up[u], S, L)
  <1>1. up'[u] = Tail(up[u]) /\ \A w \in Users \ {u}: up'[w] = up[w]
    BY DEF Shapes, Took
  <1>2. Tail(up[u]) \in Seq(UpMessages) /\ Behind(Tail(up[u]), up[u])
    BY Queues, NextMessage
  <1> QED  BY <1>1, <1>2, Queues, NextMessage, RestOfQueue

LEMMA DownTaken ==
    ASSUME Shapes, NEW u \in Users, down[u] # <<>>, Handled(u)
    PROVE  /\ \A w \in Users \ {u}: down'[w] = down[w]
           /\ Head(down[u]) \in DownMessages
           /\ \A S: Lacks(down[u], S) <=> Lacks(down'[u], S) /\ Head(down[u]) \notin S
           /\ \A S: One(down[u], S) => One(down'[u], S)
           /\ \A S: One(down[u], S) /\ Head(down[u]) \in S => Lacks(down'[u], S)
           /\ \A S, L: LastIn(down'[u], S, L) => LastIn(down[u], S, L)
           /\ \A S, L: Head(down[u]) \in L /\ Lacks(down'[u], S) => LastIn(down[u], S, L)
  <1>1. down'[u] = Tail(down[u]) /\ \A w \in Users \ {u}: down'[w] = down[w]
    BY DEF Shapes, Handled
  <1>2. Tail(down[u]) \in Seq(DownMessages) /\ Behind(Tail(down[u]), down[u])
    BY Queues, NextMessage
  <1> QED  BY <1>1, <1>2, Queues, NextMessage, RestOfQueue

\* What is left of u's queue, with a message m behind it.
LEMMA CutAndMore ==
    ASSUME NEW T, NEW s \in Seq(T), NEW t \in Seq(T), Behind(t, s), NEW m \in T, NEW S
    PROVE  /\ Lacks(s, S) /\ m \notin S => Lacks(Append(t, m), S)
           /\ One(s, S) /\ m \notin S => One(Append(t, m), S)
           /\ Lacks(Append(t, m), S) => m \notin S
           /\ \A L: L \subseteq S /\ m \in S /\ LastIn(Append(t, m), S, L) => m \in L
  BY RestOfQueue, MoreMessages, MoreLast

LEMMA Concatenated ==
    ASSUME NEW T, NEW s \in Seq(T), NEW m \in T
    PROVE  s \o <<m>> = Append(s, m) /\ s \o <<>> = s
  OBVIOUS

LEMMA SuffixBehind ==
    ASSUME NEW T, NEW s \in Seq(T), NEW i \in 1..Len(s) + 1
    PROVE  SubSeq(s, i, Len(s)) \in Seq(T) /\ Behind(SubSeq(s, i, Len(s)), s)
  <1> DEFINE t == SubSeq(s, i, Len(s))
  <1>1. /\ t \in Seq(T) /\ Len(s) \in Nat /\ Len(t) = Len(s) - (i - 1) /\ i \in Nat /\ i >= 1
        /\ \A k \in 1..Len(t): t[k] = s[k + (i - 1)]
    OBVIOUS
  <1> HIDE DEF t
  <1>2. i - 1 \in Nat /\ i - 1 <= Len(s)
    OBVIOUS
  <1>3. Behind(t, s)
    BY <1>1, <1>2 DEF Behind
  <1> QED  BY <1>1, <1>3 DEF t

\* Join: a leave if need be, and the join.
LEMMA UpOfJoin ==
    ASSUME Shapes, NEW u \in Users, Join(u)
    PROVE  /\ \A w \in Users \ {u}: up'[w] = up[w]
           /\ up'[u] = Append(IF chan[u] THEN Append(up[u], LeaveM) ELSE up[u], JoinM)
           /\ (IF chan[u] THEN Append(up[u], LeaveM) ELSE up[u]) \in Seq(UpMessages)
           /\ JoinM \in UpMessages /\ LeaveM \in UpMessages
  <1>1. JoinM \in UpMessages /\ LeaveM \in UpMessages
    BY MessageTypes DEF JoinM, LeaveM
  <1>2. /\ up'[u] = (up[u] \o (IF chan[u] THEN <<LeaveM>> ELSE <<>>)) \o <<JoinM>>
        /\ \A w \in Users \ {u}: up'[w] = up[w]
    BY DEF Join, Shapes, JoinM, LeaveM
  <1>3. up[u] \o (IF chan[u] THEN <<LeaveM>> ELSE <<>>)
          = IF chan[u] THEN Append(up[u], LeaveM) ELSE up[u]
    BY <1>1, Queues, Concatenated
  <1>4. (IF chan[u] THEN Append(up[u], LeaveM) ELSE up[u]) \in Seq(UpMessages)
    BY <1>1, Queues, MoreMessages
  <1>5. (IF chan[u] THEN Append(up[u], LeaveM) ELSE up[u]) \o <<JoinM>>
          = Append(IF chan[u] THEN Append(up[u], LeaveM) ELSE up[u], JoinM)
    BY <1>1, <1>4, Concatenated
  <1> QED  BY <1>1, <1>2, <1>3, <1>4, <1>5

\* Disconnect: what was not sent yet, and a leave if need be.
LEMMA UpOfDisconnect ==
    ASSUME Shapes, NEW u \in Users, Disconnect(u)
    PROVE  /\ \A w \in Users \ {u}: up'[w] = up[w]
           /\ LeaveM \in UpMessages
           /\ \E t \in Seq(UpMessages):
                Behind(t, up[u]) /\ up'[u] = IF chan[u] THEN Append(t, LeaveM) ELSE t
  <1>1. LeaveM \in UpMessages
    BY MessageTypes DEF LeaveM
  <1>2. PICK i \in 1..Len(up[u]) + 1:
          up' = [up EXCEPT ![u] = SubSeq(@, i, Len(@)) \o
                                  (IF chan[u] THEN <<LeaveM>> ELSE <<>>)]
    BY DEF Disconnect, LeaveM
  <1> DEFINE t == SubSeq(up[u], i, Len(up[u]))
  <1>3. t \in Seq(UpMessages) /\ Behind(t, up[u])
    BY Queues, SuffixBehind
  <1>4. up'[u] = t \o (IF chan[u] THEN <<LeaveM>> ELSE <<>>) /\ \A w \in Users \ {u}: up'[w] = up[w]
    BY <1>2 DEF Shapes
  <1> HIDE DEF t
  <1>5. up'[u] = IF chan[u] THEN Append(t, LeaveM) ELSE t
    BY <1>1, <1>3, <1>4, Concatenated
  <1> QED  BY <1>1, <1>3, <1>4, <1>5

\* News of a user reach everybody else who is not blind.
LEMMA DownNews ==
    ASSUME Shapes, NEW u \in Users, NEW m \in DownMessages, m.user = u, NEW blind, NEW w \in Users
    PROVE  LET told == w # u /\ w \notin blind IN
             /\ ~told => ToOthers(m, down, blind)[w] = down[w]
             /\ \A S: Lacks(ToOthers(m, down, blind)[w], S) <=> Lacks(down[w], S) /\ ~(told /\ m \in S)
             /\ \A S: One(down[w], S) /\ (told /\ m \in S => Lacks(down[w], S))
                        => One(ToOthers(m, down, blind)[w], S)
             /\ \A S, L: L \subseteq S /\ LastIn(ToOthers(m, down, blind)[w], S, L) =>
                  IF told /\ m \in S THEN m \in L ELSE LastIn(down[w], S, L)
  <1> DEFINE told == w # u /\ w \notin blind
             t == ToOthers(m, down, blind)[w]
  <1>1. /\ ~told => t = down[w]
        /\ told => t = Append(down[w], m)
    BY DEF ToOthers
  <1>2. CASE ~told
    BY <1>1, <1>2
  <1>3. CASE told
    <2>1. t = Append(down[w], m)
      BY <1>1, <1>3
    <2>2. /\ \A S: Lacks(t, S) <=> Lacks(down[w], S) /\ m \notin S
          /\ \A S: One(down[w], S) /\ (m \in S => Lacks(down[w], S)) => One(t, S)
          /\ \A S, L: L \subseteq S /\ LastIn(t, S, L) =>
               IF m \in S THEN m \in L ELSE LastIn(down[w], S, L)
      BY <2>1, Queues, GrownQueue
    <2> QED  BY <1>3, <2>2
  <1> QED  BY <1>2, <1>3

LEMMA NewsTypes == \A u \in Users: /\ Came(u) \in DownMessages /\ Came(u).user = u
                                   /\ Gone(u) \in DownMessages /\ Gone(u).user = u
  BY MessageTypes DEF Came, Gone

\* AnnounceJoin: the others hear of the newcomer, and the newcomer of them.
StateOf(u) == [kind |-> "state", users |-> announce[u].users]
LEMMA DownOfAnnounce ==
    ASSUME Shapes, NEW u \in Users, AnnounceJoin(u)
    PROVE  /\ StateOf(u) \in DownMessages /\ StateOf(u) \in States
           /\ \A S: Lacks(down'[u], S) <=> Lacks(down[u], S) /\ StateOf(u) \notin S
           /\ \A S: One(down[u], S) /\ (StateOf(u) \in S => Lacks(down[u], S)) => One(down'[u], S)
           /\ \A S, L: L \subseteq S /\ LastIn(down'[u], S, L) =>
                IF StateOf(u) \in S THEN StateOf(u) \in L ELSE LastIn(down[u], S, L)
           /\ \A w \in Users \ {u}: \E told \in BOOLEAN:
                /\ told => announce[u].new
                /\ ~unheard' => ~unheard /\ (told <=> announce[u].new)
                /\ \A S: Lacks(down'[w], S) <=> Lacks(down[w], S) /\ ~(told /\ Came(u) \in S)
                /\ \A S: One(down[w], S) /\ (told /\ Came(u) \in S => Lacks(down[w], S))
                           => One(down'[w], S)
                /\ \A S, L: L \subseteq S /\ LastIn(down'[w], S, L) =>
                     IF told /\ Came(u) \in S THEN Came(u) \in L ELSE LastIn(down[w], S, L)
  <1>0. PICK blind \in SUBSET (Users \ {u}):
          /\ down' = [(IF announce[u].new THEN ToOthers(Came(u), down, blind) ELSE down)
                        EXCEPT ![u] = Append(@, StateOf(u))]
          /\ Blind(blind)
    BY DEF AnnounceJoin, Came, StateOf
  <1> DEFINE d == IF announce[u].new THEN ToOthers(Came(u), down, blind) ELSE down
             told(w) == announce[u].new /\ w \notin blind
  <1>1. announce[u].users \in SUBSET Users /\ announce[u].new \in BOOLEAN
    BY DEF Shapes
  <1>2. StateOf(u) \in DownMessages /\ StateOf(u) \in States
    BY <1>1, MessageTypes DEF StateOf, States
  <1>3. d \in [Users -> Seq(DownMessages)]
    BY NewsTypes, ToOthersType DEF Shapes
  <1>4. down' = [d EXCEPT ![u] = Append(@, StateOf(u))]
    BY <1>0
  <1>5. d[u] = down[u]
    BY NewsTypes, DownNews
  <1>6. \A w \in Users \ {u}:
          /\ \A S: Lacks(d[w], S) <=> Lacks(down[w], S) /\ ~(told(w) /\ Came(u) \in S)
          /\ \A S: One(down[w], S) /\ (told(w) /\ Came(u) \in S => Lacks(down[w], S)) => One(d[w], S)
          /\ \A S, L: L \subseteq S /\ LastIn(d[w], S, L) =>
               IF told(w) /\ Came(u) \in S THEN Came(u) \in L ELSE LastIn(down[w], S, L)
    <2>1. CASE announce[u].new
      BY <2>1, NewsTypes, DownNews
    <2>2. CASE ~announce[u].new
      BY <2>2
    <2> QED  BY <2>1, <2>2
  <1>7. \A w \in Users \ {u}: /\ told(w) \in BOOLEAN
                              /\ told(w) => announce[u].new
                              /\ ~unheard' => ~unheard /\ (told(w) <=> announce[u].new)
    BY <1>0, <1>1 DEF Blind
  <1> HIDE DEF d
  <1>8. down'[u] = Append(down[u], StateOf(u)) /\ \A w \in Users \ {u}: down'[w] = d[w]
    BY <1>3, <1>4, <1>5
  <1>9. \A w \in Users \ {u}: \E t \in BOOLEAN:
          /\ t => announce[u].new
          /\ ~unheard' => ~unheard /\ (t <=> announce[u].new)
          /\ \A S: Lacks(down'[w], S) <=> Lacks(down[w], S) /\ ~(t /\ Came(u) \in S)
          /\ \A S: One(down[w], S) /\ (t /\ Came(u) \in S => Lacks(down[w], S))
                     => One(down'[w], S)
          /\ \A S, L: L \subseteq S /\ LastIn(down'[w], S, L) =>
               IF t /\ Came(u) \in S THEN Came(u) \in L ELSE LastIn(down[w], S, L)
    <2> TAKE w \in Users \ {u}
    <2> WITNESS told(w) \in BOOLEAN
    <2> HIDE DEF told
    <2> QED  BY <1>6, <1>7, <1>8
  <1> HIDE DEF told
  <1>10. /\ \A S: Lacks(down'[u], S) <=> Lacks(down[u], S) /\ StateOf(u) \notin S
         /\ \A S: One(down[u], S) /\ (StateOf(u) \in S => Lacks(down[u], S))
                    => One(down'[u], S)
         /\ \A S, L: L \subseteq S /\ LastIn(down'[u], S, L) =>
              IF StateOf(u) \in S THEN StateOf(u) \in L ELSE LastIn(down[u], S, L)
    BY <1>2, <1>8, Queues, MoreMessages, MoreLast
  <1> QED  BY <1>2, <1>9, <1>10

\* Unseat: whoever was an occupant is announced to have gone.
Leaves(u) == seated[u] /\ u \in occ
LEMMA DownOfUnseat ==
    ASSUME Shapes, NEW u \in Users, NEW blind, Unseat(u, down, blind), NEW w \in Users
    PROVE  LET told == Leaves(u) /\ w # u /\ w \notin blind IN
             /\ ~told => down'[w] = down[w]
             /\ \A S: Lacks(down'[w], S) <=> Lacks(down[w], S) /\ ~(told /\ Gone(u) \in S)
             /\ \A S: One(down[w], S) /\ (told /\ Gone(u) \in S => Lacks(down[w], S))
                        => One(down'[w], S)
             /\ \A S, L: L \subseteq S /\ LastIn(down'[w], S, L) =>
                  IF told /\ Gone(u) \in S THEN Gone(u) \in L ELSE LastIn(down[w], S, L)
  <1>1. CASE Leaves(u)
    <2>1. down' = ToOthers(Gone(u), down, blind)
      BY <1>1 DEF Unseat, Leaves, Gone
    <2> QED  BY <1>1, <2>1, NewsTypes, DownNews
  <1>2. CASE ~Leaves(u)
    <2>1. down' = down
      BY <1>2 DEF Unseat, Leaves
    <2> QED  BY <1>2, <2>1
  <1> QED  BY <1>1, <1>2

\* Route: a signal passes from one queue to the other, or is dropped.
Passed(u) == FromDown(Head(up[u]).kind, u, Head(up[u]).pc)
LEMMA DownOfRoute ==
    ASSUME Shapes, NEW u \in Users, Route(u)
    PROVE  /\ Head(up[u]).to \in Users /\ Head(up[u]).pc \in PcIds
           /\ Head(up[u]).kind \in {"offer", "answer"}
           /\ Head(up[u]) = ToUp(Head(up[u]).kind, Head(up[u]).to, Head(up[u]).pc)
           /\ Passed(u) \in DownMessages
           /\ \A w \in Users:
                LET here == Passes(u) /\ w = Head(up[u]).to IN
                /\ ~here => down'[w] = down[w]
                /\ \A S: Lacks(down'[w], S) <=> Lacks(down[w], S) /\ ~(here /\ Passed(u) \in S)
                /\ \A S: One(down[w], S) /\ (here /\ Passed(u) \in S => Lacks(down[w], S))
                           => One(down'[w], S)
                /\ \A S, L: L \subseteq S /\ LastIn(down'[w], S, L) =>
                     IF here /\ Passed(u) \in S THEN Passed(u) \in L ELSE LastIn(down[w], S, L)
  <1> DEFINE m == Head(up[u])
  <1>1. m \in UpMessages /\ m.kind \in {"offer", "answer"}
    BY HeadTyped DEF Route, Sent
  <1>2. m.to \in Users /\ m.pc \in PcIds /\ m = ToUp(m.kind, m.to, m.pc)
    BY <1>1, UpFields DEF ToUp
  <1>3. Passed(u) \in DownMessages
    BY <1>1, <1>2, MessageTypes DEF Passed, FromDown
  <1>4. CASE Passes(u)
    <2>1. down' = [down EXCEPT ![m.to] = Append(@, Passed(u))]
      BY <1>4 DEF Route, Passes, Passed, FromDown
    <2>2. down'[m.to] = Append(down[m.to], Passed(u)) /\ \A w \in Users \ {m.to}: down'[w] = down[w]
      BY <1>2, <2>1 DEF Shapes
    <2> HIDE DEF m
    <2>3. ASSUME NEW w \in Users, w = m.to
          PROVE  /\ \A S: Lacks(down'[w], S) <=> Lacks(down[w], S) /\ ~(Passed(u) \in S)
                 /\ \A S: One(down[w], S) /\ (Passed(u) \in S => Lacks(down[w], S)) => One(down'[w], S)
                 /\ \A S, L: L \subseteq S /\ LastIn(down'[w], S, L) =>
                      IF Passed(u) \in S THEN Passed(u) \in L ELSE LastIn(down[w], S, L)
      <3>1. down'[w] = Append(down[w], Passed(u)) /\ down[w] \in Seq(DownMessages)
        BY <2>2, <2>3, Queues
      <3>2. ASSUME NEW S
            PROVE  /\ Lacks(down'[w], S) <=> Lacks(down[w], S) /\ Passed(u) \notin S
                   /\ One(down[w], S) /\ (Passed(u) \in S => Lacks(down[w], S)) => One(down'[w], S)
        BY <1>3, <3>1, MoreMessages
      <3>3. ASSUME NEW S, NEW L, L \subseteq S, LastIn(down'[w], S, L)
            PROVE  IF Passed(u) \in S THEN Passed(u) \in L ELSE LastIn(down[w], S, L)
        BY <1>3, <3>1, <3>3, MoreLast
      <3> QED  BY <3>2, <3>3
    <2>4. \A w \in Users \ {m.to}: down'[w] = down[w]
      BY <2>2
    <2> QED  BY <1>1, <1>2, <1>3, <1>4, <2>3, <2>4 DEF m
  <1>5. CASE ~Passes(u)
    <2>1. down' = down
      BY <1>5 DEF Route, Passes
    <2> QED  BY <1>1, <1>2, <1>3, <1>5, <2>1
  <1> QED  BY <1>4, <1>5

\* Describe: a description is sent, or none.
Described(j) == ToUp(IF j.offer = NoPc THEN "offer" ELSE "answer", j.peer, j.pc)
LEMMA UpOfDescribe ==
    ASSUME Shapes, NEW j \in jobs, Describe(j)
    PROVE  /\ j.own \in Users /\ j.peer \in Users /\ (Able(j) => j.pc \in PcIds)
           /\ Able(j) /\ chan[j.own] => /\ Described(j) \in UpMessages
                                        /\ up' = [up EXCEPT ![j.own] = Append(@, Described(j))]
           /\ ~(Able(j) /\ chan[j.own]) => up' = up
  <1>1. j \in Jobs /\ j.own \in Users /\ j.peer \in Users /\ j.pc \in Slots
    BY DEF Shapes, Jobs
  <1>2. Able(j) => j.pc \in PcIds
    BY <1>1 DEF Able, Live, Slots
  <1>3. Able(j) => Described(j) \in UpMessages
    BY <1>1, <1>2, MessageTypes DEF Described, ToUp
  <1> QED  BY <1>1, <1>2, <1>3 DEF Describe, Described, ToUp

-----------------------------------------------------------------------------
(* Who is listed.  What the queues still hold decides what a client will    *)
(* believe: the last command of a user, and the last news of another user.  *)

Tell(v) == States \union {Came(v), Gone(v)}
Yes(v) == StatesWith(v) \union {Came(v)}
Opens(u) == announce[u].open

CommandsOK(u) ==
  /\ LastIn(up[u], Cmds, {JoinM}) => chan[u]
  /\ LastIn(up[u], Cmds, {LeaveM}) => ~chan[u]
  /\ Lacks(up[u], Cmds) /\ ~refused => (chan[u] <=> u \in occ)
SeatOK(u) ==
  /\ u \in occ <=> seated[u] \/ Opens(u)
  /\ Opens(u) /\ ~announce[u].new => seated[u]
  /\ u \notin announce[u].users
  /\ Lacks(down[u], StatesWith(u))
  /\ u \notin members[u]
  /\ ~chan[u] => members[u] = {}
\* As long as joins do not overlap, the list read is that of those who were announced.
AloneOK(u) ==
  Opens(u) => \A v \in Users \ {u}: ~Opens(v) /\ (v \in announce[u].users <=> seated[v])
\* u's client will list v just if v has a seat.
Believes(u, v) ==
  /\ LastIn(down[u], Tell(v), Yes(v)) => seated[v]
  /\ LastIn(down[u], Tell(v), Tell(v) \ Yes(v)) => ~seated[v]
  /\ Lacks(down[u], Tell(v)) => (v \in members[u] <=> seated[v])
Listens(u) == chan[u] /\ seated[u] /\ ~Opens(u) /\ Lacks(up[u], Cmds)
ListOK(u) == Listens(u) => \A v \in Users \ {u}: Believes(u, v)

Heard == ~overlapped /\ ~refused /\ ~unheard
ListInv ==
  /\ \A u \in Users: CommandsOK(u) /\ SeatOK(u)
  /\ Heard => \A u \in Users: AloneOK(u) /\ ListOK(u)

\* The kinds of messages are disjoint.
LEMMA Kinds ==
    /\ JoinM # LeaveM /\ JoinM \in Cmds /\ LeaveM \in Cmds /\ {JoinM} \subseteq Cmds /\ {LeaveM} \subseteq Cmds
    /\ \A k \in {"offer", "answer"}: \A v, n: ToUp(k, v, n) \notin Cmds
    /\ \A v: /\ Yes(v) \subseteq Tell(v) /\ Tell(v) \ Yes(v) \subseteq Tell(v)
             /\ Came(v) \in Yes(v) /\ Gone(v) \in Tell(v) \ Yes(v) /\ StatesWith(v) \subseteq Tell(v)
             /\ \A m \in States: m \in Tell(v) /\ (m \in Yes(v) <=> v \in m.users)
                                 /\ (m \in StatesWith(v) <=> v \in m.users)
             /\ \A w: /\ w # v => Came(w) \notin Tell(v) /\ Gone(w) \notin Tell(v)
                      /\ Came(w) \notin StatesWith(v) /\ Gone(w) \notin StatesWith(v)
                      /\ Came(w) \notin States /\ Gone(w) \notin States
             /\ \A k \in {"offer", "answer"}: \A w, n:
                  FromDown(k, w, n) \notin Tell(v) /\ FromDown(k, w, n) \notin StatesWith(v)
  <1>1. /\ JoinM # LeaveM /\ JoinM \in Cmds /\ LeaveM \in Cmds /\ {JoinM} \subseteq Cmds
        /\ {LeaveM} \subseteq Cmds
    BY DEF JoinM, LeaveM, Cmds
  <1>2. \A k \in {"offer", "answer"}: \A v, n: ToUp(k, v, n) \notin Cmds
    <2> SUFFICES ASSUME NEW k \in {"offer", "answer"}, NEW v, NEW n, ToUp(k, v, n) \in Cmds PROVE FALSE
      OBVIOUS
    <2>1. ToUp(k, v, n).kind = k /\ JoinM.kind = "join" /\ LeaveM.kind = "leave"
      BY DEF ToUp, JoinM, LeaveM
    <2> QED  BY <2>1 DEF Cmds
  <1>3. ASSUME NEW v
        PROVE  /\ Yes(v) \subseteq Tell(v) /\ Tell(v) \ Yes(v) \subseteq Tell(v)
               /\ Came(v) \in Yes(v) /\ Gone(v) \in Tell(v) \ Yes(v) /\ StatesWith(v) \subseteq Tell(v)
               /\ \A m \in States: m \in Tell(v) /\ (m \in Yes(v) <=> v \in m.users)
                                   /\ (m \in StatesWith(v) <=> v \in m.users)
               /\ \A w: /\ w # v => Came(w) \notin Tell(v) /\ Gone(w) \notin Tell(v)
                        /\ Came(w) \notin StatesWith(v) /\ Gone(w) \notin StatesWith(v)
                        /\ Came(w) \notin States /\ Gone(w) \notin States
               /\ \A k \in {"offer", "answer"}: \A w, n:
                    FromDown(k, w, n) \notin Tell(v) /\ FromDown(k, w, n) \notin StatesWith(v)
    <2>1. /\ \A m \in States: m.kind = "state"
          /\ \A w: Came(w).kind = "came" /\ Came(w).user = w /\ Gone(w).kind = "gone" /\ Gone(w).user = w
          /\ \A k, w, n: FromDown(k, w, n).kind = k
      BY DEF States, Came, Gone, FromDown
    <2>2. StatesWith(v) \subseteq States /\ \A m \in States: m \in StatesWith(v) <=> v \in m.users
      BY DEF StatesWith
    <2>3. \A w: Came(w) \notin States /\ Gone(w) \notin States
      BY <2>1
    <2>4. \A w, x: Came(w) # Gone(x) /\ (w # x => Came(w) # Came(x) /\ Gone(w) # Gone(x))
      BY <2>1
    <2>5. \A k \in {"offer", "answer"}: \A w, n:
            FromDown(k, w, n) \notin States /\ FromDown(k, w, n) # Came(v) /\ FromDown(k, w, n) # Gone(v)
      BY <2>1
    <2> QED  BY <2>1, <2>2, <2>3, <2>4, <2>5 DEF Tell, Yes
  <1> QED  BY <1>1, <1>2, <1>3

\* Signals change nobody's commands and news.
LEMMA ListFrame ==
    ASSUME ListInv, UNCHANGED <<client, server, overlapped, refused, unheard>>,
           \A w \in Users: /\ Lacks(up'[w], Cmds) => Lacks(up[w], Cmds)
                           /\ LastIn(up'[w], Cmds, {JoinM}) => LastIn(up[w], Cmds, {JoinM})
                           /\ LastIn(up'[w], Cmds, {LeaveM}) => LastIn(up[w], Cmds, {LeaveM}),
           \A w, v \in Users:
             /\ Lacks(down'[w], Tell(v)) => Lacks(down[w], Tell(v))
             /\ LastIn(down'[w], Tell(v), Yes(v)) => LastIn(down[w], Tell(v), Yes(v))
             /\ LastIn(down'[w], Tell(v), Tell(v) \ Yes(v)) => LastIn(down[w], Tell(v), Tell(v) \ Yes(v))
             /\ Lacks(down[w], StatesWith(v)) => Lacks(down'[w], StatesWith(v))
    PROVE  ListInv'
  <1>1. ASSUME NEW u \in Users PROVE CommandsOK(u)' /\ SeatOK(u)'
    <2>1. CommandsOK(u)'
      BY DEF ListInv, CommandsOK, client, server
    <2>2. SeatOK(u)'
      BY DEF ListInv, SeatOK, Opens, client, server
    <2> QED  BY <2>1, <2>2
  <1>2. ASSUME Heard', NEW u \in Users PROVE AloneOK(u)' /\ ListOK(u)'
    <2>1. AloneOK(u) /\ ListOK(u)
      BY <1>2 DEF ListInv, Heard
    <2>2. AloneOK(u)'
      BY <2>1 DEF AloneOK, Opens, server
    <2>3. ASSUME Listens(u)', NEW v \in Users \ {u} PROVE Believes(u, v)'
      <3>1. Listens(u)
        BY <2>3 DEF Listens, Opens, client, server
      <3>2. Believes(u, v)
        BY <2>1, <3>1 DEF ListOK
      <3> QED  BY <3>2 DEF Believes, client, server
    <2> QED  BY <2>2, <2>3 DEF ListOK
  <1> QED  BY <1>1, <1>2 DEF ListInv, Heard

LEMMA ListOfRoute == ASSUME Shapes, ListInv, NEW u \in Users, Route(u) PROVE ListInv'
  <1>1. /\ Head(up[u]) = ToUp(Head(up[u]).kind, Head(up[u]).to, Head(up[u]).pc)
        /\ Head(up[u]).kind \in {"offer", "answer"}
    BY DownOfRoute
  <1>2. Head(up[u]) \notin Cmds
    BY <1>1, Kinds
  <1>3. up[u] # <<>> /\ Took(u) /\ UNCHANGED <<client, server, overlapped, refused, unheard>>
    BY DEF Route, Sent, history
  <1>4. \A w \in Users: /\ Lacks(up'[w], Cmds) => Lacks(up[w], Cmds)
                        /\ LastIn(up'[w], Cmds, {JoinM}) => LastIn(up[w], Cmds, {JoinM})
                        /\ LastIn(up'[w], Cmds, {LeaveM}) => LastIn(up[w], Cmds, {LeaveM})
    <2> SUFFICES ASSUME NEW w \in Users
                 PROVE  /\ Lacks(up'[w], Cmds) => Lacks(up[w], Cmds)
                        /\ LastIn(up'[w], Cmds, {JoinM}) => LastIn(up[w], Cmds, {JoinM})
                        /\ LastIn(up'[w], Cmds, {LeaveM}) => LastIn(up[w], Cmds, {LeaveM})
      OBVIOUS
    <2>1. CASE w = u
      BY <1>2, <1>3, <2>1, UpTaken
    <2>2. CASE w # u
      BY <1>3, <2>2, UpTaken
    <2> QED  BY <2>1, <2>2
  <1>5. ASSUME NEW w \in Users, NEW v \in Users
        PROVE  /\ Lacks(down'[w], Tell(v)) => Lacks(down[w], Tell(v))
               /\ LastIn(down'[w], Tell(v), Yes(v)) => LastIn(down[w], Tell(v), Yes(v))
               /\ LastIn(down'[w], Tell(v), Tell(v) \ Yes(v)) => LastIn(down[w], Tell(v), Tell(v) \ Yes(v))
               /\ Lacks(down[w], StatesWith(v)) => Lacks(down'[w], StatesWith(v))
    <2>1. Passed(u) \notin Tell(v) /\ Passed(u) \notin StatesWith(v)
      BY <1>1, Kinds DEF Passed
    <2>2. Yes(v) \subseteq Tell(v) /\ Tell(v) \ Yes(v) \subseteq Tell(v)
      BY Kinds
    <2> QED  BY <2>1, <2>2, DownOfRoute
  <1> QED  BY <1>3, <1>4, <1>5, ListFrame

\* An offer or an answer is taken.
LEMMA ListOfSignal ==
    ASSUME Shapes, ListInv, NEW u \in Users, down[u] # <<>>, Handled(u),
           Head(down[u]).kind \in {"offer", "answer"}, UNCHANGED <<client, server, up, overlapped, refused, unheard>>
    PROVE  ListInv'
  <1>1. Head(down[u]) = FromDown(Head(down[u]).kind, Head(down[u]).from, Head(down[u]).pc)
    BY HeadTyped, DownFields DEF FromDown
  <1>2. ASSUME NEW w \in Users, NEW v \in Users
        PROVE  /\ Lacks(down'[w], Tell(v)) => Lacks(down[w], Tell(v))
               /\ LastIn(down'[w], Tell(v), Yes(v)) => LastIn(down[w], Tell(v), Yes(v))
               /\ LastIn(down'[w], Tell(v), Tell(v) \ Yes(v)) => LastIn(down[w], Tell(v), Tell(v) \ Yes(v))
               /\ Lacks(down[w], StatesWith(v)) => Lacks(down'[w], StatesWith(v))
    <2>1. Head(down[u]) \notin Tell(v)
      BY <1>1, Kinds
    <2>2. CASE w = u
      BY <2>1, <2>2, DownTaken
    <2>3. CASE w # u
      BY <2>3, DownTaken
    <2> QED  BY <2>2, <2>3
  <1> QED  BY <1>2, ListFrame

LEMMA ListOfDescribe == ASSUME Shapes, ListInv, NEW j \in jobs, Describe(j) PROVE ListInv'
  <1>1. UNCHANGED <<client, server, overlapped, refused, unheard, down>>
    BY DEF Describe, history
  <1>2. CASE Able(j) /\ chan[j.own]
    <2>1. /\ j.own \in Users /\ Described(j) \in UpMessages
          /\ up' = [up EXCEPT ![j.own] = Append(@, Described(j))]
      BY <1>2, UpOfDescribe
    <2>2. Described(j) \notin Cmds
      BY Kinds DEF Described
    <2>3. ASSUME NEW w \in Users
          PROVE  /\ Lacks(up'[w], Cmds) => Lacks(up[w], Cmds)
                 /\ LastIn(up'[w], Cmds, {JoinM}) => LastIn(up[w], Cmds, {JoinM})
                 /\ LastIn(up'[w], Cmds, {LeaveM}) => LastIn(up[w], Cmds, {LeaveM})
      <3>1. CASE w = j.own
        <4>1. {JoinM} \subseteq Cmds /\ {LeaveM} \subseteq Cmds
          BY Kinds
        <4>2. /\ Lacks(up'[j.own], Cmds) => Lacks(up[j.own], Cmds)
              /\ \A L: L \subseteq Cmds /\ LastIn(up'[j.own], Cmds, L) => LastIn(up[j.own], Cmds, L)
          BY <2>1, <2>2, UpGrows
        <4> QED  BY <3>1, <4>1, <4>2
      <3>2. CASE w # j.own
        BY <2>1, <3>2, UpGrows
      <3> QED  BY <3>1, <3>2
    <2> QED  BY <1>1, <2>3, ListFrame
  <1>3. CASE ~(Able(j) /\ chan[j.own])
    <2>1. up' = up
      BY <1>3, UpOfDescribe
    <2> QED  BY <1>1, <2>1, ListFrame
  <1> QED  BY <1>2, <1>3

LEMMA ListOfJoin == ASSUME Shapes, ListInv, NEW u \in Users, Join(u) PROVE ListInv'
  <1> DEFINE t == IF chan[u] THEN Append(up[u], LeaveM) ELSE up[u]
  <1>1. /\ \A w \in Users \ {u}: up'[w] = up[w]
        /\ up'[u] = Append(t, JoinM) /\ t \in Seq(UpMessages) /\ JoinM \in UpMessages
    BY UpOfJoin
  <1>2. /\ chan'[u] = TRUE /\ members'[u] = {} /\ UNCHANGED <<down, server, overlapped, refused, unheard>>
        /\ \A w \in Users \ {u}: chan'[w] = chan[w] /\ members'[w] = members[w]
    <2>1. members'[u] = {}
      BY DEF Join, Shapes, ListInv, SeatOK
    <2> QED  BY <2>1 DEF Join, Shapes
  <1> HIDE DEF t
  <1>3. ~LastIn(up'[u], Cmds, {LeaveM}) /\ ~Lacks(up'[u], Cmds)
    <2>1. JoinM \in Cmds /\ {LeaveM} \subseteq Cmds /\ JoinM \notin {LeaveM}
      BY Kinds
    <2> QED  BY <1>1, <2>1, MoreMessages, MoreLast
  <1>4. ASSUME NEW w \in Users PROVE CommandsOK(w)' /\ SeatOK(w)'
    <2>1. CommandsOK(w) /\ SeatOK(w)
      BY DEF ListInv, Heard
    <2>2. CASE w = u
      BY <1>2, <1>3, <2>1, <2>2 DEF CommandsOK, SeatOK, Opens, server
    <2>3. CASE w # u
      BY <1>1, <1>2, <2>1, <2>3 DEF CommandsOK, SeatOK, Opens, server
    <2> QED  BY <2>2, <2>3
  <1>5. ASSUME Heard', NEW w \in Users PROVE AloneOK(w)' /\ ListOK(w)'
    <2>1. AloneOK(w) /\ ListOK(w)
      BY <1>2, <1>5 DEF ListInv, Heard
    <2>2. AloneOK(w)'
      BY <1>2, <2>1 DEF AloneOK, Opens, server
    <2>3. CASE w = u
      BY <1>3, <2>2, <2>3 DEF ListOK, Listens
    <2>4. CASE w # u
      BY <1>1, <1>2, <2>1, <2>2, <2>4 DEF ListOK, Listens, Believes, Opens, server
    <2> QED  BY <2>3, <2>4
  <1> QED  BY <1>4, <1>5 DEF ListInv, Heard

LEMMA ListOfLeave == ASSUME Shapes, ListInv, NEW u \in Users, Leave(u) PROVE ListInv'
  <1>1. LeaveM \in UpMessages /\ up' = [up EXCEPT ![u] = Append(@, LeaveM)]
    BY MessageTypes DEF Leave, LeaveM
  <1>2. /\ chan'[u] = FALSE /\ members'[u] = {} /\ UNCHANGED <<down, server, overlapped, refused, unheard>>
        /\ \A w \in Users \ {u}: chan'[w] = chan[w] /\ members'[w] = members[w]
    BY DEF Leave, Shapes, history
  <1>3. ~LastIn(up'[u], Cmds, {JoinM}) /\ ~Lacks(up'[u], Cmds) /\ \A w \in Users \ {u}: up'[w] = up[w]
    <2>1. LeaveM \in Cmds /\ {JoinM} \subseteq Cmds /\ LeaveM \notin {JoinM}
      BY Kinds
    <2>2. /\ \A w \in Users \ {u}: up'[w] = up[w]
          /\ Lacks(up'[u], Cmds) <=> Lacks(up[u], Cmds) /\ LeaveM \notin Cmds
          /\ \A L: L \subseteq Cmds /\ LastIn(up'[u], Cmds, L) => LeaveM \in L
      BY <1>1, <2>1, UpGrows
    <2> QED  BY <2>1, <2>2
  <1>4. ASSUME NEW w \in Users PROVE CommandsOK(w)' /\ SeatOK(w)'
    <2>1. CommandsOK(w) /\ SeatOK(w)
      BY DEF ListInv, Heard
    <2>2. CASE w = u
      BY <1>2, <1>3, <2>1, <2>2 DEF CommandsOK, SeatOK, Opens, server
    <2>3. CASE w # u
      BY <1>2, <1>3, <2>1, <2>3 DEF CommandsOK, SeatOK, Opens, server
    <2> QED  BY <2>2, <2>3
  <1>5. ASSUME Heard', NEW w \in Users PROVE AloneOK(w)' /\ ListOK(w)'
    <2>1. AloneOK(w) /\ ListOK(w)
      BY <1>2, <1>5 DEF ListInv, Heard
    <2>2. AloneOK(w)'
      BY <1>2, <2>1 DEF AloneOK, Opens, server
    <2>3. CASE w = u
      BY <1>2, <2>2, <2>3 DEF ListOK, Listens
    <2>4. CASE w # u
      BY <1>2, <1>3, <2>1, <2>2, <2>4 DEF ListOK, Listens, Believes, Opens, server
    <2> QED  BY <2>3, <2>4
  <1> QED  BY <1>4, <1>5 DEF ListInv, Heard

LEMMA ListOfRecordJoin == ASSUME Shapes, ListInv, NEW u \in Users, RecordJoin(u) PROVE ListInv'
  <1>1. /\ up[u] # <<>> /\ Took(u) /\ Head(up[u]) = JoinM /\ ~Opens(u)
        /\ UNCHANGED <<client, down, seated, refused, unheard>> /\ occ' = occ \union {u}
        /\ Opens(u)' /\ announce'[u].users = occ \ {u} /\ announce'[u].new = (u \notin occ)
        /\ \A w \in Users \ {u}: announce'[w] = announce[w]
        /\ ~overlapped' => ~overlapped /\ \A w \in Users: ~Opens(w)
    <2>1. Head(up[u]) = JoinM
      BY HeadTyped, UpFields DEF RecordJoin, Sent, JoinM
    <2> QED  BY <2>1 DEF RecordJoin, Sent, Opens, Shapes
  <1>2. /\ \A w \in Users \ {u}: up'[w] = up[w]
        /\ Lacks(up'[u], Cmds) => LastIn(up[u], Cmds, {JoinM})
        /\ \A L: LastIn(up'[u], Cmds, L) => LastIn(up[u], Cmds, L)
    <2>1. JoinM \in {JoinM}
      OBVIOUS
    <2> QED  BY <1>1, <2>1, UpTaken
  <1>3. ASSUME NEW w \in Users PROVE CommandsOK(w)' /\ SeatOK(w)'
    <2>1. CommandsOK(w) /\ SeatOK(w)
      BY DEF ListInv, Heard
    <2>2. CASE w = u
      <3>1. CommandsOK(u)'
        BY <1>1, <1>2, <2>1, <2>2 DEF CommandsOK, client
      <3>2. SeatOK(u)'
        BY <1>1, <2>1, <2>2 DEF SeatOK, Opens, client
      <3> QED  BY <2>2, <3>1, <3>2
    <2>3. CASE w # u
      BY <1>1, <1>2, <2>1, <2>3 DEF CommandsOK, SeatOK, Opens, client
    <2> QED  BY <2>2, <2>3
  <1>4. ASSUME Heard', NEW w \in Users PROVE AloneOK(w)' /\ ListOK(w)'
    <2>1. AloneOK(w) /\ ListOK(w) /\ \A v \in Users: SeatOK(v) /\ ~Opens(v)
      BY <1>1, <1>4 DEF ListInv, Heard
    <2>2. CASE w = u
      <3>1. AloneOK(u)'
        <4> SUFFICES ASSUME NEW v \in Users \ {u}
                     PROVE  ~Opens(v)' /\ (v \in announce'[u].users <=> seated'[v])
          BY DEF AloneOK
        <4> QED  BY <1>1, <2>1 DEF SeatOK, Opens
      <3>2. ListOK(u)'
        BY <1>1 DEF ListOK, Listens
      <3> QED  BY <2>2, <3>1, <3>2
    <2>3. CASE w # u
      <3>1. ~Opens(w)'
        BY <1>1, <2>1, <2>3 DEF Opens
      <3>2. ListOK(w)'
        BY <1>1, <1>2, <2>1, <2>3 DEF ListOK, Listens, Believes, Opens, client
      <3> QED  BY <3>1, <3>2 DEF AloneOK
    <2> QED  BY <2>2, <2>3
  <1> QED  BY <1>3, <1>4 DEF ListInv, Heard

LEMMA ListOfAnnounceJoin == ASSUME Shapes, ListInv, NEW u \in Users, AnnounceJoin(u) PROVE ListInv'
  <1>1. /\ UNCHANGED <<client, up, occ, overlapped, refused>> /\ Opens(u) /\ ~Opens(u)' /\ seated'[u] = TRUE
        /\ announce'[u].users = {}
        /\ \A w \in Users \ {u}: announce'[w] = announce[w] /\ seated'[w] = seated[w]
        /\ ~unheard' => ~unheard
    BY DEF AnnounceJoin, Blind, Opens, NoJoin, Shapes, history
  <1>2. \A w \in Users: SeatOK(w) /\ CommandsOK(w)
    BY DEF ListInv, Heard
  <1>3. ASSUME NEW w \in Users PROVE CommandsOK(w)' /\ SeatOK(w)'
    <2>1. CommandsOK(w)'
      BY <1>1, <1>2 DEF CommandsOK, client
    <2>2. Lacks(down'[w], StatesWith(w))
      <3>1. Lacks(down[w], StatesWith(w)) /\ u \notin announce[u].users
        BY <1>2 DEF SeatOK
      <3>2. CASE w = u
        <4>1. StateOf(u) \notin StatesWith(u)
          BY <3>1 DEF StatesWith, StateOf
        <4> QED  BY <3>1, <3>2, <4>1, DownOfAnnounce
      <3>3. CASE w # u
        <4>1. Came(u) \notin StatesWith(w)
          BY <3>3, Kinds
        <4>2. PICK told \in BOOLEAN: \A S: Lacks(down'[w], S) <=> Lacks(down[w], S) /\ ~(told /\ Came(u) \in S)
          BY <3>3, DownOfAnnounce
        <4> QED  BY <3>1, <4>1, <4>2
      <3> QED  BY <3>2, <3>3
    <2>3. CASE w = u
      BY <1>1, <1>2, <2>1, <2>2, <2>3 DEF SeatOK, Opens, client
    <2>4. CASE w # u
      BY <1>1, <1>2, <2>1, <2>2, <2>4 DEF SeatOK, Opens, client
    <2> QED  BY <2>3, <2>4
  <1>4. ASSUME Heard', NEW w \in Users PROVE AloneOK(w)' /\ ListOK(w)'
    <2>1. /\ AloneOK(u) /\ ListOK(w) /\ AloneOK(w)
      BY <1>1, <1>4 DEF ListInv, Heard
    <2>2. ~Opens(w)'
      BY <1>1, <2>1 DEF AloneOK, Opens
    <2>3. CASE w = u
      <3> SUFFICES ASSUME NEW v \in Users \ {u} PROVE Believes(u, v)'
        BY <2>2, <2>3 DEF ListOK, AloneOK
      <3>1. /\ StateOf(u) \in Tell(v) /\ Yes(v) \subseteq Tell(v)
            /\ StateOf(u) \in Yes(v) <=> v \in announce[u].users
        BY Kinds, DownOfAnnounce DEF StateOf
      <3>2. v \in announce[u].users <=> seated'[v]
        BY <1>1, <2>1 DEF AloneOK
      <3>3. /\ ~Lacks(down'[u], Tell(v))
            /\ \A L: L \subseteq Tell(v) /\ LastIn(down'[u], Tell(v), L) => StateOf(u) \in L
        BY <3>1, DownOfAnnounce
      <3>4. LastIn(down'[u], Tell(v), Yes(v)) => seated'[v]
        BY <3>1, <3>2, <3>3
      <3>5. LastIn(down'[u], Tell(v), Tell(v) \ Yes(v)) => ~seated'[v]
        BY <3>1, <3>2, <3>3
      <3> QED  BY <3>3, <3>4, <3>5 DEF Believes
    <2>4. CASE w # u
      <3> SUFFICES ASSUME Listens(w)', NEW v \in Users \ {w} PROVE Believes(w, v)'
        BY <2>2 DEF ListOK, AloneOK
      <3>1. Believes(w, v)
        <4>1. Listens(w)
          BY <1>1, <2>4 DEF Listens, Opens, client
        <4> QED  BY <2>1, <4>1 DEF ListOK
      <3>0. ~unheard'
        BY <1>4 DEF Heard
      <3> DEFINE told == announce[u].new /\ Came(u) \in Tell(v)
      <3>2. /\ Lacks(down'[w], Tell(v)) <=> Lacks(down[w], Tell(v)) /\ ~told
            /\ \A L: L \subseteq Tell(v) /\ LastIn(down'[w], Tell(v), L) =>
                 IF told THEN Came(u) \in L ELSE LastIn(down[w], Tell(v), L)
        <4>0. w \in Users \ {u}
          BY <2>4
        <4>1. PICK t \in BOOLEAN:
                /\ t => announce[u].new
                /\ ~unheard' => ~unheard /\ (t <=> announce[u].new)
                /\ \A S: Lacks(down'[w], S) <=> Lacks(down[w], S) /\ ~(t /\ Came(u) \in S)
                /\ \A S: One(down[w], S) /\ (t /\ Came(u) \in S => Lacks(down[w], S))
                           => One(down'[w], S)
                /\ \A S, L: L \subseteq S /\ LastIn(down'[w], S, L) =>
                     IF t /\ Came(u) \in S THEN Came(u) \in L ELSE LastIn(down[w], S, L)
          BY <4>0, DownOfAnnounce
        <4> QED  BY <3>0, <4>1
      <3>3. /\ Yes(v) \subseteq Tell(v) /\ Tell(v) \ Yes(v) \subseteq Tell(v)
            /\ Came(v) \in Yes(v) /\ (u # v => Came(u) \notin Tell(v))
        BY Kinds
      <3>4. CASE told
        <4>1. v = u /\ Came(u) \notin Tell(v) \ Yes(v)
          BY <3>3, <3>4
        <4> QED  BY <1>1, <3>2, <3>3, <3>4, <4>1 DEF Believes
      <3>5. CASE ~told
        <4>1. seated'[v] = seated[v]
          <5>1. CASE v = u
            <6>1. ~announce[u].new
              BY <3>3, <3>5, <5>1
            <6> QED  BY <1>1, <1>2, <5>1, <6>1 DEF SeatOK, Shapes
          <5> QED  BY <1>1, <5>1
        <4>2. /\ Lacks(down'[w], Tell(v)) <=> Lacks(down[w], Tell(v))
              /\ LastIn(down'[w], Tell(v), Yes(v)) => LastIn(down[w], Tell(v), Yes(v))
              /\ LastIn(down'[w], Tell(v), Tell(v) \ Yes(v)) => LastIn(down[w], Tell(v), Tell(v) \ Yes(v))
          BY <3>2, <3>3, <3>5
        <4> QED  BY <1>1, <3>1, <4>1, <4>2 DEF Believes, client
      <3> QED  BY <3>4, <3>5
    <2> QED  BY <2>3, <2>4
  <1> QED  BY <1>3, <1>4 DEF ListInv, Heard

\* What Unseat(u) does to the lists, once the commands and the lists of u are as they should be.
LEMMA ListOfUnseat ==
    ASSUME Shapes, ListInv, NEW u \in Users, NEW blind, Unseat(u, down, blind), blind \subseteq Users \ {u},
           ~Opens(u), UNCHANGED <<announce, refused>>,
           \A w \in Users \ {u}: up'[w] = up[w] /\ chan'[w] = chan[w] /\ members'[w] = members[w],
           CommandsOK(u)', u \notin members'[u], ~chan'[u] => members'[u] = {}
    PROVE  ListInv'
  <1>1. /\ seated'[u] = FALSE /\ u \notin occ' /\ ~Opens(u)'
        /\ \A w \in Users \ {u}: seated'[w] = seated[w] /\ (w \in occ' <=> w \in occ) /\ Opens(w)' = Opens(w)
        /\ ~overlapped' => ~overlapped /\ \A w \in Users: ~Opens(w)'
        /\ ~unheard' => ~unheard /\ blind = {}
    BY DEF Unseat, Blind, Shapes, ListInv, SeatOK, Opens
  <1>2. \A w \in Users: SeatOK(w) /\ CommandsOK(w)
    BY DEF ListInv, Heard
  <1>3. \A w, v \in Users: Lacks(down[w], StatesWith(v)) => Lacks(down'[w], StatesWith(v))
    <2> SUFFICES ASSUME NEW w \in Users, NEW v \in Users, Lacks(down[w], StatesWith(v))
                 PROVE  Lacks(down'[w], StatesWith(v))
      OBVIOUS
    <2>1. Gone(u) \notin StatesWith(v)
      <3>1. StatesWith(v) \subseteq States /\ \A m \in States: m.kind = "state"
        BY DEF StatesWith, States
      <3>2. Gone(u).kind = "gone"
        BY DEF Gone
      <3> QED  BY <3>1, <3>2
    <2> QED  BY <2>1, DownOfUnseat
  <1>4. ASSUME NEW w \in Users PROVE CommandsOK(w)' /\ SeatOK(w)'
    <2>1. CASE w = u
      BY <1>1, <1>2, <1>3, <2>1 DEF SeatOK, Opens
    <2>2. CASE w # u
      BY <1>1, <1>2, <1>3, <2>2 DEF SeatOK, CommandsOK, Opens
    <2> QED  BY <2>1, <2>2
  <1>5. ASSUME Heard', NEW w \in Users PROVE AloneOK(w)' /\ ListOK(w)'
    <2>1. ListOK(w)
      BY <1>1, <1>5 DEF ListInv, Heard
    <2>2. AloneOK(w)'
      BY <1>1, <1>5 DEF AloneOK, Heard
    <2>3. CASE w = u
      BY <1>1, <2>2, <2>3 DEF ListOK, Listens
    <2>4. CASE w # u
      <3> SUFFICES ASSUME Listens(w)', NEW v \in Users \ {w} PROVE Believes(w, v)'
        BY <2>2 DEF ListOK
      <3>1. Believes(w, v)
        <4>1. Listens(w)
          BY <1>1, <2>4 DEF Listens
        <4> QED  BY <2>1, <4>1 DEF ListOK
      <3> DEFINE told == Leaves(u) /\ Gone(u) \in Tell(v)
      <3>2. /\ Lacks(down'[w], Tell(v)) <=> Lacks(down[w], Tell(v)) /\ ~told
            /\ \A L: L \subseteq Tell(v) /\ LastIn(down'[w], Tell(v), L) =>
                 IF told THEN Gone(u) \in L ELSE LastIn(down[w], Tell(v), L)
        <4>1. w \notin blind
          BY <1>1, <1>5 DEF Heard
        <4> QED  BY <2>4, <4>1, DownOfUnseat
      <3>3. /\ Yes(v) \subseteq Tell(v) /\ Tell(v) \ Yes(v) \subseteq Tell(v)
            /\ Gone(v) \in Tell(v) \ Yes(v) /\ (u # v => Gone(u) \notin Tell(v))
        BY Kinds
      <3>4. CASE told
        <4>1. v = u /\ Gone(u) \notin Yes(v)
          BY <3>3, <3>4
        <4> QED  BY <1>1, <3>2, <3>3, <3>4, <4>1 DEF Believes
      <3>5. CASE ~told
        <4>1. seated'[v] = seated[v]
          <5>1. CASE v = u
            <6>1. ~Leaves(u)
              BY <3>3, <3>5, <5>1
            <6> QED  BY <1>1, <1>2, <5>1, <6>1 DEF SeatOK, Leaves, Shapes
          <5>2. CASE v # u
            BY <1>1, <5>2
          <5> QED  BY <5>1, <5>2
        <4>2. /\ Lacks(down'[w], Tell(v)) <=> Lacks(down[w], Tell(v))
              /\ LastIn(down'[w], Tell(v), Yes(v)) => LastIn(down[w], Tell(v), Yes(v))
              /\ LastIn(down'[w], Tell(v), Tell(v) \ Yes(v)) => LastIn(down[w], Tell(v), Tell(v) \ Yes(v))
          BY <3>2, <3>3, <3>5
        <4> QED  BY <2>4, <3>1, <4>1, <4>2 DEF Believes
      <3> QED  BY <3>4, <3>5
    <2> QED  BY <2>3, <2>4
  <1> QED  BY <1>4, <1>5 DEF ListInv, Heard

LEMMA ListOfTakeLeave == ASSUME Shapes, ListInv, NEW u \in Users, TakeLeave(u) PROVE ListInv'
  <1>1. /\ up[u] # <<>> /\ Took(u) /\ Head(up[u]) = LeaveM /\ ~Opens(u)
        /\ \E blind \in SUBSET (Users \ {u}): Unseat(u, down, blind)
        /\ UNCHANGED <<client, announce, refused>>
    <2>1. Head(up[u]) = LeaveM
      BY HeadTyped, UpFields DEF TakeLeave, Sent, LeaveM
    <2> QED  BY <2>1 DEF TakeLeave, Sent, Opens
  <1>2. /\ \A w \in Users \ {u}: up'[w] = up[w]
        /\ Lacks(up'[u], Cmds) => LastIn(up[u], Cmds, {LeaveM})
        /\ \A L: LastIn(up'[u], Cmds, L) => LastIn(up[u], Cmds, L)
    <2>1. LeaveM \in {LeaveM}
      OBVIOUS
    <2> QED  BY <1>1, <2>1, UpTaken
  <1>3. SeatOK(u) /\ CommandsOK(u)
    BY DEF ListInv, Heard
  <1>4. u \notin occ'
    BY <1>1, <1>3 DEF Unseat, SeatOK
  <1>5. CommandsOK(u)'
    BY <1>1, <1>2, <1>3, <1>4 DEF CommandsOK, client
  <1>6. u \notin members'[u] /\ (~chan'[u] => members'[u] = {})
    BY <1>1, <1>3 DEF SeatOK, client
  <1> QED  BY <1>1, <1>2, <1>5, <1>6, ListOfUnseat DEF client

LEMMA ListOfDisconnect == ASSUME Shapes, ListInv, NEW u \in Users, Disconnect(u) PROVE ListInv'
  <1>1. /\ ~Opens(u) /\ \E blind \in SUBSET (Users \ {u}): Unseat(u, down, blind)
        /\ UNCHANGED <<announce, refused>>
        /\ chan'[u] = FALSE /\ members'[u] = {}
        /\ \A w \in Users \ {u}: chan'[w] = chan[w] /\ members'[w] = members[w]
    BY DEF Disconnect, Opens, Shapes
  <1>2. /\ \A w \in Users \ {u}: up'[w] = up[w]
        /\ LeaveM \in UpMessages
    BY UpOfDisconnect
  <1>3. PICK t \in Seq(UpMessages): Behind(t, up[u]) /\ up'[u] = IF chan[u] THEN Append(t, LeaveM) ELSE t
    BY UpOfDisconnect
  <1>4. SeatOK(u) /\ CommandsOK(u)
    BY DEF ListInv, Heard
  <1>5. u \notin occ'
    BY <1>1, <1>4 DEF Unseat, SeatOK
  <1>6. ~LastIn(up'[u], Cmds, {JoinM})
    <2>1. CASE chan[u]
      <3>1. LeaveM \in Cmds /\ {JoinM} \subseteq Cmds /\ LeaveM \notin {JoinM}
        BY Kinds
      <3> QED  BY <1>2, <1>3, <2>1, <3>1, MoreLast
    <2>2. CASE ~chan[u]
      <3>1. LastIn(t, Cmds, {JoinM}) => LastIn(up[u], Cmds, {JoinM})
        BY <1>3, Queues, RestOfQueue
      <3> QED  BY <1>3, <1>4, <2>2, <3>1 DEF CommandsOK
    <2> QED  BY <2>1, <2>2
  <1>7. CommandsOK(u)'
    BY <1>1, <1>5, <1>6 DEF CommandsOK
  <1> QED  BY <1>1, <1>2, <1>7, ListOfUnseat

\* A client that takes news: what it lists then is what the news say.
LEMMA ListOfNews ==
    ASSUME Shapes, ListInv, NEW u \in Users, down[u] # <<>>, Handled(u),
           UNCHANGED <<chan, up, server, overlapped, refused, unheard>>,
           \A w \in Users \ {u}: members'[w] = members[w],
           u \notin members'[u], ~chan[u] => members'[u] = {},
           chan[u] => \A v \in Users \ {u}:
             LET m == Head(down[u]) IN
               /\ m \in Yes(v) => v \in members'[u]
               /\ m \in Tell(v) \ Yes(v) => v \notin members'[u]
               /\ m \notin Tell(v) => (v \in members'[u] <=> v \in members[u])
    PROVE  ListInv'
  <1>1. /\ \A w \in Users \ {u}: down'[w] = down[w]
        /\ \A S: Lacks(down[u], S) <=> Lacks(down'[u], S) /\ Head(down[u]) \notin S
        /\ \A S, L: LastIn(down'[u], S, L) => LastIn(down[u], S, L)
        /\ \A S, L: Head(down[u]) \in L /\ Lacks(down'[u], S) => LastIn(down[u], S, L)
    BY DownTaken
  <1>2. ASSUME NEW w \in Users PROVE CommandsOK(w)' /\ SeatOK(w)'
    <2>1. CommandsOK(w) /\ SeatOK(w)
      BY DEF ListInv, Heard
    <2>2. CASE w = u
      BY <1>1, <2>1, <2>2 DEF CommandsOK, SeatOK, Opens, server
    <2>3. CASE w # u
      BY <1>1, <2>1, <2>3 DEF CommandsOK, SeatOK, Opens, server
    <2> QED  BY <2>2, <2>3
  <1>3. ASSUME Heard', NEW w \in Users PROVE AloneOK(w)' /\ ListOK(w)'
    <2>1. AloneOK(w) /\ ListOK(w)
      BY <1>3 DEF ListInv, Heard
    <2>2. AloneOK(w)'
      BY <2>1 DEF AloneOK, Opens, server
    <2> SUFFICES ASSUME Listens(w)', NEW v \in Users \ {w} PROVE Believes(w, v)'
      BY <2>2 DEF ListOK
    <2>3. Believes(w, v) /\ chan[w]
      <3>1. Listens(w)
        BY DEF Listens, Opens, server
      <3> QED  BY <2>1, <3>1 DEF ListOK, Listens
    <2>4. CASE w # u
      BY <1>1, <2>3, <2>4 DEF Believes, server
    <2>5. CASE w = u
      <3> DEFINE m == Head(down[u])
      <3>1. /\ LastIn(down'[u], Tell(v), Yes(v)) => seated[v]
            /\ LastIn(down'[u], Tell(v), Tell(v) \ Yes(v)) => ~seated[v]
        BY <1>1, <2>3, <2>5 DEF Believes
      <3>2. ASSUME Lacks(down'[u], Tell(v)) PROVE v \in members'[u] <=> seated[v]
        <4>1. CASE m \in Yes(v)
          BY <1>1, <2>3, <2>5, <3>2, <4>1 DEF Believes
        <4>2. CASE m \in Tell(v) \ Yes(v)
          BY <1>1, <2>3, <2>5, <3>2, <4>2 DEF Believes
        <4>3. CASE m \notin Tell(v)
          BY <1>1, <2>3, <2>5, <3>2, <4>3 DEF Believes
        <4> QED  BY <4>1, <4>2, <4>3
      <3> QED  BY <2>5, <3>1, <3>2 DEF Believes, server
    <2> QED  BY <2>4, <2>5
  <1> QED  BY <1>2, <1>3 DEF ListInv, Heard

LEMMA ListOfOnState == ASSUME Shapes, ListInv, NEW u \in Users, OnState(u) PROVE ListInv'
  <1> DEFINE m == Head(down[u])
  <1>1. /\ down[u] # <<>> /\ Handled(u) /\ UNCHANGED <<chan, up, server, overlapped, refused, unheard>>
        /\ m.kind = "state" /\ members' = IF chan[u] THEN [members EXCEPT ![u] = m.users] ELSE members
    BY DEF OnState, Event, history
  <1>2. m \in States
    BY <1>1, HeadTyped, DownFields DEF States
  <1>3. SeatOK(u)
    BY DEF ListInv, Heard
  <1>4. u \notin m.users
    <2>1. m \notin StatesWith(u)
      BY <1>1, <1>3, DownTaken DEF SeatOK
    <2> QED  BY <1>2, <2>1, Kinds
  <1>5. /\ \A w \in Users \ {u}: members'[w] = members[w]
        /\ members'[u] = IF chan[u] THEN m.users ELSE members[u]
    BY <1>1 DEF Shapes
  <1>6. u \notin members'[u] /\ (~chan[u] => members'[u] = {})
    BY <1>3, <1>4, <1>5 DEF SeatOK
  <1>7. ASSUME chan[u], NEW v \in Users \ {u}
        PROVE  m \in Tell(v) /\ (m \in Yes(v) <=> v \in members'[u])
    BY <1>2, <1>5, <1>7, Kinds
  <1> QED  BY <1>1, <1>5, <1>6, <1>7, ListOfNews

LEMMA ListOfOnCame == ASSUME Shapes, ListInv, NEW u \in Users, OnCame(u) PROVE ListInv'
  <1> DEFINE m == Head(down[u])
             x == Head(down[u]).user
  <1>1. /\ down[u] # <<>> /\ Handled(u) /\ UNCHANGED <<chan, up, server, overlapped, refused, unheard>>
        /\ m.kind = "came"
        /\ members' = IF chan[u] THEN [members EXCEPT ![u] = @ \union ({x} \ {u})] ELSE members
    BY DEF OnCame, Event, history
  <1>2. m = Came(x)
    BY <1>1, HeadTyped, DownFields DEF Came
  <1>3. SeatOK(u)
    BY DEF ListInv, Heard
  <1>4. /\ \A w \in Users \ {u}: members'[w] = members[w]
        /\ members'[u] = IF chan[u] THEN members[u] \union ({x} \ {u}) ELSE members[u]
    BY <1>1 DEF Shapes
  <1>5. u \notin members'[u] /\ (~chan[u] => members'[u] = {})
    BY <1>3, <1>4 DEF SeatOK
  <1>6. ASSUME chan[u], NEW v \in Users \ {u}
        PROVE  /\ m \in Yes(v) => v \in members'[u]
               /\ m \in Tell(v) \ Yes(v) => v \notin members'[u]
               /\ m \notin Tell(v) => (v \in members'[u] <=> v \in members[u])
    <2>1. CASE v = x
      BY <1>2, <1>4, <1>6, <2>1, Kinds
    <2>2. CASE v # x
      BY <1>2, <1>4, <1>6, <2>2, Kinds
    <2> QED  BY <2>1, <2>2
  <1> QED  BY <1>1, <1>4, <1>5, <1>6, ListOfNews

LEMMA ListOfOnGone == ASSUME Shapes, ListInv, NEW u \in Users, OnGone(u) PROVE ListInv'
  <1> DEFINE m == Head(down[u])
             x == Head(down[u]).user
  <1>1. /\ down[u] # <<>> /\ Handled(u) /\ UNCHANGED <<chan, up, server, overlapped, refused, unheard>>
        /\ m.kind = "gone"
        /\ members' = IF chan[u] THEN [members EXCEPT ![u] = @ \ {x}] ELSE members
    BY DEF OnGone, Event, history
  <1>2. m = Gone(x)
    BY <1>1, HeadTyped, DownFields DEF Gone
  <1>3. SeatOK(u)
    BY DEF ListInv, Heard
  <1>4. /\ \A w \in Users \ {u}: members'[w] = members[w]
        /\ members'[u] = IF chan[u] THEN members[u] \ {x} ELSE members[u]
    BY <1>1 DEF Shapes
  <1>5. u \notin members'[u] /\ (~chan[u] => members'[u] = {})
    BY <1>3, <1>4 DEF SeatOK
  <1>6. ASSUME chan[u], NEW v \in Users \ {u}
        PROVE  /\ m \in Yes(v) => v \in members'[u]
               /\ m \in Tell(v) \ Yes(v) => v \notin members'[u]
               /\ m \notin Tell(v) => (v \in members'[u] <=> v \in members[u])
    <2>1. CASE v = x
      BY <1>2, <1>4, <1>6, <2>1, Kinds
    <2>2. CASE v # x
      BY <1>2, <1>4, <1>6, <2>2, Kinds
    <2> QED  BY <2>1, <2>2
  <1> QED  BY <1>1, <1>4, <1>5, <1>6, ListOfNews

\* A join that is refused is taken from the queue, and that is all.
LEMMA ListOfRefuseJoin == ASSUME Shapes, ListInv, NEW u \in Users, RefuseJoin(u) PROVE ListInv'
  <1>1. up[u] # <<>> /\ Took(u) /\ refused' /\ UNCHANGED <<client, server, down>>
    BY DEF RefuseJoin, Sent
  <1>2. ASSUME NEW w \in Users PROVE CommandsOK(w)' /\ SeatOK(w)'
    <2>1. CommandsOK(w) /\ SeatOK(w)
      BY DEF ListInv
    <2>2. /\ LastIn(up'[w], Cmds, {JoinM}) => LastIn(up[w], Cmds, {JoinM})
          /\ LastIn(up'[w], Cmds, {LeaveM}) => LastIn(up[w], Cmds, {LeaveM})
      <3>1. CASE w = u
        BY <1>1, <3>1, UpTaken
      <3>2. CASE w # u
        BY <1>1, <3>2, UpTaken
      <3> QED  BY <3>1, <3>2
    <2>3. CommandsOK(w)'
      BY <1>1, <2>1, <2>2 DEF CommandsOK, client
    <2>4. SeatOK(w)'
      BY <1>1, <2>1 DEF SeatOK, Opens, client, server
    <2> QED  BY <2>3, <2>4
  <1> QED  BY <1>1, <1>2 DEF ListInv, Heard

\* A signal that is lost was no command.
LEMMA ListOfRouteFails == ASSUME Shapes, ListInv, NEW u \in Users, RouteFails(u) PROVE ListInv'
  <1>1. /\ up[u] # <<>> /\ Took(u) /\ Head(up[u]).kind \in {"offer", "answer"}
        /\ UNCHANGED <<client, server, down, overlapped, refused, unheard>>
    BY DEF RouteFails, Sent
  <1>2. Head(up[u]) \notin Cmds
    <2>1. Head(up[u]) = ToUp(Head(up[u]).kind, Head(up[u]).to, Head(up[u]).pc)
      BY <1>1, HeadTyped, UpFields DEF ToUp
    <2> QED  BY <1>1, <2>1, Kinds
  <1>3. ASSUME NEW w \in Users
        PROVE  /\ Lacks(up'[w], Cmds) => Lacks(up[w], Cmds)
               /\ LastIn(up'[w], Cmds, {JoinM}) => LastIn(up[w], Cmds, {JoinM})
               /\ LastIn(up'[w], Cmds, {LeaveM}) => LastIn(up[w], Cmds, {LeaveM})
    <2>1. CASE w = u
      BY <1>1, <1>2, <2>1, UpTaken
    <2>2. CASE w # u
      BY <1>1, <2>2, UpTaken
    <2> QED  BY <2>1, <2>2
  <1> QED  BY <1>1, <1>3, ListFrame

\* Steps that change neither queues nor the server's state.
LEMMA ListOfRest ==
    ASSUME ListInv, UNCHANGED <<client, server, up, down, overlapped, refused, unheard>>
    PROVE  ListInv'
  BY ListFrame

LEMMA ListAtStart == Init => ListInv
  <1> SUFFICES ASSUME Init PROVE ListInv
    OBVIOUS
  <1>1. ASSUME NEW u \in Users PROVE CommandsOK(u) /\ SeatOK(u) /\ AloneOK(u) /\ ListOK(u)
    BY <1>1, EmptyQueue DEF Init, CommandsOK, SeatOK, AloneOK, ListOK, Listens, Opens, NoJoin
  <1> QED  BY <1>1 DEF ListInv

-----------------------------------------------------------------------------
(* What each action does to the connections.                                *)

\* m is as it was, closed if need be.
Kept(m, ns) ==
  /\ pcs'[m].own = pcs[m].own /\ pcs'[m].peer = pcs[m].peer
  /\ pcs'[m].offered = pcs[m].offered /\ pcs'[m].remote = pcs[m].remote
  /\ pcs'[m].st = IF m \in ns /\ pcs[m].st = "live" THEN "closing" ELSE pcs[m].st

LEMMA ClosingFacts ==
    ASSUME NEW cs \in [PcIds -> Pcs], NEW ns, NEW m \in PcIds
    PROVE  LET c == Closing(cs, ns)[m] IN
             /\ c.own = cs[m].own /\ c.peer = cs[m].peer
             /\ c.offered = cs[m].offered /\ c.remote = cs[m].remote
             /\ c.st = IF m \in ns /\ cs[m].st = "live" THEN "closing" ELSE cs[m].st
  <1>1. cs[m] \in Pcs
    OBVIOUS
  <1>2. Closing(cs, ns)[m] = IF m \in ns /\ cs[m].st = "live" THEN [cs[m] EXCEPT !.st = "closing"]
                             ELSE cs[m]
    BY DEF Closing
  <1> QED  BY <1>1, <1>2 DEF Pcs

\* The connection u has for v is hung up, and no other.
OnePeerGone(u, v) ==
  /\ peers'[u][v] = NoPc /\ tracks'[u][v] = NoPc
  /\ \A a, b \in Users: <<a, b>> # <<u, v>> =>
       peers'[a][b] = peers[a][b] /\ tracks'[a][b] = tracks[a][b]
LEMMA HangupFacts ==
    ASSUME Shapes, NEW u \in Users, NEW v \in Users, NEW cs \in [PcIds -> Pcs], Hangup(u, v, cs)
    PROVE  /\ OnePeerGone(u, v)
           /\ \A m \in PcIds:
                /\ pcs'[m].own = cs[m].own /\ pcs'[m].peer = cs[m].peer
                /\ pcs'[m].offered = cs[m].offered /\ pcs'[m].remote = cs[m].remote
                /\ pcs'[m].st = IF m = peers[u][v] /\ cs[m].st = "live" THEN "closing" ELSE cs[m].st
  <1>1. OnePeerGone(u, v)
    BY DEF Hangup, Shapes, OnePeerGone
  <1>2. pcs' = Closing(cs, {peers[u][v]})
    BY DEF Hangup
  <1>3. ASSUME NEW m \in PcIds
        PROVE  /\ pcs'[m].own = cs[m].own /\ pcs'[m].peer = cs[m].peer
               /\ pcs'[m].offered = cs[m].offered /\ pcs'[m].remote = cs[m].remote
               /\ pcs'[m].st = IF m = peers[u][v] /\ cs[m].st = "live" THEN "closing" ELSE cs[m].st
    <2>1. m \in {peers[u][v]} <=> m = peers[u][v]
      OBVIOUS
    <2> QED  BY <1>2, <2>1, ClosingFacts
  <1> QED  BY <1>1, <1>3

\* Every connection of u that is registered is hung up, and no other.
AllPeersGone(u) ==
  /\ \A v \in Users: /\ peers'[u][v] = NoPc
                     /\ tracks'[u][v] = IF peers[u][v] # NoPc THEN NoPc ELSE tracks[u][v]
  /\ \A a \in Users \ {u}: peers'[a] = peers[a] /\ tracks'[a] = tracks[a]
  /\ \A m \in PcIds: Kept(m, {peers[u][v]: v \in Users})
LEMMA HangupAllFacts ==
    ASSUME Shapes, NEW u \in Users, HangupAll(u)
    PROVE  AllPeersGone(u)
  <1> DEFINE present == {v \in Users: peers[u][v] # NoPc}
  <1>1. \A v \in Users: /\ peers'[u][v] = NoPc
                        /\ tracks'[u][v] = IF peers[u][v] # NoPc THEN NoPc ELSE tracks[u][v]
    BY DEF HangupAll, Shapes
  <1>2. \A a \in Users \ {u}: peers'[a] = peers[a] /\ tracks'[a] = tracks[a]
    BY DEF HangupAll, Shapes
  <1>3. ASSUME NEW m \in PcIds PROVE Kept(m, {peers[u][v]: v \in Users})
    <2>1. m \in {peers[u][v]: v \in present} <=> m \in {peers[u][v]: v \in Users}
      BY SlotFacts
    <2>2. pcs' = Closing(pcs, {peers[u][v]: v \in present}) /\ pcs \in [PcIds -> Pcs]
      BY DEF HangupAll, Shapes
    <2> QED  BY <2>1, <2>2, ClosingFacts DEF Kept
  <1> QED  BY <1>1, <1>2, <1>3 DEF AllPeersGone

\* Connections in use have owners.
Used(m) == pcs[m].st \in {"live", "closing"}
Owned == \A n \in PcIds: Used(n) => pcs[n].own \in Users /\ pcs[n].peer \in Users
Typed == Shapes /\ Owned

LEMMA LeaveEffect ==
    ASSUME Shapes, NEW u \in Users, Leave(u)
    PROVE  AllPeersGone(u)
  BY HangupAllFacts DEF Leave

LEMMA NothingHung ==
    ASSUME pcs' = pcs, NEW m \in PcIds
    PROVE  Kept(m, {})
  BY DEF Kept

LEMMA OnGoneEffect ==
    ASSUME Shapes, NEW u \in Users, OnGone(u)
    PROVE  LET x == Head(down[u]).user IN
             /\ x \in Users /\ Head(down[u]) = Gone(x)
             /\ chan[u] => OnePeerGone(u, x) /\ \A m \in PcIds: Kept(m, {peers[u][x]})
             /\ ~chan[u] => UNCHANGED <<peers, tracks, pcs>>
  <1> DEFINE x == Head(down[u]).user
  <1>1. x \in Users /\ Head(down[u]) = Gone(x)
    BY HeadTyped, DownFields DEF OnGone, Event, Gone
  <1>2. ASSUME chan[u] PROVE OnePeerGone(u, x) /\ \A m \in PcIds: Kept(m, {peers[u][x]})
    <2>1. Hangup(u, x, pcs) /\ pcs \in [PcIds -> Pcs]
      BY <1>2 DEF OnGone, Shapes
    <2> HIDE DEF x
    <2> QED  BY <1>1, <2>1, HangupFacts DEF Kept
  <1>3. ~chan[u] => UNCHANGED <<peers, tracks, pcs>>
    BY DEF OnGone
  <1> QED  BY <1>1, <1>2, <1>3

LEMMA DropEffect ==
    ASSUME Typed, NEW n \in PcIds, Drop(n)
    PROVE  /\ pcs[n].own \in Users /\ pcs[n].peer \in Users /\ Live(n)
           /\ OnePeerGone(pcs[n].own, pcs[n].peer)
           /\ \A m \in PcIds: Kept(m, {peers[pcs[n].own][pcs[n].peer]})
  <1>1. pcs[n].own \in Users /\ pcs[n].peer \in Users /\ Live(n)
    BY DEF Drop, Linked, Live, Typed, Owned, Used
  <1>2. Hangup(pcs[n].own, pcs[n].peer, pcs) /\ pcs \in [PcIds -> Pcs] /\ Shapes
    BY DEF Drop, Typed, Shapes
  <1> QED  BY <1>1, <1>2, HangupFacts DEF Kept

LEMMA StrandedEffect ==
    ASSUME Typed, NEW n \in PcIds, Stranded(n)
    PROVE  /\ pcs[n].own \in Users /\ pcs[n].peer \in Users /\ Live(n)
           /\ OnePeerGone(pcs[n].own, pcs[n].peer)
           /\ \A m \in PcIds: Kept(m, {n, peers[pcs[n].own][pcs[n].peer]})
  <1> DEFINE cs == Closing(pcs, {n})
             u == pcs[n].own
             v == pcs[n].peer
  <1>1. u \in Users /\ v \in Users /\ Live(n) /\ pcs \in [PcIds -> Pcs] /\ Shapes
    BY DEF Stranded, Live, Typed, Owned, Used, Shapes
  <1>2. cs \in [PcIds -> Pcs]
    BY <1>1, ClosingType
  <1>3. Hangup(u, v, cs)
    BY DEF Stranded
  <1>4. \A m \in PcIds:
          /\ cs[m].own = pcs[m].own /\ cs[m].peer = pcs[m].peer
          /\ cs[m].offered = pcs[m].offered /\ cs[m].remote = pcs[m].remote
          /\ cs[m].st = IF m \in {n} /\ pcs[m].st = "live" THEN "closing" ELSE pcs[m].st
    BY <1>1, ClosingFacts
  <1> HIDE DEF cs, u, v
  <1>5. /\ OnePeerGone(u, v)
        /\ \A m \in PcIds:
             /\ pcs'[m].own = cs[m].own /\ pcs'[m].peer = cs[m].peer
             /\ pcs'[m].offered = cs[m].offered /\ pcs'[m].remote = cs[m].remote
             /\ pcs'[m].st = IF m = peers[u][v] /\ cs[m].st = "live" THEN "closing" ELSE cs[m].st
    BY <1>1, <1>2, <1>3, HangupFacts
  <1>6. \A m \in PcIds: Kept(m, {n, peers[u][v]})
    BY <1>4, <1>5 DEF Kept
  <1> QED  BY <1>1, <1>5, <1>6 DEF u, v

LEMMA ClosedEffect ==
    ASSUME Typed, NEW n \in PcIds, Closed(n)
    PROVE  /\ pcs[n].own \in Users /\ pcs[n].peer \in Users /\ pcs[n].st = "closing"
           /\ OnePeerGone(pcs[n].own, pcs[n].peer)
           /\ pcs'[n].st = "closed" /\ pcs'[n].remote = NoPc
           /\ \A m \in PcIds \ {n}: Kept(m, {peers[pcs[n].own][pcs[n].peer]})
  <1> DEFINE cs == [pcs EXCEPT ![n] = [FreePc EXCEPT !.st = "closed"]]
             u == pcs[n].own
             v == pcs[n].peer
  <1>1. u \in Users /\ v \in Users /\ pcs \in [PcIds -> Pcs] /\ Shapes /\ pcs[n].st = "closing"
    BY DEF Closed, Typed, Owned, Used, Shapes
  <1>2. cs \in [PcIds -> Pcs] /\ cs[n].st = "closed" /\ cs[n].remote = NoPc
        /\ \A m \in PcIds \ {n}: cs[m] = pcs[m]
    BY <1>1, SlotFacts DEF Pcs, PcStates, FreePc
  <1>3. Hangup(u, v, cs)
    BY DEF Closed
  <1> HIDE DEF cs, u, v
  <1>5. /\ OnePeerGone(u, v)
        /\ \A m \in PcIds:
             /\ pcs'[m].own = cs[m].own /\ pcs'[m].peer = cs[m].peer
             /\ pcs'[m].offered = cs[m].offered /\ pcs'[m].remote = cs[m].remote
             /\ pcs'[m].st = IF m = peers[u][v] /\ cs[m].st = "live" THEN "closing" ELSE cs[m].st
    BY <1>1, <1>2, <1>3, HangupFacts
  <1>6. \A m \in PcIds \ {n}: Kept(m, {peers[u][v]})
    BY <1>2, <1>5 DEF Kept
  <1>7. pcs'[n].st = "closed" /\ pcs'[n].remote = NoPc
    BY <1>2, <1>5
  <1> QED  BY <1>1, <1>5, <1>6, <1>7 DEF u, v

LEMMA BuildEffect ==
    ASSUME Shapes, NEW j \in jobs, BuildPeer(j), ~Reuses(j)
    PROVE  \E n \in PcIds:
             /\ pcs[n].st = "free"
             /\ pcs'[n].own = j.own /\ pcs'[n].peer = j.peer /\ pcs'[n].st = "live"
             /\ pcs'[n].offered = FALSE /\ pcs'[n].remote = NoPc
             /\ \A m \in PcIds \ {n}: pcs'[m] = pcs[m]
             /\ tracks'[j.own][j.peer] = n
             /\ \A a, b \in Users: <<a, b>> # <<j.own, j.peer>> => tracks'[a][b] = tracks[a][b]
             /\ jobs' = (jobs \ {j}) \union {[j EXCEPT !.stage = "built", !.pc = n]}
  <1> DEFINE n == Unused
  <1>1. n \in PcIds /\ pcs[n].st = "free"
    BY FreeIsBuilt DEF BuildPeer
  <1>2. /\ pcs' = [pcs EXCEPT ![n] = [FreePc EXCEPT !.own = j.own, !.peer = j.peer, !.st = "live"]]
        /\ tracks' = [tracks EXCEPT ![j.own][j.peer] = n]
        /\ jobs' = (jobs \ {j}) \union {[j EXCEPT !.stage = "built", !.pc = n]}
    BY DEF BuildPeer, Move
  <1> HIDE DEF n
  <1>3. j.own \in Users /\ j.peer \in Users
    BY DEF Shapes, Jobs
  <1>4. /\ pcs'[n] = [FreePc EXCEPT !.own = j.own, !.peer = j.peer, !.st = "live"]
        /\ \A m \in PcIds \ {n}: pcs'[m] = pcs[m]
    BY <1>1, <1>2 DEF Shapes
  <1>5. /\ pcs'[n].own = j.own /\ pcs'[n].peer = j.peer /\ pcs'[n].st = "live"
        /\ pcs'[n].offered = FALSE /\ pcs'[n].remote = NoPc
    BY <1>4 DEF FreePc
  <1>6. /\ tracks'[j.own][j.peer] = n
        /\ \A a, b \in Users: <<a, b>> # <<j.own, j.peer>> => tracks'[a][b] = tracks[a][b]
    BY <1>2, <1>3 DEF Shapes
  <1> QED  BY <1>1, <1>2, <1>4, <1>5, <1>6

\* A task that fails to build leaves at most a connection that is closed, and its track.
LEMMA BuildFailsEffect ==
    ASSUME Shapes, NEW j \in jobs, BuildFails(j)
    PROVE  /\ j.own \in Users /\ j.peer \in Users /\ jobs' = jobs \ {j}
           /\ \A m \in PcIds: pcs'[m] = pcs[m] \/ (pcs[m].st = "free" /\ pcs'[m].st = "closed")
           /\ \A a, b \in Users: <<a, b>> # <<j.own, j.peer>> => tracks'[a][b] = tracks[a][b]
  <1>1. j.own \in Users /\ j.peer \in Users
    BY DEF Shapes, Jobs
  <1>2. CASE UNCHANGED <<tracks, pcs>>
    BY <1>1, <1>2 DEF BuildFails
  <1>3. CASE ~UNCHANGED <<tracks, pcs>>
    <2> DEFINE n == Unused
    <2>1. /\ Free # {} /\ pcs' = [pcs EXCEPT ![n] = [FreePc EXCEPT !.st = "closed"]]
          /\ tracks' = [tracks EXCEPT ![j.own][j.peer] = n]
      BY <1>3 DEF BuildFails
    <2>2. n \in PcIds /\ pcs[n].st = "free"
      BY <2>1, FreeIsBuilt
    <2> HIDE DEF n
    <2>3. pcs'[n].st = "closed" /\ \A m \in PcIds \ {n}: pcs'[m] = pcs[m]
      BY <2>1, <2>2 DEF Shapes, FreePc
    <2>4. \A a, b \in Users: <<a, b>> # <<j.own, j.peer>> => tracks'[a][b] = tracks[a][b]
      BY <1>1, <2>1 DEF Shapes
    <2> QED  BY <1>1, <2>2, <2>3, <2>4 DEF BuildFails
  <1> QED  BY <1>2, <1>3

\* What a task that describes its connection makes of it.
LEMMA AppliedEffect ==
    ASSUME Shapes, NEW j \in jobs, Able(j)
    PROVE  /\ j.pc \in PcIds
           /\ \A m \in PcIds: /\ Applied(j)[m].own = pcs[m].own /\ Applied(j)[m].peer = pcs[m].peer
                              /\ Applied(j)[m].st = pcs[m].st
                              /\ m # j.pc => Applied(j)[m] = pcs[m]
           /\ j.offer = NoPc => Applied(j)[j.pc].offered = TRUE /\ Applied(j)[j.pc].remote = pcs[j.pc].remote
           /\ j.offer # NoPc => Applied(j)[j.pc].remote = j.offer
                                /\ Applied(j)[j.pc].offered = pcs[j.pc].offered
  <1>1. pcs \in [PcIds -> Pcs] /\ j.pc \in PcIds
    BY DEF Shapes, Jobs, Able, Live, Slots
  <1>2. pcs[j.pc] \in Pcs
    BY <1>1
  <1>3. CASE j.offer = NoPc
    <2>1. Applied(j) = [pcs EXCEPT ![j.pc] = [pcs[j.pc] EXCEPT !.offered = TRUE]]
      BY <1>3 DEF Applied
    <2>2. Applied(j)[j.pc] = [pcs[j.pc] EXCEPT !.offered = TRUE]
          /\ \A m \in PcIds \ {j.pc}: Applied(j)[m] = pcs[m]
      BY <1>1, <2>1
    <2>3. /\ Applied(j)[j.pc].own = pcs[j.pc].own /\ Applied(j)[j.pc].peer = pcs[j.pc].peer
          /\ Applied(j)[j.pc].st = pcs[j.pc].st /\ Applied(j)[j.pc].offered = TRUE
          /\ Applied(j)[j.pc].remote = pcs[j.pc].remote
      BY <1>2, <2>2 DEF Pcs
    <2> QED  BY <1>1, <1>3, <2>2, <2>3
  <1>4. CASE j.offer # NoPc
    <2>1. Applied(j) = [pcs EXCEPT ![j.pc] = [pcs[j.pc] EXCEPT !.remote = j.offer]]
      BY <1>4 DEF Applied
    <2>2. Applied(j)[j.pc] = [pcs[j.pc] EXCEPT !.remote = j.offer]
          /\ \A m \in PcIds \ {j.pc}: Applied(j)[m] = pcs[m]
      BY <1>1, <2>1
    <2>3. /\ Applied(j)[j.pc].own = pcs[j.pc].own /\ Applied(j)[j.pc].peer = pcs[j.pc].peer
          /\ Applied(j)[j.pc].st = pcs[j.pc].st /\ Applied(j)[j.pc].offered = pcs[j.pc].offered
          /\ Applied(j)[j.pc].remote = j.offer
      BY <1>2, <2>2 DEF Pcs
    <2> QED  BY <1>1, <1>4, <2>2, <2>3
  <1> QED  BY <1>3, <1>4

LEMMA DescribeEffect ==
    ASSUME Shapes, NEW j \in jobs, Describe(j)
    PROVE  /\ \A m \in PcIds:
                /\ pcs'[m].own = pcs[m].own /\ pcs'[m].peer = pcs[m].peer /\ pcs'[m].st = pcs[m].st
                /\ m # j.pc \/ ~Able(j) => pcs'[m] = pcs[m]
           /\ Able(j) /\ j.offer = NoPc => pcs'[j.pc].offered = TRUE /\ pcs'[j.pc].remote = pcs[j.pc].remote
           /\ Able(j) /\ j.offer # NoPc => pcs'[j.pc].remote = j.offer
                                           /\ pcs'[j.pc].offered = pcs[j.pc].offered
  <1>1. CASE ~Able(j)
    BY <1>1 DEF Describe
  <1>2. CASE Able(j)
    <2>1. pcs' = Applied(j)
      BY <1>2 DEF Describe
    <2> QED  BY <1>2, <2>1, AppliedEffect
  <1> QED  BY <1>1, <1>2

\* A task that fails to describe its connection has done the same to it, or nothing.
LEMMA DescribeFailsEffect ==
    ASSUME Shapes, NEW j \in jobs, DescribeFails(j)
    PROVE  /\ Able(j) /\ jobs' = jobs \ {j} /\ j.pc \in PcIds
           /\ \A m \in PcIds:
                /\ pcs'[m].own = pcs[m].own /\ pcs'[m].peer = pcs[m].peer /\ pcs'[m].st = pcs[m].st
                /\ m # j.pc => pcs'[m] = pcs[m]
           /\ j.offer = NoPc => pcs'[j.pc].offered \in {pcs[j.pc].offered, TRUE}
                                /\ pcs'[j.pc].remote = pcs[j.pc].remote
           /\ j.offer # NoPc => pcs'[j.pc].remote \in {pcs[j.pc].remote, j.offer}
                                /\ pcs'[j.pc].offered = pcs[j.pc].offered
  <1>1. Able(j) /\ jobs' = jobs \ {j} /\ (pcs' = pcs \/ pcs' = Applied(j))
    BY DEF DescribeFails
  <1>2. CASE pcs' = pcs
    BY <1>1, <1>2, AppliedEffect
  <1>3. CASE pcs' = Applied(j)
    BY <1>1, <1>3, AppliedEffect
  <1> QED  BY <1>1, <1>2, <1>3

\* An answer reaches the connection there is for its sender.
Waits(u) == LET n == peers[u][Head(down[u]).from] IN Live(n) /\ pcs[n].offered /\ pcs[n].remote = NoPc
LEMMA AnswerEffect ==
    ASSUME Shapes, NEW u \in Users, OnAnswer(u)
    PROVE  LET x == Head(down[u]).from
               c == Head(down[u]).pc
               n == peers[u][x] IN
             /\ x \in Users /\ c \in PcIds /\ Head(down[u]) = FromDown("answer", x, c)
             /\ \A m \in PcIds:
                  /\ pcs'[m].own = pcs[m].own /\ pcs'[m].peer = pcs[m].peer /\ pcs'[m].st = pcs[m].st
                  /\ pcs'[m].offered = pcs[m].offered
                  /\ m # n \/ ~Waits(u) => pcs'[m] = pcs[m]
             /\ Waits(u) => n \in PcIds /\ pcs'[n].remote = c
  <1> DEFINE x == Head(down[u]).from
             c == Head(down[u]).pc
             n == peers[u][x]
  <1>1. x \in Users /\ c \in PcIds /\ Head(down[u]) = FromDown("answer", x, c) /\ n \in Slots
    <2>1. x \in Users /\ c \in PcIds /\ Head(down[u]) = FromDown("answer", x, c)
      BY HeadTyped, DownFields DEF OnAnswer, Event, FromDown
    <2> QED  BY <2>1 DEF Shapes
  <1>2. pcs \in [PcIds -> Pcs]
    BY DEF Shapes
  <1>3. CASE Waits(u)
    <2>1. n \in PcIds /\ pcs' = [pcs EXCEPT ![n] = [pcs[n] EXCEPT !.remote = c]]
      BY <1>1, <1>3 DEF OnAnswer, Waits, Live, Slots
    <2>2. pcs[n] \in Pcs
      BY <1>2, <2>1
    <2>3. pcs'[n] = [pcs[n] EXCEPT !.remote = c] /\ \A m \in PcIds \ {n}: pcs'[m] = pcs[m]
      BY <1>2, <2>1
    <2>4. /\ pcs'[n].own = pcs[n].own /\ pcs'[n].peer = pcs[n].peer
          /\ pcs'[n].st = pcs[n].st /\ pcs'[n].offered = pcs[n].offered /\ pcs'[n].remote = c
      BY <2>2, <2>3 DEF Pcs
    <2> QED  BY <1>1, <1>3, <2>1, <2>3, <2>4
  <1>4. CASE ~Waits(u)
    <2>1. pcs' = pcs
      BY <1>4 DEF OnAnswer, Waits
    <2> QED  BY <1>1, <1>4, <2>1
  <1> QED  BY <1>3, <1>4

-----------------------------------------------------------------------------
(* Connections in use have owners, whatever happens. *)

LEMMA OwnedKept ==
    ASSUME Owned, \A m \in PcIds: \/ \E ns: Kept(m, ns)
                                  \/ pcs'[m] = pcs[m]
                                  \/ ~Used(m)'
                                  \/ pcs'[m].own \in Users /\ pcs'[m].peer \in Users
                                  \/ pcs'[m].own = pcs[m].own /\ pcs'[m].peer = pcs[m].peer
                                     /\ pcs'[m].st = pcs[m].st
    PROVE  Owned'
  <1>1. ASSUME NEW m \in PcIds, Used(m)' PROVE pcs'[m].own \in Users /\ pcs'[m].peer \in Users
    <2>1. CASE \E ns: Kept(m, ns)
      <3>1. Used(m) /\ pcs'[m].own = pcs[m].own /\ pcs'[m].peer = pcs[m].peer
        BY <1>1, <2>1 DEF Kept, Used
      <3> QED  BY <3>1 DEF Owned
    <2>2. CASE pcs'[m] = pcs[m]
      BY <1>1, <2>2 DEF Owned, Used
    <2>3. CASE pcs'[m].own = pcs[m].own /\ pcs'[m].peer = pcs[m].peer /\ pcs'[m].st = pcs[m].st
      BY <1>1, <2>3 DEF Owned, Used
    <2> QED  BY <1>1, <2>1, <2>2, <2>3
  <1> QED  BY <1>1 DEF Owned

LEMMA OwnedAllGone ==
    ASSUME Owned, NEW u \in Users, AllPeersGone(u)
    PROVE  Owned'
  BY OwnedKept DEF AllPeersGone

\* The types, and the owners, hold in every state.
LEMMA TypedPerUser == ASSUME Typed, NEW u \in Users, PerUser(u) PROVE Typed'
  <1>0. Shapes /\ Owned
    BY DEF Typed
  <1>1. CASE Join(u)
    <2>1. Owned'
      <3>1. CASE chan[u]
        BY <1>0, <1>1, <3>1, HangupAllFacts, OwnedAllGone DEF Join
      <3>2. CASE ~chan[u]
        BY <1>0, <1>1, <3>2, OwnedKept DEF Join
      <3> QED  BY <3>1, <3>2
    <2> QED  BY <1>0, <1>1, <2>1, JoinType DEF Typed
  <1>2. CASE Leave(u)
    BY <1>0, <1>2, LeaveEffect, OwnedAllGone, LeaveType DEF Typed
  <1>3. CASE RecordJoin(u)
    BY <1>0, <1>3, RecordJoinType, OwnedKept DEF RecordJoin, links, Typed
  <1>4. CASE AnnounceJoin(u)
    BY <1>0, <1>4, AnnounceJoinType, OwnedKept DEF AnnounceJoin, links, Typed
  <1>5. CASE TakeLeave(u)
    BY <1>0, <1>5, TakeLeaveType, OwnedKept DEF TakeLeave, links, Typed
  <1>6. CASE Route(u)
    BY <1>0, <1>6, RouteType, OwnedKept DEF Route, links, Typed
  <1>7. CASE Disconnect(u)
    <2>1. Owned'
      <3>1. CASE chan[u]
        BY <1>0, <1>7, <3>1, HangupAllFacts, OwnedAllGone DEF Disconnect
      <3>2. CASE ~chan[u]
        BY <1>0, <1>7, <3>2, OwnedKept DEF Disconnect
      <3> QED  BY <3>1, <3>2
    <2> QED  BY <1>0, <1>7, <2>1, DisconnectType DEF Typed
  <1>8. CASE OnState(u)
    BY <1>0, <1>8, OnStateType, OwnedKept DEF OnState, Typed
  <1>9. CASE OnCame(u)
    BY <1>0, <1>9, OnCameType, OwnedKept DEF OnCame, links, Typed
  <1>10. CASE OnGone(u)
    <2>1. \A m \in PcIds: (\E ns: Kept(m, ns)) \/ pcs'[m] = pcs[m]
      BY <1>0, <1>10, OnGoneEffect
    <2> QED  BY <1>0, <1>10, <2>1, OnGoneType, OwnedKept DEF Typed
  <1>11. CASE OnOffer(u)
    BY <1>0, <1>11, OnOfferType, OwnedKept DEF OnOffer, Typed
  <1>12. CASE OnAnswer(u)
    <2>1. \A m \in PcIds: pcs'[m].own = pcs[m].own /\ pcs'[m].peer = pcs[m].peer /\ pcs'[m].st = pcs[m].st
      BY <1>0, <1>12, AnswerEffect
    <2> QED  BY <1>0, <1>12, <2>1, OnAnswerType, OwnedKept DEF Typed
  <1>13. CASE RefuseJoin(u)
    BY <1>0, <1>13, RefuseJoinType, OwnedKept DEF RefuseJoin, links, Typed
  <1>14. CASE RouteFails(u)
    BY <1>0, <1>14, RouteFailsType, OwnedKept DEF RouteFails, links, Typed
  <1> QED  BY <1>1, <1>2, <1>3, <1>4, <1>5, <1>6, <1>7, <1>8, <1>9, <1>10, <1>11, <1>12, <1>13,
              <1>14 DEF PerUser

LEMMA TypedPerJob == ASSUME Typed, NEW j \in jobs, PerJob(j) PROVE Typed'
  <1>0. Shapes /\ Owned /\ j \in Jobs /\ j.own \in Users /\ j.peer \in Users
    BY DEF Typed, Shapes, Jobs
  <1>1. CASE BuildPeer(j)
    <2>1. CASE Reuses(j)
      BY <1>0, <1>1, <2>1, BuildPeerType, OwnedKept DEF BuildPeer, Typed
    <2>2. CASE ~Reuses(j)
      <3>1. \A m \in PcIds: pcs'[m] = pcs[m] \/ (pcs'[m].own \in Users /\ pcs'[m].peer \in Users)
        BY <1>0, <1>1, <2>2, BuildEffect
      <3> QED  BY <1>0, <1>1, <3>1, BuildPeerType, OwnedKept DEF Typed
    <2> QED  BY <2>1, <2>2
  <1>2. CASE RegisterPeer(j)
    BY <1>0, <1>2, RegisterPeerType, OwnedKept DEF RegisterPeer, Typed
  <1>3. CASE Describe(j)
    <2>1. \A m \in PcIds: pcs'[m].own = pcs[m].own /\ pcs'[m].peer = pcs[m].peer /\ pcs'[m].st = pcs[m].st
      BY <1>0, <1>3, DescribeEffect
    <2> QED  BY <1>0, <1>3, <2>1, DescribeType, OwnedKept DEF Typed
  <1>4. CASE BuildFails(j)
    <2>1. \A m \in PcIds: pcs'[m] = pcs[m] \/ ~Used(m)'
      BY <1>0, <1>4, BuildFailsEffect DEF Used
    <2> QED  BY <1>0, <1>4, <2>1, BuildFailsType, OwnedKept DEF Typed
  <1>5. CASE DescribeFails(j)
    <2>1. \A m \in PcIds: pcs'[m].own = pcs[m].own /\ pcs'[m].peer = pcs[m].peer /\ pcs'[m].st = pcs[m].st
      BY <1>0, <1>5, DescribeFailsEffect
    <2> QED  BY <1>0, <1>5, <2>1, DescribeFailsType, OwnedKept DEF Typed
  <1> QED  BY <1>1, <1>2, <1>3, <1>4, <1>5 DEF PerJob

LEMMA TypedPerPc == ASSUME Typed, NEW n \in PcIds, PerPc(n) PROVE Typed'
  <1>0. Shapes /\ Owned
    BY DEF Typed
  <1>1. CASE Closed(n)
    <2>1. pcs[n].own \in Users /\ pcs[n].peer \in Users /\ ~Used(n)'
          /\ \A m \in PcIds \ {n}: \E ns: Kept(m, ns)
      BY <1>1, ClosedEffect DEF Used
    <2> QED  BY <1>0, <1>1, <2>1, ClosedType, OwnedKept DEF Typed
  <1>2. CASE Stranded(n)
    <2>1. pcs[n].own \in Users /\ pcs[n].peer \in Users /\ \A m \in PcIds: \E ns: Kept(m, ns)
      BY <1>2, StrandedEffect
    <2> QED  BY <1>0, <1>2, <2>1, StrandedType, OwnedKept DEF Typed
  <1>3. CASE Drop(n)
    <2>1. pcs[n].own \in Users /\ pcs[n].peer \in Users /\ \A m \in PcIds: \E ns: Kept(m, ns)
      BY <1>3, DropEffect
    <2> QED  BY <1>0, <1>3, <2>1, DropType, OwnedKept DEF Typed
  <1> QED  BY <1>1, <1>2, <1>3 DEF PerPc

LEMMA TypedAtStart == Init => Typed
  <1> SUFFICES ASSUME Init PROVE Typed
    OBVIOUS
  <1>1. FreePc \in Pcs
    BY SlotFacts DEF FreePc, Pcs, PcStates
  <1>2. pcs \in [PcIds -> Pcs] /\ \A n \in PcIds: ~Used(n)
    BY <1>1 DEF Init, FreePc, Used
  <1>3. /\ up \in [Users -> Seq(UpMessages)] /\ down \in [Users -> Seq(DownMessages)]
        /\ announce \in [Users -> [users: SUBSET Users, new: BOOLEAN, open: BOOLEAN]]
    BY DEF Init, NoJoin
  <1>4. peers \in [Users -> [Users -> Slots]] /\ tracks \in [Users -> [Users -> Slots]]
    BY SlotFacts DEF Init
  <1>5. Shapes
    BY <1>2, <1>3, <1>4 DEF Shapes, Init
  <1> QED  BY <1>2, <1>5 DEF Typed, Owned

-----------------------------------------------------------------------------
(* The member list. *)

LEMMA ListOfPerUser == ASSUME Shapes, ListInv, NEW u \in Users, PerUser(u) PROVE ListInv'
  <1>1. CASE OnOffer(u) \/ OnAnswer(u)
    <2>1. down[u] # <<>> /\ Handled(u) /\ Head(down[u]).kind \in {"offer", "answer"}
          /\ UNCHANGED <<client, server, up, overlapped, refused, unheard>>
      BY <1>1 DEF OnOffer, OnAnswer, Event, history
    <2> QED  BY <2>1, ListOfSignal
  <1> QED  BY <1>1, ListOfJoin, ListOfLeave, ListOfRecordJoin, ListOfAnnounceJoin, ListOfTakeLeave,
              ListOfRoute, ListOfDisconnect, ListOfRefuseJoin, ListOfRouteFails, ListOfOnState,
              ListOfOnCame, ListOfOnGone DEF PerUser

LEMMA ListStep == ASSUME Typed, ListInv, [Next]_vars PROVE Typed' /\ ListInv'
  <1>0. Shapes
    BY DEF Typed
  <1>1. ASSUME NEW u \in Users, PerUser(u) PROVE Typed' /\ ListInv'
    BY <1>0, <1>1, TypedPerUser, ListOfPerUser
  <1>2. ASSUME NEW j \in jobs, PerJob(j) PROVE Typed' /\ ListInv'
    <2>1. CASE Describe(j)
      BY <1>0, <1>2, <2>1, TypedPerJob, ListOfDescribe
    <2>2. CASE ~Describe(j)
      <3>1. UNCHANGED <<client, server, up, down, overlapped, refused, unheard>>
        BY <1>2, <2>2 DEF PerJob, BuildPeer, BuildFails, RegisterPeer, DescribeFails, history
      <3> QED  BY <1>2, <3>1, TypedPerJob, ListOfRest
    <2> QED  BY <1>2, <2>1, <2>2 DEF PerJob
  <1>3. ASSUME NEW n \in PcIds, PerPc(n) PROVE Typed' /\ ListInv'
    <2>1. UNCHANGED <<client, server, up, down, overlapped, refused, unheard>>
      BY <1>3 DEF PerPc, Closed, Stranded, Drop, history
    <2> QED  BY <1>3, <2>1, TypedPerPc, ListOfRest
  <1>4. CASE UNCHANGED vars
    <2>1. UNCHANGED <<client, server, up, down, overlapped, refused, unheard>>
      BY <1>4 DEF vars, history
    <2>2. UNCHANGED <<chan, members, peers, tracks, pcs, jobs, up, down, occ, seated, announce,
                      hasty, overlapped, dropped, refused, unheard>>
      BY <1>4 DEF vars, client, links, server, history
    <2>3. Typed'
      BY <2>2 DEF Typed, Shapes, Owned, Used
    <2> QED  BY <2>1, <2>3, ListOfRest
  <1> QED  BY <1>1, <1>2, <1>3, <1>4 DEF Next

\* In every state the member lists are what the messages under way make of them.
LEMMA ListsHold == Spec => [](Typed /\ ListInv)
  <1>1. Init => Typed /\ ListInv
    BY TypedAtStart, ListAtStart
  <1>2. Typed /\ ListInv /\ [Next]_vars => Typed' /\ ListInv'
    BY ListStep
  <1> QED  BY <1>1, <1>2, PTL DEF Spec

LEMMA ListsExact == Typed /\ ListInv => MembersExact
  <1> SUFFICES ASSUME Typed, ListInv, Quiet, ~overlapped, ~refused, ~unheard, NEW u \in Users
               PROVE  /\ chan[u] <=> u \in occ
                      /\ members[u] = IF chan[u] THEN occ \ {u} ELSE {}
    BY DEF MembersExact
  <1>1. \A w \in Users: up[w] = <<>> /\ down[w] = <<>> /\ ~Opens(w)
    BY DEF Quiet, Opens
  <1>2. \A w \in Users: \A S: Lacks(up[w], S) /\ Lacks(down[w], S)
    BY <1>1, EmptyQueue
  <1>3. \A w \in Users: CommandsOK(w) /\ SeatOK(w) /\ AloneOK(w) /\ ListOK(w)
    BY DEF ListInv, Heard
  <1>4. \A w \in Users: (chan[w] <=> w \in occ) /\ (w \in occ <=> seated[w])
    BY <1>1, <1>2, <1>3 DEF CommandsOK, SeatOK
  <1>5. CASE ~chan[u]
    BY <1>3, <1>4, <1>5 DEF SeatOK
  <1>6. CASE chan[u]
    <2>1. \A v \in Users \ {u}: Believes(u, v)
      BY <1>1, <1>2, <1>3, <1>4, <1>6 DEF ListOK, Listens
    <2>2. \A v \in Users \ {u}: v \in members[u] <=> v \in occ
      BY <1>2, <1>4, <2>1 DEF Believes
    <2>3. u \notin members[u] /\ members[u] \subseteq Users /\ occ \subseteq Users
      BY <1>3 DEF SeatOK, Typed, Shapes
    <2> QED  BY <1>4, <1>6, <2>2, <2>3
  <1> QED  BY <1>4, <1>5, <1>6

\* A client's member list (voice.rs, handle_voice_state and handle_voice_presence) is the
\* server's once all is quiet, for any number of users, unless joins overlapped, the server refused
\* a join without a word, or a socket did not pass the news of a user on.
THEOREM MembersAreExact == Spec => []MembersExact
  BY ListsHold, ListsExact, PTL
-----------------------------------------------------------------------------
(* Who offers to whom, as long as everybody comes back to a settled channel. *)
(* The one who calls v has v on a list that is under way, or starts a task   *)
(* for v, or sends an offer, that reaches v and starts the answering task.   *)

UpSignals == {ToUp(k, v, n): k \in {"offer", "answer"}, v \in Users, n \in PcIds}
DownSignals == {FromDown(k, v, n): k \in {"offer", "answer"}, v \in Users, n \in PcIds}
OffersTo(v) == {ToUp("offer", v, n): n \in PcIds}
AnswersTo(v) == {ToUp("answer", v, n): n \in PcIds}
OffersOf(v) == {FromDown("offer", v, n): n \in PcIds}
AnswersOf(v) == {FromDown("answer", v, n): n \in PcIds}
NamingTo(v, n) == {ToUp("offer", v, n), ToUp("answer", v, n)}
NamingOf(v, n) == {FromDown("offer", v, n), FromDown("answer", v, n)}

Of(n, u, v) == pcs[n].own = u /\ pcs[n].peer = v /\ Used(n)
Has(u, v) == \E n \in PcIds: Of(n, u, v)
Joining(u) == ~Lacks(up[u], {JoinM})
Calls(u, v) == (Opens(u) /\ v \in announce[u].users) \/ ~Lacks(down[u], StatesWith(v))
StartJob(j, u, v) == j.own = u /\ j.peer = v /\ j.offer = NoPc
AnswerJob(j, u, v) == j.own = v /\ j.peer = u /\ j.offer # NoPc
Starts(u, v) == \E j \in jobs: StartJob(j, u, v)
Sends(u, v) == ~Lacks(up[u], OffersTo(v))
Reaches(u, v) == ~Lacks(down[v], OffersOf(u))
Taken(u, v) == \E j \in jobs: AnswerJob(j, u, v)
Replies(u, v) == ~Lacks(up[v], AnswersTo(u)) \/ ~Lacks(down[u], AnswersOf(v))
Offered(u, v) == \E n \in PcIds: Of(n, u, v) /\ pcs[n].offered
Offering(u, v) == \/ Calls(u, v) \/ Starts(u, v) \/ Sends(u, v) \/ Reaches(u, v) \/ Taken(u, v)
                  \/ Offered(u, v)
Apart(u, v) == ~Offering(u, v) /\ ~Has(u, v) /\ ~Replies(u, v)

\* What is on its way from and to a user who comes or has gone.
StayOK(u) ==
  /\ One(up[u], {JoinM}) /\ One(down[u], States)
  /\ Opens(u) => Lacks(down[u], States)
  /\ Joining(u) => u \notin occ /\ Lacks(down[u], States)
  /\ ~Lacks(up[u], {LeaveM}) => ~chan[u]
  /\ chan[u] => \A v \in Users: Lacks(down[v], {Gone(u)})
FreshOK(u) == Joining(u) => \A v \in Users: Apart(u, v) /\ Apart(v, u)

\* An offer is in one place at a time, and v does not offer to whoever offers to v.
ChainOK(u, v) ==
  /\ Offering(u, v) => ~Offering(v, u)
  /\ Calls(u, v) => ~Starts(u, v) /\ ~Sends(u, v) /\ ~Reaches(u, v) /\ ~Taken(u, v)
                    /\ ~Has(u, v) /\ ~Has(v, u)
  /\ Starts(u, v) => ~Sends(u, v) /\ ~Reaches(u, v) /\ ~Taken(u, v) /\ ~Has(v, u)
  /\ Sends(u, v) => ~Reaches(u, v) /\ ~Taken(u, v) /\ ~Has(v, u)
  /\ Reaches(u, v) => ~Taken(u, v) /\ ~Has(v, u)
UniqueOK(u, v) ==
  /\ One(up[u], OffersTo(v)) /\ One(down[v], OffersOf(u))
  /\ \A j, k \in jobs: StartJob(j, u, v) /\ StartJob(k, u, v) => j = k
  /\ \A j, k \in jobs: AnswerJob(j, u, v) /\ AnswerJob(k, u, v) => j = k
  /\ \A n, m \in PcIds: Of(n, u, v) /\ Of(m, u, v) => n = m

OfferInv == \A u \in Users: /\ StayOK(u) /\ FreshOK(u)
                            /\ \A v \in Users: ChainOK(u, v) /\ UniqueOK(u, v)

\* An offer only moves on.
Forward(u, v) ==
  /\ Calls(u, v)' => Calls(u, v)
  /\ Starts(u, v)' => Starts(u, v) \/ (Calls(u, v) /\ ~Calls(u, v)')
  /\ Sends(u, v)' => Sends(u, v) \/ (Starts(u, v) /\ ~Starts(u, v)')
  /\ Reaches(u, v)' => Reaches(u, v) \/ (Sends(u, v) /\ ~Sends(u, v)')
  /\ Taken(u, v)' => Taken(u, v) \/ (Reaches(u, v) /\ ~Reaches(u, v)')
  /\ Offered(u, v)' => Offered(u, v) \/ Starts(u, v)
  /\ Has(u, v)' => Has(u, v) \/ Starts(u, v) \/ Taken(v, u)
  /\ Replies(u, v)' => Replies(u, v) \/ Taken(u, v)

LEMMA ChainStep ==
    ASSUME NEW u \in Users, NEW v \in Users, Forward(u, v), Forward(v, u), ChainOK(u, v), ChainOK(v, u)
    PROVE  ChainOK(u, v)'
  <1>1. Offering(u, v)' => Offering(u, v)
    BY DEF Forward, Offering
  <1>2. Offering(v, u)' => Offering(v, u)
    BY DEF Forward, Offering
  <1>3. Offering(u, v) => ~Offering(v, u) /\ ~Calls(v, u) /\ ~Starts(v, u) /\ ~Sends(v, u)
                          /\ ~Reaches(v, u) /\ ~Taken(v, u)
    BY DEF ChainOK, Offering
  <1>4. Offering(u, v)' => ~Offering(v, u)'
    BY <1>1, <1>2, <1>3
  <1>5. ASSUME Calls(u, v)'
        PROVE  ~Starts(u, v)' /\ ~Sends(u, v)' /\ ~Reaches(u, v)' /\ ~Taken(u, v)' /\ ~Has(u, v)'
               /\ ~Has(v, u)'
    <2>1. Calls(u, v) /\ Offering(u, v)
      BY <1>5 DEF Forward, Offering
    <2>2. ~Starts(u, v) /\ ~Sends(u, v) /\ ~Reaches(u, v) /\ ~Taken(u, v) /\ ~Has(u, v) /\ ~Has(v, u)
      BY <2>1 DEF ChainOK
    <2> QED  BY <1>3, <1>5, <2>1, <2>2 DEF Forward
  <1>6. ASSUME Starts(u, v)'
        PROVE  ~Sends(u, v)' /\ ~Reaches(u, v)' /\ ~Taken(u, v)' /\ ~Has(v, u)'
    <2>1. Offering(u, v) /\ ~Sends(u, v) /\ ~Reaches(u, v) /\ ~Taken(u, v) /\ ~Has(v, u)
      BY <1>6 DEF Forward, Offering, ChainOK
    <2> QED  BY <1>3, <1>6, <2>1 DEF Forward
  <1>7. ASSUME Sends(u, v)' PROVE ~Reaches(u, v)' /\ ~Taken(u, v)' /\ ~Has(v, u)'
    <2>1. Offering(u, v) /\ ~Reaches(u, v) /\ ~Taken(u, v) /\ ~Has(v, u)
      BY <1>7 DEF Forward, Offering, ChainOK
    <2> QED  BY <1>3, <1>7, <2>1 DEF Forward
  <1>8. ASSUME Reaches(u, v)' PROVE ~Taken(u, v)' /\ ~Has(v, u)'
    <2>1. Offering(u, v) /\ ~Taken(u, v) /\ ~Has(v, u)
      BY <1>8 DEF Forward, Offering, ChainOK
    <2> QED  BY <1>3, <1>8, <2>1 DEF Forward
  <1> QED  BY <1>4, <1>5, <1>6, <1>7, <1>8 DEF ChainOK

LEMMA ApartStep ==
    ASSUME NEW u \in Users, NEW v \in Users, Forward(u, v), Apart(u, v), Apart(v, u)
    PROVE  Apart(u, v)'
  BY DEF Forward, Apart, Offering

\* Which kinds a message belongs to.
LEMMA SignalKinds ==
    /\ \A v \in Users: /\ OffersTo(v) \subseteq UpSignals /\ AnswersTo(v) \subseteq UpSignals
                       /\ OffersOf(v) \subseteq DownSignals /\ AnswersOf(v) \subseteq DownSignals
                       /\ \A n \in PcIds: NamingTo(v, n) \subseteq UpSignals
                                          /\ NamingOf(v, n) \subseteq DownSignals
    /\ JoinM \notin UpSignals /\ LeaveM \notin UpSignals
    /\ \A v: Came(v) \notin DownSignals /\ Gone(v) \notin DownSignals
    /\ \A m \in States: m \notin DownSignals
    /\ \A v: Came(v) \notin States /\ Gone(v) \notin States
    /\ \A v, w: Came(v) # Gone(w) /\ (Gone(v) = Gone(w) <=> v = w)
  <1>1. JoinM \notin UpSignals /\ LeaveM \notin UpSignals
    <2>1. \A m \in UpSignals: m.kind \in {"offer", "answer"}
      BY DEF UpSignals, ToUp
    <2> QED  BY <2>1 DEF JoinM, LeaveM
  <1>2. /\ \A v: Came(v) \notin DownSignals /\ Gone(v) \notin DownSignals
        /\ \A m \in States: m \notin DownSignals
    <2>1. \A m \in DownSignals: m.kind \in {"offer", "answer"}
      BY DEF DownSignals, FromDown
    <2> QED  BY <2>1 DEF Came, Gone, States
  <1>3. \A v: Came(v) \notin States /\ Gone(v) \notin States
    BY DEF Came, Gone, States
  <1>4. \A v, w: Came(v) # Gone(w) /\ (Gone(v) = Gone(w) <=> v = w)
    BY DEF Came, Gone
  <1>5. ASSUME NEW v \in Users
        PROVE  /\ OffersTo(v) \subseteq UpSignals /\ AnswersTo(v) \subseteq UpSignals
               /\ OffersOf(v) \subseteq DownSignals /\ AnswersOf(v) \subseteq DownSignals
               /\ \A n \in PcIds: NamingTo(v, n) \subseteq UpSignals
                                  /\ NamingOf(v, n) \subseteq DownSignals
    BY DEF OffersTo, AnswersTo, OffersOf, AnswersOf, NamingTo, NamingOf, UpSignals, DownSignals
  <1> QED  BY <1>1, <1>2, <1>3, <1>4, <1>5

LEMMA SignalMatch ==
    ASSUME NEW k \in {"offer", "answer"}, NEW v \in Users, NEW n \in PcIds,
           NEW w \in Users, NEW x \in PcIds
    PROVE  /\ ToUp(k, v, n) \in UpSignals /\ FromDown(k, v, n) \in DownSignals
           /\ ToUp(k, v, n) \in OffersTo(w) <=> k = "offer" /\ v = w
           /\ ToUp(k, v, n) \in AnswersTo(w) <=> k = "answer" /\ v = w
           /\ FromDown(k, v, n) \in OffersOf(w) <=> k = "offer" /\ v = w
           /\ FromDown(k, v, n) \in AnswersOf(w) <=> k = "answer" /\ v = w
           /\ ToUp(k, v, n) \in NamingTo(w, x) <=> v = w /\ n = x
           /\ FromDown(k, v, n) \in NamingOf(w, x) <=> v = w /\ n = x
           /\ ToUp(k, v, n) # JoinM /\ ToUp(k, v, n) # LeaveM
           /\ FromDown(k, v, n) \notin States /\ FromDown(k, v, n) # Gone(w)
  <1>1. /\ ToUp(k, v, n) \in UpSignals /\ FromDown(k, v, n) \in DownSignals
        /\ ToUp(k, v, n).kind = k /\ ToUp(k, v, n).to = v /\ ToUp(k, v, n).pc = n
        /\ FromDown(k, v, n).kind = k /\ FromDown(k, v, n).from = v /\ FromDown(k, v, n).pc = n
    BY DEF ToUp, FromDown, UpSignals, DownSignals
  <1>2. /\ \A y \in PcIds: ToUp("offer", w, y).kind = "offer" /\ ToUp("offer", w, y).to = w
        /\ \A y \in PcIds: ToUp("answer", w, y).kind = "answer" /\ ToUp("answer", w, y).to = w
        /\ \A y \in PcIds: FromDown("offer", w, y).kind = "offer" /\ FromDown("offer", w, y).from = w
        /\ \A y \in PcIds: FromDown("answer", w, y).kind = "answer" /\ FromDown("answer", w, y).from = w
    BY DEF ToUp, FromDown
  <1>3. ToUp(k, v, n) \in OffersTo(w) <=> k = "offer" /\ v = w
    BY <1>1, <1>2 DEF OffersTo
  <1>4. ToUp(k, v, n) \in AnswersTo(w) <=> k = "answer" /\ v = w
    BY <1>1, <1>2 DEF AnswersTo
  <1>5. FromDown(k, v, n) \in OffersOf(w) <=> k = "offer" /\ v = w
    BY <1>1, <1>2 DEF OffersOf
  <1>6. FromDown(k, v, n) \in AnswersOf(w) <=> k = "answer" /\ v = w
    BY <1>1, <1>2 DEF AnswersOf
  <1>7. ToUp(k, v, n) \in NamingTo(w, x) <=> v = w /\ n = x
    <2>1. ToUp("offer", w, x).to = w /\ ToUp("offer", w, x).pc = x
          /\ ToUp("answer", w, x).to = w /\ ToUp("answer", w, x).pc = x
      BY DEF ToUp
    <2> QED  BY <1>1, <2>1 DEF NamingTo
  <1>8. FromDown(k, v, n) \in NamingOf(w, x) <=> v = w /\ n = x
    <2>1. FromDown("offer", w, x).from = w /\ FromDown("offer", w, x).pc = x
          /\ FromDown("answer", w, x).from = w /\ FromDown("answer", w, x).pc = x
      BY DEF FromDown
    <2> QED  BY <1>1, <2>1 DEF NamingOf
  <1>9. ToUp(k, v, n) # JoinM /\ ToUp(k, v, n) # LeaveM /\ FromDown(k, v, n) \notin States
        /\ FromDown(k, v, n) # Gone(w)
    BY <1>1, SignalKinds
  <1> QED  BY <1>1, <1>3, <1>4, <1>5, <1>6, <1>7, <1>8, <1>9
-----------------------------------------------------------------------------
(* Connections, the tasks that build them, and who knows of them.  A         *)
(* connection is found until it is closed, and only a registered one is      *)
(* known at the other end.                                                   *)

Known(n, u, v) ==
  \/ ~Lacks(up[u], NamingTo(v, n)) \/ ~Lacks(down[v], NamingOf(u, n))
  \/ \E j \in jobs: j.own = v /\ j.peer = u /\ j.offer = n
  \/ \E m \in PcIds: Of(m, v, u) /\ pcs[m].remote = n

PeerOK(u, v) == peers[u][v] # NoPc => Of(peers[u][v], u, v) /\ Live(peers[u][v])
KnownOK(n, u, v) == Known(n, u, v) =>
  /\ pcs[n].st # "free"
  /\ Used(n) => Of(n, u, v)
  /\ Live(n) => chan[u] /\ peers[u][v] = n
JobOK(j) ==
  /\ j.stage = "spawned" => j.pc = NoPc /\ ~Has(j.own, j.peer)
  /\ j.stage # "spawned" => /\ j.pc # NoPc /\ pcs[j.pc].st # "free"
                            /\ ~Known(j.pc, j.own, j.peer)
                            /\ Used(j.pc) => Of(j.pc, j.own, j.peer)
                            /\ Live(j.pc) => ~pcs[j.pc].offered /\ pcs[j.pc].remote = NoPc
  /\ j.stage = "built" => Live(j.pc) /\ peers[j.own][j.peer] = NoPc
  /\ j.stage = "registered" /\ Live(j.pc) => peers[j.own][j.peer] = j.pc
FoundOK(n) ==
  Live(n) => peers[pcs[n].own][pcs[n].peer] = n \/ \E j \in jobs: j.stage = "built" /\ j.pc = n

LinkInv ==
  /\ \A u, v \in Users: PeerOK(u, v)
  /\ \A n \in PcIds: \A u, v \in Users: KnownOK(n, u, v)
  /\ \A j \in jobs: JobOK(j)
  /\ \A n \in PcIds: FoundOK(n)

\* Fewer signals are under way.
FewerSignals ==
  \A w \in Users:
    /\ \A S: S \subseteq UpSignals => /\ Lacks(up[w], S) => Lacks(up'[w], S)
                                      /\ One(up[w], S) => One(up'[w], S)
    /\ \A S: S \subseteq DownSignals => /\ Lacks(down[w], S) => Lacks(down'[w], S)
                                        /\ One(down[w], S) => One(down'[w], S)
\* The connections in use were in use, and are as they were.
OldPcs == \A m \in PcIds: Used(m)' =>
  /\ Used(m) /\ pcs'[m].own = pcs[m].own /\ pcs'[m].peer = pcs[m].peer
  /\ pcs'[m].offered = pcs[m].offered /\ pcs'[m].remote = pcs[m].remote

LEMMA FewerMessages ==
    ASSUME FewerSignals, NEW a \in Users, NEW b \in Users
    PROVE  /\ Sends(a, b)' => Sends(a, b)
           /\ Reaches(a, b)' => Reaches(a, b)
           /\ Replies(a, b)' => Replies(a, b)
           /\ One(up[a], OffersTo(b)) => One(up'[a], OffersTo(b))
           /\ One(down[b], OffersOf(a)) => One(down'[b], OffersOf(a))
           /\ \A n \in PcIds: /\ ~Lacks(up'[a], NamingTo(b, n)) => ~Lacks(up[a], NamingTo(b, n))
                              /\ ~Lacks(down'[b], NamingOf(a, n)) => ~Lacks(down[b], NamingOf(a, n))
  <1>1. /\ OffersTo(b) \subseteq UpSignals /\ AnswersTo(a) \subseteq UpSignals
        /\ OffersOf(a) \subseteq DownSignals /\ AnswersOf(b) \subseteq DownSignals
    BY SignalKinds
  <1>2. Lacks(up[a], OffersTo(b)) => Lacks(up'[a], OffersTo(b))
    BY <1>1 DEF FewerSignals
  <1>3. One(up[a], OffersTo(b)) => One(up'[a], OffersTo(b))
    BY <1>1 DEF FewerSignals
  <1>4. Lacks(down[b], OffersOf(a)) => Lacks(down'[b], OffersOf(a))
    BY <1>1 DEF FewerSignals
  <1>5. One(down[b], OffersOf(a)) => One(down'[b], OffersOf(a))
    BY <1>1 DEF FewerSignals
  <1>6. Lacks(up[b], AnswersTo(a)) => Lacks(up'[b], AnswersTo(a))
    BY <1>1 DEF FewerSignals
  <1>7. Lacks(down[a], AnswersOf(b)) => Lacks(down'[a], AnswersOf(b))
    BY <1>1 DEF FewerSignals
  <1>8. ASSUME NEW n \in PcIds
        PROVE  /\ ~Lacks(up'[a], NamingTo(b, n)) => ~Lacks(up[a], NamingTo(b, n))
               /\ ~Lacks(down'[b], NamingOf(a, n)) => ~Lacks(down[b], NamingOf(a, n))
    <2>1. NamingTo(b, n) \subseteq UpSignals /\ NamingOf(a, n) \subseteq DownSignals
      BY SignalKinds
    <2> QED  BY <2>1 DEF FewerSignals
  <1> QED  BY <1>2, <1>3, <1>4, <1>5, <1>6, <1>7, <1>8 DEF Sends, Reaches, Replies

LEMMA FewerPcs ==
    ASSUME OldPcs, NEW a \in Users, NEW b \in Users
    PROVE  /\ \A m \in PcIds: Of(m, a, b)' => Of(m, a, b) /\ pcs'[m].offered = pcs[m].offered
                                             /\ pcs'[m].remote = pcs[m].remote
           /\ Has(a, b)' => Has(a, b)
           /\ Offered(a, b)' => Offered(a, b)
           /\ (\A n, m \in PcIds: Of(n, a, b) /\ Of(m, a, b) => n = m)
                => (\A n, m \in PcIds: Of(n, a, b)' /\ Of(m, a, b)' => n = m)
  <1>1. \A m \in PcIds: Of(m, a, b)' => Of(m, a, b) /\ pcs'[m].offered = pcs[m].offered
                                       /\ pcs'[m].remote = pcs[m].remote
    BY DEF OldPcs, Of
  <1>2. Has(a, b)' => Has(a, b)
    BY <1>1 DEF Has
  <1>3. Offered(a, b)' => Offered(a, b)
    BY <1>1 DEF Offered
  <1> QED  BY <1>1, <1>2, <1>3

\* The jobs of a pair, when there are no new ones.
LEMMA FewerJobs ==
    ASSUME jobs' \subseteq jobs, NEW a \in Users, NEW b \in Users
    PROVE  /\ Starts(a, b)' => Starts(a, b)
           /\ Taken(a, b)' => Taken(a, b)
  BY DEF Starts, Taken, StartJob, AnswerJob

LEMMA FewerOffers ==
    ASSUME OfferInv, FewerSignals, OldPcs, jobs' \subseteq jobs, NEW a \in Users, NEW b \in Users
    PROVE  /\ (Calls(a, b)' => Calls(a, b)) => Forward(a, b)
           /\ Starts(a, b)' => Starts(a, b)
           /\ Sends(a, b)' => Sends(a, b)
           /\ Reaches(a, b)' => Reaches(a, b)
           /\ Taken(a, b)' => Taken(a, b)
           /\ Offered(a, b)' => Offered(a, b)
           /\ Has(a, b)' => Has(a, b)
           /\ Replies(a, b)' => Replies(a, b)
           /\ UniqueOK(a, b)'
           /\ \A n \in PcIds: Known(n, a, b)' => Known(n, a, b)
  <1>1. UniqueOK(a, b)
    BY DEF OfferInv
  <1>2. UniqueOK(a, b)'
    <2>1. One(up'[a], OffersTo(b)) /\ One(down'[b], OffersOf(a))
      BY <1>1, FewerMessages DEF UniqueOK
    <2>2. /\ \A j, k \in jobs': StartJob(j, a, b) /\ StartJob(k, a, b) => j = k
          /\ \A j, k \in jobs': AnswerJob(j, a, b) /\ AnswerJob(k, a, b) => j = k
      BY <1>1 DEF UniqueOK
    <2>3. \A n, m \in PcIds: Of(n, a, b)' /\ Of(m, a, b)' => n = m
      BY <1>1, FewerPcs DEF UniqueOK
    <2> QED  BY <2>1, <2>2, <2>3 DEF UniqueOK, StartJob, AnswerJob
  <1>3. \A n \in PcIds: Known(n, a, b)' => Known(n, a, b)
    <2> SUFFICES ASSUME NEW n \in PcIds, Known(n, a, b)' PROVE Known(n, a, b)
      OBVIOUS
    <2>1. CASE ~Lacks(up'[a], NamingTo(b, n)) \/ ~Lacks(down'[b], NamingOf(a, n))
      BY <2>1, FewerMessages DEF Known
    <2>2. CASE \E j \in jobs': j.own = b /\ j.peer = a /\ j.offer = n
      BY <2>2 DEF Known
    <2>3. CASE \E m \in PcIds: Of(m, b, a)' /\ pcs'[m].remote = n
      BY <2>3, FewerPcs DEF Known
    <2> QED  BY <2>1, <2>2, <2>3 DEF Known
  <1> QED  BY <1>2, <1>3, FewerMessages, FewerPcs, FewerJobs DEF Forward

-----------------------------------------------------------------------------
(* Connections that are hung up. *)

\* Some connections are closed, and those that were registered are forgotten.
Hung ==
  /\ OldPcs
  /\ \A m \in PcIds:
       /\ pcs'[m].st = "free" => pcs[m].st = "free"
       /\ Live(m)' => Live(m)
       /\ Live(m) /\ ~Live(m)' => (\E a, b \in Users: peers[a][b] = m) \/ pcs[m].remote # NoPc
  /\ \A a, b \in Users: \A m \in PcIds:
       /\ peers'[a][b] = m => peers[a][b] = m /\ Live(m)'
       /\ peers[a][b] = m /\ Live(m)' => peers'[a][b] = m

LEMMA PeerIds ==
    ASSUME Typed, NEW a \in Users, NEW b \in Users, peers[a][b] # NoPc
    PROVE  peers[a][b] \in PcIds
  BY DEF Typed, Shapes, Slots

LEMMA NothingHungUp ==
    ASSUME Typed, LinkInv, UNCHANGED <<peers, pcs>>
    PROVE  Hung
  <1>1. \A m \in PcIds: Used(m)' = Used(m) /\ Live(m)' = Live(m)
    BY DEF Used, Live
  <1>2. \A a, b \in Users: \A m \in PcIds: peers[a][b] = m => Live(m)'
    BY <1>1, SlotFacts DEF LinkInv, PeerOK
  <1> QED  BY <1>1, <1>2 DEF Hung, OldPcs

LEMMA AllHungUp ==
    ASSUME Typed, LinkInv, NEW u \in Users, AllPeersGone(u)
    PROVE  Hung
  <1> DEFINE ns == {peers[u][v]: v \in Users}
  <1>1. \A m \in PcIds: Kept(m, ns) /\ m # NoPc
    BY SlotFacts DEF AllPeersGone
  <1>2. OldPcs
    BY <1>1 DEF OldPcs, Kept, Used
  <1>3. ASSUME NEW m \in PcIds
        PROVE  /\ pcs'[m].st = "free" <=> pcs[m].st = "free"
               /\ Live(m)' => Live(m)
               /\ Live(m) /\ ~Live(m)' => \E a, b \in Users: peers[a][b] = m
    BY <1>1 DEF Kept, Live
  <1>4. ASSUME NEW a \in Users, NEW b \in Users, NEW m \in PcIds, peers[a][b] = m
        PROVE  /\ a = u => peers'[a][b] = NoPc /\ ~Live(m)'
               /\ a # u => peers'[a][b] = m /\ Live(m)'
    <2>1. Of(m, a, b) /\ Live(m) /\ Kept(m, ns) /\ m # NoPc
      BY <1>1, <1>4 DEF LinkInv, PeerOK
    <2>2. CASE a = u
      <3>1. m \in ns
        BY <1>4, <2>2
      <3> HIDE DEF ns
      <3> QED  BY <2>1, <2>2, <3>1 DEF AllPeersGone, Kept, Live
    <2>3. CASE a # u
      <3>1. m \notin ns
        <4> SUFFICES ASSUME NEW v \in Users, m = peers[u][v] PROVE FALSE
          OBVIOUS
        <4>1. Of(m, u, v)
          BY <2>1 DEF LinkInv, PeerOK
        <4> QED  BY <2>1, <2>3, <4>1 DEF Of
      <3> HIDE DEF ns
      <3>2. Live(m)'
        BY <2>1, <3>1 DEF Kept, Live
      <3> QED  BY <1>4, <2>3, <3>2 DEF AllPeersGone
    <2> QED  BY <2>2, <2>3
  <1>5. ASSUME NEW a \in Users, NEW b \in Users, peers[a][b] = NoPc PROVE peers'[a][b] = NoPc
    BY <1>5 DEF AllPeersGone
  <1>6. ASSUME NEW a \in Users, NEW b \in Users, NEW m \in PcIds
        PROVE  /\ peers'[a][b] = m => peers[a][b] = m /\ Live(m)'
               /\ peers[a][b] = m /\ Live(m)' => peers'[a][b] = m
    <2>1. m # NoPc /\ (peers[a][b] = NoPc \/ peers[a][b] \in PcIds)
      BY <1>1, PeerIds
    <2>2. peers[a][b] = m => (a = u /\ peers'[a][b] = NoPc /\ ~Live(m)')
                             \/ (a # u /\ peers'[a][b] = m /\ Live(m)')
      BY <1>4
    <2>3. peers[a][b] \in PcIds /\ peers[a][b] # m => peers'[a][b] # m
      BY <1>4, <2>1
    <2> QED  BY <1>5, <2>1, <2>2, <2>3
  <1> QED  BY <1>2, <1>3, <1>6 DEF Hung

LEMMA OneHungUp ==
    ASSUME Typed, LinkInv, NEW u \in Users, NEW v \in Users, OnePeerGone(u, v), NEW ns,
           peers[u][v] \in ns,
           \A m \in ns \ {peers[u][v]}: Of(m, u, v) /\ pcs[m].remote # NoPc,
           \A m \in PcIds: Kept(m, ns) \/ (pcs[m].st = "closing" /\ pcs'[m].st = "closed")
    PROVE  Hung
  <1>1. OldPcs
    BY DEF OldPcs, Kept, Used
  <1>2. ASSUME NEW m \in PcIds
        PROVE  /\ pcs'[m].st = "free" <=> pcs[m].st = "free"
               /\ Live(m)' => Live(m)
               /\ Live(m) /\ ~Live(m)' => (\E a, b \in Users: peers[a][b] = m) \/ pcs[m].remote # NoPc
    BY DEF Kept, Live
  <1>3. ASSUME NEW a \in Users, NEW b \in Users, NEW m \in PcIds, peers[a][b] = m
        PROVE  /\ peers'[a][b] # NoPc => peers'[a][b] = m /\ Live(m)'
               /\ Live(m)' => peers'[a][b] = m
    <2>1. Of(m, a, b) /\ Live(m) /\ m # NoPc
      BY <1>3, SlotFacts DEF LinkInv, PeerOK
    <2>2. Kept(m, ns)
      BY <2>1 DEF Live
    <2>3. CASE <<a, b>> = <<u, v>>
      BY <1>3, <2>1, <2>2, <2>3 DEF OnePeerGone, Kept, Live
    <2>4. CASE <<a, b>> # <<u, v>>
      <3>1. ~Of(m, u, v)
        BY <2>1, <2>4 DEF Of
      <3>2. m # peers[u][v]
        BY <2>1, <3>1 DEF LinkInv, PeerOK
      <3>3. m \notin ns
        BY <3>1, <3>2
      <3> QED  BY <1>3, <2>1, <2>2, <2>4, <3>3 DEF OnePeerGone, Kept, Live
    <2> QED  BY <2>3, <2>4
  <1>4. ASSUME NEW a \in Users, NEW b \in Users, peers[a][b] = NoPc PROVE peers'[a][b] = NoPc
    BY <1>4 DEF OnePeerGone
  <1>5. \A a, b \in Users: peers[a][b] # NoPc => peers[a][b] \in PcIds
    BY PeerIds
  <1>6. NoPc \notin PcIds
    BY SlotFacts
  <1> QED  BY <1>1, <1>2, <1>3, <1>4, <1>5, <1>6 DEF Hung

\* What holds of connections still holds when some are hung up, fewer are known, and
\* tasks are started for those who have no connection.
LEMMA LinksKept ==
    ASSUME Typed, Typed', LinkInv, Hung,
           \A n \in PcIds: \A a, b \in Users: Known(n, a, b)' => Known(n, a, b),
           \A a \in Users: chan[a] => chan'[a] \/ \A b \in Users: peers'[a][b] = NoPc,
           \A j \in jobs': j \in jobs \/ (j.stage = "spawned" /\ j.pc = NoPc /\ ~Has(j.own, j.peer)),
           \A j \in jobs: j.stage = "built" => j \in jobs'
    PROVE  LinkInv'
  <1>0. OldPcs /\ NoPc \notin PcIds
    BY SlotFacts DEF Hung
  <1>1. ASSUME NEW a \in Users, NEW b \in Users PROVE PeerOK(a, b)'
    <2>1. ASSUME NEW m \in PcIds, peers'[a][b] = m PROVE Of(m, a, b)' /\ Live(m)'
      <3>1. peers[a][b] = m /\ Live(m)' /\ m # NoPc
        BY <1>0, <2>1 DEF Hung
      <3>2. Of(m, a, b)
        BY <3>1 DEF LinkInv, PeerOK
      <3>3. Of(m, a, b)'
        BY <1>0, <3>1, <3>2 DEF OldPcs, Of, Live, Used
      <3> QED  BY <3>1, <3>3
    <2>2. peers'[a][b] # NoPc => peers'[a][b] \in PcIds
      BY DEF Typed, Shapes, Slots
    <2> QED  BY <2>1, <2>2 DEF PeerOK, Of, Used, Live
  <1>2. ASSUME NEW n \in PcIds, NEW a \in Users, NEW b \in Users PROVE KnownOK(n, a, b)'
    <2> SUFFICES ASSUME Known(n, a, b)'
                 PROVE  /\ pcs'[n].st # "free"
                        /\ Used(n)' => Of(n, a, b)'
                        /\ Live(n)' => chan'[a] /\ peers'[a][b] = n
      BY DEF KnownOK
    <2>1. /\ pcs[n].st # "free"
          /\ Used(n) => Of(n, a, b)
          /\ Live(n) => chan[a] /\ peers[a][b] = n
      BY DEF LinkInv, KnownOK
    <2>2. Used(n)' => Of(n, a, b)'
      BY <1>0, <2>1 DEF OldPcs, Of
    <2>3. ASSUME Live(n)' PROVE chan'[a] /\ peers'[a][b] = n
      <3>1. Live(n) /\ peers[a][b] = n /\ chan[a] /\ n # NoPc
        BY <1>0, <2>1, <2>3 DEF Hung
      <3>2. peers'[a][b] = n
        BY <2>3, <3>1 DEF Hung
      <3> QED  BY <3>1, <3>2
    <2> QED  BY <2>1, <2>2, <2>3 DEF Hung
  <1>3. ASSUME NEW j \in jobs' PROVE JobOK(j)'
    <2>0. j \in Jobs /\ j.own \in Users /\ j.peer \in Users /\ j.pc \in Slots
      BY DEF Typed, Shapes, Jobs
    <2>1. Has(j.own, j.peer)' => Has(j.own, j.peer)
      BY <1>0, <2>0, FewerPcs
    <2>2. CASE j \notin jobs
      <3>1. j.stage = "spawned" /\ j.pc = NoPc /\ ~Has(j.own, j.peer)'
        BY <2>1, <2>2
      <3> QED  BY <3>1 DEF JobOK
    <2>3. CASE j \in jobs
      <3>0. JobOK(j)
        BY <2>3 DEF LinkInv
      <3>1. j.stage = "spawned" => j.pc = NoPc /\ ~Has(j.own, j.peer)'
        BY <2>1, <3>0 DEF JobOK
      <3>2. ASSUME j.stage # "spawned"
            PROVE  /\ j.pc # NoPc /\ pcs'[j.pc].st # "free"
                   /\ ~Known(j.pc, j.own, j.peer)'
                   /\ Used(j.pc)' => Of(j.pc, j.own, j.peer)'
                   /\ Live(j.pc)' => ~pcs'[j.pc].offered /\ pcs'[j.pc].remote = NoPc
        <4>1. /\ j.pc \in PcIds /\ pcs[j.pc].st # "free" /\ j.pc # NoPc
              /\ ~Known(j.pc, j.own, j.peer)
              /\ Used(j.pc) => Of(j.pc, j.own, j.peer)
              /\ Live(j.pc) => ~pcs[j.pc].offered /\ pcs[j.pc].remote = NoPc
          BY <2>0, <3>0, <3>2 DEF JobOK, Slots
        <4>2. pcs'[j.pc].st # "free" /\ ~Known(j.pc, j.own, j.peer)'
          BY <2>0, <4>1 DEF Hung
        <4>3. Used(j.pc)' => Of(j.pc, j.own, j.peer)'
          BY <1>0, <4>1 DEF OldPcs, Of
        <4>4. Live(j.pc)' => Live(j.pc) /\ Used(j.pc)'
          BY <4>1 DEF Hung, Live, Used
        <4> QED  BY <1>0, <4>1, <4>2, <4>3, <4>4 DEF OldPcs
      <3>3. ASSUME j.stage = "built" PROVE Live(j.pc)' /\ peers'[j.own][j.peer] = NoPc
        <4>1. j.stage # "spawned" /\ j.pc # NoPc /\ j.pc \in PcIds /\ Live(j.pc)
              /\ pcs[j.pc].remote = NoPc
              /\ peers[j.own][j.peer] = NoPc /\ Of(j.pc, j.own, j.peer)
          BY <2>0, <3>0, <3>3 DEF JobOK, Slots, Live, Used
        <4>2. ASSUME NEW a \in Users, NEW b \in Users, peers[a][b] = j.pc PROVE FALSE
          <5>1. Of(j.pc, a, b)
            BY <4>1, <4>2 DEF LinkInv, PeerOK
          <5>2. a = j.own /\ b = j.peer
            BY <4>1, <5>1 DEF Of
          <5> QED  BY <4>1, <4>2, <5>2
        <4>3. Live(j.pc)'
          BY <4>1, <4>2 DEF Hung
        <4>4. peers'[j.own][j.peer] = NoPc
          <5>1. peers'[j.own][j.peer] \notin PcIds
            BY <1>0, <2>0, <4>1 DEF Hung
          <5> QED  BY <2>0, <5>1 DEF Typed, Shapes, Slots
        <4> QED  BY <4>3, <4>4
      <3>4. ASSUME j.stage = "registered", Live(j.pc)' PROVE peers'[j.own][j.peer] = j.pc
        <4>1. j.stage # "spawned" /\ j.pc # NoPc /\ j.pc \in PcIds
          BY <2>0, <3>0, <3>4 DEF JobOK, Slots
        <4>2. Live(j.pc) /\ peers[j.own][j.peer] = j.pc
          BY <3>0, <3>4, <4>1 DEF JobOK, Hung
        <4> QED  BY <2>0, <3>4, <4>1, <4>2 DEF Hung
      <3> QED  BY <3>1, <3>2, <3>3, <3>4 DEF JobOK
    <2> QED  BY <2>2, <2>3
  <1>4. ASSUME NEW n \in PcIds PROVE FoundOK(n)'
    <2> SUFFICES ASSUME Live(n)'
                 PROVE  peers'[pcs'[n].own][pcs'[n].peer] = n
                        \/ \E j \in jobs': j.stage = "built" /\ j.pc = n
      BY DEF FoundOK
    <2>1. Live(n) /\ Used(n) /\ pcs'[n].own = pcs[n].own /\ pcs'[n].peer = pcs[n].peer
          /\ pcs[n].own \in Users /\ pcs[n].peer \in Users /\ n # NoPc
      BY <1>0 DEF Hung, OldPcs, Live, Used, Typed, Owned
    <2>2. CASE \E j \in jobs: j.stage = "built" /\ j.pc = n
      BY <2>2
    <2>3. CASE peers[pcs[n].own][pcs[n].peer] = n
      BY <2>1, <2>3 DEF Hung
    <2> QED  BY <2>1, <2>2, <2>3 DEF LinkInv, FoundOK
  <1> QED  BY <1>1, <1>2, <1>3, <1>4 DEF LinkInv
-----------------------------------------------------------------------------
(* What is on its way, as the queues change. *)

LEMMA OffersKept ==
    ASSUME OfferInv, \A w \in Users: StayOK(w)' /\ (Joining(w)' => Joining(w)),
           \A a, b \in Users: Forward(a, b) /\ UniqueOK(a, b)'
    PROVE  OfferInv'
  <1>1. ASSUME NEW u \in Users, NEW v \in Users PROVE ChainOK(u, v)'
    BY ChainStep DEF OfferInv
  <1>2. ASSUME NEW u \in Users PROVE FreshOK(u)'
    <2> SUFFICES ASSUME Joining(u)', NEW v \in Users PROVE Apart(u, v)' /\ Apart(v, u)'
      BY DEF FreshOK
    <2>1. Apart(u, v) /\ Apart(v, u)
      BY DEF OfferInv, FreshOK
    <2> QED  BY <2>1, ApartStep
  <1> QED  BY <1>1, <1>2 DEF OfferInv

\* Nothing but what is under way already.
LEMMA OffersLess ==
    ASSUME OfferInv, FewerSignals, OldPcs, jobs' \subseteq jobs,
           \A a, b \in Users: Calls(a, b)' => Calls(a, b),
           \A w \in Users: StayOK(w)' /\ (Joining(w)' => Joining(w))
    PROVE  OfferInv' /\ \A n \in PcIds: \A a, b \in Users: Known(n, a, b)' => Known(n, a, b)
  <1>1. \A a, b \in Users: Forward(a, b) /\ UniqueOK(a, b)'
                           /\ \A n \in PcIds: Known(n, a, b)' => Known(n, a, b)
    BY FewerOffers
  <1> QED  BY <1>1, OffersKept

\* A client takes the next message.
LEMMA NextHandled ==
    ASSUME Shapes, OfferInv, NEW u \in Users, down[u] # <<>>, Handled(u),
           UNCHANGED <<chan, up, occ, announce>>
    PROVE  /\ FewerSignals
           /\ \A a, b \in Users: Calls(a, b)' => Calls(a, b)
           /\ \A w \in Users: StayOK(w)' /\ (Joining(w)' => Joining(w))
  <1>1. ASSUME NEW w \in Users, NEW S
        PROVE  /\ Lacks(down[w], S) => Lacks(down'[w], S)
               /\ One(down[w], S) => One(down'[w], S)
    <2>1. CASE w = u
      BY <2>1, DownTaken
    <2>2. CASE w # u
      <3>1. down'[w] = down[w]
        BY <2>2, DownTaken
      <3> QED  BY <3>1
    <2> QED  BY <2>1, <2>2
  <1>2. FewerSignals
    BY <1>1 DEF FewerSignals
  <1>3. \A a, b \in Users: Calls(a, b)' => Calls(a, b)
    BY <1>1 DEF Calls, Opens
  <1>4. ASSUME NEW w \in Users PROVE StayOK(w)' /\ (Joining(w)' => Joining(w))
    <2>1. StayOK(w)
      BY DEF OfferInv
    <2>2. /\ Lacks(down[w], States) => Lacks(down'[w], States)
          /\ One(down[w], States) => One(down'[w], States)
          /\ \A v \in Users: Lacks(down[v], {Gone(w)}) => Lacks(down'[v], {Gone(w)})
      BY <1>1
    <2> QED  BY <2>1, <2>2 DEF StayOK, Joining, Opens
  <1> QED  BY <1>2, <1>3, <1>4

\* A command or a signal is taken from the queue of u, or u's socket lost the first ones.
ShorterUp(u) ==
  /\ \A w \in Users \ {u}: up'[w] = up[w]
  /\ \A S: LeaveM \notin S => /\ Lacks(up[u], S) => Lacks(up'[u], S)
                              /\ One(up[u], S) => One(up'[u], S)

LEMMA ShorterWhenTaken ==
    ASSUME Shapes, NEW u \in Users, up[u] # <<>>, Took(u)
    PROVE  ShorterUp(u) /\ \A S: Lacks(up[u], S) => Lacks(up'[u], S)
  BY UpTaken DEF ShorterUp

LEMMA ShorterWhenLost ==
    ASSUME Shapes, NEW u \in Users, Disconnect(u)
    PROVE  ShorterUp(u)
  <1>1. /\ \A w \in Users \ {u}: up'[w] = up[w]
        /\ LeaveM \in UpMessages
    BY UpOfDisconnect
  <1>2. PICK t \in Seq(UpMessages):
          Behind(t, up[u]) /\ up'[u] = IF chan[u] THEN Append(t, LeaveM) ELSE t
    BY UpOfDisconnect
  <1>3. ASSUME NEW S, LeaveM \notin S
        PROVE  /\ Lacks(up[u], S) => Lacks(up'[u], S)
               /\ One(up[u], S) => One(up'[u], S)
    BY <1>1, <1>2, <1>3, Queues, CutAndMore, RestOfQueue
  <1> QED  BY <1>1, <1>3 DEF ShorterUp

LEMMA ShorterUpSignals ==
    ASSUME NEW u \in Users, ShorterUp(u), NEW w \in Users, NEW S, S \subseteq UpSignals
    PROVE  /\ Lacks(up[w], S) => Lacks(up'[w], S)
           /\ One(up[w], S) => One(up'[w], S)
  <1>1. LeaveM \notin S
    BY SignalKinds
  <1>2. CASE w = u
    BY <1>1, <1>2 DEF ShorterUp
  <1>3. CASE w # u
    <2>1. up'[w] = up[w]
      BY <1>3 DEF ShorterUp
    <2> QED  BY <2>1
  <1> QED  BY <1>2, <1>3

\* A user is unseated.
LEMMA OffersOfUnseat ==
    ASSUME Shapes, OfferInv, NEW u \in Users, NEW blind, Unseat(u, down, blind), ShorterUp(u),
           UNCHANGED announce,
           ~chan'[u], \A w \in Users \ {u}: chan'[w] = chan[w]
    PROVE  /\ FewerSignals
           /\ \A a, b \in Users: Calls(a, b)' => Calls(a, b)
           /\ \A w \in Users: StayOK(w)' /\ (Joining(w)' => Joining(w))
  <1>1. ASSUME NEW w \in Users, NEW S, Gone(u) \notin S
        PROVE  /\ Lacks(down[w], S) => Lacks(down'[w], S)
               /\ One(down[w], S) => One(down'[w], S)
    BY <1>1, DownOfUnseat
  <1>2. FewerSignals
    <2>1. ASSUME NEW w \in Users, NEW S, S \subseteq DownSignals
          PROVE  /\ Lacks(down[w], S) => Lacks(down'[w], S)
                 /\ One(down[w], S) => One(down'[w], S)
      <3>1. Gone(u) \notin S
        BY <2>1, SignalKinds
      <3> QED  BY <1>1, <3>1
    <2> QED  BY <2>1, ShorterUpSignals DEF FewerSignals
  <1>3. ASSUME NEW a \in Users, NEW b \in Users PROVE Calls(a, b)' => Calls(a, b)
    <2>1. Gone(u) \notin StatesWith(b)
      BY Kinds
    <2> QED  BY <1>1, <2>1 DEF Calls, Opens
  <1>4. ASSUME NEW w \in Users PROVE StayOK(w)' /\ (Joining(w)' => Joining(w))
    <2>1. StayOK(w)
      BY DEF OfferInv
    <2>2. /\ Lacks(down[w], States) => Lacks(down'[w], States)
          /\ One(down[w], States) => One(down'[w], States)
      BY <1>1, SignalKinds
    <2>3. w # u => \A v \in Users: Lacks(down[v], {Gone(w)}) => Lacks(down'[v], {Gone(w)})
      <3>1. w # u => Gone(u) \notin {Gone(w)}
        BY SignalKinds
      <3> QED  BY <1>1, <3>1
    <2>4. /\ Lacks(up[w], {JoinM}) => Lacks(up'[w], {JoinM})
          /\ One(up[w], {JoinM}) => One(up'[w], {JoinM})
          /\ w # u => up'[w] = up[w]
      <3>1. LeaveM \notin {JoinM}
        BY Kinds
      <3>2. CASE w = u
        BY <3>1, <3>2 DEF ShorterUp
      <3>3. CASE w # u
        <4>1. up'[w] = up[w]
          BY <3>3 DEF ShorterUp
        <4> QED  BY <3>3, <4>1
      <3> QED  BY <3>2, <3>3
    <2>5. occ' \subseteq occ /\ (w # u => (w \in occ' <=> w \in occ))
      BY DEF Unseat
    <2>6. CASE w = u
      BY <2>1, <2>2, <2>4, <2>5, <2>6 DEF StayOK, Joining, Opens
    <2>7. CASE w # u
      <3>1. chan'[w] = chan[w] /\ up'[w] = up[w]
        BY <2>4, <2>7
      <3> QED  BY <2>1, <2>2, <2>3, <2>5, <2>7, <3>1 DEF StayOK, Joining, Opens
    <2> QED  BY <2>6, <2>7
  <1> QED  BY <1>2, <1>3, <1>4
-----------------------------------------------------------------------------
(* Steps by which nobody offers anything new. *)

LEMMA CalmWithLess ==
    ASSUME Typed, Typed', OfferInv, LinkInv, Hung, FewerSignals, jobs' = jobs,
           \A a, b \in Users: Calls(a, b)' => Calls(a, b),
           \A w \in Users: StayOK(w)' /\ (Joining(w)' => Joining(w)),
           \A a \in Users: chan[a] => chan'[a] \/ \A b \in Users: peers'[a][b] = NoPc
    PROVE  OfferInv' /\ LinkInv'
  <1>1. OldPcs
    BY DEF Hung
  <1>2. OfferInv' /\ \A n \in PcIds: \A a, b \in Users: Known(n, a, b)' => Known(n, a, b)
    BY <1>1, OffersLess
  <1> QED  BY <1>2, LinksKept

LEMMA UnchangedQueues ==
    ASSUME OfferInv, UNCHANGED <<chan, up, down, occ, announce>>
    PROVE  /\ FewerSignals
           /\ \A a, b \in Users: Calls(a, b)' => Calls(a, b)
           /\ \A w \in Users: StayOK(w)' /\ (Joining(w)' => Joining(w))
  BY DEF FewerSignals, Calls, Opens, OfferInv, StayOK, Joining

LEMMA CalmOfPerPc ==
    ASSUME Typed, Typed', OfferInv, LinkInv, NEW n \in PcIds, PerPc(n)
    PROVE  OfferInv' /\ LinkInv'
  <1>1. UNCHANGED <<chan, up, down, occ, announce, jobs>>
    BY DEF PerPc, Closed, Stranded, Drop, client, server
  <1>2. Hung
    <2>1. CASE Closed(n)
      <3> DEFINE u == pcs[n].own
                 v == pcs[n].peer
      <3>1. /\ u \in Users /\ v \in Users /\ pcs[n].st = "closing"
            /\ OnePeerGone(u, v) /\ pcs'[n].st = "closed"
            /\ \A m \in PcIds \ {n}: Kept(m, {peers[u][v]})
        BY <2>1, ClosedEffect
      <3> HIDE DEF u, v
      <3>2. \A m \in PcIds: Kept(m, {peers[u][v]}) \/ (pcs[m].st = "closing" /\ pcs'[m].st = "closed")
        BY <3>1
      <3> QED  BY <3>1, <3>2, OneHungUp
    <2>2. CASE Stranded(n)
      <3> DEFINE u == pcs[n].own
                 v == pcs[n].peer
      <3>1. /\ u \in Users /\ v \in Users /\ Live(n)
            /\ OnePeerGone(u, v)
            /\ \A m \in PcIds: Kept(m, {n, peers[u][v]})
        BY <2>2, StrandedEffect
      <3>2. pcs[n].remote # NoPc /\ Of(n, u, v)
        BY <2>2, <3>1 DEF Stranded, Of, Live, Used
      <3> HIDE DEF u, v
      <3>3. \A m \in {n, peers[u][v]} \ {peers[u][v]}: Of(m, u, v) /\ pcs[m].remote # NoPc
        BY <3>2
      <3> QED  BY <3>1, <3>3, OneHungUp
    <2>3. CASE Drop(n)
      <3> DEFINE u == pcs[n].own
                 v == pcs[n].peer
      <3>1. /\ u \in Users /\ v \in Users
            /\ OnePeerGone(u, v)
            /\ \A m \in PcIds: Kept(m, {peers[u][v]})
        BY <2>3, DropEffect
      <3> HIDE DEF u, v
      <3> QED  BY <3>1, OneHungUp
    <2> QED  BY <2>1, <2>2, <2>3 DEF PerPc
  <1> QED  BY <1>1, <1>2, UnchangedQueues, CalmWithLess

\* A join that is refused, or a signal that is lost, is taken from the queue, and that is all.
LEMMA CalmOfTaken ==
    ASSUME Typed, Typed', OfferInv, LinkInv, NEW u \in Users, RefuseJoin(u) \/ RouteFails(u)
    PROVE  OfferInv' /\ LinkInv'
  <1>1. /\ up[u] # <<>> /\ Took(u) /\ Shapes
        /\ UNCHANGED <<chan, down, occ, announce, jobs, peers, pcs>>
    BY DEF RefuseJoin, RouteFails, Sent, client, links, server, Typed
  <1>2. ShorterUp(u) /\ \A S: Lacks(up[u], S) => Lacks(up'[u], S)
    BY <1>1, ShorterWhenTaken
  <1>3. FewerSignals
    BY <1>1, <1>2, ShorterUpSignals DEF FewerSignals
  <1>4. \A a, b \in Users: Calls(a, b)' => Calls(a, b)
    BY <1>1 DEF Calls, Opens
  <1>5. ASSUME NEW w \in Users PROVE StayOK(w)' /\ (Joining(w)' => Joining(w))
    <2>1. StayOK(w)
      BY DEF OfferInv
    <2>2. /\ \A S: Lacks(up[w], S) => Lacks(up'[w], S)
          /\ One(up[w], {JoinM}) => One(up'[w], {JoinM})
      <3>1. CASE w = u
        <4>1. LeaveM \notin {JoinM}
          BY Kinds
        <4> QED  BY <1>2, <3>1, <4>1 DEF ShorterUp
      <3>2. CASE w # u
        <4>1. up'[w] = up[w]
          BY <1>2, <3>2 DEF ShorterUp
        <4> QED  BY <4>1
      <3> QED  BY <3>1, <3>2
    <2> QED  BY <1>1, <2>1, <2>2 DEF StayOK, Joining, Opens
  <1>6. Hung
    BY <1>1, NothingHungUp
  <1> QED  BY <1>1, <1>3, <1>4, <1>5, <1>6, CalmWithLess

\* A task that fails to build ends, and its connection with it.
LEMMA CalmOfBuildFails ==
    ASSUME Typed, Typed', OfferInv, LinkInv, NEW j \in jobs, BuildFails(j)
    PROVE  OfferInv' /\ LinkInv'
  <1>1. /\ UNCHANGED <<chan, peers, up, down, occ, announce>> /\ j.stage = "spawned" /\ jobs' = jobs \ {j}
        /\ \A m \in PcIds: pcs'[m] = pcs[m] \/ (pcs[m].st = "free" /\ pcs'[m].st = "closed")
    BY BuildFailsEffect DEF BuildFails, client, server, Typed
  <1>2. \A m \in PcIds: /\ Used(m)' => Used(m) /\ pcs'[m] = pcs[m]
                        /\ Live(m)' <=> Live(m)
                        /\ pcs'[m].st = "free" => pcs[m].st = "free"
    BY <1>1 DEF Used, Live
  <1>3. OldPcs
    BY <1>2 DEF OldPcs
  <1>4. \A a, b \in Users: \A m \in PcIds: peers[a][b] = m => Live(m)'
    BY <1>2, SlotFacts DEF LinkInv, PeerOK
  <1>5. Hung
    BY <1>1, <1>2, <1>3, <1>4 DEF Hung
  <1>6. /\ FewerSignals
        /\ \A a, b \in Users: Calls(a, b)' => Calls(a, b)
        /\ \A w \in Users: StayOK(w)' /\ (Joining(w)' => Joining(w))
    BY <1>1, UnchangedQueues
  <1>7. jobs' \subseteq jobs
    BY <1>1
  <1>8. OfferInv' /\ \A n \in PcIds: \A a, b \in Users: Known(n, a, b)' => Known(n, a, b)
    BY <1>3, <1>6, <1>7, OffersLess
  <1>9. /\ \A i \in jobs': i \in jobs
        /\ \A i \in jobs: i.stage = "built" => i \in jobs'
    BY <1>1
  <1> QED  BY <1>1, <1>5, <1>8, <1>9, LinksKept

LEMMA CalmOfOnGone ==
    ASSUME Typed, Typed', OfferInv, LinkInv, NEW u \in Users, OnGone(u)
    PROVE  OfferInv' /\ LinkInv'
  <1>1. /\ down[u] # <<>> /\ Handled(u) /\ UNCHANGED <<chan, up, occ, announce, jobs>> /\ Shapes
    BY DEF OnGone, Event, server, Typed
  <1>2. Hung
    <2>1. CASE chan[u]
      <3>1. PICK x \in Users: OnePeerGone(u, x) /\ \A m \in PcIds: Kept(m, {peers[u][x]})
        BY <1>1, <2>1, OnGoneEffect
      <3> QED  BY <3>1, OneHungUp
    <2>2. CASE ~chan[u]
      BY <1>1, <2>2, OnGoneEffect, NothingHungUp
    <2> QED  BY <2>1, <2>2
  <1> QED  BY <1>1, <1>2, NextHandled, CalmWithLess

LEMMA CalmOfNews ==
    ASSUME Typed, Typed', OfferInv, LinkInv, NEW u \in Users,
           down[u] # <<>>, Handled(u), UNCHANGED <<chan, links, up, server>>
    PROVE  OfferInv' /\ LinkInv'
  <1>1. UNCHANGED <<chan, up, occ, announce, jobs, peers, pcs>> /\ Shapes
    BY DEF Typed, links, server
  <1> QED  BY <1>1, NothingHungUp, NextHandled, CalmWithLess

LEMMA CalmOfTakeLeave ==
    ASSUME Typed, Typed', OfferInv, LinkInv, NEW u \in Users, TakeLeave(u)
    PROVE  OfferInv' /\ LinkInv'
  <1>1. /\ up[u] # <<>> /\ Took(u) /\ Head(up[u]) = LeaveM /\ Shapes
        /\ \E blind \in SUBSET (Users \ {u}): Unseat(u, down, blind)
        /\ UNCHANGED <<chan, announce, jobs, peers, pcs>>
    <2>1. Head(up[u]) = LeaveM
      BY HeadTyped, UpFields DEF TakeLeave, Sent, LeaveM, Typed
    <2> QED  BY <2>1 DEF TakeLeave, Sent, client, links, Typed
  <1>2. ~chan[u]
    <2>1. ~Lacks(up[u], {LeaveM})
      BY <1>1, UpTaken
    <2> QED  BY <2>1 DEF OfferInv, StayOK
  <1>3. ShorterUp(u)
    BY <1>1, ShorterWhenTaken
  <1>4. Hung
    BY <1>1, NothingHungUp
  <1> QED  BY <1>1, <1>2, <1>3, <1>4, OffersOfUnseat, CalmWithLess

LEMMA CalmOfDisconnect ==
    ASSUME Typed, Typed', OfferInv, LinkInv, NEW u \in Users, Disconnect(u)
    PROVE  OfferInv' /\ LinkInv'
  <1>1. /\ \E blind \in SUBSET (Users \ {u}): Unseat(u, down, blind)
        /\ UNCHANGED <<announce, jobs>> /\ Shapes
        /\ ~chan'[u] /\ \A w \in Users \ {u}: chan'[w] = chan[w]
    BY DEF Disconnect, Typed, Shapes
  <1>2. ShorterUp(u)
    BY <1>1, ShorterWhenLost
  <1>3. Hung /\ (chan[u] => \A b \in Users: peers'[u][b] = NoPc)
    <2>1. CASE chan[u]
      <3>1. AllPeersGone(u)
        BY <1>1, <2>1, HangupAllFacts DEF Disconnect
      <3> QED  BY <3>1, AllHungUp DEF AllPeersGone
    <2>2. CASE ~chan[u]
      <3>1. UNCHANGED <<peers, pcs>>
        BY <2>2 DEF Disconnect
      <3> QED  BY <2>2, <3>1, NothingHungUp
    <2> QED  BY <2>1, <2>2
  <1>4. \A a \in Users: chan[a] => chan'[a] \/ \A b \in Users: peers'[a][b] = NoPc
    BY <1>1, <1>3
  <1> QED  BY <1>1, <1>2, <1>3, <1>4, OffersOfUnseat, CalmWithLess

LEMMA CalmOfLeave ==
    ASSUME Typed, Typed', OfferInv, LinkInv, NEW u \in Users, Leave(u)
    PROVE  OfferInv' /\ LinkInv'
  <1>1. /\ UNCHANGED <<down, occ, announce, jobs>> /\ Shapes
        /\ ~chan'[u] /\ \A w \in Users \ {u}: chan'[w] = chan[w]
    BY DEF Leave, Typed, Shapes, server
  <1>2. AllPeersGone(u)
    BY <1>1, LeaveEffect
  <1>3. Hung /\ \A b \in Users: peers'[u][b] = NoPc
    BY <1>2, AllHungUp DEF AllPeersGone
  <1>4. LeaveM \in UpMessages /\ up' = [up EXCEPT ![u] = Append(@, LeaveM)]
    BY MessageTypes DEF Leave, LeaveM
  <1>5. ASSUME NEW w \in Users, NEW S, LeaveM \notin S
        PROVE  /\ Lacks(up[w], S) <=> Lacks(up'[w], S)
               /\ One(up[w], S) => One(up'[w], S)
    <2>1. CASE w = u
      BY <1>1, <1>4, <1>5, <2>1, UpGrows
    <2>2. CASE w # u
      <3>1. up'[w] = up[w]
        BY <1>1, <1>4, <2>2, UpGrows
      <3> QED  BY <3>1
    <2> QED  BY <2>1, <2>2
  <1>6. FewerSignals
    <2>1. ASSUME NEW w \in Users, NEW S, S \subseteq UpSignals
          PROVE  /\ Lacks(up[w], S) => Lacks(up'[w], S)
                 /\ One(up[w], S) => One(up'[w], S)
      BY <1>5, <2>1, SignalKinds
    <2> QED  BY <1>1, <2>1 DEF FewerSignals
  <1>7. \A a, b \in Users: Calls(a, b)' => Calls(a, b)
    BY <1>1 DEF Calls, Opens
  <1>8. ASSUME NEW w \in Users PROVE StayOK(w)' /\ (Joining(w)' => Joining(w))
    <2>1. StayOK(w)
      BY DEF OfferInv
    <2>2. /\ Lacks(up[w], {JoinM}) <=> Lacks(up'[w], {JoinM})
          /\ One(up[w], {JoinM}) => One(up'[w], {JoinM})
      <3>1. LeaveM \notin {JoinM}
        BY Kinds
      <3> QED  BY <1>5, <3>1
    <2>3. CASE w = u
      BY <1>1, <2>1, <2>2, <2>3 DEF StayOK, Joining, Opens
    <2>4. CASE w # u
      <3>1. chan'[w] = chan[w] /\ up'[w] = up[w]
        BY <1>1, <1>4, <2>4, UpGrows
      <3> QED  BY <1>1, <2>1, <3>1 DEF StayOK, Joining, Opens
    <2> QED  BY <2>3, <2>4
  <1> QED  BY <1>1, <1>3, <1>6, <1>7, <1>8, CalmWithLess

LEMMA CalmOfAnnounceJoin ==
    ASSUME Typed, Typed', ListInv, OfferInv, LinkInv, NEW u \in Users, AnnounceJoin(u)
    PROVE  OfferInv' /\ LinkInv'
  <1>1. /\ UNCHANGED <<chan, up, occ, jobs, peers, pcs>> /\ Shapes /\ Opens(u) /\ ~Opens(u)'
        /\ \A w \in Users \ {u}: announce'[w] = announce[w]
    BY DEF AnnounceJoin, Opens, NoJoin, Typed, Shapes, client, links
  <1>2. u \in occ
    BY <1>1 DEF ListInv, SeatOK
  <1>3. /\ StateOf(u) \in States
        /\ \A S: Lacks(down'[u], S) <=> Lacks(down[u], S) /\ StateOf(u) \notin S
        /\ \A S: One(down[u], S) /\ (StateOf(u) \in S => Lacks(down[u], S)) => One(down'[u], S)
    BY <1>1, DownOfAnnounce
  <1>4. \A w \in Users \ {u}: \E told \in BOOLEAN:
          /\ \A S: Lacks(down'[w], S) <=> Lacks(down[w], S) /\ ~(told /\ Came(u) \in S)
          /\ \A S: One(down[w], S) /\ (told /\ Came(u) \in S => Lacks(down[w], S)) => One(down'[w], S)
    BY <1>1, DownOfAnnounce
  <1>5. ASSUME NEW w \in Users, NEW S, Came(u) \notin S, StateOf(u) \notin S
        PROVE  /\ Lacks(down[w], S) => Lacks(down'[w], S)
               /\ One(down[w], S) => One(down'[w], S)
    BY <1>3, <1>4, <1>5
  <1>6. FewerSignals
    <2>1. ASSUME NEW w \in Users, NEW S, S \subseteq DownSignals
          PROVE  /\ Lacks(down[w], S) => Lacks(down'[w], S)
                 /\ One(down[w], S) => One(down'[w], S)
      <3>1. Came(u) \notin S /\ StateOf(u) \notin S
        BY <1>3, <2>1, SignalKinds
      <3> QED  BY <1>5, <3>1
    <2> QED  BY <1>1, <2>1 DEF FewerSignals
  <1>7. ASSUME NEW a \in Users, NEW b \in Users PROVE Calls(a, b)' => Calls(a, b)
    <2>1. CASE a = u
      <3>1. StateOf(u) \in StatesWith(b) <=> b \in announce[u].users
        BY <1>3 DEF StatesWith, StateOf
      <3> QED  BY <1>1, <1>3, <2>1, <3>1 DEF Calls, Opens
    <2>2. CASE a # u
      <3>1. Came(u) \notin StatesWith(b)
        BY Kinds
      <3> QED  BY <1>1, <1>4, <2>2, <3>1 DEF Calls, Opens
    <2> QED  BY <2>1, <2>2
  <1>8. ASSUME NEW w \in Users PROVE StayOK(w)' /\ (Joining(w)' => Joining(w))
    <2>1. StayOK(w)
      BY DEF OfferInv
    <2>2. \A v \in Users: Lacks(down[v], {Gone(w)}) => Lacks(down'[v], {Gone(w)})
      <3>1. Came(u) \notin {Gone(w)} /\ StateOf(u) \notin {Gone(w)}
        BY <1>3, SignalKinds
      <3> QED  BY <1>5, <3>1
    <2>3. CASE w = u
      <3>1. ~Joining(u) /\ Lacks(down[u], States)
        BY <1>1, <1>2, <2>1, <2>3 DEF StayOK
      <3>2. One(down'[u], States)
        BY <1>3, <2>1, <2>3, <3>1 DEF StayOK
      <3> QED  BY <1>1, <2>1, <2>2, <2>3, <3>1, <3>2 DEF StayOK, Joining, Opens
    <2>4. CASE w # u
      <3>1. Came(u) \notin States
        BY SignalKinds
      <3>2. /\ Lacks(down[w], States) => Lacks(down'[w], States)
            /\ One(down[w], States) => One(down'[w], States)
        BY <1>4, <2>4, <3>1
      <3> QED  BY <1>1, <2>1, <2>2, <2>4, <3>2 DEF StayOK, Joining, Opens
    <2> QED  BY <2>3, <2>4
  <1>9. Hung
    BY <1>1, NothingHungUp
  <1> QED  BY <1>1, <1>6, <1>7, <1>8, <1>9, CalmWithLess
-----------------------------------------------------------------------------
(* A user joins, or a signal is passed on. *)

\* Nothing is left of an earlier stay.
LEMMA NothingLeft ==
    ASSUME Typed, NEW u \in Users, ~Residue(u)
    PROVE  /\ u \notin occ /\ ~Opens(u) /\ up[u] = <<>> /\ ~chan[u]
           /\ Lacks(down[u], States)
           /\ \A v \in Users: /\ Lacks(down[v], {Gone(u)})
                              /\ Apart(u, v) /\ Apart(v, u)
                              /\ \A n \in PcIds: ~Known(n, u, v) /\ ~Known(n, v, u)
  <1>1. u \notin occ /\ ~Opens(u) /\ up[u] = <<>>
    BY DEF Residue, Opens
  <1>2. ~chan[u]
    BY DEF Residue
  <1>3. \A i \in DOMAIN down[u]: down[u][i].kind \notin {"state", "offer", "answer"}
    BY DEF Residue
  <1>4. \A n \in PcIds: Used(n) => u # pcs[n].own /\ u # pcs[n].peer
    BY DEF Residue, Used
  <1>5. \A j \in jobs: u # j.own /\ u # j.peer
    BY DEF Residue
  <1>6. \A m \in States: m.kind = "state"
    BY DEF States
  <1>7. \A v, n: /\ FromDown("offer", v, n).kind = "offer" /\ FromDown("answer", v, n).kind = "answer"
                 /\ FromDown("offer", v, n).from = v /\ FromDown("answer", v, n).from = v
                 /\ ToUp("offer", v, n).kind = "offer" /\ ToUp("answer", v, n).kind = "answer"
                 /\ ToUp("offer", v, n).to = v /\ ToUp("answer", v, n).to = v
    BY DEF FromDown, ToUp
  <1>8. Lacks(down[u], States)
    BY <1>3, <1>6 DEF Lacks
  <1>9. ASSUME NEW v \in Users
        PROVE  /\ Lacks(down[v], {Gone(u)})
               /\ Apart(u, v) /\ Apart(v, u)
               /\ \A n \in PcIds: ~Known(n, u, v) /\ ~Known(n, v, u)
    <2>1. \A i \in DOMAIN down[v]: ~About(down[v][i], u)
      BY DEF Residue
    <2>2. \A i \in DOMAIN up[v]: ~(up[v][i].kind \in {"offer", "answer"} /\ up[v][i].to = u)
      BY DEF Residue
    <2>3. u \notin announce[v].users
      BY DEF Residue
    <2>4. Lacks(down[v], {Gone(u)})
      <3>1. Gone(u).kind = "gone" /\ Gone(u).user = u
        BY DEF Gone
      <3> QED  BY <2>1, <3>1 DEF Lacks, About
    <2>5. Lacks(down[v], StatesWith(u)) /\ Lacks(down[v], OffersOf(u)) /\ Lacks(down[v], AnswersOf(u))
          /\ \A n \in PcIds: Lacks(down[v], NamingOf(u, n))
      <3>1. Lacks(down[v], StatesWith(u))
        BY <1>6, <2>1 DEF Lacks, About, StatesWith
      <3>2. Lacks(down[v], OffersOf(u)) /\ Lacks(down[v], AnswersOf(u))
        BY <1>7, <2>1 DEF Lacks, About, OffersOf, AnswersOf
      <3>3. \A n \in PcIds: Lacks(down[v], NamingOf(u, n))
        BY <1>7, <2>1 DEF Lacks, About, NamingOf
      <3> QED  BY <3>1, <3>2, <3>3
    <2>6. Lacks(down[u], StatesWith(v)) /\ Lacks(down[u], OffersOf(v)) /\ Lacks(down[u], AnswersOf(v))
          /\ \A n \in PcIds: Lacks(down[u], NamingOf(v, n))
      BY <1>3, <1>6, <1>7 DEF Lacks, StatesWith, OffersOf, AnswersOf, NamingOf
    <2>7. Lacks(up[v], OffersTo(u)) /\ Lacks(up[v], AnswersTo(u))
          /\ \A n \in PcIds: Lacks(up[v], NamingTo(u, n))
      BY <1>7, <2>2 DEF Lacks, OffersTo, AnswersTo, NamingTo
    <2>8. \A S: Lacks(up[u], S)
      BY <1>1, EmptyQueue
    <2>9. ~Has(u, v) /\ ~Has(v, u) /\ ~Offered(u, v) /\ ~Offered(v, u)
      BY <1>4 DEF Has, Offered, Of
    <2>10. ~Starts(u, v) /\ ~Starts(v, u) /\ ~Taken(u, v) /\ ~Taken(v, u)
      BY <1>5 DEF Starts, Taken, StartJob, AnswerJob
    <2>11. ~Calls(u, v) /\ ~Calls(v, u)
      BY <1>1, <2>3, <2>5, <2>6 DEF Calls
    <2>12. Apart(u, v) /\ Apart(v, u)
      BY <2>5, <2>6, <2>7, <2>8, <2>9, <2>10, <2>11 DEF Apart, Offering, Sends, Reaches, Replies
    <2>13. \A n \in PcIds: ~Known(n, u, v) /\ ~Known(n, v, u)
      BY <1>5, <2>5, <2>6, <2>7, <2>8, <2>9 DEF Known, Has
    <2> QED  BY <2>4, <2>12, <2>13
  <1> QED  BY <1>1, <1>2, <1>8, <1>9

LEMMA CalmOfJoin ==
    ASSUME Typed, Typed', ListInv, OfferInv, LinkInv, NEW u \in Users, Join(u), ~hasty'
    PROVE  OfferInv' /\ LinkInv'
  <1>0. ~Residue(u) /\ Shapes
    BY DEF Join, Typed
  <1>1. ~chan[u] /\ u \notin occ /\ ~Opens(u) /\ up[u] = <<>> /\ Lacks(down[u], States)
        /\ \A v \in Users: Lacks(down[v], {Gone(u)}) /\ Apart(u, v) /\ Apart(v, u)
    BY <1>0, NothingLeft
  <1>2. /\ UNCHANGED <<down, occ, announce, jobs, peers, pcs>>
        /\ chan'[u] /\ \A w \in Users \ {u}: chan'[w] = chan[w]
    BY <1>0, <1>1 DEF Join, server, Shapes
  <1>3. /\ \A w \in Users \ {u}: up'[w] = up[w]
        /\ up'[u] = Append(up[u], JoinM) /\ up[u] \in Seq(UpMessages) /\ JoinM \in UpMessages
    BY <1>0, <1>1, UpOfJoin
  <1>4. ASSUME NEW S
        PROVE  /\ Lacks(up'[u], S) <=> Lacks(up[u], S) /\ JoinM \notin S
               /\ One(up[u], S) /\ (JoinM \in S => Lacks(up[u], S)) => One(up'[u], S)
    BY <1>3, MoreMessages
  <1>5. FewerSignals
    <2>1. ASSUME NEW w \in Users, NEW S, S \subseteq UpSignals
          PROVE  /\ Lacks(up[w], S) => Lacks(up'[w], S)
                 /\ One(up[w], S) => One(up'[w], S)
      <3>1. JoinM \notin S
        BY <2>1, SignalKinds
      <3>2. CASE w = u
        BY <1>4, <3>1, <3>2
      <3>3. CASE w # u
        <4>1. up'[w] = up[w]
          BY <1>3, <3>3
        <4> QED  BY <4>1
      <3> QED  BY <3>2, <3>3
    <2> QED  BY <1>2, <2>1 DEF FewerSignals
  <1>6. Hung /\ OldPcs
    BY <1>2, NothingHungUp DEF Hung
  <1>7. \A a, b \in Users: Calls(a, b)' => Calls(a, b)
    BY <1>2 DEF Calls, Opens
  <1>8. \A a, b \in Users: Forward(a, b) /\ UniqueOK(a, b)'
                           /\ \A n \in PcIds: Known(n, a, b)' => Known(n, a, b)
    BY <1>2, <1>5, <1>6, <1>7, FewerOffers
  <1>9. ASSUME NEW w \in Users PROVE StayOK(w)'
    <2>1. StayOK(w)
      BY DEF OfferInv
    <2>2. CASE w = u
      <3>1. One(up'[u], {JoinM}) /\ Lacks(up'[u], {LeaveM}) /\ ~Lacks(up'[u], {JoinM})
        <4>1. JoinM \notin {LeaveM} /\ JoinM \in {JoinM} /\ Lacks(up[u], {JoinM})
              /\ Lacks(up[u], {LeaveM}) /\ One(up[u], {JoinM})
          BY <1>1, EmptyQueue, Kinds
        <4> QED  BY <1>4, <4>1
      <3> QED  BY <1>1, <1>2, <2>1, <2>2, <3>1 DEF StayOK, Joining, Opens
    <2>3. CASE w # u
      <3>1. chan'[w] = chan[w] /\ up'[w] = up[w]
        BY <1>2, <1>3, <2>3
      <3> QED  BY <1>2, <2>1, <3>1 DEF StayOK, Joining, Opens
    <2> QED  BY <2>2, <2>3
  <1>10. ASSUME NEW w \in Users PROVE FreshOK(w)'
    <2> SUFFICES ASSUME Joining(w)', NEW v \in Users PROVE Apart(w, v)' /\ Apart(v, w)'
      BY DEF FreshOK
    <2>1. Apart(w, v) /\ Apart(v, w)
      <3>1. CASE w = u
        BY <1>1, <3>1
      <3>2. CASE w # u
        <4>1. up'[w] = up[w]
          BY <1>3, <3>2
        <4>2. Joining(w)
          BY <4>1 DEF Joining
        <4> QED  BY <4>2 DEF OfferInv, FreshOK
      <3> QED  BY <3>1, <3>2
    <2> QED  BY <1>8, <2>1, ApartStep
  <1>11. OfferInv'
    <2>1. ASSUME NEW a \in Users, NEW b \in Users PROVE ChainOK(a, b)'
      BY <1>8, ChainStep DEF OfferInv
    <2> QED  BY <1>8, <1>9, <1>10, <2>1 DEF OfferInv
  <1>12. \A a \in Users: chan[a] => chan'[a]
    BY <1>2
  <1> QED  BY <1>2, <1>6, <1>8, <1>11, <1>12, LinksKept

LEMMA CalmOfRecordJoin ==
    ASSUME Typed, Typed', ListInv, OfferInv, LinkInv, NEW u \in Users, RecordJoin(u)
    PROVE  OfferInv' /\ LinkInv'
  <1>1. /\ up[u] # <<>> /\ Took(u) /\ Head(up[u]) = JoinM /\ ~Opens(u) /\ Shapes
        /\ UNCHANGED <<chan, down, jobs, peers, pcs>> /\ occ' = occ \union {u}
        /\ Opens(u)' /\ announce'[u].users = occ \ {u}
        /\ \A w \in Users \ {u}: announce'[w] = announce[w]
    <2>1. Head(up[u]) = JoinM
      BY HeadTyped, UpFields DEF RecordJoin, Sent, JoinM, Typed
    <2> QED  BY <2>1 DEF RecordJoin, Sent, Opens, Typed, Shapes, client, links
  <1>2. /\ Joining(u) /\ ~Joining(u)'
    <2>1. JoinM \in {JoinM} /\ One(up[u], {JoinM})
      BY DEF OfferInv, StayOK
    <2> QED  BY <1>1, <2>1, UpTaken DEF Joining
  <1>3. /\ u \notin occ /\ Lacks(down[u], States)
        /\ \A v \in Users: Apart(u, v) /\ Apart(v, u)
    BY <1>2 DEF OfferInv, StayOK, FreshOK
  <1>4. ShorterUp(u) /\ \A S: Lacks(up[u], S) => Lacks(up'[u], S)
    BY <1>1, ShorterWhenTaken
  <1>5. FewerSignals
    BY <1>1, <1>4, ShorterUpSignals DEF FewerSignals
  <1>6. Hung /\ OldPcs
    BY <1>1, NothingHungUp DEF Hung
  <1>7. ASSUME NEW a \in Users, NEW b \in Users
        PROVE  /\ (Calls(a, b)' => Calls(a, b)) => Forward(a, b)
               /\ Starts(a, b)' => Starts(a, b)
               /\ Sends(a, b)' => Sends(a, b)
               /\ Reaches(a, b)' => Reaches(a, b)
               /\ Taken(a, b)' => Taken(a, b)
               /\ Offered(a, b)' => Offered(a, b)
               /\ Has(a, b)' => Has(a, b)
               /\ Replies(a, b)' => Replies(a, b)
               /\ UniqueOK(a, b)'
               /\ \A n \in PcIds: Known(n, a, b)' => Known(n, a, b)
    BY <1>1, <1>5, <1>6, FewerOffers
  <1>8. /\ \A a, b \in Users: a # u => (Calls(a, b)' => Calls(a, b))
        /\ \A b \in Users: Calls(u, b)' => b # u /\ b \in occ
    <2>1. ASSUME NEW b \in Users PROVE Lacks(down[u], StatesWith(b))
      BY <1>3, FewerKinds DEF StatesWith
    <2> QED  BY <1>1, <2>1 DEF Calls, Opens
  <1>9. ASSUME NEW a \in Users, NEW b \in Users PROVE ChainOK(a, b)'
    <2>1. CASE a # u /\ b # u
      <3>1. Forward(a, b) /\ Forward(b, a)
        BY <1>7, <1>8, <2>1
      <3> QED  BY <3>1, ChainStep DEF OfferInv
    <2>2. CASE a = u \/ b = u
      <3>1. Apart(a, b) /\ Apart(b, a)
        BY <1>3, <2>2
      <3>2. /\ ~Starts(a, b)' /\ ~Sends(a, b)' /\ ~Reaches(a, b)' /\ ~Taken(a, b)' /\ ~Offered(a, b)'
            /\ ~Starts(b, a)' /\ ~Sends(b, a)' /\ ~Reaches(b, a)' /\ ~Taken(b, a)' /\ ~Offered(b, a)'
            /\ ~Has(a, b)' /\ ~Has(b, a)'
        BY <1>7, <3>1 DEF Apart, Offering
      <3>3. ~(Calls(a, b)' /\ Calls(b, a)')
        BY <1>8, <3>1 DEF Apart, Offering
      <3> QED  BY <3>2, <3>3 DEF ChainOK, Offering
    <2> QED  BY <2>1, <2>2
  <1>10. ASSUME NEW w \in Users PROVE Joining(w)' => Joining(w) /\ w # u
    <2>1. w # u => up'[w] = up[w]
      BY <1>4 DEF ShorterUp
    <2> QED  BY <1>2, <2>1 DEF Joining
  <1>11. ASSUME NEW w \in Users PROVE FreshOK(w)'
    <2> SUFFICES ASSUME Joining(w)', NEW v \in Users PROVE Apart(w, v)' /\ Apart(v, w)'
      BY DEF FreshOK
    <2>1. w # u /\ w \notin occ /\ Apart(w, v) /\ Apart(v, w)
      BY <1>10 DEF OfferInv, StayOK, FreshOK
    <2>2. ~Calls(w, v)' /\ ~Calls(v, w)'
      BY <1>8, <2>1 DEF Apart, Offering
    <2> QED  BY <1>7, <2>1, <2>2 DEF Apart, Offering
  <1>12. ASSUME NEW w \in Users PROVE StayOK(w)'
    <2>1. StayOK(w)
      BY DEF OfferInv
    <2>2. CASE w = u
      <3>1. One(up'[u], {JoinM}) /\ (Lacks(up[u], {LeaveM}) => Lacks(up'[u], {LeaveM}))
        BY <1>1, <2>1, <2>2, UpTaken DEF StayOK
      <3> QED  BY <1>1, <1>2, <1>3, <2>1, <2>2, <3>1 DEF StayOK, Joining, Opens
    <2>3. CASE w # u
      <3>1. up'[w] = up[w] /\ announce'[w] = announce[w]
        BY <1>1, <1>4, <2>3 DEF ShorterUp
      <3> QED  BY <1>1, <2>1, <2>3, <3>1 DEF StayOK, Joining, Opens
    <2> QED  BY <2>2, <2>3
  <1>13. OfferInv'
    BY <1>7, <1>9, <1>11, <1>12 DEF OfferInv
  <1> QED  BY <1>1, <1>6, <1>7, <1>13, LinksKept
-----------------------------------------------------------------------------
(* Signals and lists move on. *)

LEMMA CalmOfRoute ==
    ASSUME Typed, Typed', OfferInv, LinkInv, NEW u \in Users, Route(u)
    PROVE  OfferInv' /\ LinkInv'
  <1> DEFINE k == Head(up[u]).kind
             x == Head(up[u]).to
             n == Head(up[u]).pc
             here(w) == Passes(u) /\ w = x
  <1>1. /\ up[u] # <<>> /\ Took(u) /\ Shapes
        /\ UNCHANGED <<chan, occ, announce, jobs, peers, pcs>>
    BY DEF Route, Sent, Typed, client, links, server
  <1>2. /\ x \in Users /\ n \in PcIds /\ k \in {"offer", "answer"}
        /\ Head(up[u]) = ToUp(k, x, n) /\ Passed(u) = FromDown(k, u, n)
    BY <1>1, DownOfRoute DEF Passed
  <1>3. \A w \in Users:
          /\ \A S: Lacks(down'[w], S) <=> Lacks(down[w], S) /\ ~(here(w) /\ Passed(u) \in S)
          /\ \A S: One(down[w], S) /\ (here(w) /\ Passed(u) \in S => Lacks(down[w], S))
                     => One(down'[w], S)
    BY <1>1, DownOfRoute
  <1> HIDE DEF here, k, x, n
  <1>4. \A w: here(w) => w = x
    BY DEF here
  <1>5. /\ \A S: ToUp(k, x, n) \in S => ~Lacks(up[u], S)
        /\ \A S: ToUp(k, x, n) \in S /\ One(up[u], S) => Lacks(up'[u], S)
    BY <1>1, <1>2, UpTaken
  <1>6. ShorterUp(u) /\ \A S: Lacks(up[u], S) => Lacks(up'[u], S)
    BY <1>1, ShorterWhenTaken
  <1>7. \A a \in Users: \A S: S \subseteq UpSignals =>
          /\ Lacks(up[a], S) => Lacks(up'[a], S)
          /\ One(up[a], S) => One(up'[a], S)
    BY <1>6, ShorterUpSignals
  <1>8. OldPcs /\ Hung
    BY <1>1, NothingHungUp DEF Hung
  <1>9. ASSUME NEW a \in Users, NEW b \in Users PROVE Forward(a, b) /\ UniqueOK(a, b)'
    <2>0. UniqueOK(a, b) /\ ChainOK(a, b)
      BY DEF OfferInv
    <2>1. /\ Sends(a, b)' => Sends(a, b)
          /\ One(up'[a], OffersTo(b))
      BY <1>7, <2>0, SignalKinds DEF Sends, UniqueOK
    <2>2. /\ Passed(u) \in OffersOf(a) <=> k = "offer" /\ u = a
          /\ ToUp(k, x, n) \in OffersTo(b) <=> k = "offer" /\ x = b
          /\ Passed(u) \in AnswersOf(b) <=> k = "answer" /\ u = b
          /\ ToUp(k, x, n) \in AnswersTo(a) <=> k = "answer" /\ x = a
      BY <1>2, SignalMatch
    <2>3. here(b) /\ Passed(u) \in OffersOf(a) => Sends(a, b) /\ ~Sends(a, b)'
      BY <1>4, <1>5, <2>0, <2>2 DEF Sends, UniqueOK
    <2>4. Reaches(a, b)' => Reaches(a, b) \/ (Sends(a, b) /\ ~Sends(a, b)')
      BY <1>3, <2>3 DEF Reaches
    <2>5. One(down'[b], OffersOf(a))
      <3>1. here(b) /\ Passed(u) \in OffersOf(a) => Lacks(down[b], OffersOf(a))
        BY <2>0, <2>3 DEF ChainOK, Reaches
      <3> QED  BY <1>3, <2>0, <3>1 DEF UniqueOK
    <2>6. Replies(a, b)' => Replies(a, b)
      <3>1. Lacks(up[b], AnswersTo(a)) => Lacks(up'[b], AnswersTo(a))
        BY <1>7, SignalKinds
      <3>2. here(a) /\ Passed(u) \in AnswersOf(b) => ~Lacks(up[b], AnswersTo(a))
        BY <1>4, <1>5, <2>2
      <3> QED  BY <1>3, <3>1, <3>2 DEF Replies
    <2>7. Calls(a, b)' => Calls(a, b)
      <3>1. Passed(u) \notin StatesWith(b)
        BY <1>2, Kinds
      <3> QED  BY <1>1, <1>3, <3>1 DEF Calls, Opens
    <2>8. /\ Starts(a, b)' => Starts(a, b)
          /\ Taken(a, b)' => Taken(a, b)
      BY <1>1, FewerJobs
    <2>9. Has(a, b)' => Has(a, b)
      BY <1>8, FewerPcs
    <2>10. Offered(a, b)' => Offered(a, b)
      BY <1>8, FewerPcs
    <2>11. UniqueOK(a, b)'
      <3>1. \A m, l \in PcIds: Of(m, a, b)' /\ Of(l, a, b)' => m = l
        BY <1>8, <2>0, FewerPcs DEF UniqueOK
      <3> QED  BY <1>1, <2>0, <2>1, <2>5, <3>1 DEF UniqueOK, StartJob, AnswerJob
    <2>12. Forward(a, b)
      BY <2>1, <2>4, <2>6, <2>7, <2>8, <2>9, <2>10 DEF Forward
    <2> QED  BY <2>11, <2>12
  <1>10. ASSUME NEW w \in Users PROVE StayOK(w)' /\ (Joining(w)' => Joining(w))
    <2>1. StayOK(w)
      BY DEF OfferInv
    <2>2. \A v \in Users: Passed(u) \notin States /\ Passed(u) \notin {Gone(v)}
      BY <1>2, SignalMatch
    <2>3. /\ Lacks(down[w], States) => Lacks(down'[w], States)
          /\ One(down[w], States) => One(down'[w], States)
          /\ \A v \in Users: Lacks(down[v], {Gone(w)}) => Lacks(down'[v], {Gone(w)})
      BY <1>3, <2>2
    <2>4. /\ Lacks(up[w], {JoinM}) => Lacks(up'[w], {JoinM})
          /\ One(up[w], {JoinM}) => One(up'[w], {JoinM})
          /\ Lacks(up[w], {LeaveM}) => Lacks(up'[w], {LeaveM})
      <3>1. LeaveM \notin {JoinM}
        BY Kinds
      <3>2. CASE w = u
        BY <1>6, <3>1, <3>2 DEF ShorterUp
      <3>3. CASE w # u
        <4>1. up'[w] = up[w]
          BY <1>6, <3>3 DEF ShorterUp
        <4> QED  BY <4>1
      <3> QED  BY <3>2, <3>3
    <2>5. Joining(w)' <=> Joining(w)
      <3>1. Lacks(up'[w], {JoinM}) => Lacks(up[w], {JoinM})
        <4>1. CASE w = u
          <5>1. ToUp(k, x, n) \notin {JoinM} /\ Head(up[u]) = ToUp(k, x, n)
            BY <1>2, SignalMatch
          <5> QED  BY <1>1, <4>1, <5>1, UpTaken
        <4>2. CASE w # u
          <5>1. up'[w] = up[w]
            BY <1>6, <4>2 DEF ShorterUp
          <5> QED  BY <5>1
        <4> QED  BY <4>1, <4>2
      <3> QED  BY <2>4, <3>1 DEF Joining
    <2> QED  BY <1>1, <2>1, <2>3, <2>4, <2>5 DEF StayOK, Opens
  <1>11. ASSUME NEW m \in PcIds, NEW a \in Users, NEW b \in Users, Known(m, a, b)' PROVE Known(m, a, b)
    <2>1. /\ Passed(u) \in NamingOf(a, m) <=> u = a /\ n = m
          /\ ToUp(k, x, n) \in NamingTo(b, m) <=> x = b /\ n = m
      BY <1>2, SignalMatch
    <2>2. here(b) /\ Passed(u) \in NamingOf(a, m) => ~Lacks(up[a], NamingTo(b, m))
      BY <1>4, <1>5, <2>1
    <2>3. CASE ~Lacks(up'[a], NamingTo(b, m))
      BY <1>7, <2>3, SignalKinds DEF Known
    <2>4. CASE ~Lacks(down'[b], NamingOf(a, m))
      BY <1>3, <2>2, <2>4 DEF Known
    <2>5. CASE \E j \in jobs': j.own = b /\ j.peer = a /\ j.offer = m
      BY <1>1, <2>5 DEF Known
    <2>6. CASE \E l \in PcIds: Of(l, b, a)' /\ pcs'[l].remote = m
      BY <1>8, <2>6, FewerPcs DEF Known
    <2> QED  BY <1>11, <2>3, <2>4, <2>5, <2>6 DEF Known
  <1>12. OfferInv'
    BY <1>9, <1>10, OffersKept
  <1> QED  BY <1>1, <1>8, <1>11, <1>12, LinksKept

\* The tasks of a client are joined by new ones.
LEMMA NewJobFields ==
    ASSUME NEW u, NEW v, NEW n
    PROVE  LET j == NewJob(u, v, n) IN
             j.own = u /\ j.peer = v /\ j.stage = "spawned" /\ j.pc = NoPc /\ j.offer = n
  BY DEF NewJob

LEMMA CalmOfOnState ==
    ASSUME Typed, Typed', OfferInv, LinkInv, NEW u \in Users, OnState(u), chan[u]
    PROVE  OfferInv' /\ LinkInv'
  <1> DEFINE users == Head(down[u]).users
             new == {NewJob(u, v, NoPc): v \in {w \in users: peers[u][w] = NoPc}}
  <1>1. /\ down[u] # <<>> /\ Handled(u) /\ UNCHANGED <<chan, up, occ, announce, peers, pcs>>
        /\ jobs' = jobs \union new /\ Shapes
    BY DEF OnState, Event, server, Typed
  <1>2. Head(down[u]) \in States /\ users \in SUBSET Users
    <2>1. Head(down[u]) \in DownMessages /\ Head(down[u]).kind = "state"
      BY <1>1, HeadTyped DEF OnState, Event
    <2> QED  BY <2>1, DownFields DEF States
  <1>3. /\ FewerSignals
        /\ \A a, b \in Users: Calls(a, b)' => Calls(a, b)
        /\ \A w \in Users: StayOK(w)' /\ (Joining(w)' => Joining(w))
    BY <1>1, NextHandled
  <1>4. \A j \in new: j.own = u /\ j.peer \in users /\ j.stage = "spawned" /\ j.pc = NoPc
                      /\ j.offer = NoPc /\ j = NewJob(u, j.peer, NoPc)
    BY NewJobFields
  <1>5. Lacks(down'[u], States) /\ ~Opens(u) /\ ~Opens(u)'
    <2>1. ~Lacks(down[u], States) /\ One(down[u], States)
      BY <1>1, <1>2, DownTaken DEF OfferInv, StayOK
    <2>2. Lacks(down'[u], States)
      BY <1>1, <1>2, <2>1, DownTaken
    <2> QED  BY <1>1, <2>1, <2>2 DEF OfferInv, StayOK, Opens
  <1>6. \A b \in users: Calls(u, b) /\ ~Calls(u, b)'
    <2> SUFFICES ASSUME NEW b \in users PROVE Calls(u, b) /\ ~Calls(u, b)'
      OBVIOUS
    <2>1. Head(down[u]) \in StatesWith(b)
      BY <1>2 DEF StatesWith
    <2>2. Calls(u, b)
      BY <1>1, <2>1, DownTaken DEF Calls
    <2>3. Lacks(down'[u], StatesWith(b))
      BY <1>5, FewerKinds DEF StatesWith
    <2> QED  BY <1>5, <2>2, <2>3 DEF Calls
  <1> HIDE DEF new, users
  <1>7. OldPcs /\ Hung
    BY <1>1, NothingHungUp DEF Hung
  <1>8. ASSUME NEW a \in Users, NEW b \in Users PROVE Forward(a, b) /\ UniqueOK(a, b)'
    <2>0. UniqueOK(a, b) /\ ChainOK(a, b)
      BY DEF OfferInv
    <2>1. Starts(a, b)' => Starts(a, b) \/ (Calls(a, b) /\ ~Calls(a, b)')
      BY <1>1, <1>4, <1>6 DEF Starts, StartJob
    <2>2. Taken(a, b)' => Taken(a, b)
      BY <1>1, <1>4 DEF Taken, AnswerJob
    <2>3. ASSUME NEW j \in jobs', NEW i \in jobs', StartJob(j, a, b), StartJob(i, a, b) PROVE j = i
      <3>1. CASE j \in jobs /\ i \in jobs
        BY <2>0, <2>3, <3>1 DEF UniqueOK
      <3>2. CASE j \in new /\ i \in new
        BY <1>4, <2>3, <3>2 DEF StartJob
      <3>3. ASSUME NEW y \in new, NEW z \in jobs, StartJob(y, a, b), StartJob(z, a, b) PROVE FALSE
        <4>1. Calls(a, b) /\ Starts(a, b)
          BY <1>4, <1>6, <3>3 DEF StartJob, Starts
        <4> QED  BY <2>0, <4>1 DEF ChainOK
      <3> QED  BY <1>1, <2>3, <3>1, <3>2, <3>3
    <2>4. ASSUME NEW j \in jobs', NEW i \in jobs', AnswerJob(j, a, b), AnswerJob(i, a, b) PROVE j = i
      BY <1>1, <1>4, <2>0, <2>4 DEF UniqueOK, AnswerJob
    <2>5. /\ One(up[a], OffersTo(b)) => One(up'[a], OffersTo(b))
          /\ One(down[b], OffersOf(a)) => One(down'[b], OffersOf(a))
          /\ Sends(a, b)' => Sends(a, b)
          /\ Reaches(a, b)' => Reaches(a, b)
          /\ Replies(a, b)' => Replies(a, b)
      BY <1>3, FewerMessages
    <2>6. /\ \A m, l \in PcIds: Of(m, a, b)' /\ Of(l, a, b)' => m = l
          /\ Has(a, b)' => Has(a, b)
          /\ Offered(a, b)' => Offered(a, b)
      BY <1>7, <2>0, FewerPcs DEF UniqueOK
    <2>7. UniqueOK(a, b)'
      BY <2>0, <2>3, <2>4, <2>5, <2>6 DEF UniqueOK, StartJob, AnswerJob
    <2>8. Forward(a, b)
      BY <1>3, <2>1, <2>2, <2>5, <2>6 DEF Forward
    <2> QED  BY <2>7, <2>8
  <1>9. ASSUME NEW m \in PcIds, NEW a \in Users, NEW b \in Users, Known(m, a, b)' PROVE Known(m, a, b)
    <2>1. CASE ~Lacks(up'[a], NamingTo(b, m)) \/ ~Lacks(down'[b], NamingOf(a, m))
      BY <1>3, <2>1, FewerMessages DEF Known
    <2>2. CASE \E j \in jobs': j.own = b /\ j.peer = a /\ j.offer = m
      BY <1>1, <1>4, <2>2, SlotFacts DEF Known
    <2>3. CASE \E l \in PcIds: Of(l, b, a)' /\ pcs'[l].remote = m
      BY <1>7, <2>3, FewerPcs DEF Known
    <2> QED  BY <1>9, <2>1, <2>2, <2>3 DEF Known
  <1>10. OfferInv'
    BY <1>3, <1>8, OffersKept
  <1>11. \A j \in jobs': j \in jobs \/ (j.stage = "spawned" /\ j.pc = NoPc /\ ~Has(j.own, j.peer))
    <2>1. ASSUME NEW j \in new PROVE ~Has(j.own, j.peer)
      <3>1. j.own = u /\ j.peer \in Users /\ Calls(u, j.peer)
        BY <1>2, <1>4, <1>6, <2>1
      <3> QED  BY <3>1 DEF OfferInv, ChainOK
    <2> QED  BY <1>1, <1>4, <2>1
  <1>12. \A j \in jobs: j \in jobs'
    BY <1>1
  <1> QED  BY <1>1, <1>7, <1>9, <1>10, <1>11, <1>12, LinksKept

LEMMA CalmOfOnOffer ==
    ASSUME Typed, Typed', OfferInv, LinkInv, NEW u \in Users, OnOffer(u)
    PROVE  OfferInv' /\ LinkInv'
  <1>0. Shapes
    BY DEF Typed
  <1>1. /\ down[u] # <<>> /\ Handled(u) /\ UNCHANGED <<chan, up, occ, announce, peers, pcs>>
    BY DEF OnOffer, Event, server, client
  <1>2. PICK x \in Users, c \in PcIds:
          /\ Head(down[u]) = FromDown("offer", x, c)
          /\ jobs' = jobs \union {NewJob(u, x, c)}
    <2>1. Head(down[u]) \in DownMessages /\ Head(down[u]).kind = "offer"
      BY <1>0, <1>1, HeadTyped DEF OnOffer, Event
    <2> QED  BY <2>1, DownFields DEF FromDown, OnOffer
  <1> DEFINE j0 == NewJob(u, x, c)
  <1>3. /\ FewerSignals
        /\ \A a, b \in Users: Calls(a, b)' => Calls(a, b)
        /\ \A w \in Users: StayOK(w)' /\ (Joining(w)' => Joining(w))
    BY <1>0, <1>1, NextHandled
  <1>4. j0.own = u /\ j0.peer = x /\ j0.stage = "spawned" /\ j0.pc = NoPc /\ j0.offer = c /\ c # NoPc
    BY NewJobFields, SlotFacts
  <1>5. /\ Reaches(x, u) /\ ~Reaches(x, u)'
        /\ ~Lacks(down[u], NamingOf(x, c))
    <2>1. Head(down[u]) \in OffersOf(x) /\ Head(down[u]) \in NamingOf(x, c)
      BY <1>2, SignalMatch
    <2>2. One(down[u], OffersOf(x))
      BY DEF OfferInv, UniqueOK
    <2> QED  BY <1>0, <1>1, <2>1, <2>2, DownTaken DEF Reaches
  <1>12. jobs' = jobs \union {j0}
    BY <1>2
  <1> HIDE DEF j0
  <1>6. OldPcs /\ Hung
    BY <1>1, NothingHungUp DEF Hung
  <1>7. ASSUME NEW a \in Users, NEW b \in Users PROVE Forward(a, b) /\ UniqueOK(a, b)'
    <2>0. UniqueOK(a, b) /\ ChainOK(a, b)
      BY DEF OfferInv
    <2>1. Taken(a, b)' => Taken(a, b) \/ (Reaches(a, b) /\ ~Reaches(a, b)')
      BY <1>4, <1>12, <1>5 DEF Taken, AnswerJob
    <2>2. Starts(a, b)' => Starts(a, b)
      BY <1>4, <1>12 DEF Starts, StartJob
    <2>3. ASSUME NEW j \in jobs', NEW i \in jobs', AnswerJob(j, a, b), AnswerJob(i, a, b) PROVE j = i
      <3>1. CASE j \in jobs /\ i \in jobs
        BY <2>0, <2>3, <3>1 DEF UniqueOK
      <3>2. ASSUME NEW z \in jobs, AnswerJob(j0, a, b), AnswerJob(z, a, b) PROVE FALSE
        <4>1. Reaches(a, b) /\ Taken(a, b)
          BY <1>4, <1>5, <3>2 DEF AnswerJob, Taken
        <4> QED  BY <2>0, <4>1 DEF ChainOK
      <3> QED  BY <1>12, <2>3, <3>1, <3>2
    <2>4. ASSUME NEW j \in jobs', NEW i \in jobs', StartJob(j, a, b), StartJob(i, a, b) PROVE j = i
      BY <1>4, <1>12, <2>0, <2>4 DEF UniqueOK, StartJob
    <2>5. /\ One(up[a], OffersTo(b)) => One(up'[a], OffersTo(b))
          /\ One(down[b], OffersOf(a)) => One(down'[b], OffersOf(a))
          /\ Sends(a, b)' => Sends(a, b)
          /\ Reaches(a, b)' => Reaches(a, b)
          /\ Replies(a, b)' => Replies(a, b)
      BY <1>3, FewerMessages
    <2>6. /\ \A m, l \in PcIds: Of(m, a, b)' /\ Of(l, a, b)' => m = l
          /\ Has(a, b)' => Has(a, b)
          /\ Offered(a, b)' => Offered(a, b)
      BY <1>6, <2>0, FewerPcs DEF UniqueOK
    <2>7. UniqueOK(a, b)'
      BY <2>0, <2>3, <2>4, <2>5, <2>6 DEF UniqueOK, StartJob, AnswerJob
    <2>8. Forward(a, b)
      BY <1>3, <2>1, <2>2, <2>5, <2>6 DEF Forward
    <2> QED  BY <2>7, <2>8
  <1>8. ASSUME NEW m \in PcIds, NEW a \in Users, NEW b \in Users, Known(m, a, b)' PROVE Known(m, a, b)
    <2>1. CASE ~Lacks(up'[a], NamingTo(b, m)) \/ ~Lacks(down'[b], NamingOf(a, m))
      BY <1>3, <2>1, FewerMessages DEF Known
    <2>2. CASE \E j \in jobs': j.own = b /\ j.peer = a /\ j.offer = m
      BY <1>4, <1>12, <1>5, <2>2 DEF Known
    <2>3. CASE \E l \in PcIds: Of(l, b, a)' /\ pcs'[l].remote = m
      BY <1>6, <2>3, FewerPcs DEF Known
    <2> QED  BY <1>8, <2>1, <2>2, <2>3 DEF Known
  <1>9. OfferInv'
    BY <1>3, <1>7, OffersKept
  <1>10. \A j \in jobs': j \in jobs \/ (j.stage = "spawned" /\ j.pc = NoPc /\ ~Has(j.own, j.peer))
    <2>1. ~Has(j0.own, j0.peer)
      BY <1>2, <1>4, <1>5 DEF OfferInv, ChainOK
    <2> QED  BY <1>4, <1>12, <2>1
  <1>11. \A j \in jobs: j \in jobs'
    BY <1>12
  <1> QED  BY <1>1, <1>6, <1>8, <1>9, <1>10, <1>11, LinksKept
-----------------------------------------------------------------------------
(* Connections are built, registered, described and answered. *)

\* A client has one task for a user.
LEMMA OneTask ==
    ASSUME Typed, OfferInv, NEW j \in jobs, NEW k \in jobs, j.own = k.own, j.peer = k.peer
    PROVE  j = k
  <1>1. j.own \in Users /\ j.peer \in Users
    BY DEF Typed, Shapes, Jobs
  <1>2. UniqueOK(j.own, j.peer) /\ UniqueOK(j.peer, j.own) /\ ChainOK(j.own, j.peer)
    BY <1>1 DEF OfferInv
  <1>3. CASE j.offer = NoPc /\ k.offer = NoPc
    BY <1>2, <1>3 DEF UniqueOK, StartJob
  <1>4. CASE j.offer # NoPc /\ k.offer # NoPc
    BY <1>2, <1>4 DEF UniqueOK, AnswerJob
  <1>5. CASE (j.offer = NoPc /\ k.offer # NoPc) \/ (j.offer # NoPc /\ k.offer = NoPc)
    <2>1. Starts(j.own, j.peer) /\ Taken(j.peer, j.own)
      BY <1>5 DEF Starts, Taken, StartJob, AnswerJob
    <2> QED  BY <1>2, <2>1 DEF ChainOK, Offering
  <1> QED  BY <1>3, <1>4, <1>5

\* A task goes on.
LEMMA TaskMoves ==
    ASSUME NEW j \in jobs, NEW k, k.own = j.own, k.peer = j.peer, k.offer = j.offer,
           jobs' = (jobs \ {j}) \union {k}, NEW a \in Users, NEW b \in Users, UniqueOK(a, b)
    PROVE  /\ Starts(a, b)' <=> Starts(a, b)
           /\ Taken(a, b)' <=> Taken(a, b)
           /\ \A i, l \in jobs': StartJob(i, a, b) /\ StartJob(l, a, b) => i = l
           /\ \A i, l \in jobs': AnswerJob(i, a, b) /\ AnswerJob(l, a, b) => i = l
           /\ \A m: (\E i \in jobs': i.own = b /\ i.peer = a /\ i.offer = m)
                      => \E i \in jobs: i.own = b /\ i.peer = a /\ i.offer = m
  <1>1. /\ StartJob(k, a, b) <=> StartJob(j, a, b)
        /\ AnswerJob(k, a, b) <=> AnswerJob(j, a, b)
    BY DEF StartJob, AnswerJob
  <1>2. Starts(a, b)' <=> Starts(a, b)
    BY <1>1 DEF Starts, StartJob
  <1>3. Taken(a, b)' <=> Taken(a, b)
    BY <1>1 DEF Taken, AnswerJob
  <1>4. \A i, l \in jobs': StartJob(i, a, b) /\ StartJob(l, a, b) => i = l
    BY <1>1 DEF UniqueOK
  <1>5. \A i, l \in jobs': AnswerJob(i, a, b) /\ AnswerJob(l, a, b) => i = l
    BY <1>1 DEF UniqueOK
  <1> QED  BY <1>2, <1>3, <1>4, <1>5

LEMMA SameOffers ==
    ASSUME OfferInv, UNCHANGED <<chan, up, down, occ, announce>>,
           \A a, b \in Users:
             /\ Starts(a, b)' => Starts(a, b)
             /\ Taken(a, b)' => Taken(a, b)
             /\ Offered(a, b)' => Offered(a, b)
             /\ Has(a, b)' => Has(a, b) \/ Starts(a, b) \/ Taken(b, a)
             /\ UniqueOK(a, b)'
    PROVE  OfferInv'
  <1>1. ASSUME NEW a \in Users, NEW b \in Users PROVE Forward(a, b)
    <2>1. /\ Calls(a, b)' => Calls(a, b)
          /\ Sends(a, b)' => Sends(a, b)
          /\ Reaches(a, b)' => Reaches(a, b)
          /\ Replies(a, b)' => Replies(a, b)
      BY DEF Calls, Opens, Sends, Reaches, Replies
    <2> QED  BY <2>1 DEF Forward
  <1>2. \A w \in Users: StayOK(w)' /\ (Joining(w)' => Joining(w))
    BY DEF OfferInv, StayOK, Joining, Opens
  <1> QED  BY <1>1, <1>2, OffersKept

LEMMA TaskFacts ==
    ASSUME Typed, LinkInv, NEW j \in jobs
    PROVE  /\ j \in Jobs /\ j.own \in Users /\ j.peer \in Users /\ j.pc \in Slots /\ JobOK(j)
           /\ j.stage # "spawned" => j.pc \in PcIds
  <1>1. j \in Jobs /\ j.own \in Users /\ j.peer \in Users /\ j.pc \in Slots /\ JobOK(j)
    BY DEF Typed, Shapes, Jobs, LinkInv
  <1> QED  BY <1>1 DEF JobOK, Slots

LEMMA CalmOfRegister ==
    ASSUME Typed, Typed', OfferInv, LinkInv, NEW j \in jobs, RegisterPeer(j)
    PROVE  OfferInv' /\ LinkInv'
  <1> DEFINE k == [j EXCEPT !.stage = "registered"]
             u == j.own
             v == j.peer
             n == j.pc
  <1>1. /\ UNCHANGED <<chan, up, down, occ, announce, pcs>>
        /\ peers' = [peers EXCEPT ![u][v] = n]
        /\ jobs' = (jobs \ {j}) \union {k} /\ j.stage = "built"
    BY DEF RegisterPeer, Move, client, server
  <1>2. u \in Users /\ v \in Users /\ n \in PcIds /\ n # NoPc /\ JobOK(j) /\ j \in Jobs
    BY <1>1, TaskFacts, SlotFacts
  <1>3. k.own = u /\ k.peer = v /\ k.offer = j.offer /\ k.pc = n /\ k.stage = "registered"
    BY <1>2 DEF Jobs
  <1>4. Live(n) /\ Of(n, u, v) /\ peers[u][v] = NoPc /\ ~Known(n, u, v)
        /\ ~pcs[n].offered /\ pcs[n].remote = NoPc /\ pcs[n].st # "free"
    BY <1>1, <1>2 DEF JobOK, Live, Used
  <1>5. peers'[u][v] = n /\ \A a, b \in Users: <<a, b>> # <<u, v>> => peers'[a][b] = peers[a][b]
    BY <1>1, <1>2 DEF Typed, Shapes
  <1>6. \A i \in jobs: i # j => <<i.own, i.peer>> # <<u, v>>
    BY OneTask
  <1> HIDE DEF k, u, v, n
  <1>7. ASSUME NEW m
        PROVE  /\ Live(m)' <=> Live(m)
               /\ Used(m)' <=> Used(m)
               /\ \A a, b: Of(m, a, b)' <=> Of(m, a, b)
    BY <1>1 DEF Live, Of, Used
  <1>8. ASSUME NEW a \in Users, NEW b \in Users
        PROVE  /\ Starts(a, b)' => Starts(a, b)
               /\ Taken(a, b)' => Taken(a, b)
               /\ Offered(a, b)' => Offered(a, b)
               /\ Has(a, b)' => Has(a, b)
               /\ UniqueOK(a, b)'
               /\ \A m \in PcIds: Known(m, a, b)' => Known(m, a, b)
    <2>1. UniqueOK(a, b)
      BY DEF OfferInv
    <2>2. /\ Starts(a, b)' <=> Starts(a, b)
          /\ Taken(a, b)' <=> Taken(a, b)
          /\ \A i, l \in jobs': StartJob(i, a, b) /\ StartJob(l, a, b) => i = l
          /\ \A i, l \in jobs': AnswerJob(i, a, b) /\ AnswerJob(l, a, b) => i = l
          /\ \A m: (\E i \in jobs': i.own = b /\ i.peer = a /\ i.offer = m)
                     => \E i \in jobs: i.own = b /\ i.peer = a /\ i.offer = m
      BY <1>1, <1>3, <2>1, TaskMoves DEF u, v
    <2>3. (Offered(a, b)' => Offered(a, b)) /\ (Has(a, b)' => Has(a, b))
      BY <1>1, <1>7 DEF Offered, Has
    <2>4. UniqueOK(a, b)'
      BY <1>1, <1>7, <2>1, <2>2 DEF UniqueOK, StartJob, AnswerJob
    <2>5. ASSUME NEW m \in PcIds, Known(m, a, b)' PROVE Known(m, a, b)
      BY <1>1, <1>7, <2>2, <2>5 DEF Known
    <2> QED  BY <2>2, <2>3, <2>4, <2>5
  <1>9. OfferInv'
    BY <1>1, <1>8, SameOffers
  <1>10. ASSUME NEW a \in Users, NEW b \in Users PROVE PeerOK(a, b)'
    <2>1. CASE <<a, b>> = <<u, v>>
      BY <1>1, <1>4, <1>5, <2>1 DEF PeerOK, Of, Live, Used
    <2>2. CASE <<a, b>> # <<u, v>>
      <3>1. PeerOK(a, b) /\ peers'[a][b] = peers[a][b]
        BY <1>5, <2>2 DEF LinkInv
      <3> QED  BY <1>1, <3>1 DEF PeerOK, Of, Live, Used
    <2> QED  BY <2>1, <2>2
  <1>11. ASSUME NEW m \in PcIds, NEW a \in Users, NEW b \in Users PROVE KnownOK(m, a, b)'
    <2>1. KnownOK(m, a, b) /\ (Known(m, a, b)' => Known(m, a, b)) /\ m # NoPc
      BY <1>8, SlotFacts DEF LinkInv
    <2>2. peers[a][b] = m => peers'[a][b] = m
      BY <1>4, <1>5, <2>1
    <2> QED  BY <1>1, <1>7, <2>1, <2>2 DEF KnownOK
  <1>12. ASSUME NEW i \in jobs' PROVE JobOK(i)'
    <2>1. CASE i = k
      <3>1. ~Known(n, u, v)'
        BY <1>2, <1>4, <1>8
      <3> QED  BY <1>1, <1>2, <1>3, <1>4, <1>5, <1>7, <2>1, <3>1 DEF JobOK
    <2>2. CASE i \in jobs /\ i # j
      <3>1. JobOK(i) /\ i.own \in Users /\ i.peer \in Users /\ (i.stage # "spawned" => i.pc \in PcIds)
        BY <2>2, TaskFacts
      <3>2. peers'[i.own][i.peer] = peers[i.own][i.peer]
        BY <1>5, <1>6, <2>2, <3>1
      <3>3. /\ Has(i.own, i.peer)' => Has(i.own, i.peer)
            /\ i.stage # "spawned" => (Known(i.pc, i.own, i.peer)' => Known(i.pc, i.own, i.peer))
        BY <1>8, <3>1
      <3> QED  BY <1>1, <1>7, <3>1, <3>2, <3>3 DEF JobOK
    <2> QED  BY <1>1, <2>1, <2>2
  <1>13. ASSUME NEW m \in PcIds PROVE FoundOK(m)'
    <2> SUFFICES ASSUME Live(m)
                 PROVE  peers'[pcs[m].own][pcs[m].peer] = m
                        \/ \E i \in jobs': i.stage = "built" /\ i.pc = m
      BY <1>1, <1>7 DEF FoundOK
    <2>1. CASE m = n
      BY <1>4, <1>5, <2>1 DEF Of
    <2>2. CASE m # n
      <3>1. pcs[m].own \in Users /\ pcs[m].peer \in Users /\ m # NoPc
        BY DEF Typed, Owned, Live, Used
      <3>2. CASE \E i \in jobs: i.stage = "built" /\ i.pc = m
        BY <1>1, <2>2, <3>2 DEF n
      <3>3. CASE peers[pcs[m].own][pcs[m].peer] = m
        BY <1>4, <1>5, <3>1, <3>3
      <3> QED  BY <3>2, <3>3 DEF LinkInv, FoundOK
    <2> QED  BY <2>1, <2>2
  <1> QED  BY <1>9, <1>10, <1>11, <1>12, <1>13 DEF LinkInv

LEMMA CalmOfBuild ==
    ASSUME Typed, Typed', OfferInv, LinkInv, NEW j \in jobs, BuildPeer(j)
    PROVE  OfferInv' /\ LinkInv'
  <1> DEFINE u == j.own
             v == j.peer
  <1>1. /\ u \in Users /\ v \in Users /\ JobOK(j) /\ j \in Jobs /\ j.stage = "spawned"
        /\ ~Has(u, v)
    BY TaskFacts DEF BuildPeer, JobOK
  <1>2. peers[u][v] = NoPc
    <2>1. PeerOK(u, v)
      BY <1>1 DEF LinkInv
    <2> QED  BY <1>1, <2>1, PeerIds DEF PeerOK, Has
  <1>3. ~Reuses(j) /\ UNCHANGED <<chan, up, down, occ, announce, peers>> /\ Shapes
    BY <1>2 DEF BuildPeer, Reuses, client, server, Typed
  <1>4. PICK n \in PcIds:
          /\ pcs[n].st = "free"
          /\ pcs'[n].own = u /\ pcs'[n].peer = v /\ pcs'[n].st = "live"
          /\ pcs'[n].offered = FALSE /\ pcs'[n].remote = NoPc
          /\ \A m \in PcIds \ {n}: pcs'[m] = pcs[m]
          /\ jobs' = (jobs \ {j}) \union {[j EXCEPT !.stage = "built", !.pc = n]}
    BY <1>3, BuildEffect
  <1> DEFINE k == [j EXCEPT !.stage = "built", !.pc = n]
  <1>5. k.own = u /\ k.peer = v /\ k.offer = j.offer /\ k.pc = n /\ k.stage = "built"
        /\ jobs' = (jobs \ {j}) \union {k}
    BY <1>1, <1>4 DEF Jobs
  <1>6. \A i \in jobs: i # j => <<i.own, i.peer>> # <<u, v>>
    BY OneTask
  <1> HIDE DEF k, u, v
  <1>7. /\ \A m \in PcIds \ {n}: /\ Live(m)' <=> Live(m)
                                 /\ Used(m)' <=> Used(m)
                                 /\ \A a, b: Of(m, a, b)' <=> Of(m, a, b)
        /\ ~Live(n) /\ ~Used(n) /\ Live(n)' /\ Used(n)'
        /\ \A a, b: ~Of(n, a, b) /\ (Of(n, a, b)' <=> a = u /\ b = v)
    BY <1>4, SlotFacts DEF Live, Of, Used
  <1>8. ASSUME NEW a \in Users, NEW b \in Users
        PROVE  /\ Starts(a, b)' => Starts(a, b)
               /\ Taken(a, b)' => Taken(a, b)
               /\ Offered(a, b)' => Offered(a, b)
               /\ Has(a, b)' => Has(a, b) \/ (a = u /\ b = v)
               /\ Has(a, b)' => Has(a, b) \/ Starts(a, b) \/ Taken(b, a)
               /\ UniqueOK(a, b)'
               /\ \A m \in PcIds: Known(m, a, b)' => Known(m, a, b)
    <2>1. UniqueOK(a, b)
      BY DEF OfferInv
    <2>2. /\ Starts(a, b)' <=> Starts(a, b)
          /\ Taken(a, b)' <=> Taken(a, b)
          /\ \A i, l \in jobs': StartJob(i, a, b) /\ StartJob(l, a, b) => i = l
          /\ \A i, l \in jobs': AnswerJob(i, a, b) /\ AnswerJob(l, a, b) => i = l
          /\ \A m: (\E i \in jobs': i.own = b /\ i.peer = a /\ i.offer = m)
                     => \E i \in jobs: i.own = b /\ i.peer = a /\ i.offer = m
      BY <1>5, <2>1, TaskMoves DEF u, v
    <2>3. Offered(a, b)' => Offered(a, b)
      BY <1>4, <1>7 DEF Offered
    <2>4. Has(a, b)' => Has(a, b) \/ (a = u /\ b = v)
      BY <1>7 DEF Has
    <2>5. Starts(u, v) \/ Taken(v, u)
      BY DEF Starts, Taken, StartJob, AnswerJob, u, v
    <2>6. \A m, l \in PcIds: Of(m, a, b)' /\ Of(l, a, b)' => m = l
      BY <1>1, <1>7, <2>1 DEF UniqueOK, Has
    <2>7. UniqueOK(a, b)'
      BY <1>3, <2>1, <2>2, <2>6 DEF UniqueOK, StartJob, AnswerJob
    <2>8. ASSUME NEW m \in PcIds, Known(m, a, b)' PROVE Known(m, a, b)
      <3>1. CASE \E l \in PcIds: Of(l, b, a)' /\ pcs'[l].remote = m
        <4>1. PICK l \in PcIds: Of(l, b, a)' /\ pcs'[l].remote = m
          BY <3>1
        <4>2. l # n
          BY <1>4, <4>1, SlotFacts
        <4> QED  BY <1>4, <1>7, <4>1, <4>2 DEF Known
      <3>2. CASE ~Lacks(up'[a], NamingTo(b, m)) \/ ~Lacks(down'[b], NamingOf(a, m))
        BY <1>3, <3>2 DEF Known
      <3>3. CASE \E i \in jobs': i.own = b /\ i.peer = a /\ i.offer = m
        BY <2>2, <3>3 DEF Known
      <3> QED  BY <2>8, <3>1, <3>2, <3>3 DEF Known
    <2> QED  BY <2>2, <2>3, <2>4, <2>5, <2>7, <2>8
  <1>9. OfferInv'
    BY <1>3, <1>8, SameOffers
  <1>10. ASSUME NEW a \in Users, NEW b \in Users PROVE PeerOK(a, b)'
    <2>1. CASE peers[a][b] = NoPc
      BY <1>3, <2>1 DEF PeerOK
    <2>2. CASE peers[a][b] # NoPc
      <3>1. PICK m \in PcIds: m = peers[a][b]
        BY <2>2, PeerIds
      <3>2. Of(m, a, b) /\ Live(m) /\ m # n
        BY <1>7, <2>2, <3>1 DEF LinkInv, PeerOK
      <3>3. Of(m, a, b)' /\ Live(m)' /\ peers'[a][b] = m
        BY <1>3, <1>7, <3>1, <3>2
      <3> QED  BY <3>3 DEF PeerOK, Of, Live, Used
    <2> QED  BY <2>1, <2>2
  <1>11. ASSUME NEW m \in PcIds, NEW a \in Users, NEW b \in Users PROVE KnownOK(m, a, b)'
    <2> SUFFICES ASSUME Known(m, a, b)'
                 PROVE  /\ pcs'[m].st # "free"
                        /\ Used(m)' => Of(m, a, b)'
                        /\ Live(m)' => chan'[a] /\ peers'[a][b] = m
      BY DEF KnownOK
    <2>1. /\ pcs[m].st # "free"
          /\ Used(m) => Of(m, a, b)
          /\ Live(m) => chan[a] /\ peers[a][b] = m
      BY <1>8 DEF LinkInv, KnownOK
    <2>2. m # n
      BY <1>4, <2>1
    <2> QED  BY <1>3, <1>4, <1>7, <2>1, <2>2
  <1>12. ASSUME NEW i \in jobs' PROVE JobOK(i)'
    <2>1. CASE i = k
      <3>1. ~Known(n, u, v)'
        <4>1. ~Known(n, u, v)
          BY <1>1, <1>4 DEF LinkInv, KnownOK
        <4> QED  BY <1>1, <1>8, <4>1
      <3> QED  BY <1>2, <1>3, <1>4, <1>5, <1>7, <2>1, <3>1, SlotFacts DEF JobOK
    <2>2. CASE i \in jobs /\ i # j
      <3>1. JobOK(i) /\ i.own \in Users /\ i.peer \in Users /\ (i.stage # "spawned" => i.pc \in PcIds)
        BY <2>2, TaskFacts
      <3>2. /\ Has(i.own, i.peer)' => Has(i.own, i.peer)
            /\ i.stage # "spawned" => (Known(i.pc, i.own, i.peer)' => Known(i.pc, i.own, i.peer))
        BY <1>6, <1>8, <2>2, <3>1
      <3>3. i.stage # "spawned" => i.pc # n
        BY <1>4, <3>1 DEF JobOK
      <3>4. i.stage = "spawned" => i.pc = NoPc /\ ~Has(i.own, i.peer)'
        BY <3>1, <3>2 DEF JobOK
      <3>5. i.stage # "spawned" => /\ i.pc # NoPc /\ pcs'[i.pc].st # "free"
                                   /\ ~Known(i.pc, i.own, i.peer)'
                                   /\ Used(i.pc)' => Of(i.pc, i.own, i.peer)'
                                   /\ Live(i.pc)' => ~pcs'[i.pc].offered /\ pcs'[i.pc].remote = NoPc
        BY <1>4, <1>7, <3>1, <3>2, <3>3 DEF JobOK
      <3>6. i.stage = "built" => Live(i.pc)' /\ peers'[i.own][i.peer] = NoPc
        BY <1>3, <1>7, <3>1, <3>3 DEF JobOK
      <3>7. i.stage = "registered" /\ Live(i.pc)' => peers'[i.own][i.peer] = i.pc
        BY <1>3, <1>7, <3>1, <3>3 DEF JobOK
      <3> QED  BY <3>4, <3>5, <3>6, <3>7 DEF JobOK
    <2> QED  BY <1>5, <2>1, <2>2
  <1>13. ASSUME NEW m \in PcIds PROVE FoundOK(m)'
    <2>1. CASE m = n
      BY <1>5, <2>1 DEF FoundOK
    <2>2. CASE m # n
      <3>1. FoundOK(m) /\ pcs'[m] = pcs[m] /\ (Live(m)' <=> Live(m))
        BY <1>4, <1>7, <2>2 DEF LinkInv
      <3>2. ASSUME NEW i \in jobs, i.stage = "built" PROVE i \in jobs'
        BY <1>1, <1>5, <3>2
      <3> QED  BY <1>3, <3>1, <3>2 DEF FoundOK
    <2> QED  BY <2>1, <2>2
  <1> QED  BY <1>9, <1>10, <1>11, <1>12, <1>13 DEF LinkInv
LEMMA CalmOfOnAnswer ==
    ASSUME Typed, Typed', OfferInv, LinkInv, NEW u \in Users, OnAnswer(u)
    PROVE  OfferInv' /\ LinkInv'
  <1>1. /\ down[u] # <<>> /\ Handled(u) /\ UNCHANGED <<chan, up, occ, announce, peers, jobs>> /\ Shapes
    BY DEF OnAnswer, Event, server, client, Typed
  <1>2. PICK x \in Users, c \in PcIds, n \in Slots:
          /\ n = peers[u][x] /\ Head(down[u]) = FromDown("answer", x, c)
          /\ \A m \in PcIds:
               /\ pcs'[m].own = pcs[m].own /\ pcs'[m].peer = pcs[m].peer /\ pcs'[m].st = pcs[m].st
               /\ pcs'[m].offered = pcs[m].offered
               /\ m # n \/ ~Waits(u) => pcs'[m] = pcs[m]
          /\ Waits(u) => n \in PcIds /\ pcs'[n].remote = c /\ pcs[n].offered
    <2> DEFINE y == Head(down[u]).from
               d == Head(down[u]).pc
               l == peers[u][y]
    <2>1. /\ y \in Users /\ d \in PcIds /\ Head(down[u]) = FromDown("answer", y, d)
          /\ \A m \in PcIds:
               /\ pcs'[m].own = pcs[m].own /\ pcs'[m].peer = pcs[m].peer /\ pcs'[m].st = pcs[m].st
               /\ pcs'[m].offered = pcs[m].offered
               /\ m # l \/ ~Waits(u) => pcs'[m] = pcs[m]
          /\ Waits(u) => l \in PcIds /\ pcs'[l].remote = d
      BY <1>1, AnswerEffect
    <2>2. l \in Slots /\ (Waits(u) => pcs[l].offered)
      BY <1>1, <2>1 DEF Shapes, Waits
    <2> HIDE DEF y, d
    <2> QED  BY <2>1, <2>2
  <1>3. /\ FewerSignals
        /\ \A a, b \in Users: Calls(a, b)' => Calls(a, b)
        /\ \A w \in Users: StayOK(w)' /\ (Joining(w)' => Joining(w))
    BY <1>1, NextHandled
  <1>4. \A m \in PcIds: /\ Live(m)' <=> Live(m)
                        /\ Used(m)' <=> Used(m)
                        /\ \A a, b: Of(m, a, b)' <=> Of(m, a, b)
    BY <1>2 DEF Live, Used, Of
  <1>5. ~Lacks(down[u], NamingOf(x, c))
    BY <1>1, <1>2, SignalMatch, DownTaken
  <1>6. Waits(u) => Of(n, u, x)
    BY <1>2, SlotFacts DEF LinkInv, PeerOK
  <1>7. ASSUME NEW a \in Users, NEW b \in Users
        PROVE  /\ Forward(a, b) /\ UniqueOK(a, b)'
               /\ Has(a, b)' => Has(a, b)
               /\ \A m \in PcIds: Known(m, a, b)' => Known(m, a, b)
    <2>0. UniqueOK(a, b)
      BY DEF OfferInv
    <2>1. /\ One(up[a], OffersTo(b)) => One(up'[a], OffersTo(b))
          /\ One(down[b], OffersOf(a)) => One(down'[b], OffersOf(a))
          /\ Sends(a, b)' => Sends(a, b)
          /\ Reaches(a, b)' => Reaches(a, b)
          /\ Replies(a, b)' => Replies(a, b)
      BY <1>3, FewerMessages
    <2>2. (Has(a, b)' => Has(a, b)) /\ (Offered(a, b)' => Offered(a, b))
      BY <1>2, <1>4 DEF Has, Offered
    <2>3. Starts(a, b)' = Starts(a, b) /\ Taken(a, b)' = Taken(a, b)
      BY <1>1 DEF Starts, Taken, StartJob, AnswerJob
    <2>4. UniqueOK(a, b)'
      BY <1>1, <1>4, <2>0, <2>1 DEF UniqueOK, StartJob, AnswerJob
    <2>5. ASSUME NEW m \in PcIds, Known(m, a, b)' PROVE Known(m, a, b)
      <3>1. CASE \E l \in PcIds: Of(l, b, a)' /\ pcs'[l].remote = m
        <4>1. PICK l \in PcIds: Of(l, b, a) /\ pcs'[l].remote = m
          BY <1>4, <3>1
        <4>2. CASE l = n /\ Waits(u)
          <5>1. b = u /\ a = x /\ m = c
            BY <1>2, <1>6, <4>1, <4>2 DEF Of
          <5> QED  BY <1>5, <5>1 DEF Known
        <4>3. CASE ~(l = n /\ Waits(u))
          <5>1. pcs'[l] = pcs[l]
            BY <1>2, <4>3
          <5> QED  BY <4>1, <5>1 DEF Known
        <4> QED  BY <4>2, <4>3
      <3>2. CASE ~Lacks(up'[a], NamingTo(b, m)) \/ ~Lacks(down'[b], NamingOf(a, m))
        BY <1>3, <3>2, FewerMessages DEF Known
      <3>3. CASE \E i \in jobs': i.own = b /\ i.peer = a /\ i.offer = m
        BY <1>1, <3>3 DEF Known
      <3> QED  BY <2>5, <3>1, <3>2, <3>3 DEF Known
    <2>6. Forward(a, b)
      BY <1>3, <2>1, <2>2, <2>3 DEF Forward
    <2> QED  BY <2>2, <2>4, <2>5, <2>6
  <1>8. OfferInv'
    BY <1>3, <1>7, OffersKept
  <1>9. ASSUME NEW a \in Users, NEW b \in Users PROVE PeerOK(a, b)'
    <2>1. CASE peers[a][b] = NoPc
      BY <1>1, <2>1 DEF PeerOK
    <2>2. CASE peers[a][b] # NoPc
      <3>1. PICK m \in PcIds: m = peers[a][b]
        BY <2>2, PeerIds
      <3>2. Of(m, a, b)' /\ Live(m)' /\ peers'[a][b] = m
        BY <1>1, <1>4, <2>2, <3>1 DEF LinkInv, PeerOK
      <3> QED  BY <3>2 DEF PeerOK, Of, Live, Used
    <2> QED  BY <2>1, <2>2
  <1>10. ASSUME NEW m \in PcIds, NEW a \in Users, NEW b \in Users PROVE KnownOK(m, a, b)'
    <2>1. KnownOK(m, a, b) /\ (Known(m, a, b)' => Known(m, a, b))
      BY <1>7 DEF LinkInv
    <2> QED  BY <1>1, <1>2, <1>4, <2>1 DEF KnownOK
  <1>11. ASSUME NEW i \in jobs' PROVE JobOK(i)'
    <2>1. /\ JobOK(i) /\ i.own \in Users /\ i.peer \in Users
          /\ i.stage # "spawned" => i.pc \in PcIds
      BY <1>1, TaskFacts
    <2>2. (Has(i.own, i.peer)' => Has(i.own, i.peer))
          /\ (i.stage # "spawned" => (Known(i.pc, i.own, i.peer)' => Known(i.pc, i.own, i.peer)))
      BY <1>7, <2>1
    <2>3. ASSUME i.stage # "spawned", Live(i.pc) PROVE pcs'[i.pc] = pcs[i.pc]
      <3>1. ~(i.pc = n /\ Waits(u))
        BY <1>2, <2>1, <2>3 DEF JobOK
      <3> QED  BY <1>2, <2>1, <2>3, <3>1
    <2>4. i.stage # "spawned" => /\ i.pc # NoPc /\ pcs'[i.pc].st # "free"
                                 /\ ~Known(i.pc, i.own, i.peer)'
                                 /\ Used(i.pc)' => Of(i.pc, i.own, i.peer)'
                                 /\ Live(i.pc)' => ~pcs'[i.pc].offered /\ pcs'[i.pc].remote = NoPc
      BY <1>2, <1>4, <2>1, <2>2, <2>3 DEF JobOK
    <2>5. i.stage = "spawned" => i.pc = NoPc /\ ~Has(i.own, i.peer)'
      BY <2>1, <2>2 DEF JobOK
    <2>6. i.stage = "built" => Live(i.pc)' /\ peers'[i.own][i.peer] = NoPc
      BY <1>1, <1>4, <2>1 DEF JobOK
    <2>7. i.stage = "registered" /\ Live(i.pc)' => peers'[i.own][i.peer] = i.pc
      BY <1>1, <1>4, <2>1 DEF JobOK
    <2> QED  BY <2>4, <2>5, <2>6, <2>7 DEF JobOK
  <1>12. ASSUME NEW m \in PcIds PROVE FoundOK(m)'
    <2>1. FoundOK(m)
      BY DEF LinkInv
    <2> QED  BY <1>1, <1>2, <1>4, <2>1 DEF FoundOK
  <1> QED  BY <1>8, <1>9, <1>10, <1>11, <1>12 DEF LinkInv

LEMMA CalmOfDescribe ==
    ASSUME Typed, Typed', OfferInv, LinkInv, NEW j \in jobs, Describe(j)
    PROVE  OfferInv' /\ LinkInv'
  <1> DEFINE u == j.own
             v == j.peer
             n == j.pc
             k == IF j.offer = NoPc THEN "offer" ELSE "answer"
             sent == Able(j) /\ chan[j.own]
  <1>1. /\ UNCHANGED <<chan, peers, down, occ, announce>> /\ Shapes
        /\ jobs' = jobs \ {j} /\ j.stage = "registered"
    BY DEF Describe, client, server, Typed
  <1>2. u \in Users /\ v \in Users /\ n \in PcIds /\ n # NoPc /\ JobOK(j) /\ j \in Jobs
    BY <1>1, TaskFacts, SlotFacts
  <1>3. Able(j) => Live(n) /\ Of(n, u, v) /\ peers[u][v] = n
    BY <1>1, <1>2 DEF Able, JobOK, Live, Used
  <1>4. /\ \A m \in PcIds:
             /\ pcs'[m].own = pcs[m].own /\ pcs'[m].peer = pcs[m].peer /\ pcs'[m].st = pcs[m].st
             /\ m # n \/ ~Able(j) => pcs'[m] = pcs[m]
        /\ Able(j) /\ j.offer = NoPc => pcs'[n].offered = TRUE /\ pcs'[n].remote = pcs[n].remote
        /\ Able(j) /\ j.offer # NoPc => pcs'[n].remote = j.offer
                                        /\ pcs'[n].offered = pcs[n].offered
    BY <1>1, DescribeEffect
  <1>5. /\ sent => Described(j) \in UpMessages /\ up' = [up EXCEPT ![u] = Append(@, Described(j))]
        /\ ~sent => up' = up
        /\ Described(j) = ToUp(k, v, n)
    BY <1>1, UpOfDescribe DEF Described
  <1>6. ASSUME NEW w \in Users, NEW S
        PROVE  /\ Lacks(up'[w], S) <=> Lacks(up[w], S) /\ ~(sent /\ w = u /\ Described(j) \in S)
               /\ One(up[w], S) /\ (sent /\ w = u /\ Described(j) \in S => Lacks(up[w], S))
                    => One(up'[w], S)
    <2>1. CASE sent /\ w = u
      BY <1>1, <1>2, <1>5, <2>1, UpGrows
    <2>2. CASE ~(sent /\ w = u)
      <3>1. up'[w] = up[w]
        BY <1>1, <1>2, <1>5, <2>2, UpGrows
      <3> QED  BY <2>2, <3>1
    <2> QED  BY <2>1, <2>2
  <1>7. \A i \in jobs: i # j => <<i.own, i.peer>> # <<u, v>>
    BY OneTask
  <1>8. /\ k \in {"offer", "answer"} /\ (k = "offer" <=> j.offer = NoPc)
        /\ StartJob(j, u, v) <=> k = "offer"
        /\ AnswerJob(j, v, u) <=> k = "answer"
        /\ sent => Able(j) /\ chan[u]
    BY DEF StartJob, AnswerJob
  <1> HIDE DEF u, v, n, k, sent
  <1>9. \A m \in PcIds: /\ Live(m)' <=> Live(m)
                        /\ Used(m)' <=> Used(m)
                        /\ \A a, b: Of(m, a, b)' <=> Of(m, a, b)
    BY <1>4 DEF Live, Used, Of
  <1>10. \A a, b \in Users: /\ UniqueOK(a, b) /\ ChainOK(a, b)
    BY DEF OfferInv
  <1>11. ASSUME NEW a \in Users, NEW b \in Users
         PROVE  /\ Forward(a, b) /\ UniqueOK(a, b)'
                /\ Has(a, b)' => Has(a, b)
    <2>1. /\ Described(j) \in OffersTo(b) <=> k = "offer" /\ v = b
          /\ Described(j) \in AnswersTo(a) <=> k = "answer" /\ v = a
      BY <1>2, <1>5, <1>8, SignalMatch
    <2>2. k = "offer" => Starts(u, v) /\ ~Starts(u, v)'
      <3>1. k = "offer" => Starts(u, v)
        BY <1>8 DEF Starts
      <3>2. ~Starts(u, v)'
        BY <1>1, <1>7 DEF Starts, StartJob
      <3> QED  BY <3>1, <3>2
    <2>3. k = "answer" => Taken(v, u)
      BY <1>8 DEF Taken
    <2>4. Sends(a, b)' => Sends(a, b) \/ (Starts(a, b) /\ ~Starts(a, b)')
      BY <1>6, <2>1, <2>2 DEF Sends
    <2>5. Replies(a, b)' => Replies(a, b) \/ Taken(a, b)
      BY <1>1, <1>6, <2>1, <2>3 DEF Replies
    <2>6. One(up'[a], OffersTo(b))
      <3>1. sent /\ a = u /\ Described(j) \in OffersTo(b) => Lacks(up[a], OffersTo(b))
        BY <1>10, <2>1, <2>2 DEF ChainOK, Sends
      <3> QED  BY <1>6, <1>10, <3>1 DEF UniqueOK
    <2>7. Calls(a, b)' => Calls(a, b)
      BY <1>1 DEF Calls, Opens
    <2>8. Reaches(a, b)' => Reaches(a, b)
      BY <1>1 DEF Reaches
    <2>9. (Starts(a, b)' => Starts(a, b)) /\ (Taken(a, b)' => Taken(a, b))
      BY <1>1, FewerJobs
    <2>10. Has(a, b)' => Has(a, b)
      BY <1>9 DEF Has
    <2>11. Offered(a, b)' => Offered(a, b) \/ Starts(a, b)
      <3> SUFFICES ASSUME NEW m \in PcIds, Of(m, a, b)', pcs'[m].offered, ~Offered(a, b)
                   PROVE  Starts(a, b)
        BY DEF Offered
      <3>1. Of(m, a, b) /\ ~pcs[m].offered
        BY <1>9 DEF Offered
      <3>2. pcs'[m] # pcs[m]
        BY <3>1
      <3>3. m = n /\ Able(j)
        BY <1>4, <3>2
      <3>4. k = "offer"
        BY <1>4, <1>8, <3>1, <3>3
      <3>5. a = u /\ b = v
        BY <1>3, <3>1, <3>3 DEF Of
      <3> QED  BY <2>2, <3>4, <3>5
    <2>12. UniqueOK(a, b)'
      <3>1. One(down'[b], OffersOf(a)) /\ \A m, l \in PcIds: Of(m, a, b)' /\ Of(l, a, b)' => m = l
        BY <1>1, <1>9, <1>10 DEF UniqueOK
      <3>2. /\ \A i, l \in jobs': StartJob(i, a, b) /\ StartJob(l, a, b) => i = l
            /\ \A i, l \in jobs': AnswerJob(i, a, b) /\ AnswerJob(l, a, b) => i = l
        BY <1>1, <1>10 DEF UniqueOK
      <3> QED  BY <2>6, <3>1, <3>2 DEF UniqueOK, StartJob, AnswerJob
    <2>13. Forward(a, b)
      BY <2>4, <2>5, <2>7, <2>8, <2>9, <2>10, <2>11 DEF Forward
    <2> QED  BY <2>10, <2>12, <2>13
  <1>12. ASSUME NEW w \in Users PROVE StayOK(w)' /\ (Joining(w)' => Joining(w))
    <2>1. StayOK(w)
      BY DEF OfferInv
    <2>2. Described(j) \notin {JoinM} /\ Described(j) \notin {LeaveM}
      BY <1>2, <1>5, <1>8, SignalMatch
    <2>3. /\ Lacks(up'[w], {JoinM}) <=> Lacks(up[w], {JoinM})
          /\ One(up[w], {JoinM}) => One(up'[w], {JoinM})
          /\ Lacks(up'[w], {LeaveM}) <=> Lacks(up[w], {LeaveM})
      BY <1>6, <2>2
    <2> QED  BY <1>1, <2>1, <2>3 DEF StayOK, Joining, Opens
  <1>13. OfferInv'
    BY <1>11, <1>12, OffersKept
  <1>14. ASSUME NEW m \in PcIds, NEW a \in Users, NEW b \in Users, Known(m, a, b)'
         PROVE  Known(m, a, b) \/ (m = n /\ a = u /\ b = v /\ Able(j) /\ chan[u])
    <2>1. CASE ~Lacks(up'[a], NamingTo(b, m))
      <3>1. Described(j) \in NamingTo(b, m) <=> v = b /\ n = m
        BY <1>2, <1>5, <1>8, SignalMatch
      <3> QED  BY <1>6, <1>8, <2>1, <3>1 DEF Known
    <2>2. CASE ~Lacks(down'[b], NamingOf(a, m))
      BY <1>1, <2>2 DEF Known
    <2>3. CASE \E i \in jobs': i.own = b /\ i.peer = a /\ i.offer = m
      BY <1>1, <2>3 DEF Known
    <2>4. CASE \E l \in PcIds: Of(l, b, a)' /\ pcs'[l].remote = m
      <3>1. PICK l \in PcIds: Of(l, b, a) /\ pcs'[l].remote = m
        BY <1>9, <2>4
      <3>2. CASE pcs'[l].remote = pcs[l].remote
        BY <3>1, <3>2 DEF Known
      <3>3. CASE pcs'[l].remote # pcs[l].remote
        <4>1. l = n /\ Able(j)
          BY <1>4, <3>3
        <4>2. j.offer = m
          BY <1>4, <3>1, <3>3, <4>1
        <4>3. j.own = b /\ j.peer = a
          BY <1>3, <3>1, <4>1 DEF Of, u, v
        <4> QED  BY <4>2, <4>3 DEF Known
      <3> QED  BY <3>2, <3>3
    <2> QED  BY <1>14, <2>1, <2>2, <2>3, <2>4 DEF Known
  <1>15. ASSUME NEW a \in Users, NEW b \in Users PROVE PeerOK(a, b)'
    <2>1. CASE peers[a][b] = NoPc
      BY <1>1, <2>1 DEF PeerOK
    <2>2. CASE peers[a][b] # NoPc
      <3>1. PICK m \in PcIds: m = peers[a][b]
        BY <2>2, PeerIds
      <3>2. Of(m, a, b)' /\ Live(m)' /\ peers'[a][b] = m
        BY <1>1, <1>9, <2>2, <3>1 DEF LinkInv, PeerOK
      <3> QED  BY <3>2 DEF PeerOK, Of, Live, Used
    <2> QED  BY <2>1, <2>2
  <1>16. ASSUME NEW m \in PcIds, NEW a \in Users, NEW b \in Users PROVE KnownOK(m, a, b)'
    <2> SUFFICES ASSUME Known(m, a, b)'
                 PROVE  /\ pcs'[m].st # "free"
                        /\ Used(m)' => Of(m, a, b)'
                        /\ Live(m)' => chan'[a] /\ peers'[a][b] = m
      BY DEF KnownOK
    <2>1. CASE Known(m, a, b)
      BY <1>1, <1>4, <1>9, <2>1 DEF LinkInv, KnownOK
    <2>2. CASE m = n /\ a = u /\ b = v /\ Able(j) /\ chan[u]
      <3>1. pcs[n].st # "free"
        BY <1>3, <2>2 DEF Live
      <3> QED  BY <1>1, <1>2, <1>3, <1>4, <1>9, <2>2, <3>1
    <2> QED  BY <1>14, <2>1, <2>2
  <1>17. ASSUME NEW i \in jobs' PROVE JobOK(i)'
    <2>1. /\ JobOK(i) /\ i.own \in Users /\ i.peer \in Users /\ i \in jobs /\ i # j
          /\ i.stage # "spawned" => i.pc \in PcIds
      BY <1>1, TaskFacts
    <2>2. <<i.own, i.peer>> # <<u, v>>
      BY <1>7, <2>1
    <2>3. (Has(i.own, i.peer)' => Has(i.own, i.peer))
          /\ (i.stage # "spawned" => (Known(i.pc, i.own, i.peer)' => Known(i.pc, i.own, i.peer)))
      BY <1>11, <1>14, <2>1, <2>2
    <2>4. ASSUME i.stage # "spawned", Live(i.pc) PROVE pcs'[i.pc] = pcs[i.pc]
      <3>1. Of(i.pc, i.own, i.peer)
        BY <2>1, <2>4 DEF JobOK, Live, Used
      <3>2. ~(i.pc = n /\ Able(j))
        BY <1>3, <2>2, <3>1 DEF Of
      <3> QED  BY <1>4, <2>1, <2>4, <3>2
    <2>5. i.stage # "spawned" => /\ i.pc # NoPc /\ pcs'[i.pc].st # "free"
                                 /\ ~Known(i.pc, i.own, i.peer)'
                                 /\ Used(i.pc)' => Of(i.pc, i.own, i.peer)'
                                 /\ Live(i.pc)' => ~pcs'[i.pc].offered /\ pcs'[i.pc].remote = NoPc
      BY <1>4, <1>9, <2>1, <2>3, <2>4 DEF JobOK
    <2>6. i.stage = "spawned" => i.pc = NoPc /\ ~Has(i.own, i.peer)'
      BY <2>1, <2>3 DEF JobOK
    <2>7. i.stage = "built" => Live(i.pc)' /\ peers'[i.own][i.peer] = NoPc
      BY <1>1, <1>9, <2>1 DEF JobOK
    <2>8. i.stage = "registered" /\ Live(i.pc)' => peers'[i.own][i.peer] = i.pc
      BY <1>1, <1>9, <2>1 DEF JobOK
    <2> QED  BY <2>5, <2>6, <2>7, <2>8 DEF JobOK
  <1>18. ASSUME NEW m \in PcIds PROVE FoundOK(m)'
    <2>1. FoundOK(m) /\ pcs'[m].own = pcs[m].own /\ pcs'[m].peer = pcs[m].peer
          /\ (Live(m)' <=> Live(m))
      BY <1>4, <1>9 DEF LinkInv
    <2>2. ASSUME NEW i \in jobs, i.stage = "built" PROVE i \in jobs'
      BY <1>1, <2>2
    <2> QED  BY <1>1, <2>1, <2>2 DEF FoundOK
  <1> QED  BY <1>13, <1>15, <1>16, <1>17, <1>18 DEF LinkInv

\* A task that fails to describe its connection ends, and the connection stays.
LEMMA CalmOfDescribeFails ==
    ASSUME Typed, Typed', OfferInv, LinkInv, NEW j \in jobs, DescribeFails(j)
    PROVE  OfferInv' /\ LinkInv'
  <1> DEFINE u == j.own
             v == j.peer
             n == j.pc
  <1>1. /\ UNCHANGED <<chan, peers, up, down, occ, announce>> /\ Shapes
        /\ jobs' = jobs \ {j} /\ j.stage = "registered" /\ Able(j)
    BY DEF DescribeFails, client, server, Typed
  <1>2. u \in Users /\ v \in Users /\ n \in PcIds /\ n # NoPc /\ JobOK(j) /\ j \in Jobs
    BY <1>1, TaskFacts, SlotFacts
  <1>3. Live(n) /\ Of(n, u, v) /\ peers[u][v] = n
    BY <1>1, <1>2 DEF Able, JobOK, Live, Used
  <1>4. /\ \A m \in PcIds:
             /\ pcs'[m].own = pcs[m].own /\ pcs'[m].peer = pcs[m].peer /\ pcs'[m].st = pcs[m].st
             /\ m # n => pcs'[m] = pcs[m]
        /\ j.offer = NoPc => pcs'[n].remote = pcs[n].remote
        /\ j.offer # NoPc => pcs'[n].remote \in {pcs[n].remote, j.offer}
                             /\ pcs'[n].offered = pcs[n].offered
    BY <1>1, DescribeFailsEffect
  <1>5. \A i \in jobs: i # j => <<i.own, i.peer>> # <<u, v>>
    BY OneTask
  <1>6. /\ j.offer = NoPc => StartJob(j, u, v)
        /\ j.offer # NoPc => AnswerJob(j, v, u)
    BY DEF StartJob, AnswerJob
  <1>7. j.own = u /\ j.peer = v
    OBVIOUS
  <1> HIDE DEF u, v, n
  <1>8. \A m \in PcIds: /\ Live(m)' <=> Live(m)
                        /\ Used(m)' <=> Used(m)
                        /\ \A a, b: Of(m, a, b)' <=> Of(m, a, b)
    BY <1>4 DEF Live, Used, Of
  <1>9. ASSUME NEW a \in Users, NEW b \in Users
        PROVE  /\ Forward(a, b) /\ UniqueOK(a, b)'
               /\ Has(a, b)' => Has(a, b)
    <2>1. (Starts(a, b)' => Starts(a, b)) /\ (Taken(a, b)' => Taken(a, b))
      BY <1>1, FewerJobs
    <2>2. /\ Calls(a, b)' => Calls(a, b)
          /\ Sends(a, b)' => Sends(a, b)
          /\ Reaches(a, b)' => Reaches(a, b)
          /\ Replies(a, b)' => Replies(a, b)
      BY <1>1 DEF Calls, Opens, Sends, Reaches, Replies
    <2>3. Has(a, b)' => Has(a, b)
      BY <1>8 DEF Has
    <2>4. Offered(a, b)' => Offered(a, b) \/ Starts(a, b)
      <3> SUFFICES ASSUME NEW m \in PcIds, Of(m, a, b)', pcs'[m].offered, ~Offered(a, b)
                   PROVE  Starts(a, b)
        BY DEF Offered
      <3>1. Of(m, a, b) /\ ~pcs[m].offered
        BY <1>8 DEF Offered
      <3>2. m = n /\ j.offer = NoPc
        BY <1>4, <3>1
      <3>3. a = u /\ b = v
        BY <1>3, <3>1, <3>2 DEF Of
      <3> QED  BY <1>6, <3>2, <3>3 DEF Starts
    <2>5. UniqueOK(a, b)'
      <3>0. UniqueOK(a, b)
        BY DEF OfferInv
      <3>1. /\ One(up'[a], OffersTo(b)) /\ One(down'[b], OffersOf(a))
            /\ \A m, l \in PcIds: Of(m, a, b)' /\ Of(l, a, b)' => m = l
        BY <1>1, <1>8, <3>0 DEF UniqueOK
      <3>2. /\ \A i, l \in jobs': StartJob(i, a, b) /\ StartJob(l, a, b) => i = l
            /\ \A i, l \in jobs': AnswerJob(i, a, b) /\ AnswerJob(l, a, b) => i = l
        BY <1>1, <3>0 DEF UniqueOK
      <3> QED  BY <3>1, <3>2 DEF UniqueOK, StartJob, AnswerJob
    <2>6. Forward(a, b)
      BY <2>1, <2>2, <2>3, <2>4 DEF Forward
    <2> QED  BY <2>3, <2>5, <2>6
  <1>10. \A w \in Users: StayOK(w)' /\ (Joining(w)' => Joining(w))
    BY <1>1, UnchangedQueues
  <1>11. OfferInv'
    BY <1>9, <1>10, OffersKept
  <1>12. ASSUME NEW m \in PcIds, NEW a \in Users, NEW b \in Users, Known(m, a, b)' PROVE Known(m, a, b)
    <2>1. CASE ~Lacks(up'[a], NamingTo(b, m)) \/ ~Lacks(down'[b], NamingOf(a, m))
      BY <1>1, <2>1 DEF Known
    <2>2. CASE \E i \in jobs': i.own = b /\ i.peer = a /\ i.offer = m
      BY <1>1, <2>2 DEF Known
    <2>3. CASE \E l \in PcIds: Of(l, b, a)' /\ pcs'[l].remote = m
      <3>1. PICK l \in PcIds: Of(l, b, a) /\ pcs'[l].remote = m
        BY <1>8, <2>3
      <3>2. CASE pcs'[l].remote = pcs[l].remote
        BY <3>1, <3>2 DEF Known
      <3>3. CASE pcs'[l].remote # pcs[l].remote
        <4>1. l = n /\ j.offer = m
          BY <1>4, <3>1, <3>3
        <4>2. j.own = b /\ j.peer = a
          BY <1>3, <1>7, <3>1, <4>1 DEF Of
        <4> QED  BY <4>1, <4>2 DEF Known
      <3> QED  BY <3>2, <3>3
    <2> QED  BY <1>12, <2>1, <2>2, <2>3 DEF Known
  <1>13. ASSUME NEW a \in Users, NEW b \in Users PROVE PeerOK(a, b)'
    <2>1. CASE peers[a][b] = NoPc
      BY <1>1, <2>1 DEF PeerOK
    <2>2. CASE peers[a][b] # NoPc
      <3>1. PICK m \in PcIds: m = peers[a][b]
        BY <2>2, PeerIds
      <3>2. Of(m, a, b)' /\ Live(m)' /\ peers'[a][b] = m
        BY <1>1, <1>8, <2>2, <3>1 DEF LinkInv, PeerOK
      <3> QED  BY <3>2 DEF PeerOK, Of, Live, Used
    <2> QED  BY <2>1, <2>2
  <1>14. ASSUME NEW m \in PcIds, NEW a \in Users, NEW b \in Users PROVE KnownOK(m, a, b)'
    BY <1>1, <1>4, <1>8, <1>12 DEF LinkInv, KnownOK
  <1>15. ASSUME NEW i \in jobs' PROVE JobOK(i)'
    <2>1. /\ JobOK(i) /\ i.own \in Users /\ i.peer \in Users /\ i \in jobs /\ i # j
          /\ i.stage # "spawned" => i.pc \in PcIds
      BY <1>1, TaskFacts
    <2>2. <<i.own, i.peer>> # <<u, v>>
      BY <1>5, <2>1
    <2>3. (Has(i.own, i.peer)' => Has(i.own, i.peer))
          /\ (i.stage # "spawned" => (Known(i.pc, i.own, i.peer)' => Known(i.pc, i.own, i.peer)))
      BY <1>9, <1>12, <2>1
    <2>4. ASSUME i.stage # "spawned", Live(i.pc) PROVE pcs'[i.pc] = pcs[i.pc]
      <3>1. Of(i.pc, i.own, i.peer)
        BY <2>1, <2>4 DEF JobOK, Live, Used
      <3>2. i.pc # n
        BY <1>3, <2>2, <3>1 DEF Of
      <3> QED  BY <1>4, <2>1, <2>4, <3>2
    <2>5. i.stage # "spawned" => /\ i.pc # NoPc /\ pcs'[i.pc].st # "free"
                                 /\ ~Known(i.pc, i.own, i.peer)'
                                 /\ Used(i.pc)' => Of(i.pc, i.own, i.peer)'
                                 /\ Live(i.pc)' => ~pcs'[i.pc].offered /\ pcs'[i.pc].remote = NoPc
      BY <1>4, <1>8, <2>1, <2>3, <2>4 DEF JobOK
    <2>6. i.stage = "spawned" => i.pc = NoPc /\ ~Has(i.own, i.peer)'
      BY <2>1, <2>3 DEF JobOK
    <2>7. i.stage = "built" => Live(i.pc)' /\ peers'[i.own][i.peer] = NoPc
      BY <1>1, <1>8, <2>1 DEF JobOK
    <2>8. i.stage = "registered" /\ Live(i.pc)' => peers'[i.own][i.peer] = i.pc
      BY <1>1, <1>8, <2>1 DEF JobOK
    <2> QED  BY <2>5, <2>6, <2>7, <2>8 DEF JobOK
  <1>16. ASSUME NEW m \in PcIds PROVE FoundOK(m)'
    <2>1. FoundOK(m) /\ pcs'[m].own = pcs[m].own /\ pcs'[m].peer = pcs[m].peer
          /\ (Live(m)' <=> Live(m))
      BY <1>4, <1>8 DEF LinkInv
    <2>2. ASSUME NEW i \in jobs, i.stage = "built" PROVE i \in jobs'
      BY <1>1, <2>2
    <2> QED  BY <1>1, <2>1, <2>2 DEF FoundOK
  <1> QED  BY <1>11, <1>13, <1>14, <1>15, <1>16 DEF LinkInv
-----------------------------------------------------------------------------
(* As long as everybody comes back to a settled channel. *)

CalmInv == ~hasty => OfferInv /\ LinkInv

LEMMA CalmAtStart == Init => OfferInv /\ LinkInv
  <1> SUFFICES ASSUME Init PROVE OfferInv /\ LinkInv
    OBVIOUS
  <1>1. /\ \A u \in Users: up[u] = <<>> /\ down[u] = <<>> /\ ~chan[u] /\ ~Opens(u)
        /\ \A u, v \in Users: peers[u][v] = NoPc
        /\ \A n \in PcIds: pcs[n].st = "free" /\ ~Used(n) /\ ~Live(n)
        /\ jobs = {}
    BY DEF Init, NoJoin, FreePc, Used, Live, Opens
  <1>2. \A u \in Users: \A S: Lacks(up[u], S) /\ Lacks(down[u], S) /\ One(up[u], S) /\ One(down[u], S)
    BY <1>1, EmptyQueue
  <1>3. \A u, v \in Users: ~Offering(u, v) /\ ~Calls(u, v) /\ ~Starts(u, v) /\ ~Sends(u, v)
                           /\ ~Reaches(u, v) /\ ~Taken(u, v) /\ ~Has(u, v) /\ ~Replies(u, v)
    BY <1>1, <1>2 DEF Offering, Calls, Starts, Sends, Reaches, Taken, Offered, Has, Of, Replies
  <1>4. \A u \in Users: StayOK(u) /\ FreshOK(u)
    BY <1>1, <1>2 DEF StayOK, FreshOK, Joining
  <1>5. \A u, v \in Users: ChainOK(u, v)
    BY <1>3 DEF ChainOK
  <1>6. \A u, v \in Users: UniqueOK(u, v)
    BY <1>1, <1>2 DEF UniqueOK, Of
  <1>7. \A n \in PcIds: \A u, v \in Users: ~Known(n, u, v)
    BY <1>1, <1>2 DEF Known, Of
  <1> QED  BY <1>1, <1>4, <1>5, <1>6, <1>7 DEF OfferInv, LinkInv, PeerOK, KnownOK, FoundOK

LEMMA CalmPerUser ==
    ASSUME Typed, Typed', ListInv, OfferInv, LinkInv, NEW u \in Users, PerUser(u), ~hasty'
    PROVE  OfferInv' /\ LinkInv'
  <1>1. CASE OnCame(u) \/ (OnState(u) /\ ~chan[u])
    <2>1. down[u] # <<>> /\ Handled(u) /\ UNCHANGED <<chan, links, up, server>>
      BY <1>1 DEF OnCame, OnState, Event, links
    <2> QED  BY <2>1, CalmOfNews
  <1> QED  BY <1>1, CalmOfJoin, CalmOfLeave, CalmOfRecordJoin, CalmOfAnnounceJoin, CalmOfTakeLeave,
              CalmOfRoute, CalmOfDisconnect, CalmOfOnState, CalmOfOnGone, CalmOfOnOffer,
              CalmOfOnAnswer, CalmOfTaken DEF PerUser

LEMMA CalmStep ==
    ASSUME Typed, Typed', ListInv, CalmInv, [Next]_vars
    PROVE  CalmInv'
  <1> SUFFICES ASSUME ~hasty' PROVE OfferInv' /\ LinkInv'
    BY DEF CalmInv
  <1>0. ~hasty => OfferInv /\ LinkInv
    BY DEF CalmInv
  <1>1. ASSUME NEW u \in Users, PerUser(u) PROVE OfferInv' /\ LinkInv'
    <2>1. ~hasty
      BY <1>1 DEF PerUser, Join, Leave, RecordJoin, RefuseJoin, AnnounceJoin, TakeLeave, Route,
                  RouteFails, Disconnect, OnState, OnCame, OnGone, OnOffer, OnAnswer, history
    <2> QED  BY <1>0, <1>1, <2>1, CalmPerUser
  <1>2. ASSUME NEW j \in jobs, PerJob(j) PROVE OfferInv' /\ LinkInv'
    <2>1. ~hasty
      BY <1>2 DEF PerJob, BuildPeer, BuildFails, RegisterPeer, Describe, DescribeFails, history
    <2> QED  BY <1>0, <1>2, <2>1, CalmOfBuild, CalmOfBuildFails, CalmOfRegister, CalmOfDescribe,
                CalmOfDescribeFails DEF PerJob
  <1>3. ASSUME NEW n \in PcIds, PerPc(n) PROVE OfferInv' /\ LinkInv'
    <2>1. ~hasty
      BY <1>3 DEF PerPc, Closed, Stranded, Drop, history
    <2> QED  BY <1>0, <1>3, <2>1, CalmOfPerPc
  <1>4. CASE UNCHANGED vars
    <2>1. UNCHANGED <<chan, peers, pcs, jobs, up, down, occ, announce, hasty>>
      BY <1>4 DEF vars, client, links, server, history
    <2>2. OfferInv /\ LinkInv
      BY <1>0, <2>1
    <2>3. /\ FewerSignals
          /\ \A a, b \in Users: Calls(a, b)' => Calls(a, b)
          /\ \A w \in Users: StayOK(w)' /\ (Joining(w)' => Joining(w))
      BY <2>1, <2>2, UnchangedQueues
    <2>4. Hung
      BY <2>1, <2>2, NothingHungUp
    <2> QED  BY <2>1, <2>2, <2>3, <2>4, CalmWithLess
  <1> QED  BY <1>1, <1>2, <1>3, <1>4 DEF Next

LEMMA CalmHolds == Spec => [](Typed /\ ListInv /\ CalmInv)
  <1>1. Init => Typed /\ ListInv /\ CalmInv
    BY TypedAtStart, ListAtStart, CalmAtStart DEF CalmInv
  <1>2. Typed /\ ListInv /\ CalmInv /\ [Next]_vars => Typed' /\ ListInv' /\ CalmInv'
    BY ListStep, CalmStep
  <1> QED  BY <1>1, <1>2, PTL DEF Spec

LEMMA OneOffers == Typed /\ CalmInv => OneOfferer
  <1> SUFFICES ASSUME Typed, CalmInv, ~hasty, NEW n \in PcIds, NEW m \in PcIds, Live(n), Live(m),
                      pcs[n].own = pcs[m].peer, pcs[m].own = pcs[n].peer,
                      pcs[n].offered, pcs[m].offered
               PROVE  FALSE
    BY DEF OneOfferer
  <1> DEFINE u == pcs[n].own
             v == pcs[n].peer
  <1>1. u \in Users /\ v \in Users
    BY DEF Typed, Owned, Used, Live
  <1>2. Offering(u, v) /\ Offering(v, u)
    BY DEF Offering, Offered, Of, Used, Live
  <1>3. ChainOK(u, v)
    BY <1>1 DEF CalmInv, OfferInv
  <1> QED  BY <1>2, <1>3 DEF ChainOK

\* Two connections that both offered (voice.rs, ensure_peer_offer) never face each other: the
\* one who came later offers, unless a user came back before an earlier stay was settled.
THEOREM OneSideOffers == Spec => []OneOfferer
  BY CalmHolds, OneOffers, PTL

LEMMA NoneOrphaned == Typed /\ CalmInv => NoOrphan
  <1> SUFFICES ASSUME Typed, CalmInv, ~hasty, NEW n \in PcIds
               PROVE  /\ Linked(n) => chan[pcs[n].own]
                      /\ Live(n) => peers[pcs[n].own][pcs[n].peer] = n \/ \E j \in jobs: j.pc = n
    BY DEF NoOrphan
  <1>0. LinkInv
    BY DEF CalmInv
  <1>1. ASSUME Linked(n) PROVE chan[pcs[n].own]
    <2> DEFINE m == pcs[n].remote
               u == pcs[n].own
               v == pcs[n].peer
    <2>1. Live(n) /\ Live(m) /\ pcs[m].remote = n
      BY <1>1 DEF Linked
    <2>2. u \in Users /\ v \in Users /\ Of(n, u, v)
      BY <2>1 DEF Typed, Owned, Of, Used, Live
    <2>3. m \in PcIds
      <3>1. pcs[n] \in Pcs
        BY DEF Typed, Shapes
      <3> QED  BY <2>1, <3>1 DEF Pcs, Slots, Live
    <2>4. Known(m, v, u)
      BY <2>2 DEF Known
    <2>5. Of(m, v, u)
      BY <1>0, <2>1, <2>2, <2>3, <2>4 DEF LinkInv, KnownOK, Live, Used
    <2>6. Known(n, u, v)
      BY <2>1, <2>3, <2>5 DEF Known
    <2> QED  BY <1>0, <2>1, <2>2, <2>6 DEF LinkInv, KnownOK
  <1>2. ASSUME Live(n) PROVE peers[pcs[n].own][pcs[n].peer] = n \/ \E j \in jobs: j.pc = n
    BY <1>0, <1>2 DEF LinkInv, FoundOK
  <1> QED  BY <1>1, <1>2

\* No connection outlives the stay, and one that is open is in the table or in a task's hands
\* (voice.rs, leave, hangup_peer and establish_peer), unless a user came back too early.
THEOREM NothingOrphaned == Spec => []NoOrphan
  BY CalmHolds, NoneOrphaned, PTL
-----------------------------------------------------------------------------
(* The mesh, as long as no connection in use is lost.  Two users who are     *)
(* both in the channel have no connection that is closed, and one of them    *)
(* calls the other until each has the other's.                               *)

Both(u, v) == u # v /\ chan[u] /\ chan[v]
Feeds(u, v, n) == tracks[u][v] = n

AliveOK(u, v) == Both(u, v) =>
  /\ \A n \in PcIds: Of(n, u, v) \/ Known(n, u, v) => Live(n)
  /\ \A j \in jobs: j.own = u /\ j.peer = v /\ j.stage # "spawned" => Live(j.pc)

Fed(j) == j.stage # "spawned" => Feeds(j.own, j.peer, j.pc)
StartsFed(a, b) == \E j \in jobs: StartJob(j, a, b) /\ Fed(j)
Begun(a, b) == LET n == peers[a][b] IN n # NoPc /\ Feeds(a, b, n) /\ pcs[n].offered
Signalled(k, a, b, n) == ~Lacks(up[a], {ToUp(k, b, n)}) \/ ~Lacks(down[b], {FromDown(k, a, n)})
OnItsWay(a, b, n) ==
  Signalled("offer", a, b, n) \/ \E j \in jobs: j.own = b /\ j.peer = a /\ j.offer = n /\ Fed(j)
OfferOut(a, b) == Begun(a, b) /\ pcs[peers[a][b]].remote = NoPc /\ OnItsWay(a, b, peers[a][b])
Answered(a, b) == LET n == peers[a][b]  m == peers[b][a] IN
  /\ Begun(a, b) /\ m # NoPc /\ Feeds(b, a, m) /\ pcs[m].remote = n
  /\ pcs[n].remote = m \/ (pcs[n].remote = NoPc /\ Signalled("answer", b, a, m))
Met(a, b) == Calls(a, b) \/ StartsFed(a, b) \/ OfferOut(a, b) \/ Answered(a, b)
MetOK(u, v) == Both(u, v) => Joining(u) \/ Joining(v) \/ Met(u, v) \/ Met(v, u)

MeshOK == \A u, v \in Users: AliveOK(u, v) /\ MetOK(u, v)

LEMMA AliveKept ==
    ASSUME Typed, LinkInv, NEW u \in Users, NEW v \in Users, AliveOK(u, v), Both(u, v)' => Both(u, v),
           \A n \in PcIds: /\ Of(n, u, v)' => Of(n, u, v) \/ Live(n)'
                           /\ Known(n, u, v)' => Known(n, u, v) \/ Live(n)'
                           /\ Of(n, u, v) /\ Live(n) => Live(n)',
           \A j \in jobs': j.own = u /\ j.peer = v /\ j.stage # "spawned" =>
             \/ j.pc # NoPc /\ pcs'[j.pc].st = "live"
             \/ \E k \in jobs: k.own = u /\ k.peer = v /\ k.stage # "spawned" /\ k.pc = j.pc
    PROVE  AliveOK(u, v)'
  <1> SUFFICES ASSUME Both(u, v)' PROVE AliveOK(u, v)'
    BY DEF AliveOK
  <1>1. /\ \A n \in PcIds: Of(n, u, v) \/ Known(n, u, v) => Live(n)
        /\ \A j \in jobs: j.own = u /\ j.peer = v /\ j.stage # "spawned" => Live(j.pc)
    BY DEF AliveOK
  <1>2. ASSUME NEW n \in PcIds, Of(n, u, v) \/ Known(n, u, v) PROVE Live(n)'
    <2>1. Live(n) /\ Used(n)
      BY <1>1, <1>2 DEF Live, Used
    <2>2. Of(n, u, v)
      BY <1>2, <2>1 DEF LinkInv, KnownOK
    <2> QED  BY <2>1, <2>2
  <1>3. ASSUME NEW n \in PcIds, Of(n, u, v)' \/ Known(n, u, v)' PROVE Live(n)'
    BY <1>2, <1>3
  <1>4. ASSUME NEW j \in jobs', j.own = u, j.peer = v, j.stage # "spawned"
        PROVE  j.pc # NoPc /\ pcs'[j.pc].st = "live"
    <2>1. CASE j.pc # NoPc /\ pcs'[j.pc].st = "live"
      BY <2>1
    <2>2. CASE \E k \in jobs: k.own = u /\ k.peer = v /\ k.stage # "spawned" /\ k.pc = j.pc
      <3>1. PICK k \in jobs: k.own = u /\ k.peer = v /\ k.stage # "spawned" /\ k.pc = j.pc
        BY <2>2
      <3>2. Live(k.pc) /\ JobOK(k) /\ k.pc \in PcIds
        BY <1>1, <3>1, TaskFacts
      <3>3. Of(k.pc, u, v)
        BY <3>1, <3>2 DEF JobOK, Used, Live
      <3>4. Live(k.pc)'
        BY <1>2, <3>2, <3>3
      <3>5. pcs'[k.pc].st = "live" /\ k.pc # NoPc
        BY <3>2, <3>4 DEF Live
      <3> QED  BY <3>1, <3>5
    <2> QED  BY <1>4, <2>1, <2>2
  <1>5. \A j \in jobs': j.own = u /\ j.peer = v /\ j.stage # "spawned" => Live(j.pc)'
    BY <1>4 DEF Live
  <1> QED  BY <1>3, <1>5 DEF AliveOK

\* The call of a to b goes on.
GoesOn(a, b) ==
  /\ Joining(a) => Joining(a)' \/ Joining(b)' \/ Calls(a, b)'
  /\ Calls(a, b) => Calls(a, b)' \/ StartsFed(a, b)'
  /\ StartsFed(a, b) => StartsFed(a, b)' \/ OfferOut(a, b)'
  /\ OfferOut(a, b) => OfferOut(a, b)' \/ Answered(a, b)'
  /\ Answered(a, b) => Answered(a, b)'

LEMMA MetKept ==
    ASSUME NEW u \in Users, NEW v \in Users, MetOK(u, v), Both(u, v)' => Both(u, v),
           GoesOn(u, v), GoesOn(v, u)
    PROVE  MetOK(u, v)'
  <1> SUFFICES ASSUME Both(u, v)'
               PROVE  Joining(u)' \/ Joining(v)' \/ Met(u, v)' \/ Met(v, u)'
    BY DEF MetOK
  <1>1. Joining(u) \/ Joining(v) \/ Met(u, v) \/ Met(v, u)
    BY DEF MetOK
  <1> QED  BY <1>1 DEF GoesOn, Met

\* What there is between a and b is as it was, except that tasks are started.
SamePair(a, b) ==
  /\ peers'[a][b] = peers[a][b] /\ tracks'[a][b] = tracks[a][b]
  /\ \A n \in PcIds: /\ Of(n, a, b)' => Of(n, a, b)
                     /\ Of(n, a, b) => pcs'[n] = pcs[n]
                     /\ Known(n, a, b)' => Known(n, a, b)
                     /\ \A k \in {"offer", "answer"}: Signalled(k, a, b, n) => Signalled(k, a, b, n)'
  /\ \A j \in jobs: j.own = a /\ j.peer = b => j \in jobs'
  /\ \A j \in jobs': j.own = a /\ j.peer = b => j \in jobs \/ j.stage = "spawned"
  /\ Joining(a) => Joining(a)' \/ Joining(b)' \/ Calls(a, b)'
  /\ Calls(a, b) => Calls(a, b)' \/ StartsFed(a, b)'

LEMMA SameGoesOn ==
    ASSUME Typed, LinkInv, NEW a \in Users, NEW b \in Users, SamePair(a, b), SamePair(b, a)
    PROVE  GoesOn(a, b)
  <1> DEFINE n == peers[a][b]
             m == peers[b][a]
  <1>1. n # NoPc => n \in PcIds /\ Of(n, a, b) /\ pcs'[n] = pcs[n]
    <2>1. n # NoPc => n \in PcIds /\ Of(n, a, b)
      BY PeerIds DEF LinkInv, PeerOK
    <2> QED  BY <2>1 DEF SamePair
  <1>2. m # NoPc => m \in PcIds /\ Of(m, b, a) /\ pcs'[m] = pcs[m]
    <2>1. m # NoPc => m \in PcIds /\ Of(m, b, a)
      BY PeerIds DEF LinkInv, PeerOK
    <2> QED  BY <2>1 DEF SamePair
  <1>3. peers'[a][b] = n /\ peers'[b][a] = m /\ tracks'[a][b] = tracks[a][b] /\ tracks'[b][a] = tracks[b][a]
    BY DEF SamePair
  <1>4. \A j \in jobs: (j.own = a /\ j.peer = b) \/ (j.own = b /\ j.peer = a) => (Fed(j) => Fed(j)')
    BY <1>3 DEF Fed, Feeds
  <1>5. StartsFed(a, b) => StartsFed(a, b)'
    BY <1>4 DEF StartsFed, StartJob, SamePair
  <1>6. Begun(a, b) => Begun(a, b)' /\ n \in PcIds /\ pcs'[n] = pcs[n]
    BY <1>1, <1>3 DEF Begun, Feeds
  <1>7. OfferOut(a, b) => OfferOut(a, b)'
    <2>1. ASSUME Begun(a, b), OnItsWay(a, b, n) PROVE OnItsWay(a, b, n)'
      <3>1. n \in PcIds
        BY <1>6, <2>1
      <3>2. (\E j \in jobs: j.own = b /\ j.peer = a /\ j.offer = n /\ Fed(j))
              => (\E j \in jobs': j.own = b /\ j.peer = a /\ j.offer = n /\ Fed(j)')
        BY <1>4 DEF SamePair
      <3>3. \A x \in PcIds: Signalled("offer", a, b, x) => Signalled("offer", a, b, x)'
        BY DEF SamePair
      <3>4. n' = n
        BY <1>3
      <3> HIDE DEF n
      <3> QED  BY <2>1, <3>1, <3>2, <3>3, <3>4 DEF OnItsWay, Signalled
    <2>2. n' = n
      BY <1>3
    <2> QED  BY <1>6, <2>1, <2>2 DEF OfferOut
  <1>8. Answered(a, b) => Answered(a, b)'
    <2> SUFFICES ASSUME Answered(a, b) PROVE Answered(a, b)'
      OBVIOUS
    <2>1. /\ Begun(a, b) /\ m # NoPc /\ Feeds(b, a, m) /\ pcs[m].remote = n
          /\ pcs[n].remote = m \/ (pcs[n].remote = NoPc /\ Signalled("answer", b, a, m))
      BY DEF Answered
    <2>2. n \in PcIds /\ m \in PcIds /\ pcs'[n] = pcs[n] /\ pcs'[m] = pcs[m] /\ Begun(a, b)'
      BY <1>2, <1>6, <2>1
    <2>3. \A x \in PcIds: Signalled("answer", b, a, x) => Signalled("answer", b, a, x)'
      BY DEF SamePair
    <2> QED  BY <1>3, <2>1, <2>2, <2>3 DEF Answered, Feeds, Signalled
  <1> QED  BY <1>5, <1>7, <1>8 DEF GoesOn, SamePair

LEMMA SameAlive ==
    ASSUME Typed, LinkInv, NEW a \in Users, NEW b \in Users, SamePair(a, b), AliveOK(a, b),
           Both(a, b)' => Both(a, b)
    PROVE  AliveOK(a, b)'
  <1>1. \A n \in PcIds: Of(n, a, b) /\ Live(n) => Live(n)'
    BY DEF SamePair, Live
  <1>2. \A n \in PcIds: (Of(n, a, b)' => Of(n, a, b)) /\ (Known(n, a, b)' => Known(n, a, b))
    BY DEF SamePair
  <1>3. \A j \in jobs': j.own = a /\ j.peer = b /\ j.stage # "spawned" => j \in jobs
    BY DEF SamePair
  <1> QED  BY <1>1, <1>2, <1>3, AliveKept

LEMMA SameMesh ==
    ASSUME Typed, LinkInv, MeshOK, NEW a \in Users, NEW b \in Users,
           Both(a, b)' => Both(a, b) /\ SamePair(a, b) /\ SamePair(b, a)
    PROVE  AliveOK(a, b)' /\ MetOK(a, b)'
  <1>1. CASE ~Both(a, b)'
    BY <1>1 DEF AliveOK, MetOK
  <1>2. CASE Both(a, b)'
    BY <1>2, SameAlive, SameGoesOn, MetKept DEF MeshOK
  <1> QED  BY <1>1, <1>2
-----------------------------------------------------------------------------
(* Steps that leave two users alone who are both in the channel.             *)

SameSignals(a, b) ==
  \A n \in PcIds: \A k \in {"offer", "answer"}: Signalled(k, a, b, n)' <=> Signalled(k, a, b, n)
SamePcs(a, b) ==
  /\ peers'[a][b] = peers[a][b] /\ tracks'[a][b] = tracks[a][b]
  /\ \A n \in PcIds: (Of(n, a, b)' => Of(n, a, b)) /\ (Of(n, a, b) => pcs'[n] = pcs[n])
SameJobs(a, b) ==
  /\ \A j \in jobs: j.own = a /\ j.peer = b => j \in jobs'
  /\ \A j \in jobs': j.own = a /\ j.peer = b => j \in jobs \/ (j.stage = "spawned" /\ j.offer = NoPc)
SameCalls(a, b) ==
  /\ Joining(a) => Joining(a)' \/ Joining(b)' \/ Calls(a, b)'
  /\ Calls(a, b) => Calls(a, b)' \/ StartsFed(a, b)'

LEMMA KnownByWhat ==
    ASSUME NEW n \in PcIds, NEW a \in Users, NEW b \in Users
    PROVE  /\ Known(n, a, b) <=>
                \/ \E k \in {"offer", "answer"}: Signalled(k, a, b, n)
                \/ \E j \in jobs: j.own = b /\ j.peer = a /\ j.offer = n
                \/ \E m \in PcIds: Of(m, b, a) /\ pcs[m].remote = n
           /\ Known(n, a, b)' <=>
                \/ \E k \in {"offer", "answer"}: Signalled(k, a, b, n)'
                \/ \E j \in jobs': j.own = b /\ j.peer = a /\ j.offer = n
                \/ \E m \in PcIds: Of(m, b, a)' /\ pcs'[m].remote = n
  <1>1. \A s: Lacks(s, NamingTo(b, n)) <=> Lacks(s, {ToUp("offer", b, n)}) /\ Lacks(s, {ToUp("answer", b, n)})
    BY DEF Lacks, NamingTo
  <1>2. \A s: Lacks(s, NamingOf(a, n)) <=> Lacks(s, {FromDown("offer", a, n)}) /\ Lacks(s, {FromDown("answer", a, n)})
    BY DEF Lacks, NamingOf
  <1> QED  BY <1>1, <1>2 DEF Known, Signalled

LEMMA PairIsSame ==
    ASSUME NEW a \in Users, NEW b \in Users, SameSignals(a, b), SamePcs(a, b), SamePcs(b, a),
           SameJobs(a, b), SameJobs(b, a), SameCalls(a, b)
    PROVE  SamePair(a, b)
  <1>1. ASSUME NEW n \in PcIds, Known(n, a, b)' PROVE Known(n, a, b)
    <2>1. CASE \E k \in {"offer", "answer"}: Signalled(k, a, b, n)'
      BY <2>1, KnownByWhat DEF SameSignals
    <2>3. CASE \E j \in jobs': j.own = b /\ j.peer = a /\ j.offer = n
      <3>1. n # NoPc
        BY SlotFacts
      <3>2. \E j \in jobs: j.own = b /\ j.peer = a /\ j.offer = n
        BY <2>3, <3>1 DEF SameJobs
      <3> QED  BY <3>2 DEF Known
    <2>4. CASE \E m \in PcIds: Of(m, b, a)' /\ pcs'[m].remote = n
      <3>1. \E m \in PcIds: Of(m, b, a) /\ pcs[m].remote = n
        BY <2>4 DEF SamePcs
      <3> QED  BY <3>1 DEF Known
    <2> QED  BY <1>1, <2>1, <2>3, <2>4, KnownByWhat
  <1>2. \A n \in PcIds: \A k \in {"offer", "answer"}: Signalled(k, a, b, n) => Signalled(k, a, b, n)'
    BY DEF SameSignals
  <1>3. \A n \in PcIds: (Of(n, a, b)' => Of(n, a, b)) /\ (Of(n, a, b) => pcs'[n] = pcs[n])
    BY DEF SamePcs
  <1>4. /\ \A j \in jobs: j.own = a /\ j.peer = b => j \in jobs'
        /\ \A j \in jobs': j.own = a /\ j.peer = b => j \in jobs \/ j.stage = "spawned"
    BY DEF SameJobs
  <1> QED  BY <1>1, <1>2, <1>3, <1>4 DEF SamePair, SamePcs, SameCalls

LEMMA MeshOfPairs ==
    ASSUME Typed, LinkInv, MeshOK,
           \A a, b \in Users: Both(a, b)' =>
             Both(a, b) /\ SameSignals(a, b) /\ SamePcs(a, b) /\ SameJobs(a, b) /\ SameCalls(a, b)
    PROVE  MeshOK'
  <1>1. ASSUME NEW a \in Users, NEW b \in Users PROVE AliveOK(a, b)' /\ MetOK(a, b)'
    <2>1. Both(a, b)' => Both(b, a)'
      BY DEF Both
    <2>2. Both(a, b)' => Both(a, b) /\ SamePair(a, b) /\ SamePair(b, a)
      BY <2>1, PairIsSame
    <2> QED  BY <2>2, SameMesh
  <1> QED  BY <1>1 DEF MeshOK

\* Two records of the same connection.
LEMMA KeptIsSame ==
    ASSUME Typed, Typed', NEW m \in PcIds, NEW ns, Kept(m, ns), m \notin ns
    PROVE  pcs'[m] = pcs[m]
  <1>1. pcs[m] \in Pcs /\ pcs'[m] \in Pcs
    BY DEF Typed, Shapes
  <1>2. /\ pcs[m] = [own |-> pcs[m].own, peer |-> pcs[m].peer, st |-> pcs[m].st,
                     offered |-> pcs[m].offered, remote |-> pcs[m].remote]
        /\ pcs'[m] = [own |-> pcs'[m].own, peer |-> pcs'[m].peer, st |-> pcs'[m].st,
                      offered |-> pcs'[m].offered, remote |-> pcs'[m].remote]
    BY <1>1 DEF Pcs
  <1>3. /\ pcs'[m].own = pcs[m].own /\ pcs'[m].peer = pcs[m].peer /\ pcs'[m].st = pcs[m].st
        /\ pcs'[m].offered = pcs[m].offered /\ pcs'[m].remote = pcs[m].remote
    BY DEF Kept
  <1> QED  BY <1>2, <1>3

\* The connections of another pair are hung up.
LEMMA HungElsewhere ==
    ASSUME Typed, Typed', LinkInv, NEW u \in Users, NEW x \in Users, OnePeerGone(u, x), NEW ns,
           \A m \in ns: m = peers[u][x] \/ Of(m, u, x),
           \A m \in PcIds: Kept(m, ns) \/ (Of(m, u, x) /\ ~Used(m)'),
           NEW a \in Users, NEW b \in Users, <<a, b>> # <<u, x>>
    PROVE  SamePcs(a, b)
  <1>1. peers'[a][b] = peers[a][b] /\ tracks'[a][b] = tracks[a][b]
    BY DEF OnePeerGone
  <1>2. ASSUME NEW n \in PcIds, Of(n, a, b) PROVE pcs'[n] = pcs[n]
    <2>1. ~Of(n, u, x)
      BY <1>2 DEF Of
    <2>2. n # peers[u][x]
      <3>1. n # NoPc
        BY SlotFacts
      <3> QED  BY <2>1, <3>1 DEF LinkInv, PeerOK
    <2> QED  BY <2>1, <2>2, KeptIsSame
  <1>3. ASSUME NEW n \in PcIds, Of(n, a, b)' PROVE Of(n, a, b)
    BY <1>3 DEF Kept, Of, Used
  <1> QED  BY <1>1, <1>2, <1>3 DEF SamePcs

LEMMA AllHungElsewhere ==
    ASSUME Typed, Typed', LinkInv, NEW u \in Users, AllPeersGone(u), NEW a \in Users \ {u}, NEW b \in Users
    PROVE  SamePcs(a, b)
  <1>1. peers'[a][b] = peers[a][b] /\ tracks'[a][b] = tracks[a][b]
    BY DEF AllPeersGone
  <1>2. ASSUME NEW n \in PcIds, Of(n, a, b) PROVE pcs'[n] = pcs[n]
    <2>1. n \notin {peers[u][v]: v \in Users}
      <3>1. n # NoPc
        BY SlotFacts
      <3> QED  BY <1>2, <3>1 DEF LinkInv, PeerOK, Of
    <2> QED  BY <2>1, KeptIsSame DEF AllPeersGone
  <1>3. ASSUME NEW n \in PcIds, Of(n, a, b)' PROVE Of(n, a, b)
    BY <1>3 DEF AllPeersGone, Kept, Of, Used
  <1> QED  BY <1>1, <1>2, <1>3 DEF SamePcs

LEMMA NothingHungElsewhere ==
    ASSUME UNCHANGED <<peers, tracks, pcs>>, NEW a \in Users, NEW b \in Users
    PROVE  SamePcs(a, b)
  BY DEF SamePcs, Of, Used

\* A client takes news.
LEMMA NewsKeepSignals ==
    ASSUME Shapes, NEW u \in Users, down[u] # <<>>, Handled(u), Head(down[u]) \notin DownSignals,
           UNCHANGED <<up, announce>>, NEW a \in Users, NEW b \in Users,
           a = u => Head(down[u]) \notin States
    PROVE  SameSignals(a, b) /\ SameCalls(a, b)
  <1>1. \A w \in Users: \A S: Head(down[u]) \notin S => (Lacks(down'[w], S) <=> Lacks(down[w], S))
    BY DownTaken
  <1>2. SameSignals(a, b)
    <2>1. ASSUME NEW n \in PcIds, NEW k \in {"offer", "answer"}
          PROVE  Lacks(down'[b], {FromDown(k, a, n)}) <=> Lacks(down[b], {FromDown(k, a, n)})
      <3>1. FromDown(k, a, n) \in DownSignals
        BY SignalMatch
      <3> QED  BY <1>1, <3>1
    <2> QED  BY <2>1 DEF SameSignals, Signalled
  <1>3. Lacks(down'[a], StatesWith(b)) <=> Lacks(down[a], StatesWith(b))
    <2>1. CASE a = u
      <3>1. Head(down[u]) \notin StatesWith(b)
        BY <2>1 DEF StatesWith
      <3> QED  BY <1>1, <3>1
    <2>2. CASE a # u
      BY <2>2, DownTaken
    <2> QED  BY <2>1, <2>2
  <1> QED  BY <1>2, <1>3 DEF SameCalls, Joining, Calls, Opens
-----------------------------------------------------------------------------
(* Connections are only hung up once one of the two has left.                *)

LEMMA SameQueues ==
    ASSUME NEW a \in Users, NEW b \in Users, up'[a] = up[a], down'[b] = down[b]
    PROVE  SameSignals(a, b)
  BY DEF SameSignals, Signalled

LEMMA MeshOfPerPc ==
    ASSUME Typed, Typed', OfferInv, LinkInv, MeshOK, NEW n \in PcIds, PerPc(n), ~dropped'
    PROVE  MeshOK'
  <1> DEFINE u == pcs[n].own
             v == pcs[n].peer
  <1>1. CASE Drop(n)
    BY <1>1 DEF Drop
  <1>2. ASSUME u \in Users, v \in Users, ~Both(u, v), OnePeerGone(u, v),
               UNCHANGED <<chan, jobs, up, down, announce>>,
               NEW ns, \A m \in ns: m = peers[u][v] \/ Of(m, u, v),
               \A m \in PcIds: Kept(m, ns) \/ (Of(m, u, v) /\ ~Used(m)')
        PROVE  MeshOK'
    <2>1. ASSUME NEW a \in Users, NEW b \in Users, Both(a, b)'
          PROVE  Both(a, b) /\ SameSignals(a, b) /\ SamePcs(a, b) /\ SameJobs(a, b) /\ SameCalls(a, b)
      <3>1. Both(a, b) /\ <<a, b>> # <<u, v>>
        BY <1>2, <2>1 DEF Both
      <3> HIDE DEF u, v
      <3>2. SamePcs(a, b)
        BY <1>2, <3>1, HungElsewhere
      <3> QED  BY <1>2, <3>1, <3>2, SameQueues DEF SameJobs, SameCalls, Joining, Calls, Opens
    <2> QED  BY <2>1, MeshOfPairs
  <1>3. CASE Closed(n)
    <2>1. /\ u \in Users /\ v \in Users /\ pcs[n].st = "closing" /\ OnePeerGone(u, v)
          /\ pcs'[n].st = "closed" /\ \A m \in PcIds \ {n}: Kept(m, {peers[u][v]})
      BY <1>3, ClosedEffect
    <2>2. Of(n, u, v) /\ ~Used(n)' /\ ~Live(n)
      BY <2>1 DEF Of, Used, Live
    <2>3. ~Both(u, v)
      BY <2>1, <2>2 DEF MeshOK, AliveOK
    <2>4. UNCHANGED <<chan, jobs, up, down, announce>>
      BY <1>3 DEF Closed, client, server
    <2> QED  BY <1>2, <2>1, <2>2, <2>3, <2>4
  <1>4. CASE Stranded(n)
    <2>1. /\ u \in Users /\ v \in Users /\ Live(n) /\ OnePeerGone(u, v)
          /\ \A m \in PcIds: Kept(m, {n, peers[u][v]})
      BY <1>4, StrandedEffect
    <2>2. Of(n, u, v)
      BY <2>1 DEF Of, Used, Live
    <2>3. pcs[n].remote \in PcIds /\ ~Live(pcs[n].remote)
      <3>1. pcs[n] \in Pcs
        BY DEF Typed, Shapes
      <3> QED  BY <1>4, <3>1 DEF Stranded, Pcs, Slots
    <2>4. Known(pcs[n].remote, v, u)
      BY <2>2 DEF Known
    <2>5. ~Both(u, v)
      BY <2>1, <2>3, <2>4 DEF MeshOK, AliveOK, Both
    <2>6. UNCHANGED <<chan, jobs, up, down, announce>>
      BY <1>4 DEF Stranded, client, server
    <2> QED  BY <1>2, <2>1, <2>2, <2>5, <2>6
  <1> QED  BY <1>1, <1>3, <1>4 DEF PerPc

LEMMA MeshOfOnGone ==
    ASSUME Typed, Typed', OfferInv, LinkInv, MeshOK, NEW u \in Users, OnGone(u)
    PROVE  MeshOK'
  <1> DEFINE x == Head(down[u]).user
  <1>1. /\ down[u] # <<>> /\ Handled(u) /\ UNCHANGED <<chan, up, announce, jobs>> /\ Shapes
        /\ x \in Users /\ Head(down[u]) = Gone(x)
        /\ chan[u] => OnePeerGone(u, x) /\ \A m \in PcIds: Kept(m, {peers[u][x]})
        /\ ~chan[u] => UNCHANGED <<peers, tracks, pcs>>
    BY OnGoneEffect DEF OnGone, Event, server, Typed
  <1> HIDE DEF x
  <1>2. Head(down[u]) \notin DownSignals /\ Head(down[u]) \notin States
    BY <1>1, SignalKinds
  <1>3. ~chan[x]
    <2>1. ~Lacks(down[u], {Gone(x)})
      BY <1>1, DownTaken
    <2> QED  BY <1>1, <2>1 DEF OfferInv, StayOK
  <1>4. ASSUME NEW a \in Users, NEW b \in Users, Both(a, b)'
        PROVE  Both(a, b) /\ SameSignals(a, b) /\ SamePcs(a, b) /\ SameJobs(a, b) /\ SameCalls(a, b)
    <2>1. Both(a, b) /\ <<a, b>> # <<u, x>>
      BY <1>1, <1>3, <1>4 DEF Both
    <2>2. SamePcs(a, b)
      <3>1. CASE chan[u]
        <4>1. \A m \in {peers[u][x]}: m = peers[u][x] \/ Of(m, u, x)
          OBVIOUS
        <4> QED  BY <1>1, <2>1, <3>1, <4>1, HungElsewhere
      <3>2. CASE ~chan[u]
        BY <1>1, <3>2, NothingHungElsewhere
      <3> QED  BY <3>1, <3>2
    <2> QED  BY <1>1, <1>2, <2>1, <2>2, NewsKeepSignals DEF SameJobs
  <1> QED  BY <1>4, MeshOfPairs

LEMMA MeshOfNews ==
    ASSUME Typed, Typed', OfferInv, LinkInv, MeshOK, NEW u \in Users,
           down[u] # <<>>, Handled(u), UNCHANGED <<chan, links, up, server>>,
           Head(down[u]) \notin DownSignals, chan[u] => Head(down[u]) \notin States
    PROVE  MeshOK'
  <1>1. UNCHANGED <<chan, up, announce, jobs, peers, tracks, pcs>> /\ Shapes
    BY DEF Typed, links, server
  <1>2. ASSUME NEW a \in Users, NEW b \in Users, Both(a, b)'
        PROVE  Both(a, b) /\ SameSignals(a, b) /\ SamePcs(a, b) /\ SameJobs(a, b) /\ SameCalls(a, b)
    <2>1. Both(a, b) /\ (a = u => Head(down[u]) \notin States)
      BY <1>1, <1>2 DEF Both
    <2> QED  BY <1>1, <2>1, NewsKeepSignals, NothingHungElsewhere DEF SameJobs
  <1> QED  BY <1>2, MeshOfPairs

\* News of those who have left are sent to everybody else.
LEMMA UnseatKeeps ==
    ASSUME Shapes, NEW u \in Users, NEW blind, Unseat(u, down, blind), UNCHANGED announce,
           NEW a \in Users \ {u}, NEW b \in Users, up'[a] = up[a]
    PROVE  SameSignals(a, b) /\ SameCalls(a, b)
  <1>1. \A w \in Users: \A S: Gone(u) \notin S => (Lacks(down'[w], S) <=> Lacks(down[w], S))
    BY DownOfUnseat
  <1>2. ASSUME NEW n \in PcIds, NEW k \in {"offer", "answer"}
        PROVE  Lacks(down'[b], {FromDown(k, a, n)}) <=> Lacks(down[b], {FromDown(k, a, n)})
    <2>1. Gone(u) \notin {FromDown(k, a, n)}
      BY SignalMatch
    <2> QED  BY <1>1, <2>1
  <1>3. Lacks(down'[a], StatesWith(b)) <=> Lacks(down[a], StatesWith(b))
    <2>1. Gone(u) \notin StatesWith(b)
      BY Kinds
    <2> QED  BY <1>1, <2>1
  <1> QED  BY <1>2, <1>3 DEF SameSignals, Signalled, SameCalls, Joining, Calls, Opens

LEMMA MeshOfTakeLeave ==
    ASSUME Typed, Typed', OfferInv, LinkInv, MeshOK, NEW u \in Users, TakeLeave(u)
    PROVE  MeshOK'
  <1>1. /\ up[u] # <<>> /\ Took(u) /\ Head(up[u]) = LeaveM /\ Shapes
        /\ \E blind \in SUBSET (Users \ {u}): Unseat(u, down, blind)
        /\ UNCHANGED <<chan, announce, jobs, peers, tracks, pcs>>
    <2>1. Head(up[u]) = LeaveM
      BY HeadTyped, UpFields DEF TakeLeave, Sent, LeaveM, Typed
    <2> QED  BY <2>1 DEF TakeLeave, Sent, client, links, Typed
  <1>2. ~chan[u] /\ \A w \in Users \ {u}: up'[w] = up[w]
    <2>1. ~Lacks(up[u], {LeaveM}) /\ \A w \in Users \ {u}: up'[w] = up[w]
      BY <1>1, UpTaken
    <2> QED  BY <2>1 DEF OfferInv, StayOK
  <1>3. ASSUME NEW a \in Users, NEW b \in Users, Both(a, b)'
        PROVE  Both(a, b) /\ SameSignals(a, b) /\ SamePcs(a, b) /\ SameJobs(a, b) /\ SameCalls(a, b)
    <2>1. Both(a, b) /\ a # u
      BY <1>1, <1>2, <1>3 DEF Both
    <2> QED  BY <1>1, <1>2, <2>1, UnseatKeeps, NothingHungElsewhere DEF SameJobs
  <1> QED  BY <1>3, MeshOfPairs

LEMMA MeshOfDisconnect ==
    ASSUME Typed, Typed', OfferInv, LinkInv, MeshOK, NEW u \in Users, Disconnect(u)
    PROVE  MeshOK'
  <1>1. /\ \E blind \in SUBSET (Users \ {u}): Unseat(u, down, blind)
        /\ UNCHANGED <<announce, jobs>> /\ Shapes
        /\ ~chan'[u] /\ \A w \in Users \ {u}: chan'[w] = chan[w]
    BY DEF Disconnect, Typed, Shapes
  <1>2. \A w \in Users \ {u}: up'[w] = up[w]
    BY <1>1, UpOfDisconnect
  <1>3. \A a \in Users \ {u}: \A b \in Users: SamePcs(a, b)
    <2>1. CASE chan[u]
      <3>1. AllPeersGone(u)
        BY <1>1, <2>1, HangupAllFacts DEF Disconnect
      <3> QED  BY <3>1, AllHungElsewhere
    <2>2. CASE ~chan[u]
      <3>1. UNCHANGED <<peers, tracks, pcs>>
        BY <2>2 DEF Disconnect
      <3> QED  BY <3>1, NothingHungElsewhere
    <2> QED  BY <2>1, <2>2
  <1>4. ASSUME NEW a \in Users, NEW b \in Users, Both(a, b)'
        PROVE  Both(a, b) /\ SameSignals(a, b) /\ SamePcs(a, b) /\ SameJobs(a, b) /\ SameCalls(a, b)
    <2>1. Both(a, b) /\ a # u
      BY <1>1, <1>4 DEF Both
    <2> QED  BY <1>1, <1>2, <1>3, <2>1, UnseatKeeps DEF SameJobs
  <1> QED  BY <1>4, MeshOfPairs

LEMMA MeshOfLeave ==
    ASSUME Typed, Typed', OfferInv, LinkInv, MeshOK, NEW u \in Users, Leave(u)
    PROVE  MeshOK'
  <1>1. /\ UNCHANGED <<down, announce, jobs>> /\ Shapes
        /\ ~chan'[u] /\ \A w \in Users \ {u}: chan'[w] = chan[w] /\ up'[w] = up[w]
    BY DEF Leave, Typed, Shapes, server
  <1>2. AllPeersGone(u)
    BY <1>1, LeaveEffect
  <1>3. ASSUME NEW a \in Users, NEW b \in Users, Both(a, b)'
        PROVE  Both(a, b) /\ SameSignals(a, b) /\ SamePcs(a, b) /\ SameJobs(a, b) /\ SameCalls(a, b)
    <2>1. Both(a, b) /\ a # u
      BY <1>1, <1>3 DEF Both
    <2>2. SamePcs(a, b)
      BY <1>2, <2>1, AllHungElsewhere
    <2>3. SameSignals(a, b)
      BY <1>1, <2>1, SameQueues
    <2> QED  BY <1>1, <2>1, <2>2, <2>3 DEF SameJobs, SameCalls, Joining, Calls, Opens
  <1> QED  BY <1>3, MeshOfPairs
-----------------------------------------------------------------------------
(* Who comes calls those who are there.                                      *)

LEMMA MeshOfAnnounceJoin ==
    ASSUME Typed, Typed', ListInv, OfferInv, LinkInv, MeshOK, NEW u \in Users, AnnounceJoin(u)
    PROVE  MeshOK'
  <1>1. /\ UNCHANGED <<chan, up, jobs, peers, tracks, pcs>> /\ Shapes
        /\ \A w \in Users \ {u}: announce'[w] = announce[w]
    BY DEF AnnounceJoin, Typed, Shapes, client, links
  <1>2. /\ StateOf(u) \in States
        /\ \A S: Lacks(down'[u], S) <=> Lacks(down[u], S) /\ StateOf(u) \notin S
    BY <1>1, DownOfAnnounce
  <1>3. \A w \in Users \ {u}: \E told \in BOOLEAN:
          \A S: Lacks(down'[w], S) <=> Lacks(down[w], S) /\ ~(told /\ Came(u) \in S)
    BY <1>1, DownOfAnnounce
  <1>4. ASSUME NEW a \in Users, NEW b \in Users, Both(a, b)'
        PROVE  Both(a, b) /\ SameSignals(a, b) /\ SamePcs(a, b) /\ SameJobs(a, b) /\ SameCalls(a, b)
    <2>1. SameSignals(a, b)
      <3>1. ASSUME NEW n \in PcIds, NEW k \in {"offer", "answer"}
            PROVE  Lacks(down'[b], {FromDown(k, a, n)}) <=> Lacks(down[b], {FromDown(k, a, n)})
        <4>1. FromDown(k, a, n) \in DownSignals
          BY SignalMatch
        <4>2. Came(u) \notin {FromDown(k, a, n)} /\ StateOf(u) \notin {FromDown(k, a, n)}
          BY <1>2, <4>1, SignalKinds
        <4>3. CASE b = u
          BY <1>2, <4>2, <4>3
        <4>4. CASE b # u
          BY <1>3, <4>2, <4>4
        <4> QED  BY <4>3, <4>4
      <3> QED  BY <1>1, <3>1 DEF SameSignals, Signalled
    <2>2. Calls(a, b) => Calls(a, b)'
      <3>1. CASE a = u
        <4>1. b \in announce[u].users => StateOf(u) \in StatesWith(b)
          BY <1>2 DEF StatesWith, StateOf
        <4> QED  BY <1>2, <3>1, <4>1 DEF Calls
      <3>2. CASE a # u
        <4>1. ~Lacks(down[a], StatesWith(b)) => ~Lacks(down'[a], StatesWith(b))
          BY <1>3, <3>2
        <4> QED  BY <1>1, <3>2, <4>1 DEF Calls, Opens
      <3> QED  BY <3>1, <3>2
    <2> QED  BY <1>1, <1>4, <2>1, <2>2, NothingHungElsewhere DEF SameJobs, SameCalls, Joining, Both
  <1> QED  BY <1>4, MeshOfPairs

\* Whoever is in the channel, and has not just asked to join, is known to the server.
LEMMA OccupantsKnown ==
    ASSUME ListInv, OfferInv, ~refused, NEW a \in Users, chan[a], ~Joining(a)
    PROVE  a \in occ
  <1>1. Lacks(up[a], {JoinM}) /\ Lacks(up[a], {LeaveM})
    BY DEF OfferInv, StayOK, Joining
  <1>2. Lacks(up[a], Cmds)
    BY <1>1 DEF Lacks, Cmds
  <1> QED  BY <1>2 DEF ListInv, CommandsOK

LEMMA MeshOfRecordJoin ==
    ASSUME Typed, Typed', ListInv, OfferInv, LinkInv, MeshOK, ~refused, NEW u \in Users, RecordJoin(u)
    PROVE  MeshOK'
  <1>1. /\ up[u] # <<>> /\ Took(u) /\ Head(up[u]) = JoinM /\ Shapes /\ ~Opens(u)
        /\ UNCHANGED <<chan, down, jobs, peers, tracks, pcs>>
    <2>1. Head(up[u]) = JoinM
      BY HeadTyped, UpFields DEF RecordJoin, Sent, JoinM, Typed
    <2> QED  BY <2>1 DEF RecordJoin, Sent, client, links, Typed, Opens
  <1>2. /\ \A w \in Users \ {u}: announce'[w] = announce[w]
        /\ announce'[u].users = occ \ {u} /\ announce'[u].open
    BY <1>1 DEF RecordJoin, Shapes
  <1>3. \A w \in Users: \A S: JoinM \notin S \/ w # u => (Lacks(up'[w], S) <=> Lacks(up[w], S))
    BY <1>1, UpTaken
  <1>4. ASSUME NEW a \in Users, NEW b \in Users, Both(a, b)'
        PROVE  Both(a, b) /\ SameSignals(a, b) /\ SamePcs(a, b) /\ SameJobs(a, b) /\ SameCalls(a, b)
    <2>0. Both(a, b) /\ a # b
      BY <1>1, <1>4 DEF Both
    <2>1. SameSignals(a, b)
      <3>1. ASSUME NEW n \in PcIds, NEW k \in {"offer", "answer"}
            PROVE  Lacks(up'[a], {ToUp(k, b, n)}) <=> Lacks(up[a], {ToUp(k, b, n)})
        <4>1. JoinM \notin {ToUp(k, b, n)}
          BY SignalMatch
        <4> QED  BY <1>3, <4>1
      <3> QED  BY <1>1, <3>1 DEF SameSignals, Signalled
    <2>2. Calls(a, b) => Calls(a, b)'
      BY <1>1, <1>2 DEF Calls, Opens
    <2>3. Joining(a) => Joining(a)' \/ Joining(b)' \/ Calls(a, b)'
      <3>1. CASE a = u
        <4>1. Joining(b) \/ b \in occ
          BY <2>0, OccupantsKnown DEF Both
        <4>2. Joining(b) => Joining(b)'
          BY <1>3, <2>0, <3>1 DEF Joining
        <4>3. b \in occ => Calls(a, b)'
          BY <1>2, <2>0, <3>1 DEF Calls, Opens
        <4> QED  BY <4>1, <4>2, <4>3
      <3>2. CASE a # u
        BY <1>3, <3>2 DEF Joining
      <3> QED  BY <3>1, <3>2
    <2> QED  BY <1>1, <2>0, <2>1, <2>2, <2>3, NothingHungElsewhere DEF SameJobs, SameCalls
  <1> QED  BY <1>4, MeshOfPairs

LEMMA MeshOfJoin ==
    ASSUME Typed, Typed', ListInv, OfferInv, LinkInv, MeshOK, NEW u \in Users, Join(u), ~hasty'
    PROVE  MeshOK'
  <1>0. ~Residue(u) /\ Shapes
    BY DEF Join, Typed
  <1>1. ~chan[u] /\ up[u] = <<>>
        /\ \A v \in Users: /\ Apart(u, v) /\ Apart(v, u)
                           /\ \A n \in PcIds: ~Known(n, u, v) /\ ~Known(n, v, u)
    BY <1>0, NothingLeft
  <1>2. /\ UNCHANGED <<down, announce, jobs, peers, tracks, pcs>>
        /\ \A w \in Users \ {u}: chan'[w] = chan[w]
    BY <1>0, <1>1 DEF Join, server, Shapes
  <1>3. /\ \A w \in Users \ {u}: up'[w] = up[w]
        /\ up'[u] = Append(up[u], JoinM) /\ up[u] \in Seq(UpMessages) /\ JoinM \in UpMessages
    BY <1>0, <1>1, UpOfJoin
  <1>4. \A S: Lacks(up'[u], S) <=> Lacks(up[u], S) /\ JoinM \notin S
    BY <1>3, MoreMessages
  <1>5. \A j \in jobs: u # j.own /\ u # j.peer
    BY <1>0 DEF Residue
  <1>6. ASSUME NEW a \in Users, NEW b \in Users
        PROVE  SameSignals(a, b)
    <2>1. ASSUME NEW n \in PcIds, NEW k \in {"offer", "answer"}
          PROVE  Lacks(up'[a], {ToUp(k, b, n)}) <=> Lacks(up[a], {ToUp(k, b, n)})
      <3>1. JoinM \notin {ToUp(k, b, n)}
        BY SignalMatch
      <3>2. CASE a = u
        BY <1>4, <3>1, <3>2
      <3>3. CASE a # u
        BY <1>3, <3>3
      <3> QED  BY <3>2, <3>3
    <2> QED  BY <1>2, <2>1 DEF SameSignals, Signalled
  <1>7. ASSUME NEW a \in Users, NEW b \in Users PROVE SamePair(a, b)
    <2>1. SameCalls(a, b)
      <3>1. Joining(a) => Joining(a)'
        <4>1. CASE a = u
          BY <1>1, <4>1, EmptyQueue DEF Joining
        <4>2. CASE a # u
          BY <1>3, <4>2 DEF Joining
        <4> QED  BY <4>1, <4>2
      <3> QED  BY <1>2, <3>1 DEF SameCalls, Calls, Opens
    <2>2. SamePcs(a, b) /\ SamePcs(b, a)
      BY <1>2, NothingHungElsewhere
    <2> QED  BY <1>2, <1>6, <2>1, <2>2, PairIsSame DEF SameJobs
  <1>8. Joining(u)'
    BY <1>4 DEF Joining
  <1>9. ASSUME NEW a \in Users, NEW b \in Users, Both(a, b)', a = u \/ b = u
        PROVE  AliveOK(a, b)' /\ MetOK(a, b)'
    <2>1. ~Has(a, b) /\ \A n \in PcIds: ~Known(n, a, b)
      BY <1>1, <1>9 DEF Apart
    <2>2. \A n \in PcIds: ~Of(n, a, b)' /\ ~Known(n, a, b)'
      <3>1. \A n \in PcIds: ~Of(n, a, b)
        BY <2>1 DEF Has
      <3> QED  BY <1>7, <2>1, <3>1 DEF SamePair
    <2>3. \A j \in jobs': ~(j.own = a /\ j.peer = b)
      BY <1>2, <1>5, <1>9
    <2> QED  BY <1>8, <1>9, <2>2, <2>3 DEF AliveOK, MetOK
  <1>10. ASSUME NEW a \in Users, NEW b \in Users PROVE AliveOK(a, b)' /\ MetOK(a, b)'
    <2>1. CASE ~Both(a, b)'
      BY <2>1 DEF AliveOK, MetOK
    <2>2. CASE Both(a, b)' /\ (a = u \/ b = u)
      BY <1>9, <2>2
    <2>3. CASE a # u /\ b # u
      <3>1. Both(a, b)' => Both(a, b)
        BY <1>2, <2>3 DEF Both
      <3> QED  BY <1>7, <3>1, SameMesh
    <2> QED  BY <2>1, <2>2, <2>3
  <1> QED  BY <1>10 DEF MeshOK

\* u's client starts a task for everybody on the list.
LEMMA MeshOfOnState ==
    ASSUME Typed, Typed', OfferInv, LinkInv, MeshOK, NEW u \in Users, OnState(u), chan[u]
    PROVE  MeshOK'
  <1> DEFINE users == Head(down[u]).users
             new == {NewJob(u, v, NoPc): v \in {w \in users: peers[u][w] = NoPc}}
  <1>1. /\ down[u] # <<>> /\ Handled(u) /\ UNCHANGED <<chan, up, announce, peers, tracks, pcs>>
        /\ jobs' = jobs \union new /\ Shapes
    BY DEF OnState, Event, server, Typed
  <1>2. Head(down[u]) \in States /\ users \in SUBSET Users
    <2>1. Head(down[u]) \in DownMessages /\ Head(down[u]).kind = "state"
      BY <1>1, HeadTyped DEF OnState, Event
    <2> QED  BY <2>1, DownFields DEF States
  <1>3. \A j \in new: j.own = u /\ j.stage = "spawned" /\ j.offer = NoPc
    BY NewJobFields
  <1>4. \A w \in Users: \A S: Head(down[u]) \notin S \/ w # u => (Lacks(down'[w], S) <=> Lacks(down[w], S))
    BY <1>1, DownTaken
  <1>5. ASSUME NEW b \in Users, Calls(u, b) PROVE Calls(u, b)' \/ StartsFed(u, b)'
    <2>1. peers[u][b] = NoPc
      <3>1. ~Has(u, b)
        BY <1>5 DEF OfferInv, ChainOK
      <3> QED  BY <3>1, PeerIds DEF LinkInv, PeerOK, Has
    <2>2. CASE Head(down[u]) \notin StatesWith(b)
      BY <1>1, <1>4, <1>5, <2>2 DEF Calls, Opens
    <2>3. CASE Head(down[u]) \in StatesWith(b)
      <3> DEFINE j == NewJob(u, b, NoPc)
      <3>1. b \in users
        BY <2>3 DEF StatesWith
      <3>2. j \in jobs'
        BY <1>1, <2>1, <3>1
      <3>3. j.own = u /\ j.peer = b /\ j.stage = "spawned" /\ j.offer = NoPc
        BY NewJobFields
      <3> HIDE DEF j
      <3> QED  BY <3>2, <3>3 DEF StartsFed, StartJob, Fed
    <2> QED  BY <2>2, <2>3
  <1> HIDE DEF new, users
  <1>6. ASSUME NEW a \in Users, NEW b \in Users, Both(a, b)'
        PROVE  Both(a, b) /\ SameSignals(a, b) /\ SamePcs(a, b) /\ SameJobs(a, b) /\ SameCalls(a, b)
    <2>1. SameSignals(a, b)
      <3>1. ASSUME NEW n \in PcIds, NEW k \in {"offer", "answer"}
            PROVE  Lacks(down'[b], {FromDown(k, a, n)}) <=> Lacks(down[b], {FromDown(k, a, n)})
        <4>1. Head(down[u]) \notin {FromDown(k, a, n)}
          BY <1>2, SignalMatch
        <4> QED  BY <1>4, <4>1
      <3> QED  BY <1>1, <3>1 DEF SameSignals, Signalled
    <2>2. SameJobs(a, b)
      BY <1>1, <1>3 DEF SameJobs
    <2>3. SameCalls(a, b)
      <3>1. Calls(a, b) => Calls(a, b)' \/ StartsFed(a, b)'
        <4>1. CASE a = u
          BY <1>5, <4>1
        <4>2. CASE a # u
          BY <1>1, <1>4, <4>2 DEF Calls, Opens
        <4> QED  BY <4>1, <4>2
      <3> QED  BY <1>1, <3>1 DEF SameCalls, Joining
    <2> QED  BY <1>1, <1>6, <2>1, <2>2, <2>3, NothingHungElsewhere DEF Both
  <1> QED  BY <1>6, MeshOfPairs
-----------------------------------------------------------------------------
(* Signals move on.                                                          *)

\* A step that is about u and x.
LEMMA MeshOfPair ==
    ASSUME Typed, LinkInv, MeshOK, NEW u \in Users, NEW x \in Users, chan' = chan,
           \A a, b \in Users: Both(a, b) /\ <<a, b>> # <<u, x>> /\ <<a, b>> # <<x, u>> =>
             SameSignals(a, b) /\ SamePcs(a, b) /\ SameJobs(a, b) /\ SameCalls(a, b),
           Both(u, x) => AliveOK(u, x)' /\ AliveOK(x, u)' /\ GoesOn(u, x) /\ GoesOn(x, u)
    PROVE  MeshOK'
  <1>0. \A a, b \in Users: Both(a, b)' <=> Both(a, b)
    BY DEF Both
  <1>1. ASSUME NEW a \in Users, NEW b \in Users PROVE AliveOK(a, b)' /\ MetOK(a, b)'
    <2>1. CASE ~Both(a, b)
      BY <1>0, <2>1 DEF AliveOK, MetOK
    <2>2. CASE Both(a, b) /\ <<a, b>> # <<u, x>> /\ <<a, b>> # <<x, u>>
      <3>1. Both(b, a) /\ <<b, a>> # <<u, x>> /\ <<b, a>> # <<x, u>>
        BY <2>2 DEF Both
      <3>2. SamePair(a, b) /\ SamePair(b, a)
        BY <2>2, <3>1, PairIsSame
      <3> QED  BY <1>0, <3>2, SameMesh
    <2>3. CASE Both(a, b) /\ ((a = u /\ b = x) \/ (a = x /\ b = u))
      <3>1. Both(u, x) /\ AliveOK(a, b)' /\ GoesOn(a, b) /\ GoesOn(b, a)
        BY <2>3 DEF Both
      <3>2. MetOK(a, b)'
        BY <1>0, <3>1, MetKept DEF MeshOK
      <3> QED  BY <3>1, <3>2
    <2> QED  BY <2>1, <2>2, <2>3
  <1> QED  BY <1>1 DEF MeshOK

LEMMA MetOffers ==
    ASSUME Typed, LinkInv, NEW a \in Users, NEW b \in Users
    PROVE  /\ Begun(a, b) => Offered(a, b) /\ Has(a, b) /\ peers[a][b] \in PcIds /\ Of(peers[a][b], a, b)
           /\ StartsFed(a, b) => Starts(a, b)
           /\ Calls(a, b) \/ StartsFed(a, b) \/ OfferOut(a, b) \/ Answered(a, b) => Offering(a, b)
  <1>1. Begun(a, b) => Offered(a, b) /\ Has(a, b) /\ peers[a][b] \in PcIds /\ Of(peers[a][b], a, b)
    BY PeerIds DEF LinkInv, PeerOK, Begun, Offered, Has
  <1>2. StartsFed(a, b) => Starts(a, b)
    BY DEF StartsFed, Starts
  <1> QED  BY <1>1, <1>2 DEF OfferOut, Answered, Offering

LEMMA SignalsOffer ==
    ASSUME NEW a \in Users, NEW b \in Users, NEW n \in PcIds
    PROVE  /\ Signalled("offer", a, b, n) => Sends(a, b) \/ Reaches(a, b)
           /\ Signalled("answer", b, a, n) => Replies(a, b)
  <1>1. /\ {ToUp("offer", b, n)} \subseteq OffersTo(b) /\ {FromDown("offer", a, n)} \subseteq OffersOf(a)
        /\ {ToUp("answer", a, n)} \subseteq AnswersTo(a) /\ {FromDown("answer", b, n)} \subseteq AnswersOf(b)
    BY SignalMatch
  <1> QED  BY <1>1, FewerKinds DEF Signalled, Sends, Reaches, Replies

\* Those who offer and answer have joined.
LEMMA NobodyJoins ==
    ASSUME OfferInv, NEW a \in Users, NEW b \in Users, Both(a, b),
           Offering(a, b) \/ Offering(b, a) \/ Replies(a, b) \/ Replies(b, a)
    PROVE  ~Joining(a) /\ ~Joining(b)
  BY DEF OfferInv, FreshOK, Apart

LEMMA MeshOfRoute ==
    ASSUME Typed, Typed', ListInv, OfferInv, LinkInv, MeshOK, ~refused, NEW u \in Users, Route(u)
    PROVE  MeshOK'
  <1>1. /\ up[u] # <<>> /\ Took(u) /\ Shapes
        /\ UNCHANGED <<chan, announce, jobs, peers, tracks, pcs>>
    BY DEF Route, Sent, Typed, client, links, server
  <1>2. PICK x \in Users, c \in PcIds, k \in {"offer", "answer"}:
          /\ Head(up[u]) = ToUp(k, x, c) /\ Passed(u) = FromDown(k, u, c) /\ x = Head(up[u]).to
    BY <1>1, DownOfRoute DEF Passed
  <1>3. \A w \in Users: \A S: Lacks(down'[w], S) <=> Lacks(down[w], S) /\ ~({u, x} \subseteq occ /\ w = x /\ FromDown(k, u, c) \in S)
    BY <1>1, <1>2, DownOfRoute DEF Passes
  <1>4. /\ \A w \in Users \ {u}: up'[w] = up[w]
        /\ \A S: Lacks(up[u], S) <=> Lacks(up'[u], S) /\ ToUp(k, x, c) \notin S
    BY <1>1, <1>2, UpTaken
  <1>5. ASSUME NEW a \in Users, NEW b \in Users, Both(a, b)'
        PROVE  Both(a, b) /\ SameSignals(a, b) /\ SamePcs(a, b) /\ SameJobs(a, b) /\ SameCalls(a, b)
    <2>0. Both(a, b)
      BY <1>1, <1>5 DEF Both
    <2>1. ASSUME NEW n \in PcIds, NEW l \in {"offer", "answer"}
          PROVE  Signalled(l, a, b, n)' <=> Signalled(l, a, b, n)
      <3>1. /\ ToUp(k, x, c) \in {ToUp(l, b, n)} <=> k = l /\ x = b /\ c = n
            /\ FromDown(k, u, c) \in {FromDown(l, a, n)} <=> k = l /\ u = a /\ c = n
        BY DEF ToUp, FromDown
      <3>2. CASE a = u /\ b = x /\ k = l /\ c = n
        <4>1. ~Lacks(up[u], {ToUp(k, x, c)})
          BY <1>4
        <4>2. Signalled(k, u, x, c)
          BY <4>1 DEF Signalled
        <4>3. {u, x} \subseteq occ
          <5>1. ~Joining(u) /\ ~Joining(x) /\ chan[u] /\ chan[x]
            BY <2>0, <3>2, <4>2, SignalsOffer, NobodyJoins DEF Offering, Both
          <5> QED  BY <5>1, OccupantsKnown
        <4>4. ~Lacks(down'[x], {FromDown(k, u, c)})
          BY <1>3, <4>3
        <4> QED  BY <3>2, <4>2, <4>4 DEF Signalled
      <3>3. CASE ~(a = u /\ b = x /\ k = l /\ c = n)
        <4>1. Lacks(up'[a], {ToUp(l, b, n)}) <=> Lacks(up[a], {ToUp(l, b, n)})
          BY <1>4, <3>1, <3>3
        <4>2. Lacks(down'[b], {FromDown(l, a, n)}) <=> Lacks(down[b], {FromDown(l, a, n)})
          BY <1>3, <3>1, <3>3
        <4> QED  BY <4>1, <4>2 DEF Signalled
      <3> QED  BY <3>2, <3>3
    <2>2. SameSignals(a, b)
      BY <2>1 DEF SameSignals
    <2>3. SameCalls(a, b)
      <3>1. FromDown(k, u, c) \notin StatesWith(b) /\ ToUp(k, x, c) \notin {JoinM}
        BY Kinds, SignalMatch
      <3>2. Lacks(down'[a], StatesWith(b)) <=> Lacks(down[a], StatesWith(b))
        BY <1>3, <3>1
      <3>3. Lacks(up'[a], {JoinM}) <=> Lacks(up[a], {JoinM})
        BY <1>4, <3>1
      <3> QED  BY <1>1, <3>2, <3>3 DEF SameCalls, Joining, Calls, Opens
    <2> QED  BY <1>1, <2>0, <2>2, <2>3, NothingHungElsewhere DEF SameJobs
  <1> QED  BY <1>5, MeshOfPairs

\* A client takes a signal: the others' are as they were.
LEMMA TakenSignal ==
    ASSUME Shapes, NEW u \in Users, down[u] # <<>>, Handled(u), UNCHANGED <<up, announce>>,
           NEW k \in {"offer", "answer"}, NEW x \in Users, NEW c \in PcIds,
           Head(down[u]) = FromDown(k, x, c), NEW a \in Users, NEW b \in Users
    PROVE  /\ \A l \in {"offer", "answer"}: \A n \in PcIds:
                <<l, a, b, n>> # <<k, x, u, c>> => (Signalled(l, a, b, n)' <=> Signalled(l, a, b, n))
           /\ \A l \in {"offer", "answer"}: \A n \in PcIds: Signalled(l, a, b, n)' => Signalled(l, a, b, n)
           /\ Signalled(k, x, u, c)
           /\ SameCalls(a, b) /\ (Joining(a)' <=> Joining(a)) /\ (Calls(a, b)' <=> Calls(a, b))
  <1>1. \A S: Lacks(down[u], S) <=> Lacks(down'[u], S) /\ FromDown(k, x, c) \notin S
    BY DownTaken
  <1>2. \A w \in Users \ {u}: down'[w] = down[w]
    BY DownTaken
  <1>3. ASSUME NEW l \in {"offer", "answer"}, NEW n \in PcIds
        PROVE  /\ <<l, a, b, n>> # <<k, x, u, c>> => (Signalled(l, a, b, n)' <=> Signalled(l, a, b, n))
               /\ Signalled(l, a, b, n)' => Signalled(l, a, b, n)
    <2>1. FromDown(k, x, c) \in {FromDown(l, a, n)} <=> k = l /\ x = a /\ c = n
      BY DEF FromDown
    <2>2. CASE b = u
      BY <1>1, <2>1, <2>2 DEF Signalled
    <2>3. CASE b # u
      BY <1>2, <2>3 DEF Signalled
    <2> QED  BY <2>2, <2>3
  <1>4. Lacks(down'[a], StatesWith(b)) <=> Lacks(down[a], StatesWith(b))
    <2>1. FromDown(k, x, c) \notin StatesWith(b)
      BY Kinds
    <2> QED  BY <1>1, <1>2, <2>1
  <1>5. Signalled(k, x, u, c)
    BY <1>1 DEF Signalled
  <1> QED  BY <1>3, <1>4, <1>5 DEF SameCalls, Joining, Calls, Opens
LEMMA MeshOfOnOffer ==
    ASSUME Typed, Typed', OfferInv, LinkInv, MeshOK, NEW u \in Users, OnOffer(u)
    PROVE  MeshOK'
  <1>0. Shapes
    BY DEF Typed
  <1>1. /\ down[u] # <<>> /\ Handled(u) /\ UNCHANGED <<chan, up, announce, peers, tracks, pcs>>
    BY DEF OnOffer, Event, server, client
  <1>2. PICK x \in Users, c \in PcIds:
          /\ Head(down[u]) = FromDown("offer", x, c)
          /\ jobs' = jobs \union {NewJob(u, x, c)}
    <2>1. Head(down[u]) \in DownMessages /\ Head(down[u]).kind = "offer"
      BY <1>0, <1>1, HeadTyped DEF OnOffer, Event
    <2> QED  BY <2>1, DownFields DEF FromDown, OnOffer
  <1> DEFINE j0 == NewJob(u, x, c)
  <1>3. j0.own = u /\ j0.peer = x /\ j0.stage = "spawned" /\ j0.offer = c
    BY NewJobFields
  <1>4. jobs' = jobs \union {j0}
    BY <1>2
  <1> HIDE DEF j0
  <1>5. \A a, b \in Users:
          /\ \A l \in {"offer", "answer"}: \A n \in PcIds:
               <<l, a, b, n>> # <<"offer", x, u, c>> => (Signalled(l, a, b, n)' <=> Signalled(l, a, b, n))
          /\ \A l \in {"offer", "answer"}: \A n \in PcIds: Signalled(l, a, b, n)' => Signalled(l, a, b, n)
          /\ Signalled("offer", x, u, c)
          /\ SameCalls(a, b)
    BY <1>0, <1>1, <1>2, TakenSignal
  <1>6. \A a, b \in Users: SamePcs(a, b)
    BY <1>1, NothingHungElsewhere
  <1>7. ASSUME NEW a \in Users, NEW b \in Users, <<a, b>> # <<u, x>>, <<a, b>> # <<x, u>>
        PROVE  SameSignals(a, b) /\ SamePcs(a, b) /\ SameJobs(a, b) /\ SameCalls(a, b)
    <2>1. SameSignals(a, b)
      <3>1. ASSUME NEW n \in PcIds, NEW l \in {"offer", "answer"}
            PROVE  Signalled(l, a, b, n)' <=> Signalled(l, a, b, n)
        <4>1. <<l, a, b, n>> # <<"offer", x, u, c>>
          BY <1>7
        <4> QED  BY <1>5, <4>1
      <3> QED  BY <3>1 DEF SameSignals
    <2>2. SameJobs(a, b)
      BY <1>3, <1>4, <1>7 DEF SameJobs
    <2> QED  BY <1>5, <1>6, <2>1, <2>2
  <1>8. ASSUME Both(u, x)
        PROVE  AliveOK(u, x)' /\ AliveOK(x, u)' /\ GoesOn(u, x) /\ GoesOn(x, u)
    <2>0. u # x /\ \A a, b \in Users: Both(a, b)' => Both(a, b)
      BY <1>1, <1>8 DEF Both
    <2>1. ASSUME NEW a \in Users, NEW b \in Users PROVE AliveOK(a, b)'
      <3>1. \A n \in PcIds: Known(n, a, b)' => Known(n, a, b)
        <4> SUFFICES ASSUME NEW n \in PcIds, Known(n, a, b)' PROVE Known(n, a, b)
          OBVIOUS
        <4>1. CASE \E k \in {"offer", "answer"}: Signalled(k, a, b, n)'
          BY <1>5, <4>1, KnownByWhat
        <4>2. CASE \E j \in jobs': j.own = b /\ j.peer = a /\ j.offer = n
          <5>1. PICK j \in jobs': j.own = b /\ j.peer = a /\ j.offer = n
            BY <4>2
          <5>2. CASE j \in jobs
            BY <5>1, <5>2, KnownByWhat
          <5>3. CASE j = j0
            <6>1. a = x /\ b = u /\ n = c
              BY <1>3, <5>1, <5>3
            <6> QED  BY <1>5, <6>1, KnownByWhat
          <5> QED  BY <1>4, <5>2, <5>3
        <4>3. CASE \E m \in PcIds: Of(m, b, a)' /\ pcs'[m].remote = n
          <5>1. \E m \in PcIds: Of(m, b, a) /\ pcs[m].remote = n
            BY <1>1, <4>3 DEF Of, Used
          <5> QED  BY <5>1, KnownByWhat
        <4> QED  BY <4>1, <4>2, <4>3, KnownByWhat
      <3>2. \A n \in PcIds: (Of(n, a, b)' <=> Of(n, a, b)) /\ (Live(n)' <=> Live(n))
        BY <1>1 DEF Of, Used, Live
      <3>3. \A j \in jobs': j.stage # "spawned" => j \in jobs
        BY <1>3, <1>4
      <3>4. AliveOK(a, b) /\ (Both(a, b)' => Both(a, b))
        BY <2>0 DEF MeshOK
      <3> QED  BY <3>1, <3>2, <3>3, <3>4, AliveKept
    <2>2. \A a, b \in Users: /\ peers'[a][b] = peers[a][b] /\ tracks'[a][b] = tracks[a][b]
                             /\ Begun(a, b)' = Begun(a, b)
      BY <1>1 DEF Begun, Feeds
    <2>3. \A j \in jobs: j \in jobs' /\ (Fed(j)' <=> Fed(j))
      BY <1>1, <1>4 DEF Fed, Feeds
    <2>4. ASSUME NEW a \in Users, NEW b \in Users
          PROVE  GoesOn(a, b)
      <3>1. StartsFed(a, b) => StartsFed(a, b)'
        BY <2>3 DEF StartsFed, StartJob
      <3>2. OfferOut(a, b) => OfferOut(a, b)'
        <4> SUFFICES ASSUME OfferOut(a, b) PROVE OfferOut(a, b)'
          OBVIOUS
        <4>1. PICK n \in PcIds: n = peers[a][b] /\ pcs[n].remote = NoPc /\ OnItsWay(a, b, n) /\ Begun(a, b)
          BY MetOffers DEF OfferOut
        <4>2. CASE Signalled("offer", a, b, n) /\ <<a, b, n>> # <<x, u, c>>
          <5>1. Signalled("offer", a, b, n)'
            BY <1>5, <4>2
          <5> QED  BY <1>1, <2>2, <4>1, <5>1 DEF OfferOut, OnItsWay, Signalled
        <4>3. CASE a = x /\ b = u /\ n = c
          <5>1. j0 \in jobs' /\ j0.own = b /\ j0.peer = a /\ j0.offer = n /\ Fed(j0)'
            BY <1>3, <1>4, <4>3 DEF Fed
          <5> QED  BY <1>1, <2>2, <4>1, <5>1 DEF OfferOut, OnItsWay
        <4>4. CASE \E j \in jobs: j.own = b /\ j.peer = a /\ j.offer = n /\ Fed(j)
          <5>1. \E j \in jobs': j.own = b /\ j.peer = a /\ j.offer = n /\ Fed(j)'
            BY <2>3, <4>4
          <5> QED  BY <1>1, <2>2, <4>1, <5>1 DEF OfferOut, OnItsWay
        <4> QED  BY <4>1, <4>2, <4>3, <4>4 DEF OnItsWay
      <3>3. Answered(a, b) => Answered(a, b)'
        <4>1. peers[b][a] # NoPc => peers[b][a] \in PcIds
          BY PeerIds
        <4>2. \A m \in PcIds: Signalled("answer", b, a, m) => Signalled("answer", b, a, m)'
          BY <1>5
        <4> QED  BY <1>1, <2>2, <4>1, <4>2 DEF Answered, Feeds, Signalled
      <3> QED  BY <1>5, <3>1, <3>2, <3>3 DEF GoesOn, SameCalls
    <2> QED  BY <2>1, <2>4
  <1> QED  BY <1>1, <1>7, <1>8, MeshOfPair

LEMMA MeshOfOnAnswer ==
    ASSUME Typed, Typed', OfferInv, LinkInv, MeshOK, NEW u \in Users, OnAnswer(u)
    PROVE  MeshOK'
  <1>1. /\ down[u] # <<>> /\ Handled(u) /\ UNCHANGED <<chan, up, announce, peers, tracks, jobs>> /\ Shapes
    BY DEF OnAnswer, Event, server, client, Typed
  <1>2. PICK x \in Users, c \in PcIds, n \in Slots:
          /\ n = peers[u][x] /\ Head(down[u]) = FromDown("answer", x, c)
          /\ \A m \in PcIds:
               /\ pcs'[m].own = pcs[m].own /\ pcs'[m].peer = pcs[m].peer /\ pcs'[m].st = pcs[m].st
               /\ pcs'[m].offered = pcs[m].offered
               /\ m # n \/ ~Waits(u) => pcs'[m] = pcs[m]
          /\ Waits(u) => n \in PcIds /\ pcs'[n].remote = c
          /\ Waits(u) <=> Live(n) /\ pcs[n].offered /\ pcs[n].remote = NoPc
    <2> DEFINE y == Head(down[u]).from
               d == Head(down[u]).pc
               l == peers[u][y]
    <2>1. /\ y \in Users /\ d \in PcIds /\ Head(down[u]) = FromDown("answer", y, d)
          /\ \A m \in PcIds:
               /\ pcs'[m].own = pcs[m].own /\ pcs'[m].peer = pcs[m].peer /\ pcs'[m].st = pcs[m].st
               /\ pcs'[m].offered = pcs[m].offered
               /\ m # l \/ ~Waits(u) => pcs'[m] = pcs[m]
          /\ Waits(u) => l \in PcIds /\ pcs'[l].remote = d
      BY <1>1, AnswerEffect
    <2>2. l \in Slots /\ (Waits(u) <=> Live(l) /\ pcs[l].offered /\ pcs[l].remote = NoPc)
      BY <1>1, <2>1 DEF Shapes, Waits
    <2> HIDE DEF y, d
    <2> QED  BY <2>1, <2>2
  <1>3. \A m \in PcIds: /\ Live(m)' <=> Live(m)
                        /\ \A a, b: Of(m, a, b)' <=> Of(m, a, b)
    BY <1>2 DEF Live, Used, Of
  <1>4. \A a, b \in Users:
          /\ \A l \in {"offer", "answer"}: \A m \in PcIds:
               <<l, a, b, m>> # <<"answer", x, u, c>> => (Signalled(l, a, b, m)' <=> Signalled(l, a, b, m))
          /\ \A l \in {"offer", "answer"}: \A m \in PcIds: Signalled(l, a, b, m)' => Signalled(l, a, b, m)
          /\ Signalled("answer", x, u, c)
          /\ SameCalls(a, b)
    BY <1>1, <1>2, TakenSignal
  <1>5. Waits(u) => Of(n, u, x)
    BY <1>2, SlotFacts DEF LinkInv, PeerOK
  <1>6. ASSUME NEW a \in Users, NEW b \in Users, <<a, b>> # <<u, x>>
        PROVE  SamePcs(a, b)
    <2>1. \A m \in PcIds: Of(m, a, b) => pcs'[m] = pcs[m]
      BY <1>2, <1>5, <1>6 DEF Of
    <2> QED  BY <1>1, <1>3, <2>1 DEF SamePcs
  <1>7. ASSUME NEW a \in Users, NEW b \in Users, <<a, b>> # <<u, x>>, <<a, b>> # <<x, u>>
        PROVE  SameSignals(a, b) /\ SamePcs(a, b) /\ SameJobs(a, b) /\ SameCalls(a, b)
    <2>1. SameSignals(a, b)
      <3>1. ASSUME NEW m \in PcIds, NEW l \in {"offer", "answer"}
            PROVE  Signalled(l, a, b, m)' <=> Signalled(l, a, b, m)
        <4>1. <<l, a, b, m>> # <<"answer", x, u, c>>
          BY <1>7
        <4> QED  BY <1>4, <4>1
      <3> QED  BY <3>1 DEF SameSignals
    <2> QED  BY <1>1, <1>4, <1>6, <1>7, <2>1 DEF SameJobs
  <1>8. ASSUME Both(u, x)
        PROVE  AliveOK(u, x)' /\ AliveOK(x, u)' /\ GoesOn(u, x) /\ GoesOn(x, u)
    <2>0. u # x /\ Both(x, u) /\ \A a, b \in Users: Both(a, b)' => Both(a, b)
      BY <1>1, <1>8 DEF Both
    <2>1. Known(c, x, u)
      BY <1>4, KnownByWhat
    <2>2. Live(c) /\ Of(c, x, u) /\ peers[x][u] = c /\ c # NoPc
      <3>1. Live(c)
        BY <2>0, <2>1 DEF MeshOK, AliveOK
      <3> QED  BY <2>1, <3>1, SlotFacts DEF LinkInv, KnownOK, Live, Used
    <2>3. ASSUME NEW a \in Users, NEW b \in Users PROVE AliveOK(a, b)'
      <3>1. \A m \in PcIds: Known(m, a, b)' => Known(m, a, b)
        <4> SUFFICES ASSUME NEW m \in PcIds, Known(m, a, b)' PROVE Known(m, a, b)
          OBVIOUS
        <4>1. CASE \E k \in {"offer", "answer"}: Signalled(k, a, b, m)'
          BY <1>4, <4>1, KnownByWhat
        <4>2. CASE \E j \in jobs': j.own = b /\ j.peer = a /\ j.offer = m
          BY <1>1, <4>2, KnownByWhat
        <4>3. CASE \E i \in PcIds: Of(i, b, a)' /\ pcs'[i].remote = m
          <5>1. PICK i \in PcIds: Of(i, b, a) /\ pcs'[i].remote = m
            BY <1>3, <4>3
          <5>2. CASE pcs'[i] = pcs[i]
            BY <5>1, <5>2, KnownByWhat
          <5>3. CASE i = n /\ Waits(u)
            <6>1. b = u /\ a = x /\ m = c
              BY <1>2, <1>5, <5>1, <5>3 DEF Of
            <6> QED  BY <2>1, <6>1
          <5> QED  BY <1>2, <5>2, <5>3
        <4> QED  BY <4>1, <4>2, <4>3, KnownByWhat
      <3>2. AliveOK(a, b) /\ (Both(a, b)' => Both(a, b))
        BY <2>0 DEF MeshOK
      <3> QED  BY <1>1, <1>3, <3>1, <3>2, AliveKept
    <2>4. \A a, b \in Users: /\ peers'[a][b] = peers[a][b] /\ tracks'[a][b] = tracks[a][b]
                             /\ Begun(a, b) => Begun(a, b)'
      <3>1. \A a, b \in Users: peers[a][b] # NoPc => peers[a][b] \in PcIds
        BY PeerIds
      <3> QED  BY <1>1, <1>2, <3>1 DEF Begun, Feeds
    <2>5. \A j \in jobs: Fed(j)' <=> Fed(j)
      BY <1>1 DEF Fed, Feeds
    <2>6. \A a, b \in Users: StartsFed(a, b) => StartsFed(a, b)'
      BY <1>1, <2>5 DEF StartsFed, StartJob
    <2>7. ~OfferOut(u, x)
      <3> SUFFICES ASSUME OfferOut(u, x) PROVE FALSE
        OBVIOUS
      <3>1. n \in PcIds /\ OnItsWay(u, x, n)
        BY <1>2, MetOffers DEF OfferOut
      <3>2. Has(x, u)
        BY <2>2 DEF Has
      <3>3. CASE Signalled("offer", u, x, n)
        BY <3>1, <3>2, <3>3, SignalsOffer DEF OfferInv, ChainOK
      <3>4. CASE \E j \in jobs: j.own = x /\ j.peer = u /\ j.offer = n
        <4>1. PICK j \in jobs: j.own = x /\ j.peer = u
          BY <3>4
        <4>2. JobOK(j) /\ j.stage # "spawned" /\ j.pc \in PcIds
          BY <3>2, <4>1, TaskFacts DEF JobOK
        <4>3. Live(j.pc)
          BY <2>0, <4>1, <4>2 DEF MeshOK, AliveOK
        <4>4. j.stage \in {"built", "registered"}
          BY <4>2, TaskFacts DEF Jobs, Stages
        <4>5. j.pc = c
          BY <2>2, <4>1, <4>2, <4>3, <4>4 DEF JobOK
        <4> QED  BY <2>1, <4>1, <4>2, <4>5 DEF JobOK
      <3> QED  BY <3>1, <3>3, <3>4 DEF OnItsWay
    <2>8. OfferOut(x, u) => OfferOut(x, u)'
      <3> SUFFICES ASSUME OfferOut(x, u) PROVE OfferOut(x, u)'
        OBVIOUS
      <3>1. Begun(x, u) /\ Begun(x, u)' /\ pcs[c].remote = NoPc /\ OnItsWay(x, u, c) /\ peers'[x][u] = c
        BY <2>2, <2>4 DEF OfferOut
      <3>2. pcs'[c] = pcs[c]
        BY <1>2, <1>5, <2>0, <2>2 DEF Of
      <3>3. Signalled("offer", x, u, c) => Signalled("offer", x, u, c)'
        BY <1>4
      <3>4. OnItsWay(x, u, c)'
        BY <1>1, <2>5, <3>1, <3>3 DEF OnItsWay, Signalled
      <3> QED  BY <2>2, <3>1, <3>2, <3>4 DEF OfferOut, OnItsWay, Signalled
    <2>9. Answered(u, x) => Answered(u, x)'
      <3> SUFFICES ASSUME Answered(u, x) PROVE Answered(u, x)'
        OBVIOUS
      <3>1. /\ Begun(u, x) /\ Begun(u, x)' /\ n \in PcIds /\ Of(n, u, x)
            /\ Feeds(x, u, c) /\ pcs[c].remote = n
            /\ pcs[n].remote = c \/ pcs[n].remote = NoPc
        BY <1>2, <2>2, <2>4, MetOffers DEF Answered
      <3>2. n # c /\ pcs'[c] = pcs[c]
        BY <1>2, <2>0, <2>2, <3>1 DEF Of
      <3>3. pcs'[n].remote = c
        <4>1. CASE pcs[n].remote = c
          BY <1>2, <2>2, <3>1, <4>1
        <4>2. CASE pcs[n].remote = NoPc
          <5>1. Live(n) /\ pcs[n].offered
            BY <1>2, <1>8, <3>1 DEF MeshOK, AliveOK, Begun
          <5> QED  BY <1>2, <4>2, <5>1
        <4> QED  BY <3>1, <4>1, <4>2
      <3> QED  BY <1>1, <1>2, <2>2, <2>4, <3>1, <3>2, <3>3 DEF Answered, Feeds
    <2>10. Answered(x, u) => Answered(x, u)'
      <3> SUFFICES ASSUME Answered(x, u) PROVE Answered(x, u)'
        OBVIOUS
      <3>1. /\ Begun(x, u) /\ Begun(x, u)' /\ n # NoPc /\ Feeds(u, x, n) /\ pcs[n].remote = c
            /\ pcs[c].remote = n \/ (pcs[c].remote = NoPc /\ Signalled("answer", u, x, n))
        BY <1>2, <2>2, <2>4 DEF Answered
      <3>2. n \in PcIds /\ ~Waits(u)
        BY <1>2, <2>2, <3>1, PeerIds
      <3>3. pcs'[n] = pcs[n] /\ pcs'[c] = pcs[c]
        BY <1>2, <3>2
      <3>4. Signalled("answer", u, x, n) => Signalled("answer", u, x, n)'
        BY <1>4, <2>0, <3>2
      <3> QED  BY <1>1, <1>2, <2>2, <2>4, <3>1, <3>3, <3>4 DEF Answered, Feeds, Signalled
    <2> QED  BY <1>4, <2>3, <2>6, <2>7, <2>8, <2>9, <2>10 DEF GoesOn, SameCalls
  <1> QED  BY <1>1, <1>7, <1>8, MeshOfPair
-----------------------------------------------------------------------------
(* Tasks move on.                                                            *)

\* A task of u has, or gets, the connection it is about, and goes on with it.
LEMMA MeshOfMove ==
    ASSUME Typed, Typed', OfferInv, LinkInv, MeshOK, NEW j \in jobs, NEW k, NEW u \in Users, NEW v \in Users,
           NEW n \in PcIds, j.own = u, j.peer = v, k.own = u, k.peer = v, k.offer = j.offer,
           k.stage # "spawned", k.pc = n, jobs' = (jobs \ {j}) \union {k}, Fed(j) => Fed(k)',
           UNCHANGED <<chan, up, down, announce>>, peers[u][v] = NoPc,
           \A a, b \in Users: <<a, b>> # <<u, v>> => peers'[a][b] = peers[a][b] /\ tracks'[a][b] = tracks[a][b],
           \A m \in PcIds \ {n}: pcs'[m] = pcs[m], pcs'[n] = pcs[n] \/ ~Used(n),
           Of(n, u, v)', Live(n)', pcs'[n].remote = NoPc
    PROVE  MeshOK'
  <1>1. \A i \in jobs: i # j => <<i.own, i.peer>> # <<u, v>>
    BY OneTask
  <1>2. \A m \in PcIds: \A a, b: /\ Of(m, a, b)' => Of(m, a, b) \/ (m = n /\ a = u /\ b = v)
                                 /\ Of(m, a, b) => pcs'[m] = pcs[m]
    BY DEF Of, Used
  <1>3. ASSUME NEW m \in PcIds, NEW a \in Users, NEW b \in Users, Known(m, a, b)'
        PROVE  Known(m, a, b)
    <2>1. CASE \E l \in {"offer", "answer"}: Signalled(l, a, b, m)'
      BY <2>1, KnownByWhat DEF Signalled
    <2>2. CASE \E i \in jobs': i.own = b /\ i.peer = a /\ i.offer = m
      <3>1. \E i \in jobs: i.own = b /\ i.peer = a /\ i.offer = m
        BY <2>2
      <3> QED  BY <3>1, KnownByWhat
    <2>3. CASE \E i \in PcIds: Of(i, b, a)' /\ pcs'[i].remote = m
      <3>1. \E i \in PcIds: Of(i, b, a) /\ pcs[i].remote = m
        BY <1>2, <2>3, SlotFacts
      <3> QED  BY <3>1, KnownByWhat
    <2> QED  BY <1>3, <2>1, <2>2, <2>3, KnownByWhat
  <1>4. \A a, b \in Users: /\ SameSignals(a, b) /\ SameCalls(a, b)
                           /\ Joining(a)' = Joining(a) /\ Calls(a, b)' = Calls(a, b)
    BY DEF SameSignals, SameCalls, Signalled, Joining, Calls, Opens
  <1>5. ASSUME NEW a \in Users, NEW b \in Users, <<a, b>> # <<u, v>>, <<a, b>> # <<v, u>>
        PROVE  SameSignals(a, b) /\ SamePcs(a, b) /\ SameJobs(a, b) /\ SameCalls(a, b)
    <2>1. SamePcs(a, b)
      BY <1>2, <1>5 DEF SamePcs
    <2>2. SameJobs(a, b)
      BY <1>5 DEF SameJobs
    <2> QED  BY <1>4, <2>1, <2>2
  <1>6. ASSUME Both(u, v)
        PROVE  AliveOK(u, v)' /\ AliveOK(v, u)' /\ GoesOn(u, v) /\ GoesOn(v, u)
    <2>0. u # v /\ peers'[v][u] = peers[v][u] /\ tracks'[v][u] = tracks[v][u]
      BY <1>6 DEF Both
    <2>1. ASSUME NEW a \in Users, NEW b \in Users PROVE AliveOK(a, b)'
      <3>1. \A m \in PcIds: /\ Of(m, a, b)' => Of(m, a, b) \/ Live(m)'
                            /\ Known(m, a, b)' => Known(m, a, b)
                            /\ Of(m, a, b) /\ Live(m) => Live(m)'
        BY <1>2, <1>3 DEF Live
      <3>2. n # NoPc /\ pcs'[n].st = "live"
        BY DEF Live
      <3>3. \A i \in jobs': i \in jobs \/ (i.pc # NoPc /\ pcs'[i.pc].st = "live")
        BY <3>2
      <3>4. AliveOK(a, b) /\ (Both(a, b)' => Both(a, b))
        BY DEF MeshOK, Both
      <3> QED  BY <3>1, <3>3, <3>4, AliveKept
    <2>2. \A i \in jobs: i # j => (Fed(i) => Fed(i)')
      <3>1. \A i \in jobs: i.own \in Users /\ i.peer \in Users
        BY TaskFacts
      <3> QED  BY <1>1, <3>1 DEF Fed, Feeds
    <2>3. ASSUME NEW a \in Users, NEW b \in Users, StartsFed(a, b) PROVE StartsFed(a, b)'
      <3>1. PICK i \in jobs: StartJob(i, a, b) /\ Fed(i)
        BY <2>3 DEF StartsFed
      <3>2. CASE i = j
        <4>1. k \in jobs' /\ StartJob(k, a, b) /\ Fed(k)'
          BY <3>1, <3>2 DEF StartJob
        <4> QED  BY <4>1 DEF StartsFed, StartJob
      <3>3. CASE i # j
        <4>1. i \in jobs' /\ Fed(i)'
          BY <2>2, <3>1, <3>3
        <4> QED  BY <3>1, <4>1 DEF StartsFed, StartJob
      <3> QED  BY <3>2, <3>3
    <2>4. ~OfferOut(u, v) /\ ~Answered(u, v) /\ ~Answered(v, u)
      BY DEF OfferOut, Answered, Begun
    <2>5. ASSUME OfferOut(v, u) PROVE OfferOut(v, u)'
      <3>1. PICK m \in PcIds: /\ m = peers[v][u] /\ pcs[m].remote = NoPc /\ OnItsWay(v, u, m)
                              /\ Begun(v, u) /\ Of(m, v, u)
        BY <2>5, MetOffers DEF OfferOut
      <3>2. pcs'[m] = pcs[m] /\ Begun(v, u)'
        BY <1>2, <2>0, <3>1 DEF Begun, Feeds
      <3>3. CASE Signalled("offer", v, u, m)
        <4>1. Signalled("offer", v, u, m)'
          BY <3>3 DEF Signalled
        <4> QED  BY <2>0, <3>1, <3>2, <4>1 DEF OfferOut, OnItsWay, Signalled
      <3>4. CASE \E i \in jobs: i.own = u /\ i.peer = v /\ i.offer = m /\ Fed(i)
        <4>1. \E i \in jobs': i.own = u /\ i.peer = v /\ i.offer = m /\ Fed(i)'
          BY <2>2, <3>4
        <4> QED  BY <2>0, <3>1, <3>2, <4>1 DEF OfferOut, OnItsWay
      <3> QED  BY <3>1, <3>3, <3>4 DEF OnItsWay
    <2> QED  BY <1>4, <2>1, <2>3, <2>4, <2>5 DEF GoesOn
  <1> QED  BY <1>5, <1>6, MeshOfPair

LEMMA MeshOfRegister ==
    ASSUME Typed, Typed', OfferInv, LinkInv, MeshOK, NEW j \in jobs, RegisterPeer(j)
    PROVE  MeshOK'
  <1> DEFINE k == [j EXCEPT !.stage = "registered"]
             u == j.own
             v == j.peer
             n == j.pc
  <1>1. /\ UNCHANGED <<chan, up, down, announce, pcs, tracks>>
        /\ peers' = [peers EXCEPT ![u][v] = n]
        /\ jobs' = (jobs \ {j}) \union {k} /\ j.stage = "built"
    BY DEF RegisterPeer, Move, client, server
  <1>2. u \in Users /\ v \in Users /\ n \in PcIds /\ n # NoPc /\ JobOK(j) /\ j \in Jobs
    BY <1>1, TaskFacts, SlotFacts
  <1>3. k.own = u /\ k.peer = v /\ k.offer = j.offer /\ k.pc = n /\ k.stage = "registered"
    BY <1>2 DEF Jobs
  <1>4. Live(n) /\ Of(n, u, v) /\ peers[u][v] = NoPc /\ pcs[n].remote = NoPc
    BY <1>1, <1>2 DEF JobOK, Live, Used
  <1>5. \A a, b \in Users: <<a, b>> # <<u, v>> => peers'[a][b] = peers[a][b]
    BY <1>1, <1>2 DEF Typed, Shapes
  <1>6. Fed(j) => Fed(k)'
    BY <1>1, <1>3 DEF Fed, Feeds
  <1>7. j.own = u /\ j.peer = v
    OBVIOUS
  <1> HIDE DEF k, u, v, n
  <1>8. Of(n, u, v)' /\ Live(n)'
    BY <1>1, <1>4 DEF Of, Live, Used
  <1> QED  BY <1>1, <1>2, <1>3, <1>4, <1>5, <1>6, <1>7, <1>8, MeshOfMove

LEMMA MeshOfBuild ==
    ASSUME Typed, Typed', OfferInv, LinkInv, MeshOK, NEW j \in jobs, BuildPeer(j)
    PROVE  MeshOK'
  <1> DEFINE u == j.own
             v == j.peer
  <1>1. /\ u \in Users /\ v \in Users /\ JobOK(j) /\ j \in Jobs /\ j.stage = "spawned"
        /\ ~Has(u, v)
    BY TaskFacts DEF BuildPeer, JobOK
  <1>2. peers[u][v] = NoPc
    <2>1. PeerOK(u, v)
      BY <1>1 DEF LinkInv
    <2> QED  BY <1>1, <2>1, PeerIds DEF PeerOK, Has
  <1>3. ~Reuses(j) /\ UNCHANGED <<chan, up, down, announce, peers>> /\ Shapes
    BY <1>2 DEF BuildPeer, Reuses, client, server, Typed
  <1>4. PICK n \in PcIds:
          /\ pcs[n].st = "free"
          /\ pcs'[n].own = u /\ pcs'[n].peer = v /\ pcs'[n].st = "live"
          /\ pcs'[n].offered = FALSE /\ pcs'[n].remote = NoPc
          /\ \A m \in PcIds \ {n}: pcs'[m] = pcs[m]
          /\ jobs' = (jobs \ {j}) \union {[j EXCEPT !.stage = "built", !.pc = n]}
          /\ tracks'[u][v] = n
          /\ \A a, b \in Users: <<a, b>> # <<u, v>> => tracks'[a][b] = tracks[a][b]
    BY <1>3, BuildEffect
  <1> DEFINE k == [j EXCEPT !.stage = "built", !.pc = n]
  <1>5. k.own = u /\ k.peer = v /\ k.offer = j.offer /\ k.pc = n /\ k.stage = "built"
        /\ jobs' = (jobs \ {j}) \union {k}
    BY <1>1, <1>4 DEF Jobs
  <1>6. j.own = u /\ j.peer = v
    OBVIOUS
  <1> HIDE DEF k, u, v
  <1>7. Fed(k)'
    BY <1>4, <1>5 DEF Fed, Feeds
  <1>8. Of(n, u, v)' /\ Live(n)' /\ ~Used(n)
    BY <1>4, SlotFacts DEF Of, Live, Used
  <1> QED  BY <1>1, <1>2, <1>3, <1>4, <1>5, <1>6, <1>7, <1>8, MeshOfMove

LEMMA MeshOfDescribe ==
    ASSUME Typed, Typed', OfferInv, LinkInv, MeshOK, NEW j \in jobs, Describe(j)
    PROVE  MeshOK'
  <1> DEFINE u == j.own
             v == j.peer
             n == j.pc
             k == IF j.offer = NoPc THEN "offer" ELSE "answer"
  <1>1. /\ UNCHANGED <<chan, peers, tracks, down, announce>> /\ Shapes
        /\ jobs' = jobs \ {j} /\ j.stage = "registered"
    BY DEF Describe, client, server, Typed
  <1>2. u \in Users /\ v \in Users /\ n \in PcIds /\ n # NoPc /\ JobOK(j) /\ j.offer \in Slots
    BY <1>1, TaskFacts, SlotFacts DEF Jobs
  <1>3. Able(j) => Live(n) /\ Of(n, u, v) /\ peers[u][v] = n
    BY <1>1, <1>2 DEF Able, JobOK, Live, Used
  <1>4. /\ \A m \in PcIds:
             /\ pcs'[m].own = pcs[m].own /\ pcs'[m].peer = pcs[m].peer /\ pcs'[m].st = pcs[m].st
             /\ m # n \/ ~Able(j) => pcs'[m] = pcs[m]
        /\ Able(j) /\ j.offer = NoPc => pcs'[n].offered = TRUE /\ pcs'[n].remote = pcs[n].remote
        /\ Able(j) /\ j.offer # NoPc => pcs'[n].remote = j.offer
                                        /\ pcs'[n].offered = pcs[n].offered
    BY <1>1, DescribeEffect
  <1>5. /\ Able(j) /\ chan[u] =>
             Described(j) \in UpMessages /\ up' = [up EXCEPT ![u] = Append(@, Described(j))]
        /\ ~(Able(j) /\ chan[u]) => up' = up
        /\ Described(j) = ToUp(k, v, n)
    BY <1>1, UpOfDescribe DEF Described
  <1>6. ASSUME NEW w \in Users, NEW S
        PROVE  Lacks(up'[w], S) <=> Lacks(up[w], S) /\ ~(Able(j) /\ chan[u] /\ w = u /\ Described(j) \in S)
    BY <1>1, <1>2, <1>5, UpGrows
  <1>7. \A i \in jobs: i # j => <<i.own, i.peer>> # <<u, v>>
    BY OneTask
  <1>8. /\ k \in {"offer", "answer"} /\ (k = "offer" <=> j.offer = NoPc)
        /\ StartJob(j, u, v) <=> k = "offer"
        /\ AnswerJob(j, v, u) <=> k = "answer"
        /\ j.own = u /\ j.peer = v /\ j.pc = n
    BY DEF StartJob, AnswerJob
  <1> HIDE DEF u, v, n, k
  <1>9. \A m \in PcIds: /\ Live(m)' <=> Live(m)
                        /\ \A a, b: Of(m, a, b)' <=> Of(m, a, b)
    BY <1>4 DEF Live, Used, Of
  <1>10. ASSUME NEW a \in Users, NEW b \in Users, NEW l \in {"offer", "answer"}, NEW m \in PcIds
         PROVE  Signalled(l, a, b, m)' <=>
                  Signalled(l, a, b, m) \/ (Able(j) /\ chan[u] /\ a = u /\ b = v /\ l = k /\ m = n)
    <2>1. Described(j) \in {ToUp(l, b, m)} <=> l = k /\ b = v /\ m = n
      BY <1>5 DEF ToUp
    <2> QED  BY <1>1, <1>6, <2>1 DEF Signalled
  <1>11. \A a, b \in Users: /\ SameCalls(a, b) /\ Joining(a)' = Joining(a) /\ Calls(a, b)' = Calls(a, b)
    <2>1. Described(j) \notin {JoinM}
      BY <1>2, <1>5, <1>8, SignalMatch
    <2>2. \A a \in Users: Lacks(up'[a], {JoinM}) <=> Lacks(up[a], {JoinM})
      BY <1>6, <2>1
    <2> QED  BY <1>1, <2>2 DEF SameCalls, Joining, Calls, Opens
  <1>12. ASSUME NEW a \in Users, NEW b \in Users, <<a, b>> # <<u, v>>
         PROVE  SameSignals(a, b) /\ SamePcs(a, b) /\ SameJobs(a, b) /\ SameCalls(a, b)
    <2>1. SameSignals(a, b)
      BY <1>10, <1>12 DEF SameSignals
    <2>2. \A m \in PcIds: Of(m, a, b) => pcs'[m] = pcs[m]
      BY <1>3, <1>4, <1>12 DEF Of
    <2>3. SamePcs(a, b)
      BY <1>1, <1>9, <2>2 DEF SamePcs
    <2>4. SameJobs(a, b)
      BY <1>1, <1>8, <1>12 DEF SameJobs
    <2> QED  BY <1>11, <2>1, <2>3, <2>4
  <1>13. ASSUME Both(u, v)
         PROVE  AliveOK(u, v)' /\ AliveOK(v, u)' /\ GoesOn(u, v) /\ GoesOn(v, u)
    <2>0. u # v /\ Both(v, u) /\ chan[u]
      BY <1>13 DEF Both
    <2>1. Live(n) /\ Of(n, u, v) /\ peers[u][v] = n /\ ~pcs[n].offered /\ pcs[n].remote = NoPc
      <3>1. Live(n)
        BY <1>1, <1>2, <1>8, <1>13 DEF MeshOK, AliveOK
      <3> QED  BY <1>1, <1>2, <1>8, <3>1 DEF JobOK, Live, Used
    <2>2. Able(j)
      BY <1>8, <2>1 DEF Able
    <2>3. ASSUME NEW a \in Users, NEW b \in Users PROVE AliveOK(a, b)'
      <3>1. ASSUME NEW m \in PcIds, Known(m, a, b)' PROVE Known(m, a, b) \/ Live(m)'
        <4>1. CASE \E l \in {"offer", "answer"}: Signalled(l, a, b, m)'
          BY <1>9, <1>10, <2>1, <4>1, KnownByWhat
        <4>2. CASE \E i \in jobs': i.own = b /\ i.peer = a /\ i.offer = m
          BY <1>1, <4>2, KnownByWhat
        <4>3. CASE \E i \in PcIds: Of(i, b, a)' /\ pcs'[i].remote = m
          <5>1. PICK i \in PcIds: Of(i, b, a) /\ pcs'[i].remote = m
            BY <1>9, <4>3
          <5>2. CASE pcs'[i].remote = pcs[i].remote
            BY <5>1, <5>2, KnownByWhat
          <5>3. CASE pcs'[i].remote # pcs[i].remote
            <6>1. i = n /\ j.offer = m
              BY <1>4, <2>2, <5>1, <5>3
            <6>2. j.own = b /\ j.peer = a
              BY <1>8, <2>1, <5>1, <6>1 DEF Of
            <6> QED  BY <6>1, <6>2, KnownByWhat
          <5> QED  BY <5>2, <5>3
        <4> QED  BY <3>1, <4>1, <4>2, <4>3, KnownByWhat
      <3>2. AliveOK(a, b) /\ (Both(a, b)' => Both(a, b))
        BY <1>1 DEF MeshOK, Both
      <3> QED  BY <1>1, <1>9, <3>1, <3>2, AliveKept
    <2>4. CASE k = "offer"
      <3>1. Starts(u, v) /\ Offering(u, v) /\ ~Offering(v, u) /\ ~Calls(u, v)
        BY <1>2, <1>8, <2>4 DEF Starts, Offering, OfferInv, ChainOK
      <3>2. ~Joining(u) /\ ~Joining(v)
        BY <1>2, <1>13, <3>1, NobodyJoins
      <3>3. GoesOn(v, u)
        BY <1>2, <3>1, <3>2, MetOffers DEF GoesOn
      <3>4. ASSUME StartsFed(u, v) PROVE OfferOut(u, v)'
        <4>1. Feeds(u, v, n)
          BY <1>1, <1>7, <1>8, <3>4 DEF StartsFed, StartJob, Fed
        <4>2. pcs'[n].offered = TRUE /\ pcs'[n].remote = NoPc
          BY <1>4, <1>8, <2>1, <2>2, <2>4
        <4>3. Signalled("offer", u, v, n)'
          BY <1>2, <1>10, <2>0, <2>2, <2>4
        <4> QED  BY <1>1, <1>2, <2>1, <4>1, <4>2, <4>3 DEF OfferOut, Begun, Feeds, OnItsWay, Signalled
      <3>5. ~OfferOut(u, v) /\ ~Answered(u, v)
        BY <2>1 DEF OfferOut, Answered, Begun
      <3> QED  BY <1>2, <2>3, <3>1, <3>2, <3>3, <3>4, <3>5 DEF GoesOn
    <2>5. CASE k = "answer"
      <3>1. /\ Taken(v, u) /\ Offering(v, u) /\ ~Offering(u, v)
            /\ ~Calls(v, u) /\ ~Starts(v, u) /\ ~Sends(v, u) /\ ~Reaches(v, u)
        <4>1. Taken(v, u) /\ Offering(v, u)
          BY <1>8, <2>5 DEF Taken, Offering
        <4> QED  BY <1>2, <4>1 DEF OfferInv, ChainOK
      <3>2. ~Joining(u) /\ ~Joining(v)
        BY <1>2, <2>0, <3>1, NobodyJoins
      <3>3. GoesOn(u, v)
        BY <1>2, <3>1, <3>2, MetOffers DEF GoesOn
      <3>4. ASSUME OfferOut(v, u) PROVE Answered(v, u)'
        <4>1. PICK g \in PcIds: /\ g = peers[v][u] /\ pcs[g].remote = NoPc /\ OnItsWay(v, u, g)
                                /\ Begun(v, u) /\ Of(g, v, u)
          BY <1>2, <3>4, MetOffers DEF OfferOut
        <4>2. PICK i \in jobs: i.own = u /\ i.peer = v /\ i.offer = g /\ Fed(i)
          BY <1>2, <3>1, <4>1, SignalsOffer DEF OnItsWay
        <4>3. i = j
          BY <1>7, <4>2
        <4>4. j.offer = g /\ Feeds(u, v, n)
          BY <1>1, <1>8, <4>2, <4>3 DEF Fed
        <4>5. g # n /\ pcs'[g] = pcs[g]
          BY <1>4, <2>0, <2>1, <4>1 DEF Of
        <4>6. pcs'[n].remote = g
          BY <1>4, <1>8, <2>2, <2>5, <4>4
        <4>7. Signalled("answer", u, v, n)'
          BY <1>2, <1>10, <2>0, <2>2, <2>5
        <4>8. Begun(v, u)'
          BY <1>1, <4>1, <4>5 DEF Begun, Feeds
        <4> QED  BY <1>1, <1>2, <2>1, <4>1, <4>4, <4>5, <4>6, <4>7, <4>8 DEF Answered, Feeds, Signalled
      <3>5. ~StartsFed(v, u) /\ ~Answered(v, u)
        <4>1. ~Answered(v, u)
          BY <2>1 DEF Answered, Begun
        <4> QED  BY <1>2, <3>1, <4>1, MetOffers
      <3> QED  BY <1>2, <2>3, <3>1, <3>2, <3>3, <3>4, <3>5 DEF GoesOn
    <2> QED  BY <1>8, <2>4, <2>5
  <1> QED  BY <1>1, <1>2, <1>12, <1>13, MeshOfPair DEF Both

-----------------------------------------------------------------------------
(* Once all is quiet, two users in the channel have each other's connection. *)

MeshInv == ~hasty /\ ~refused /\ ~dropped => MeshOK

LEMMA MeshAtStart == Init => MeshOK
  BY DEF Init, MeshOK, AliveOK, MetOK, Both

LEMMA MeshPerUser ==
    ASSUME Typed, Typed', ListInv, OfferInv, LinkInv, MeshOK, ~refused, NEW u \in Users, PerUser(u),
           ~hasty', ~refused', ~dropped'
    PROVE  MeshOK'
  <1>0. ~RefuseJoin(u) /\ ~RouteFails(u)
    BY DEF RefuseJoin, RouteFails
  <1>1. CASE OnCame(u) \/ (OnState(u) /\ ~chan[u])
    <2>1. down[u] # <<>> /\ Handled(u) /\ UNCHANGED <<chan, links, up, server>>
      BY <1>1 DEF OnCame, OnState, Event, links
    <2>2. Head(down[u]).kind \in {"came", "state"} /\ (chan[u] => Head(down[u]).kind = "came")
      BY <1>1 DEF OnCame, OnState, Event
    <2>3. Head(down[u]) \notin DownSignals
      BY <2>2 DEF DownSignals, FromDown
    <2>4. chan[u] => Head(down[u]) \notin States
      BY <2>2 DEF States
    <2> QED  BY <2>1, <2>3, <2>4, MeshOfNews
  <1> QED  BY <1>0, <1>1, MeshOfJoin, MeshOfLeave, MeshOfRecordJoin, MeshOfAnnounceJoin, MeshOfTakeLeave,
              MeshOfRoute, MeshOfDisconnect, MeshOfOnState, MeshOfOnGone, MeshOfOnOffer,
              MeshOfOnAnswer DEF PerUser

LEMMA MeshStep ==
    ASSUME Typed, Typed', ListInv, CalmInv, MeshInv, [Next]_vars
    PROVE  MeshInv'
  <1> SUFFICES ASSUME ~hasty', ~refused', ~dropped' PROVE MeshOK'
    BY DEF MeshInv
  <1>0. ~hasty /\ ~refused /\ ~dropped => OfferInv /\ LinkInv /\ MeshOK
    BY DEF CalmInv, MeshInv
  <1>1. ASSUME NEW u \in Users, PerUser(u) PROVE MeshOK'
    <2>1. ~hasty
      BY <1>1 DEF PerUser, Join, Leave, RecordJoin, RefuseJoin, AnnounceJoin, TakeLeave, Route,
                  RouteFails, Disconnect, OnState, OnCame, OnGone, OnOffer, OnAnswer, history
    <2>2. ~dropped
      BY <1>1 DEF PerUser, Join, Leave, RecordJoin, RefuseJoin, AnnounceJoin, TakeLeave, Route,
                  RouteFails, Disconnect, OnState, OnCame, OnGone, OnOffer, OnAnswer, history
    <2>3. ~refused
      BY <1>1 DEF PerUser, Join, Leave, RecordJoin, RefuseJoin, AnnounceJoin, TakeLeave, Route,
                  RouteFails, Disconnect, OnState, OnCame, OnGone, OnOffer, OnAnswer, history
    <2> QED  BY <1>0, <1>1, <2>1, <2>2, <2>3, MeshPerUser
  <1>2. ASSUME NEW j \in jobs, PerJob(j) PROVE MeshOK'
    <2>1. /\ ~hasty /\ ~refused /\ ~dropped
          /\ ~BuildFails(j) /\ ~DescribeFails(j)
      BY <1>2 DEF PerJob, BuildPeer, BuildFails, RegisterPeer, Describe, DescribeFails, history
    <2> QED  BY <1>0, <1>2, <2>1, MeshOfBuild, MeshOfRegister, MeshOfDescribe DEF PerJob
  <1>3. ASSUME NEW n \in PcIds, PerPc(n) PROVE MeshOK'
    <2>1. ~hasty /\ ~refused /\ ~dropped
      BY <1>3 DEF PerPc, Closed, Stranded, Drop, history
    <2> QED  BY <1>0, <1>3, <2>1, MeshOfPerPc
  <1>4. CASE UNCHANGED vars
    <2>1. UNCHANGED <<chan, peers, tracks, pcs, jobs, up, down, announce, hasty, refused, dropped>>
      BY <1>4 DEF vars, client, links, server, history
    <2>2. Typed /\ LinkInv /\ MeshOK
      BY <1>0, <2>1
    <2>3. \A a, b \in Users:
            /\ Both(a, b)' => Both(a, b)
            /\ SameSignals(a, b) /\ SamePcs(a, b) /\ SameJobs(a, b) /\ SameCalls(a, b)
      BY <2>1, NothingHungElsewhere
      DEF Both, SameSignals, Signalled, SameJobs, SameCalls, Joining, Calls, Opens
    <2> QED  BY <2>2, <2>3, MeshOfPairs
  <1> QED  BY <1>1, <1>2, <1>3, <1>4 DEF Next

\* The invariant behind the mesh.
LEMMA MeshHolds == Spec => [](Typed /\ ListInv /\ CalmInv /\ MeshInv)
  <1>1. Init => Typed /\ ListInv /\ CalmInv /\ MeshInv
    BY TypedAtStart, ListAtStart, CalmAtStart, MeshAtStart DEF CalmInv, MeshInv
  <1>2. Typed /\ ListInv /\ CalmInv /\ MeshInv /\ [Next]_vars => Typed' /\ ListInv' /\ CalmInv' /\ MeshInv'
    BY ListStep, CalmStep, MeshStep
  <1> QED  BY <1>1, <1>2, PTL DEF Spec

LEMMA MeetingEnds ==
    ASSUME Typed, LinkInv, Quiet, NEW a \in Users, NEW b \in Users, Met(a, b)
    PROVE  /\ Linked(peers[a][b]) /\ pcs[peers[a][b]].remote = peers[b][a] /\ tracks[a][b] = peers[a][b]
           /\ Linked(peers[b][a]) /\ pcs[peers[b][a]].remote = peers[a][b] /\ tracks[b][a] = peers[b][a]
  <1>1. /\ \A w \in Users: up[w] = <<>> /\ down[w] = <<>> /\ ~Opens(w)
        /\ jobs = {}
    BY DEF Quiet, Opens
  <1>2. \A w \in Users: \A S: Lacks(up[w], S) /\ Lacks(down[w], S)
    BY <1>1, EmptyQueue
  <1>3. ~Calls(a, b) /\ ~StartsFed(a, b) /\ \A k, n: ~Signalled(k, a, b, n) /\ ~Signalled(k, b, a, n)
    BY <1>1, <1>2 DEF Calls, StartsFed, Signalled
  <1>4. ~OfferOut(a, b)
    BY <1>1, <1>3 DEF OfferOut, OnItsWay
  <1>5. Answered(a, b)
    BY <1>3, <1>4 DEF Met
  <1>6. /\ peers[a][b] # NoPc /\ tracks[a][b] = peers[a][b]
        /\ peers[b][a] # NoPc /\ tracks[b][a] = peers[b][a]
        /\ pcs[peers[a][b]].remote = peers[b][a] /\ pcs[peers[b][a]].remote = peers[a][b]
    BY <1>3, <1>5 DEF Answered, Begun, Feeds
  <1>7. Live(peers[a][b]) /\ Live(peers[b][a])
    BY <1>6 DEF LinkInv, PeerOK
  <1> QED  BY <1>6, <1>7 DEF Linked

LEMMA MeshIsComplete == Typed /\ CalmInv /\ MeshInv => MeshComplete
  <1> SUFFICES ASSUME Typed, CalmInv, MeshInv, Quiet, ~hasty, ~refused, ~dropped,
                      NEW u \in Users, NEW v \in Users, u # v, chan[u], chan[v]
               PROVE  /\ Linked(peers[u][v]) /\ pcs[peers[u][v]].remote = peers[v][u]
                      /\ tracks[u][v] = peers[u][v]
    BY DEF MeshComplete
  <1>1. LinkInv /\ MetOK(u, v)
    BY DEF CalmInv, MeshInv, MeshOK
  <1>2. ~Joining(u) /\ ~Joining(v)
    BY EmptyQueue DEF Quiet, Joining
  <1>3. Met(u, v) \/ Met(v, u)
    BY <1>1, <1>2 DEF MetOK, Both
  <1> QED  BY <1>1, <1>3, MeetingEnds

\* Once all is quiet two users in the channel have each other's connection, with both
\* descriptions and tracks (voice.rs, handle_voice_state, on_offer, on_answer), unless a user
\* came back too early, the server refused a join without a word, or a connection in use, a
\* signal or a task was lost; overlapping joins and news that are not passed on do no harm.
THEOREM MeshCloses == Spec => []MeshComplete
  BY MeshHolds, MeshIsComplete, PTL
=============================================================================
