----------------------------- MODULE VoicePeers -----------------------------
(***************************************************************************)
(* The peer connections between the occupants of one voice channel         *)
(* (crates/feditexter-iced/src/voice.rs), driven by what the server's      *)
(* voice handlers publish (crates/feditexter-server/src/api/ws.rs).  The   *)
(* user interface thread of a client handles events one at a time; the     *)
(* tasks it spawns build, register and describe connections later, and the *)
(* callbacks of a connection come later still.  All of them find a         *)
(* connection by the user at its other end, not by its identity.           *)
(*                                                                         *)
(* The server is one step a message, except for a join, which reads the    *)
(* occupants under the lock and announces them after it (VoicePresence has *)
(* every lock).  ICE candidates are part of the descriptions.              *)
(***************************************************************************)
EXTENDS Naturals, Sequences, FiniteSets, SequencesExt

CONSTANTS
  Users,      \* the members of the guild
  MaxJoins,   \* bound: joins of all users
  MaxPcs,     \* bound: peer connections built
  MaxFaults   \* bound: failures of a connection, a socket or a call, news not passed on

ASSUME PeersAssumption == MaxJoins \in Nat /\ MaxPcs \in Nat /\ MaxFaults \in Nat

VARIABLES
  chan,       \* chan[u]: u's client is in the channel (channel_id)
  members,    \* members[u]: whom u's client lists in the channel
  peers,      \* peers[u][v]: the connection u's client has for v
  tracks,     \* tracks[u][v]: the connection whose tracks u writes to for v
  pcs,        \* the peer connections built so far
  jobs,       \* tasks that build connections and describe them
  up, down,   \* up[u], down[u]: what travels on u's websocket
  occ,        \* the occupants the server knows
  seated,     \* seated[u]: u's socket joined the channel (voice_channel)
  announce,   \* announce[u]: a join of u recorded and not yet announced
  joins, faults,  \* bounds only
  hasty,      \* history: a user came back before all was settled
  overlapped, \* history: another user came or went during a join
  dropped,    \* history: a connection, or a step towards one, failed
  refused,    \* history: a join was refused without a word
  unheard     \* history: who came or went was kept from a client

client  == <<chan, members>>
links   == <<peers, tracks, pcs, jobs>>
server  == <<occ, seated, announce>>
bounds  == <<joins, faults>>
history == <<hasty, overlapped, dropped, refused, unheard>>
vars == <<client, links, up, down, server, bounds, history>>

PcIds == 1..MaxPcs
NoPc  == 0
Slots == PcIds \union {NoPc}
Nobody == "nobody"

PcStates == {"free", "live", "closing", "closed"}
Pcs == [own: Users \union {Nobody}, peer: Users \union {Nobody}, st: PcStates,
        offered: BOOLEAN, remote: Slots]
Stages == {"spawned", "built", "registered"}
Jobs == [own: Users, peer: Users, stage: Stages, pc: Slots, offer: Slots]
UpMessages ==
  [kind: {"join", "leave"}] \union [kind: {"offer", "answer"}, to: Users, pc: PcIds]
DownMessages ==
  [kind: {"came", "gone"}, user: Users] \union [kind: {"state"}, users: SUBSET Users]
  \union [kind: {"offer", "answer"}, from: Users, pc: PcIds]
NoJoin == [users |-> {}, new |-> FALSE, open |-> FALSE]

TypeOK ==
  /\ chan \in [Users -> BOOLEAN]
  /\ members \in [Users -> SUBSET Users]
  /\ peers \in [Users -> [Users -> Slots]] /\ tracks \in [Users -> [Users -> Slots]]
  /\ pcs \in [PcIds -> Pcs] /\ jobs \in SUBSET Jobs
  /\ up \in [Users -> Seq(UpMessages)] /\ down \in [Users -> Seq(DownMessages)]
  /\ occ \in SUBSET Users /\ seated \in [Users -> BOOLEAN]
  /\ announce \in [Users -> [users: SUBSET Users, new: BOOLEAN, open: BOOLEAN]]
  /\ joins \in 0..MaxJoins /\ faults \in 0..MaxFaults
  /\ hasty \in BOOLEAN /\ overlapped \in BOOLEAN /\ dropped \in BOOLEAN
  /\ refused \in BOOLEAN /\ unheard \in BOOLEAN

FreePc == [own |-> Nobody, peer |-> Nobody, st |-> "free", offered |-> FALSE, remote |-> NoPc]

Init ==
  /\ chan = [u \in Users |-> FALSE] /\ members = [u \in Users |-> {}]
  /\ peers = [u \in Users |-> [v \in Users |-> NoPc]]
  /\ tracks = [u \in Users |-> [v \in Users |-> NoPc]]
  /\ pcs = [n \in PcIds |-> FreePc] /\ jobs = {}
  /\ up = [u \in Users |-> <<>>] /\ down = [u \in Users |-> <<>>]
  /\ occ = {} /\ seated = [u \in Users |-> FALSE] /\ announce = [u \in Users |-> NoJoin]
  /\ joins = 0 /\ faults = 0
  /\ hasty = FALSE /\ overlapped = FALSE /\ dropped = FALSE
  /\ refused = FALSE /\ unheard = FALSE

-----------------------------------------------------------------------------
(* Connections. *)

Live(n) == n # NoPc /\ pcs[n].st = "live"
Linked(n) == Live(n) /\ LET m == pcs[n].remote IN Live(m) /\ pcs[m].remote = n
Closing(cs, ns) ==
  [n \in PcIds |-> IF n \in ns /\ cs[n].st = "live" THEN [cs[n] EXCEPT !.st = "closing"]
                   ELSE cs[n]]

(* Faulty variant: the connection is forgotten and stays open. *)
HangupForgets(u, v, cs) ==
  /\ peers' = [peers EXCEPT ![u][v] = NoPc]
  /\ tracks' = [tracks EXCEPT ![u][v] = NoPc]
  /\ pcs' = cs

(* hangup_peer: whatever connection u has for v is forgotten and closed,   *)
(* with the tracks that feed it.                                           *)
Hangup(u, v, cs) ==
  /\ peers' = [peers EXCEPT ![u][v] = NoPc]
  /\ tracks' = [tracks EXCEPT ![u][v] = NoPc]
  /\ pcs' = Closing(cs, {peers[u][v]})

(* leave: every connection that is registered is hung up. *)
HangupAll(u) ==
  LET present == {v \in Users: peers[u][v] # NoPc} IN
  /\ peers' = [peers EXCEPT ![u] = [v \in Users |-> NoPc]]
  /\ tracks' = [tracks EXCEPT ![u] = [v \in Users |-> IF v \in present THEN NoPc ELSE @[v]]]
  /\ pcs' = Closing(pcs, {peers[u][v]: v \in present})

(* What is left of an earlier stay of u. *)
About(m, u) ==
  \/ m.kind \in {"came", "gone"} /\ m.user = u
  \/ m.kind = "state" /\ u \in m.users
  \/ m.kind \in {"offer", "answer"} /\ m.from = u
Residue(u) ==
  \/ chan[u] \/ u \in occ \/ announce[u].open \/ up[u] # <<>>
  \/ \E n \in PcIds: u \in {pcs[n].own, pcs[n].peer} /\ pcs[n].st \in {"live", "closing"}
  \/ \E j \in jobs: u \in {j.own, j.peer}
  \/ \E i \in DOMAIN down[u]: down[u][i].kind \in {"state", "offer", "answer"}
  \/ \E v \in Users:
       \/ u \in announce[v].users
       \/ \E i \in DOMAIN down[v]: About(down[v][i], u)
       \/ \E i \in DOMAIN up[v]: up[v][i].kind \in {"offer", "answer"} /\ up[v][i].to = u

-----------------------------------------------------------------------------
(* The user interface. *)

(* Joining while in a channel leaves it first. *)
Join(u) ==
  /\ joins < MaxJoins
  /\ joins' = joins + 1
  /\ hasty' = (hasty \/ Residue(u))
  /\ chan' = [chan EXCEPT ![u] = TRUE]
  /\ up' = [up EXCEPT ![u] = @ \o (IF chan[u] THEN <<[kind |-> "leave"]>> ELSE <<>>)
                               \o <<[kind |-> "join"]>>]
  /\ IF chan[u] THEN HangupAll(u) /\ members' = [members EXCEPT ![u] = {}]
     ELSE UNCHANGED <<peers, tracks, pcs, members>>
  /\ UNCHANGED <<jobs, down, server, faults, overlapped, dropped, refused, unheard>>

Leave(u) ==
  /\ chan[u]
  /\ chan' = [chan EXCEPT ![u] = FALSE]
  /\ up' = [up EXCEPT ![u] = Append(@, [kind |-> "leave"])]
  /\ members' = [members EXCEPT ![u] = {}]
  /\ HangupAll(u)
  /\ UNCHANGED <<jobs, down, server, bounds, history>>

-----------------------------------------------------------------------------
(* The server. *)

Fault == faults < MaxFaults /\ faults' = faults + 1

(* A client ignores the news of its own user, and news of a channel is     *)
(* passed on only while the socket's list of channels, read every five     *)
(* seconds, has it: not to the blind.                                      *)
ToOthers(m, d, blind) ==
  [v \in Users |-> IF v = m.user \/ v \in blind THEN d[v] ELSE Append(d[v], m)]
Blind(blind) == unheard' = (unheard \/ blind # {})
Sent(u, k) == up[u] # <<>> /\ Head(up[u]).kind = k /\ ~announce[u].open
Took(u) == up' = [up EXCEPT ![u] = Tail(@)]

RecordJoin(u) ==
  /\ Sent(u, "join") /\ Took(u)
  /\ announce' = [announce EXCEPT ![u] =
                    [users |-> occ \ {u}, new |-> u \notin occ, open |-> TRUE]]
  /\ occ' = occ \union {u}
  /\ overlapped' = (overlapped \/ \E v \in Users: announce[v].open)
  /\ UNCHANGED <<client, links, down, seated, bounds, hasty, dropped, refused, unheard>>

(* The channel or the membership is not found, or its query fails: nothing *)
(* is recorded, and nothing tells the client, which is in the channel.     *)
RefuseJoin(u) ==
  /\ Sent(u, "join") /\ Took(u)
  /\ Fault
  /\ refused' = TRUE
  /\ UNCHANGED <<client, links, down, server, joins, hasty, overlapped, dropped, unheard>>

AnnounceJoin(u) ==
  /\ announce[u].open
  /\ \E blind \in SUBSET (Users \ {u}):
       /\ IF blind = {} THEN UNCHANGED faults ELSE announce[u].new /\ Fault
       /\ LET d == IF announce[u].new THEN ToOthers([kind |-> "came", user |-> u], down, blind)
                   ELSE down
          IN down' = [d EXCEPT ![u] = Append(@, [kind |-> "state", users |-> announce[u].users])]
       /\ Blind(blind)
  /\ announce' = [announce EXCEPT ![u] = NoJoin]
  /\ seated' = [seated EXCEPT ![u] = TRUE]
  /\ UNCHANGED <<client, links, up, occ, joins, hasty, overlapped, dropped, refused>>

(* voice_leave: who is not an occupant is not announced. *)
Unseat(u, d, blind) ==
  /\ seated' = [seated EXCEPT ![u] = FALSE]
  /\ occ' = IF seated[u] THEN occ \ {u} ELSE occ
  /\ down' = IF seated[u] /\ u \in occ
             THEN ToOthers([kind |-> "gone", user |-> u], d, blind) ELSE d
  /\ Blind(blind)
  /\ overlapped' = (overlapped \/ \E v \in Users: announce[v].open)

TakeLeave(u) ==
  /\ Sent(u, "leave") /\ Took(u)
  /\ \E blind \in SUBSET (Users \ {u}):
       /\ IF blind = {} THEN UNCHANGED faults ELSE seated[u] /\ Fault
       /\ Unseat(u, down, blind)
  /\ UNCHANGED <<client, links, announce, joins, hasty, dropped, refused>>

(* Signals only flow between two occupants. *)
Passes(u) == {u, Head(up[u]).to} \subseteq occ
Route(u) ==
  /\ \E k \in {"offer", "answer"}: Sent(u, k)
  /\ Took(u)
  /\ LET m == Head(up[u]) IN
       down' = IF Passes(u)
               THEN [down EXCEPT ![m.to] =
                       Append(@, [kind |-> m.kind, from |-> u, pc |-> m.pc])]
               ELSE down
  /\ UNCHANGED <<client, links, server, bounds, history>>

(* The query for the target fails: the signal is lost. *)
RouteFails(u) ==
  /\ \E k \in {"offer", "answer"}: Sent(u, k)
  /\ Took(u)
  /\ Passes(u) /\ Fault
  /\ dropped' = TRUE
  /\ UNCHANGED <<client, links, down, server, joins, hasty, overlapped, refused, unheard>>

(* The socket is lost: the server unseats its user, the client leaves, and *)
(* what was not sent yet goes out on the next connection.                  *)
Disconnect(u) ==
  /\ ~announce[u].open /\ seated[u]
  /\ Fault
  /\ \E blind \in SUBSET (Users \ {u}): Unseat(u, down, blind)
  /\ \E i \in 1..Len(up[u]) + 1:
       up' = [up EXCEPT ![u] = SubSeq(@, i, Len(@)) \o
                               (IF chan[u] THEN <<[kind |-> "leave"]>> ELSE <<>>)]
  /\ chan' = [chan EXCEPT ![u] = FALSE]
  /\ members' = [members EXCEPT ![u] = {}]
  /\ IF chan[u] THEN HangupAll(u) ELSE UNCHANGED <<peers, tracks, pcs>>
  /\ UNCHANGED <<jobs, announce, joins, hasty, dropped, refused>>

-----------------------------------------------------------------------------
(* Events a client handles. *)

Event(u, k) == down[u] # <<>> /\ Head(down[u]).kind = k
Handled(u) == down' = [down EXCEPT ![u] = Tail(@)]
NewJob(u, v, offer) ==
  [own |-> u, peer |-> v, stage |-> "spawned", pc |-> NoPc, offer |-> offer]

(* Faulty variant: who is new is asked after the list has been taken over. *)
OnStateTooLate(u) ==
  /\ Event(u, "state") /\ Handled(u)
  /\ IF chan[u]
     THEN /\ members' = [members EXCEPT ![u] = Head(down[u]).users]
          /\ jobs' = jobs \union {NewJob(u, v, NoPc): v \in Head(down[u]).users \ members'[u]}
     ELSE UNCHANGED <<members, jobs>>
  /\ UNCHANGED <<chan, peers, tracks, pcs, up, server, bounds, history>>

(* handle_voice_state: the joiner offers to everybody it has no connection *)
(* for.  The list of a channel that has been left is not used.             *)
OnState(u) ==
  /\ Event(u, "state") /\ Handled(u)
  /\ LET users == Head(down[u]).users IN
       IF chan[u]
       THEN /\ members' = [members EXCEPT ![u] = users]
            /\ jobs' = jobs \union {NewJob(u, v, NoPc): v \in {w \in users: peers[u][w] = NoPc}}
       ELSE UNCHANGED <<members, jobs>>
  /\ UNCHANGED <<chan, peers, tracks, pcs, up, server, bounds, history>>

(* Faulty variant: the occupants offer to the newcomer, too. *)
OnCameOffers(u) ==
  /\ Event(u, "came") /\ Handled(u)
  /\ LET v == Head(down[u]).user IN
       IF chan[u]
       THEN /\ members' = [members EXCEPT ![u] = @ \union {v}]
            /\ jobs' = IF peers[u][v] = NoPc THEN jobs \union {NewJob(u, v, NoPc)} ELSE jobs
       ELSE UNCHANGED <<members, jobs>>
  /\ UNCHANGED <<chan, peers, tracks, pcs, up, server, bounds, history>>

OnCame(u) ==
  /\ Event(u, "came") /\ Handled(u)
  /\ members' = IF chan[u] THEN [members EXCEPT ![u] = @ \union ({Head(down[u]).user} \ {u})]
                ELSE members
  /\ UNCHANGED <<chan, links, up, server, bounds, history>>

(* Faulty variant: the member is kept. *)
OnGoneKeepsMember(u) ==
  /\ Event(u, "gone") /\ Handled(u)
  /\ IF chan[u] THEN Hangup(u, Head(down[u]).user, pcs) ELSE UNCHANGED <<peers, tracks, pcs>>
  /\ UNCHANGED <<client, jobs, up, server, bounds, history>>

OnGone(u) ==
  /\ Event(u, "gone") /\ Handled(u)
  /\ LET v == Head(down[u]).user IN
       IF chan[u]
       THEN /\ members' = [members EXCEPT ![u] = @ \ {v}]
            /\ Hangup(u, v, pcs)
       ELSE UNCHANGED <<members, peers, tracks, pcs>>
  /\ UNCHANGED <<chan, jobs, up, server, bounds, history>>

(* An offer starts a task, whether or not the client is in the channel. *)
OnOffer(u) ==
  /\ Event(u, "offer") /\ Handled(u)
  /\ jobs' = jobs \union {NewJob(u, Head(down[u]).from, Head(down[u]).pc)}
  /\ UNCHANGED <<client, peers, tracks, pcs, up, server, bounds, history>>

(* An answer is applied to the connection u has NOW for its sender; only   *)
(* one that waits for an answer takes it.                                  *)
OnAnswer(u) ==
  /\ Event(u, "answer") /\ Handled(u)
  /\ LET n == peers[u][Head(down[u]).from] IN
       pcs' = IF Live(n) /\ pcs[n].offered /\ pcs[n].remote = NoPc
              THEN [pcs EXCEPT ![n].remote = Head(down[u]).pc] ELSE pcs
  /\ UNCHANGED <<client, peers, tracks, jobs, up, server, bounds, history>>

-----------------------------------------------------------------------------
(* Tasks. *)

Free == {n \in PcIds: pcs[n].st = "free"}
Move(j, k) == jobs' = (jobs \ {j}) \union {k}

(* Only an answering task looks for a connection it can reuse. *)
Reuses(j) == j.offer # NoPc /\ peers[j.own][j.peer] # NoPc

Unused == CHOOSE x \in Free: \A y \in Free: x <= y

BuildPeer(j) ==
  /\ j.stage = "spawned"
  /\ IF Reuses(j)
     THEN /\ Move(j, [j EXCEPT !.stage = "registered", !.pc = peers[j.own][j.peer]])
          /\ UNCHANGED <<tracks, pcs>>
     ELSE /\ Free # {}
          /\ pcs' = [pcs EXCEPT ![Unused] = [FreePc EXCEPT !.own = j.own, !.peer = j.peer,
                                                         !.st = "live"]]
          /\ tracks' = [tracks EXCEPT ![j.own][j.peer] = Unused]
          /\ Move(j, [j EXCEPT !.stage = "built", !.pc = Unused])
  /\ UNCHANGED <<client, peers, up, down, server, bounds, history>>

(* A connection cannot be built, or not all of its tracks be added: the    *)
(* task ends.  The connection goes with it, and a track that was noted     *)
(* stays noted.                                                            *)
BuildFails(j) ==
  /\ j.stage = "spawned" /\ ~Reuses(j)
  /\ Fault
  /\ jobs' = jobs \ {j}
  /\ \/ UNCHANGED <<tracks, pcs>>
     \/ /\ Free # {}
        /\ pcs' = [pcs EXCEPT ![Unused] = [FreePc EXCEPT !.st = "closed"]]
        /\ tracks' = [tracks EXCEPT ![j.own][j.peer] = Unused]
  /\ dropped' = TRUE
  /\ UNCHANGED <<client, peers, up, down, server, joins, hasty, overlapped, refused, unheard>>

RegisterPeer(j) ==
  /\ j.stage = "built"
  /\ peers' = [peers EXCEPT ![j.own][j.peer] = j.pc]
  /\ Move(j, [j EXCEPT !.stage = "registered"])
  /\ UNCHANGED <<client, tracks, pcs, up, down, server, bounds, history>>

(* The description leaves, unless the connection was closed meanwhile, is  *)
(* waiting for an answer itself, or the client has left the channel.       *)
Able(j) == Live(j.pc) /\ (j.offer # NoPc => ~(pcs[j.pc].offered /\ pcs[j.pc].remote = NoPc))
Applied(j) == IF j.offer = NoPc THEN [pcs EXCEPT ![j.pc].offered = TRUE]
              ELSE [pcs EXCEPT ![j.pc].remote = j.offer]
Describe(j) ==
  /\ j.stage = "registered"
  /\ jobs' = jobs \ {j}
  /\ pcs' = IF Able(j) THEN Applied(j) ELSE pcs
  /\ LET kind == IF j.offer = NoPc THEN "offer" ELSE "answer" IN
       up' = IF Able(j) /\ chan[j.own]
             THEN [up EXCEPT ![j.own] = Append(@, [kind |-> kind, to |-> j.peer, pc |-> j.pc])]
             ELSE up
  /\ UNCHANGED <<client, peers, tracks, down, server, bounds, history>>

(* A description cannot be made or applied: the task ends without a        *)
(* signal, and the connection stays in the table.                          *)
DescribeFails(j) ==
  /\ j.stage = "registered" /\ Able(j)
  /\ Fault
  /\ jobs' = jobs \ {j}
  /\ pcs' \in {pcs, Applied(j)}
  /\ dropped' = TRUE
  /\ UNCHANGED <<client, peers, tracks, up, down, server, joins, hasty, overlapped, refused,
                 unheard>>

-----------------------------------------------------------------------------
(* Callbacks. *)

(* A connection has been closed: its handler hangs up its peer once more,  *)
(* whatever connection that peer has by then.                              *)
Closed(n) ==
  /\ pcs[n].st = "closing"
  /\ Hangup(pcs[n].own, pcs[n].peer, [pcs EXCEPT ![n] = [FreePc EXCEPT !.st = "closed"]])
  /\ UNCHANGED <<client, jobs, up, down, server, bounds, history>>

(* A connection never came up, or its other end has closed. *)
Stranded(n) ==
  /\ Live(n) /\ pcs[n].remote # NoPc /\ ~Live(pcs[n].remote)
  /\ Hangup(pcs[n].own, pcs[n].peer, Closing(pcs, {n}))
  /\ UNCHANGED <<client, jobs, up, down, server, bounds, history>>

(* A connection in use is reported Disconnected or Failed. *)
Drop(n) ==
  /\ Linked(n)
  /\ Fault
  /\ dropped' = TRUE
  /\ Hangup(pcs[n].own, pcs[n].peer, pcs)
  /\ UNCHANGED <<client, jobs, up, down, server, joins, hasty, overlapped, refused, unheard>>

-----------------------------------------------------------------------------
PerUser(u) ==
  \/ Join(u) \/ Leave(u) \/ RecordJoin(u) \/ RefuseJoin(u) \/ AnnounceJoin(u) \/ TakeLeave(u)
  \/ Route(u) \/ RouteFails(u) \/ Disconnect(u)
  \/ OnState(u) \/ OnCame(u) \/ OnGone(u) \/ OnOffer(u) \/ OnAnswer(u)
PerJob(j) == BuildPeer(j) \/ BuildFails(j) \/ RegisterPeer(j) \/ Describe(j) \/ DescribeFails(j)
PerPc(n) == Closed(n) \/ Stranded(n) \/ Drop(n)

Next ==
  \/ \E u \in Users: PerUser(u)
  \/ \E j \in jobs: PerJob(j)
  \/ \E n \in PcIds: PerPc(n)

Spec == Init /\ [][Next]_vars

-----------------------------------------------------------------------------
(* Nothing is under way any more. *)
Quiet ==
  /\ \A u \in Users: up[u] = <<>> /\ down[u] = <<>> /\ ~announce[u].open
  /\ jobs = {}
  /\ \A n \in PcIds: pcs[n].st # "closing"
                     /\ (Live(n) /\ pcs[n].remote # NoPc => Live(pcs[n].remote))

(* Once all is quiet, two users who are in the channel hear each other,    *)
(* unless one came back before an earlier stay was settled, the server     *)
(* refused a join, or a connection or a step towards one failed.           *)
MeshComplete ==
  Quiet /\ ~hasty /\ ~refused /\ ~dropped =>
    \A u, v \in Users: u # v /\ chan[u] /\ chan[v] =>
      LET n == peers[u][v] IN
        /\ Linked(n) /\ pcs[n].remote = peers[v][u]
        /\ tracks[u][v] = n

(* Of each pair, the one who came later offers: two connections that both  *)
(* offered never face each other.                                          *)
OneOfferer ==
  ~hasty => \A n, m \in PcIds:
    Live(n) /\ Live(m) /\ pcs[n].own = pcs[m].peer /\ pcs[m].own = pcs[n].peer
      => ~(pcs[n].offered /\ pcs[m].offered)

(* Whoever left the channel is connected to nobody, and a connection that  *)
(* is open can be found, to be hung up.                                    *)
NoOrphan ==
  ~hasty => \A n \in PcIds:
    /\ Linked(n) => chan[pcs[n].own]
    /\ Live(n) => peers[pcs[n].own][pcs[n].peer] = n \/ \E j \in jobs: j.pc = n

(* Once all is quiet, the member list is the server's, unless joins        *)
(* overlapped, a join was refused, or a socket did not pass news on.       *)
MembersExact ==
  Quiet /\ ~overlapped /\ ~refused /\ ~unheard => \A u \in Users:
    /\ chan[u] <=> u \in occ
    /\ members[u] = IF chan[u] THEN occ \ {u} ELSE {}
=============================================================================
