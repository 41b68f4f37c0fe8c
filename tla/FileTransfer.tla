---------------------------- MODULE FileTransfer ----------------------------
(***************************************************************************)
(* One file of one message, on its way from the sender's client to the     *)
(* clients of the recipients (crates/feditexter-iced/src/p2p.rs and the    *)
(* file messages of main.rs).  Signals go through the server and are lost  *)
(* when the other side is not connected; the bytes go over a WebRTC data   *)
(* channel, reliable and ordered until it breaks.  Connections are         *)
(* numbered as the sender creates them, but both clients file them under   *)
(* (file, peer): an attempt replaces the entry of the one before it.       *)
(*                                                                         *)
(* A temporary file is named after the connection that created it, so that *)
(* two transfers that opened the same path write into the same file.       *)
(***************************************************************************)
EXTENDS Naturals, Sequences, FiniteSets

CONSTANTS
  Receivers,   \* the users who can fetch the file
  Parts,       \* number of chunks of the file
  MaxConns,    \* bound: connections the sender creates
  MaxFetches,  \* bound: fetch signals of a receiver
  MaxRestarts  \* bound: restarts of clients

ASSUME FileAssumption ==
  /\ Parts \in Nat \ {0}
  /\ MaxConns \in Nat \ {0}
  /\ MaxFetches \in Nat \ {0}
  /\ MaxRestarts \in Nat
  /\ "nobody" \notin Receivers

VARIABLES
  serving,     \* the sender's client holds the bytes
  to,          \* to[c]: whom the sender created connection c for
  sPc, rPc,    \* the peer connection c on the sender's and the receiver's side
  sTask,       \* sTask[c]: the sender's task of connection c
  rTask,       \* rTask[c]: the receiver's task of connection c
  sPeer,       \* sPeer[r]: the sender's entry for (file, r)
  rPeer,       \* rPeer[r]: r's entry for (file, sender)
  rIce,        \* rIce[r]: candidates of the sender wait for r's entry
  answered,    \* answered[c]: the connection whose answer was applied to c
  sent, got,   \* frames of c put on, and taken from, its channel
  toSender,    \* toSender[r]: signals on their way from r to the sender
  toReceiver,  \* toReceiver[r]: signals on their way to r
  fetched, pending, done,   \* r's memory of the file (P2pInner)
  timers,      \* timers[r]: watchdogs of r's fetches that still sleep
  part, final, \* the files under the temporary and the final name, or NoConn
  content,     \* content[c]: chunks in the file that connection c created
  fd,          \* fd[c]: the file the task of c writes into
  news,        \* news[r]: a Complete event waits for r's client
  status,      \* status[r]: p2p_status of the file
  held,        \* held[r]: r's client has the file in `downloaded'
  fetches, restarts,  \* fetch signals of r, restarts (bounds only)
  raced,       \* history: r fetched while an earlier attempt was under way
  refused      \* history: r's disk failed to sync or to rename a received file

senderVars == <<serving, to, sPc, sTask, sPeer, answered, sent>>
connVars   == <<rPc, rTask, rPeer, rIce, got, fd>>
memory     == <<fetched, pending, done, timers>>
disk       == <<part, final, content>>
signals    == <<toSender, toReceiver>>
screen     == <<status, held>>
history    == <<fetches, restarts, raced, refused>>
vars == <<senderVars, connVars, memory, disk, signals, news, screen, history>>

Conns  == 1..MaxConns
NoConn == 0
Slots  == Conns \union {NoConn}
Nobody == "nobody"
Chunks == 1..Parts
Frames == Parts + 2     \* the file header, the chunks, "done"

PcStates  == {"none", "live", "closed"}
SendTasks == {"none", "building", "offered", "streaming", "acking", "ended"}
RecvTasks == {"none", "building", "answered", "connected", "loading", "grace", "ended"}
Statuses  == {"none", "waiting", "connecting", "downloading", "failed"}
Signals   == [kind: {"fetch", "offer", "answer", "cancel"}, conn: Slots]

Signal(k, c) == [kind |-> k, conn |-> c]
Emit(r, e) == status' = [status EXCEPT ![r] = e]
Close(pc, c) == IF c = NoConn \/ pc[c] # "live" THEN pc ELSE [pc EXCEPT ![c] = "closed"]

TypeOK ==
  /\ serving \in BOOLEAN
  /\ to \in [Conns -> Receivers \union {Nobody}]
  /\ sPc \in [Conns -> PcStates] /\ rPc \in [Conns -> PcStates]
  /\ sTask \in [Conns -> SendTasks] /\ rTask \in [Conns -> RecvTasks]
  /\ sPeer \in [Receivers -> Slots] /\ rPeer \in [Receivers -> Slots]
  /\ rIce \in [Receivers -> BOOLEAN]
  /\ answered \in [Conns -> Slots]
  /\ sent \in [Conns -> 0..Frames] /\ got \in [Conns -> 0..Frames]
  /\ toSender \in [Receivers -> Seq(Signals)]
  /\ toReceiver \in [Receivers -> Seq(Signals)]
  /\ fetched \in [Receivers -> BOOLEAN] /\ pending \in [Receivers -> BOOLEAN]
  /\ done \in [Receivers -> BOOLEAN] /\ timers \in [Receivers -> Nat]
  /\ part \in [Receivers -> Slots] /\ final \in [Receivers -> Slots]
  /\ content \in [Conns -> SUBSET Chunks] /\ fd \in [Conns -> Slots]
  /\ news \in [Receivers -> BOOLEAN]
  /\ status \in [Receivers -> Statuses] /\ held \in [Receivers -> BOOLEAN]
  /\ fetches \in [Receivers -> 0..MaxFetches] /\ restarts \in 0..MaxRestarts
  /\ raced \in [Receivers -> BOOLEAN] /\ refused \in [Receivers -> BOOLEAN]

Init ==
  /\ serving = TRUE
  /\ to = [c \in Conns |-> Nobody]
  /\ sPc = [c \in Conns |-> "none"] /\ rPc = [c \in Conns |-> "none"]
  /\ sTask = [c \in Conns |-> "none"] /\ rTask = [c \in Conns |-> "none"]
  /\ sPeer = [r \in Receivers |-> NoConn] /\ rPeer = [r \in Receivers |-> NoConn]
  /\ rIce = [r \in Receivers |-> FALSE]
  /\ answered = [c \in Conns |-> NoConn]
  /\ sent = [c \in Conns |-> 0] /\ got = [c \in Conns |-> 0]
  /\ toSender = [r \in Receivers |-> <<>>] /\ toReceiver = [r \in Receivers |-> <<>>]
  /\ fetched = [r \in Receivers |-> FALSE] /\ pending = [r \in Receivers |-> FALSE]
  /\ done = [r \in Receivers |-> FALSE] /\ timers = [r \in Receivers |-> 0]
  /\ part = [r \in Receivers |-> NoConn] /\ final = [r \in Receivers |-> NoConn]
  /\ content = [c \in Conns |-> {}] /\ fd = [c \in Conns |-> NoConn]
  /\ news = [r \in Receivers |-> FALSE]
  /\ status = [r \in Receivers |-> "none"] /\ held = [r \in Receivers |-> FALSE]
  /\ fetches = [r \in Receivers |-> 0] /\ restarts = 0
  /\ raced = [r \in Receivers |-> FALSE] /\ refused = [r \in Receivers |-> FALSE]

-----------------------------------------------------------------------------
(* The user interface of a receiver. *)

SenderBusy(c) == sTask[c] \notin {"none", "ended"}
ReceiverBusy(c) == rTask[c] \notin {"none", "ended"}
UnderWay(r) ==
  \/ \E i \in DOMAIN toSender[r]: toSender[r][i].kind = "fetch"
  \/ \E i \in DOMAIN toReceiver[r]: toReceiver[r][i].kind \in {"offer", "cancel"}
  \/ \E c \in Conns: to[c] = r /\ (SenderBusy(c) \/ ReceiverBusy(c))

(* `fetch', once its test has passed: the receiver remembers the request,  *)
(* says so, asks the sender, and starts the watchdog.                      *)
AskSender(r) ==
  /\ fetches[r] < MaxFetches
  /\ fetches' = [fetches EXCEPT ![r] = @ + 1]
  /\ fetched' = [fetched EXCEPT ![r] = TRUE]
  /\ pending' = [pending EXCEPT ![r] = TRUE]
  /\ timers' = [timers EXCEPT ![r] = @ + 1]
  /\ Emit(r, "waiting")
  /\ toSender' = [toSender EXCEPT ![r] = Append(@, Signal("fetch", NoConn))]
  /\ UNCHANGED <<restarts, refused>>
  /\ raced' = [raced EXCEPT ![r] = @ \/ UnderWay(r)]

(* The messages of a conversation were loaded or arrived: every file the   *)
(* client does not hold is fetched, once.                                  *)
AutoFetch(r) ==
  /\ ~held[r] /\ ~fetched[r] /\ ~done[r] /\ ~pending[r]
  /\ AskSender(r)
  /\ UNCHANGED <<senderVars, connVars, done, disk, toReceiver, news, held>>

(* The user opens the preview of a file that cannot be read, or presses    *)
(* `retry': all memory of the file is dropped before it is fetched again.  *)
Retry(r) ==
  /\ ~held[r] \/ final[r] = NoConn
  /\ done' = [done EXCEPT ![r] = FALSE]
  /\ AskSender(r)
  /\ UNCHANGED <<senderVars, connVars, disk, toReceiver, news, held>>

(* The client handles Complete: the file is held and its status is gone.   *)
(* (A status is only shown, so its events are taken to be handled at once.)*)
HandleComplete(r) ==
  /\ news[r]
  /\ news' = [news EXCEPT ![r] = FALSE]
  /\ held' = [held EXCEPT ![r] = TRUE]
  /\ Emit(r, "none")
  /\ UNCHANGED <<senderVars, connVars, memory, disk, signals, history>>

(* Faulty variants: the watchdog leaves the fetch pending, or is silent. *)
TimeoutKeepsPending(r) ==
  /\ timers[r] > 0
  /\ timers' = [timers EXCEPT ![r] = @ - 1]
  /\ IF pending[r] THEN Emit(r, "failed") ELSE UNCHANGED status
  /\ UNCHANGED <<senderVars, connVars, fetched, pending, done, disk, signals, news, held,
                 history>>

TimeoutSilent(r) ==
  /\ timers[r] > 0
  /\ timers' = [timers EXCEPT ![r] = @ - 1]
  /\ pending' = [pending EXCEPT ![r] = FALSE]
  /\ UNCHANGED <<senderVars, connVars, fetched, done, disk, signals, news, screen, history>>

(* The watchdog of a fetch wakes up.  It knows the file, not the attempt.  *)
Timeout(r) ==
  /\ timers[r] > 0
  /\ timers' = [timers EXCEPT ![r] = @ - 1]
  /\ pending' = [pending EXCEPT ![r] = FALSE]
  /\ IF pending[r] THEN Emit(r, "failed") ELSE UNCHANGED status
  /\ UNCHANGED <<senderVars, connVars, fetched, done, disk, signals, news, held, history>>

-----------------------------------------------------------------------------
(* The sender's side. *)

Arrived(box, r, k) == box[r] # <<>> /\ Head(box[r]).kind = k
Respond(r, s) == toReceiver' = [toReceiver EXCEPT ![r] = Append(@, s)]
Free == {c \in Conns: to[c] = Nobody}

(* A fetch arrives: cancel when the bytes are gone, or start a connection. *)
OnFetch(r) ==
  /\ Arrived(toSender, r, "fetch")
  /\ toSender' = [toSender EXCEPT ![r] = Tail(@)]
  /\ \/ /\ ~serving
        /\ Respond(r, Signal("cancel", NoConn))
        /\ UNCHANGED <<to, sTask, sPc>>
     \/ /\ serving
        /\ \E c \in Free:
             /\ \A d \in Free: c <= d
             /\ to' = [to EXCEPT ![c] = r]
             /\ sTask' = [sTask EXCEPT ![c] = "building"]
             /\ sPc' = [sPc EXCEPT ![c] = "live"]
        /\ UNCHANGED toReceiver
  /\ UNCHANGED <<serving, sPeer, answered, sent, connVars, memory, disk,
                 news, screen, history>>

(* register_peer: the entry is replaced and waiting candidates are handed  *)
(* over.  A replaced connection may be dropped with its entry, or live on  *)
(* in the hands of its task.  Then the offer leaves and the streaming task *)
(* waits for the channel.                                                  *)
SendOffer(c) ==
  /\ sTask[c] = "building"
  /\ LET r == to[c] IN
       /\ sTask' = [sTask EXCEPT ![c] = "offered"]
       /\ sPc' \in {sPc, Close(sPc, sPeer[r])}
       /\ sPeer' = [sPeer EXCEPT ![r] = c]
       /\ Respond(r, Signal("offer", c))
  /\ UNCHANGED <<serving, to, answered, sent, connVars, memory, disk, toSender, news,
                 screen, history>>

(* fail_file on the sender: EVERY entry of the file is closed and removed. *)
FailSender ==
  /\ sPc' = [c \in Conns |-> IF c \in {sPeer[r]: r \in Receivers} /\ sPc[c] = "live"
                             THEN "closed" ELSE sPc[c]]
  /\ sPeer' = [r \in Receivers |-> NoConn]

(* An await on the way to the offer fails. *)
OfferFails(c) ==
  /\ sTask[c] = "building"
  /\ sTask' = [sTask EXCEPT ![c] = "ended"]
  /\ FailSender
  /\ UNCHANGED <<serving, to, answered, sent, connVars, memory, disk, signals,
                 news, screen, history>>

(* An answer is applied to the entry the sender has NOW; a connection that *)
(* has one already refuses it.                                             *)
OnAnswer(r) ==
  /\ Arrived(toSender, r, "answer")
  /\ toSender' = [toSender EXCEPT ![r] = Tail(@)]
  /\ LET c == sPeer[r] IN
       IF c = NoConn \/ (c # NoConn /\ answered[c] # NoConn)
       THEN UNCHANGED answered
       ELSE answered' = [answered EXCEPT ![c] = Head(toSender[r]).conn]
  /\ UNCHANGED <<serving, to, sPc, sTask, sPeer, sent, connVars, memory, disk,
                 toReceiver, news, screen, history>>

(* Both ends hold each other's descriptions. *)
Linked(c) == answered[c] = c /\ sPc[c] = "live" /\ rPc[c] = "live"

(* The channel is open: the header is written. *)
OpenSender(c) ==
  /\ sTask[c] = "offered" /\ Linked(c)
  /\ sTask' = [sTask EXCEPT ![c] = "streaming"]
  /\ sent' = [sent EXCEPT ![c] = 1]
  /\ UNCHANGED <<serving, to, sPc, sPeer, answered, connVars, memory, disk,
                 signals, news, screen, history>>

(* The next frame is written; a write on a closed connection fails and     *)
(* ends the stream, and after the last frame the task waits for the ack.   *)
SendFrame(c) ==
  /\ sTask[c] = "streaming"
  /\ sent' = IF sPc[c] = "live" THEN [sent EXCEPT ![c] = @ + 1] ELSE sent
  /\ sTask' = IF sPc[c] = "live" /\ sent[c] + 1 < Frames THEN sTask
              ELSE [sTask EXCEPT ![c] = "acking"]
  /\ UNCHANGED <<serving, to, sPc, sPeer, answered, connVars, memory, disk,
                 signals, news, screen, history>>

(* finish_peer on the sender closes whatever the entry of the peer is.  It *)
(* ends the wait for the ack (ack, close or 30 s), or a channel that was   *)
(* closed before it opened.                                                *)
EndSender(c) ==
  /\ sTask[c] = "acking" \/ (sTask[c] = "offered" /\ sPc[c] = "closed")
  /\ sTask' = [sTask EXCEPT ![c] = "ended"]
  /\ sPc' = Close(sPc, sPeer[to[c]])
  /\ sPeer' = [sPeer EXCEPT ![to[c]] = NoConn]
  /\ UNCHANGED <<serving, to, answered, sent, connVars, memory, disk, signals,
                 news, screen, history>>

(* The connection is reported failed on the sender's side. *)
SenderLosesLink(c) ==
  /\ sPc[c] = "live" /\ sTask[c] \in {"offered", "streaming", "acking"}
  /\ sPc' = [x \in Conns |-> IF (x = c \/ x \in {sPeer[r]: r \in Receivers}) /\ sPc[x] = "live"
                             THEN "closed" ELSE sPc[x]]
  /\ sPeer' = [r \in Receivers |-> NoConn]
  /\ UNCHANGED <<serving, to, sTask, answered, sent, connVars, memory, disk,
                 signals, news, screen, history>>

-----------------------------------------------------------------------------
(* The receiver's side. *)

(* An offer arrives: a task starts to build the other end. *)
OnOffer(r) ==
  /\ Arrived(toReceiver, r, "offer")
  /\ toReceiver' = [toReceiver EXCEPT ![r] = Tail(@)]
  /\ LET c == Head(toReceiver[r]).conn IN
       /\ rTask' = [rTask EXCEPT ![c] = "building"]
       /\ rPc' = [rPc EXCEPT ![c] = "live"]
  /\ UNCHANGED <<senderVars, rPeer, rIce, got, fd, memory, disk, toSender, news,
                 screen, history>>

(* Faulty variant: the candidates that came early are forgotten. *)
SendAnswerWithoutCandidates(c) ==
  /\ rTask[c] = "building"
  /\ rTask' = [rTask EXCEPT ![c] = "answered"]
  /\ rPeer' = [rPeer EXCEPT ![to[c]] = c]
  /\ toSender' = [toSender EXCEPT ![to[c]] = Append(@, Signal("answer", c))]
  /\ UNCHANGED <<senderVars, rPc, rIce, got, fd, memory, disk, toReceiver, news, screen,
                 history>>

(* The other end is registered and answers. *)
SendAnswer(c) ==
  /\ rTask[c] = "building"
  /\ LET r == to[c] IN
       /\ rTask' = [rTask EXCEPT ![c] = "answered"]
       /\ rPc' \in {rPc, Close(rPc, rPeer[r])}
       /\ rPeer' = [rPeer EXCEPT ![r] = c]
       /\ rIce' = [rIce EXCEPT ![r] = FALSE]
       /\ toSender' = [toSender EXCEPT ![r] = Append(@, Signal("answer", c))]
  /\ UNCHANGED <<senderVars, got, fd, memory, disk, toReceiver, news, screen, history>>

(* fail_file on the receiver: there is one entry per file. *)
FailReceiver(r) ==
  /\ pending' = [pending EXCEPT ![r] = FALSE]
  /\ rPeer' = [rPeer EXCEPT ![r] = NoConn]
  /\ Emit(r, "failed")

AnswerFails(c) ==
  /\ rTask[c] = "building"
  /\ rTask' = [rTask EXCEPT ![c] = "ended"]
  /\ rPc' = [Close(rPc, rPeer[to[c]]) EXCEPT ![c] = "closed"]
  /\ FailReceiver(to[c])
  /\ UNCHANGED <<senderVars, rIce, got, fd, fetched, done, timers, disk, signals,
                 news, held, history>>

(* The sender's candidates may overtake the task that builds the other end. *)
ReceiverOnIce(c) ==
  /\ sTask[c] = "offered" /\ rTask[c] \in {"none", "building"}
  /\ rPeer[to[c]] = NoConn /\ rIce' = [rIce EXCEPT ![to[c]] = TRUE]
  /\ UNCHANGED <<senderVars, rPc, rTask, rPeer, got, fd, memory, disk, signals, news,
                 screen, history>>

OnCancel(r) ==
  /\ Arrived(toReceiver, r, "cancel")
  /\ toReceiver' = [toReceiver EXCEPT ![r] = Tail(@)]
  /\ pending' = [pending EXCEPT ![r] = FALSE]
  /\ rPc' = Close(rPc, rPeer[r])
  /\ rPeer' = [rPeer EXCEPT ![r] = NoConn]
  /\ Emit(r, "failed")
  /\ UNCHANGED <<senderVars, rTask, rIce, got, fd, fetched, done, timers, disk, toSender,
                 news, held, history>>

(* transfer_started: the connection is up, the watchdog has nothing to do. *)
Connected(c) ==
  /\ rTask[c] = "answered" /\ Linked(c)
  /\ rTask' = [rTask EXCEPT ![c] = "connected"]
  /\ pending' = [pending EXCEPT ![to[c]] = FALSE]
  /\ Emit(to[c], "connecting")
  /\ UNCHANGED <<senderVars, rPc, rPeer, rIce, got, fd, fetched, done, timers, disk,
                 signals, news, held, history>>

(* The frames of a channel, in the order they were sent. *)
Frame(c, n) ==
  /\ rTask[c] \in {"connected", "loading"} /\ rPc[c] = "live"
  /\ got[c] < sent[c] /\ got[c] + 1 = n
  /\ got' = [got EXCEPT ![c] = n]

(* The header: the temporary file is created, or truncated when there is   *)
(* one; when the disk refuses, the chunks will be ignored.                 *)
Header(c) ==
  /\ Frame(c, 1)
  /\ LET r == to[c] IN
       \/ /\ LET f == IF part[r] = NoConn THEN c ELSE part[r] IN
               /\ part' = [part EXCEPT ![r] = f]
               /\ fd' = [fd EXCEPT ![c] = f]
               /\ content' = [content EXCEPT ![f] = {}]
          /\ rTask' = [rTask EXCEPT ![c] = "loading"]
          /\ Emit(r, "downloading")
       \/ UNCHANGED <<part, fd, content, rTask, status>>
  /\ UNCHANGED <<senderVars, rPc, rPeer, rIce, memory, final, signals, news, held, history>>

(* A chunk is written where the task stands in its file. *)
Chunk(c) ==
  /\ \E k \in Chunks:
       /\ Frame(c, k + 1)
       /\ content' = IF rTask[c] = "loading"
                     THEN [content EXCEPT ![fd[c]] = @ \union {k}] ELSE content
  /\ UNCHANGED <<senderVars, rPc, rTask, rPeer, rIce, fd, memory, part, final, signals,
                 news, screen, history>>

(* Faulty variant: complete although no file could be created. *)
DoneUnchecked(c) ==
  /\ Frame(c, Frames)
  /\ rTask' = [rTask EXCEPT ![c] = "grace"]
  /\ LET r == to[c] IN
       /\ final' = IF part[r] = NoConn THEN final ELSE [final EXCEPT ![r] = part[r]]
       /\ part' = [part EXCEPT ![r] = NoConn]
       /\ pending' = [pending EXCEPT ![r] = FALSE]
       /\ done' = [done EXCEPT ![r] = TRUE]
       /\ news' = [news EXCEPT ![r] = TRUE]
  /\ UNCHANGED <<senderVars, rPc, rPeer, rIce, fd, fetched, timers, content, signals,
                 screen, history>>

(* "done": what was written is synced, and whatever has the temporary name *)
(* gets the final name.  That the disk refuses either, or that the file is *)
(* gone, is ignored: the transfer is complete and the client is told.      *)
Done(c) ==
  /\ Frame(c, Frames)
  /\ rTask' = [rTask EXCEPT ![c] = "grace"]
  /\ LET r == to[c] IN
       IF rTask[c] = "loading"
       THEN /\ \E fails \in BOOLEAN, lost \in SUBSET Chunks:
                 /\ lost # {} => fails
                 /\ content' = [content EXCEPT ![fd[c]] = @ \ lost]
                 /\ refused' = [refused EXCEPT ![r] = @ \/ fails]
                 /\ \/ /\ part[r] # NoConn
                       /\ final' = [final EXCEPT ![r] = part[r]]
                       /\ part' = [part EXCEPT ![r] = NoConn]
                    \/ /\ fails \/ part[r] = NoConn
                       /\ UNCHANGED <<final, part>>
            /\ pending' = [pending EXCEPT ![r] = FALSE]
            /\ done' = [done EXCEPT ![r] = TRUE]
            /\ news' = [news EXCEPT ![r] = TRUE]
       ELSE UNCHANGED <<final, part, content, pending, done, news, refused>>
  /\ UNCHANGED <<senderVars, rPc, rPeer, rIce, fd, fetched, timers, signals,
                 screen, fetches, restarts, raced>>

(* run_receiver ends: finish_peer, and a temporary file is removed when    *)
(* this task was still writing, or stays behind when the disk refuses.     *)
EndReceiver(c) ==
  LET r == to[c] IN
  /\ rTask' = [rTask EXCEPT ![c] = "ended"]
  /\ rPc' = Close(rPc, rPeer[r])
  /\ rPeer' = [rPeer EXCEPT ![r] = NoConn]
  /\ got' = [got EXCEPT ![c] = 0] /\ fd' = [fd EXCEPT ![c] = NoConn]
  /\ pending' = [pending EXCEPT ![r] = FALSE]
  /\ IF rTask[c] = "loading"
     THEN part' \in {part, [part EXCEPT ![r] = NoConn]} /\ Emit(r, "failed")
     ELSE UNCHANGED <<part, status>>
  /\ UNCHANGED <<senderVars, rIce, fetched, done, timers, final, content,
                 signals, news, held, history>>

(* The other side has closed, or this one, or the grace period is over. *)
SeeClose(c) ==
  /\ \/ rTask[c] = "grace"
     \/ rTask[c] \in {"connected", "loading"} /\ (rPc[c] = "closed" \/ sPc[c] = "closed")
  /\ EndReceiver(c)

(* A chunk cannot be written. *)
WriteFails(c) ==
  /\ rTask[c] = "loading" /\ rPc[c] = "live"
  /\ got[c] < sent[c] /\ got[c] + 1 < Frames
  /\ EndReceiver(c)

(* The connection is reported failed on the receiver's side. *)
ReceiverLosesLink(c) ==
  /\ rPc[c] = "live" /\ rTask[c] \notin {"building", "ended"}
  /\ rPc' = [Close(rPc, rPeer[to[c]]) EXCEPT ![c] = "closed"]
  /\ rTask' = IF rTask[c] \in {"answered", "connected"}
              THEN [rTask EXCEPT ![c] = "ended"] ELSE rTask
  /\ FailReceiver(to[c])
  /\ UNCHANGED <<senderVars, rIce, got, fd, fetched, done, timers, disk, signals,
                 news, held, history>>

(* A connection closed before its channel came never runs a receiver. *)
NeverOpened(c) ==
  /\ rTask[c] \in {"answered", "connected"} /\ rPc[c] = "closed"
  /\ rTask' = [rTask EXCEPT ![c] = "ended"]
  /\ UNCHANGED <<senderVars, rPc, rPeer, rIce, got, fd, memory, disk, signals, news,
                 screen, history>>

-----------------------------------------------------------------------------
(* Faults: the server drops a signal to a client that is not connected,    *)
(* and either client may be restarted at any moment.                       *)
Lose(r) ==
  \/ /\ toSender[r] # <<>> /\ toSender' = [toSender EXCEPT ![r] = Tail(@)]
     /\ UNCHANGED <<toReceiver, senderVars, connVars, memory, disk, news, screen, history>>
  \/ /\ toReceiver[r] # <<>> /\ toReceiver' = [toReceiver EXCEPT ![r] = Tail(@)]
     /\ UNCHANGED <<toSender, senderVars, connVars, memory, disk, news, screen, history>>

RestartSender ==
  /\ serving /\ restarts < MaxRestarts
  /\ restarts' = restarts + 1
  /\ serving' = FALSE
  /\ sTask' = [c \in Conns |-> IF sTask[c] = "none" THEN "none" ELSE "ended"]
  /\ sPc' = [c \in Conns |-> IF sPc[c] = "none" THEN "none" ELSE "closed"]
  /\ sPeer' = [r \in Receivers |-> NoConn]
  /\ UNCHANGED <<to, answered, sent, connVars, memory, disk, signals, news, screen,
                 fetches, raced, refused>>

(* Only the disk of a receiver survives: a file under the final name is    *)
(* shown as held (load_cached_files), a temporary one stays behind.        *)
RestartReceiver(r) ==
  /\ restarts < MaxRestarts
  /\ restarts' = restarts + 1
  /\ rTask' = [c \in Conns |-> IF to[c] = r /\ rTask[c] # "none" THEN "ended" ELSE rTask[c]]
  /\ rPc' = [c \in Conns |-> IF to[c] = r /\ rPc[c] # "none" THEN "closed" ELSE rPc[c]]
  /\ rPeer' = [rPeer EXCEPT ![r] = NoConn]
  /\ rIce' = [rIce EXCEPT ![r] = FALSE]
  /\ fetched' = [fetched EXCEPT ![r] = FALSE]
  /\ pending' = [pending EXCEPT ![r] = FALSE]
  /\ done' = [done EXCEPT ![r] = FALSE]
  /\ timers' = [timers EXCEPT ![r] = 0]
  /\ news' = [news EXCEPT ![r] = FALSE]
  /\ status' = [status EXCEPT ![r] = "none"]
  /\ held' = [held EXCEPT ![r] = final[r] # NoConn]
  /\ got' = [c \in Conns |-> IF to[c] = r THEN 0 ELSE got[c]]
  /\ fd' = [c \in Conns |-> IF to[c] = r THEN NoConn ELSE fd[c]]
  /\ UNCHANGED <<senderVars, disk, signals, fetches, raced, refused>>

-----------------------------------------------------------------------------
PerReceiver(r) ==
  \/ AutoFetch(r) \/ Retry(r) \/ HandleComplete(r) \/ Timeout(r)
  \/ OnFetch(r) \/ OnAnswer(r) \/ OnOffer(r) \/ OnCancel(r)

PerConnection(c) ==
  \/ SendOffer(c) \/ OfferFails(c) \/ OpenSender(c) \/ SendFrame(c)
  \/ EndSender(c) \/ SenderLosesLink(c)
  \/ SendAnswer(c) \/ AnswerFails(c) \/ ReceiverOnIce(c) \/ Connected(c)
  \/ Header(c) \/ Chunk(c) \/ Done(c) \/ SeeClose(c) \/ WriteFails(c)
  \/ ReceiverLosesLink(c) \/ NeverOpened(c)

Next ==
  \/ \E r \in Receivers: PerReceiver(r) \/ Lose(r) \/ RestartReceiver(r)
  \/ \E c \in Conns: PerConnection(c)
  \/ RestartSender

(* Timers fire, running tasks go on and the client handles its events.     *)
(* Nothing is assumed of signals, of connections being made or of users.   *)
(* Each of these steps uses up a timer, a frame, a task or an event, so    *)
(* one fairness condition is enough for all of them.                       *)
Progress ==
  \/ \E r \in Receivers: HandleComplete(r) \/ Timeout(r)
  \/ \E c \in Conns: SendFrame(c) \/ Header(c) \/ Chunk(c) \/ Done(c) \/ SeeClose(c)

Fairness == WF_vars(Progress)

Spec == Init /\ [][Next]_vars
FairSpec == Spec /\ Fairness

-----------------------------------------------------------------------------
(* A fetch that waits for the sender always has a watchdog that sleeps, so *)
(* that a lost fetch, offer or answer is noticed.                          *)
PendingIsWatched == \A r \in Receivers: pending[r] => timers[r] > 0

(* No candidate waits beside a connection it could be added to, however    *)
(* the candidates and the task that answers the offer overtake each other. *)
NoCandidateWaits == \A r \in Receivers: rPeer[r] # NoConn => ~rIce[r]

(* A file shown as waiting does not stay so, unless two attempts met; one  *)
(* shown as downloading is completed, failed or asked for again.           *)
AttemptsEnd ==
  \A r \in Receivers:
    /\ (status[r] = "waiting" /\ ~raced[r]) ~> (status[r] # "waiting" \/ raced[r])
    /\ (status[r] = "downloading") ~> (status[r] # "downloading")

(* What a recipient can rely on (FileDelivery): one that never had two     *)
(* attempts under way at once finds no file or the whole file under the    *)
(* final name, whatever was lost, closed or restarted meanwhile; and what  *)
(* its client shows as held is there, unless the disk failed to keep it.   *)
Delivery == INSTANCE FileDelivery WITH
  copy <- [r \in Receivers |->
             IF final[r] = NoConn THEN "none"
             ELSE IF content[final[r]] = Chunks THEN "whole" ELSE "torn"]
Delivers == Delivery!Spec

(* "The transfer finished; `path` is the finalized file on disk" (p2p.rs:54): *)
(* when a client is told so, and had one attempt under way, the file is there. *)
CompleteIsOnDisk == \A r \in Receivers: news[r] /\ ~raced[r] => final[r] # NoConn
=============================================================================
