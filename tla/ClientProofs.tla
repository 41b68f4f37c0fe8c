---------------------------- MODULE ClientProofs ----------------------------
(***************************************************************************)
(* Two parts of the desktop client, for all values of the constants:       *)
(* FileTransfer implements FileDelivery, and its waiting fetches and       *)
(* candidates are looked after; and the settings that are shown are what   *)
(* the server permits and keeps.                                           *)
(*                                                                         *)
(* The invariant of the refinement says of a recipient that has never had  *)
(* two attempts under way at once that it has at most one: a fetch, or the *)
(* answer to it, or a connection with its offer (OneAttempt).  Then one    *)
(* task at most writes to its files, and what it has written is what it    *)
(* has read (WholeFiles).  That an attempt is not counted twice on its way *)
(* from fetch to offer to task needs that a connection has one offer, and  *)
(* that it is on its way only between the two tasks (OffersOK).  A         *)
(* recipient that has raced loses all this, but its tasks still write only *)
(* into files of its own (OwnFiles).                                       *)
(***************************************************************************)
EXTENDS FileTransfer, Settings, TLAPS

-----------------------------------------------------------------------------
(* The watchdog and the candidates: four variables are enough. *)
WatchTypes ==
  /\ pending \in [Receivers -> BOOLEAN] /\ timers \in [Receivers -> Nat]
  /\ rPeer \in [Receivers -> Slots] /\ rIce \in [Receivers -> BOOLEAN]

WatchInv == WatchTypes /\ PendingIsWatched /\ NoCandidateWaits

LEMMA WatchInit == Init => WatchInv
BY DEF Init, WatchInv, WatchTypes, PendingIsWatched, NoCandidateWaits, Slots, NoConn

LEMMA WatchUnchanged ==
  ASSUME WatchInv, UNCHANGED <<pending, timers, rPeer, rIce>>
  PROVE  WatchInv'
BY DEF WatchInv, WatchTypes, PendingIsWatched, NoCandidateWaits

(* Every action leaves the four variables alone or changes one recipient's part of them. *)
LEMMA WatchStep ==
  ASSUME WatchInv, Next
  PROVE  WatchInv'
<1> USE DEF WatchInv, WatchTypes, PendingIsWatched, NoCandidateWaits, Slots, NoConn
<1>1. ASSUME NEW r \in Receivers, AutoFetch(r) PROVE WatchInv'
  BY <1>1 DEF AutoFetch, AskSender, connVars
<1>2. ASSUME NEW r \in Receivers, Retry(r) PROVE WatchInv'
  BY <1>2 DEF Retry, AskSender, connVars
<1>3. ASSUME NEW r \in Receivers, Timeout(r) PROVE WatchInv'
  BY <1>3 DEF Timeout, connVars
<1>4. ASSUME NEW r \in Receivers, OnCancel(r) PROVE WatchInv'
  BY <1>4 DEF OnCancel
<1>5. ASSUME NEW r \in Receivers, RestartReceiver(r) PROVE WatchInv'
  BY <1>5 DEF RestartReceiver
<1>6. ASSUME NEW c \in Conns, SendAnswer(c) PROVE WatchInv'
  BY <1>6 DEF SendAnswer, memory, Conns
<1>7. ASSUME NEW c \in Conns, AnswerFails(c) PROVE WatchInv'
  BY <1>7 DEF AnswerFails, FailReceiver
<1>8. ASSUME NEW c \in Conns, ReceiverOnIce(c) PROVE WatchInv'
  BY <1>8 DEF ReceiverOnIce, memory
<1>9. ASSUME NEW c \in Conns, Connected(c) PROVE WatchInv'
  BY <1>9 DEF Connected
<1>10. ASSUME NEW c \in Conns, Done(c) PROVE WatchInv'
  BY <1>10 DEF Done
<1>11. ASSUME NEW c \in Conns, EndReceiver(c) PROVE WatchInv'
  BY <1>11 DEF EndReceiver
<1>12. ASSUME NEW c \in Conns, ReceiverLosesLink(c) PROVE WatchInv'
  BY <1>12 DEF ReceiverLosesLink, FailReceiver
<1>13. ASSUME NEW r \in Receivers,
              HandleComplete(r) \/ OnFetch(r) \/ OnAnswer(r) \/ OnOffer(r) \/ Lose(r)
       PROVE  UNCHANGED <<pending, timers, rPeer, rIce>>
  BY <1>13 DEF HandleComplete, OnFetch, OnAnswer, OnOffer, Lose, connVars, memory
<1>14. ASSUME NEW c \in Conns,
              \/ SendOffer(c) \/ OfferFails(c) \/ OpenSender(c) \/ SendFrame(c)
              \/ EndSender(c) \/ SenderLosesLink(c) \/ Header(c) \/ Chunk(c) \/ NeverOpened(c)
       PROVE  UNCHANGED <<pending, timers, rPeer, rIce>>
  BY <1>14 DEF SendOffer, OfferFails, OpenSender, SendFrame, EndSender, SenderLosesLink,
               Header, Chunk, NeverOpened, connVars, memory
<1>15. ASSUME RestartSender PROVE UNCHANGED <<pending, timers, rPeer, rIce>>
  BY <1>15 DEF RestartSender, connVars, memory
<1> QED
  BY <1>1, <1>2, <1>3, <1>4, <1>5, <1>6, <1>7, <1>8, <1>9, <1>10, <1>11, <1>12, <1>13,
     <1>14, <1>15, WatchUnchanged
  DEF Next, PerReceiver, PerConnection, SeeClose, WriteFails

(* A fetch that waits for the sender (p2p.rs, P2pInner.pending) has a sleeping watchdog,
   through any number of fetches, losses and restarts. *)
THEOREM FetchesAreWatched == Spec => []PendingIsWatched
<1>1. WatchInv /\ UNCHANGED vars => WatchInv'
  BY WatchUnchanged DEF vars, connVars, memory
<1>2. WatchInv => PendingIsWatched  BY DEF WatchInv
<1> QED  BY <1>1, <1>2, WatchInit, WatchStep, PTL DEF Spec

(* No candidate of the sender (p2p.rs, pending_ice) waits beside a registered connection. *)
THEOREM CandidatesAreAdded == Spec => []NoCandidateWaits
<1>1. WatchInv /\ UNCHANGED vars => WatchInv'
  BY WatchUnchanged DEF vars, connVars, memory
<1>2. WatchInv => NoCandidateWaits
  BY DEF WatchInv
<1> QED  BY <1>1, <1>2, WatchInit, WatchStep, PTL DEF Spec

-----------------------------------------------------------------------------
LinkTypes ==
  /\ to \in [Conns -> Receivers \union {Nobody}]
  /\ sTask \in [Conns -> SendTasks] /\ rTask \in [Conns -> RecvTasks]
  /\ sent \in [Conns -> Nat]
  /\ raced \in [Receivers -> BOOLEAN]

BoxTypes ==
  /\ toSender \in [Receivers -> Seq(Signals)]
  /\ toReceiver \in [Receivers -> Seq(Signals)]

(* The sender's task exists as soon as the connection has a recipient, the receiver's only
   after the offer, and a stream that runs has frames left. *)
TasksOK ==
  \A c \in Conns:
    /\ sTask[c] = "none" <=> to[c] = Nobody
    /\ sTask[c] \in {"none", "building"} => rTask[c] = "none"
    /\ sTask[c] = "streaming" => sent[c] \in 1..(Frames - 1)

IsOffer(s) == s.kind = "offer"
OffersOK ==
  \A r \in Receivers: \A i \in DOMAIN toReceiver[r]: IsOffer(toReceiver[r][i]) =>
    LET c == toReceiver[r][i].conn IN
      /\ c \in Conns /\ to[c] = r
      /\ sTask[c] \notin {"none", "building"} /\ rTask[c] = "none"
      /\ \A j \in DOMAIN toReceiver[r]:
           IsOffer(toReceiver[r][j]) /\ toReceiver[r][j].conn = c => i = j

linkVars == <<to, sTask, rTask, sent, raced>>

(* Every step keeps the types of the tasks, and of the boxes. *)
LEMMA LinkTypesStep ==
  ASSUME LinkTypes, BoxTypes, OffersOK, Next
  PROVE  LinkTypes'
<1> USE DEF LinkTypes, SendTasks, RecvTasks
<1>1. ASSUME NEW r \in Receivers, AutoFetch(r) \/ Retry(r) PROVE LinkTypes'
  BY <1>1 DEF AutoFetch, Retry, AskSender, senderVars, connVars
<1>2. ASSUME NEW r \in Receivers,
             HandleComplete(r) \/ Timeout(r) \/ OnAnswer(r) \/ OnCancel(r) \/ Lose(r)
      PROVE UNCHANGED linkVars
  BY <1>2 DEF HandleComplete, Timeout, OnAnswer, OnCancel, Lose, senderVars, connVars, history,
              linkVars
<1>3. ASSUME NEW r \in Receivers, OnFetch(r) PROVE LinkTypes'
  BY <1>3 DEF OnFetch, connVars, history
<1>4. ASSUME NEW r \in Receivers, OnOffer(r) PROVE LinkTypes'
  BY <1>4 DEF OnOffer, senderVars, history
<1>5. ASSUME NEW c \in Conns, SendOffer(c) PROVE LinkTypes'
  BY <1>5 DEF SendOffer, connVars, history
<1>6. ASSUME NEW c \in Conns, OfferFails(c) PROVE LinkTypes'
  BY <1>6 DEF OfferFails, connVars, history
<1>7. ASSUME NEW c \in Conns, OpenSender(c) PROVE LinkTypes'
  BY <1>7 DEF OpenSender, connVars, history
<1>8. ASSUME NEW c \in Conns, SendFrame(c) PROVE LinkTypes'
  BY <1>8 DEF SendFrame, connVars, history
<1>9. ASSUME NEW c \in Conns, EndSender(c) PROVE LinkTypes'
  BY <1>9 DEF EndSender, connVars, history
<1>10. ASSUME NEW c \in Conns, SenderLosesLink(c) \/ ReceiverOnIce(c) \/ Chunk(c)
       PROVE  UNCHANGED linkVars
  BY <1>10 DEF SenderLosesLink, ReceiverOnIce, Chunk, senderVars, connVars, history, linkVars
<1>11. ASSUME NEW c \in Conns, SendAnswer(c) PROVE LinkTypes'
  BY <1>11 DEF SendAnswer, senderVars, history
<1>12. ASSUME NEW c \in Conns, AnswerFails(c) PROVE LinkTypes'
  BY <1>12 DEF AnswerFails, senderVars, history
<1>13. ASSUME NEW c \in Conns, Connected(c) PROVE LinkTypes'
  BY <1>13 DEF Connected, senderVars, history
<1>14. ASSUME NEW c \in Conns, Header(c) PROVE LinkTypes'
  BY <1>14 DEF Header, senderVars, history
<1>15. ASSUME NEW c \in Conns, Done(c) PROVE LinkTypes'
  BY <1>15 DEF Done, senderVars, history
<1>16. ASSUME NEW c \in Conns, EndReceiver(c) PROVE LinkTypes'
  BY <1>16 DEF EndReceiver, senderVars, history
<1>17. ASSUME NEW c \in Conns, ReceiverLosesLink(c) PROVE LinkTypes'
  BY <1>17 DEF ReceiverLosesLink, senderVars, history
<1>18. ASSUME NEW c \in Conns, NeverOpened(c) PROVE LinkTypes'
  BY <1>18 DEF NeverOpened, senderVars, history
<1>19. ASSUME RestartSender PROVE LinkTypes'
  BY <1>19 DEF RestartSender, connVars
<1>20. ASSUME NEW r \in Receivers, RestartReceiver(r) PROVE LinkTypes'
  BY <1>20 DEF RestartReceiver, senderVars
<1>21. UNCHANGED linkVars => LinkTypes'
  BY DEF linkVars
<1> QED
  BY <1>1, <1>2, <1>3, <1>4, <1>5, <1>6, <1>7, <1>8, <1>9, <1>10, <1>11, <1>12, <1>13,
     <1>14, <1>15, <1>16, <1>17, <1>18, <1>19, <1>20, <1>21
  DEF Next, PerReceiver, PerConnection, SeeClose, WriteFails

LEMMA AppendBox ==
  ASSUME NEW box \in [Receivers -> Seq(Signals)], NEW r, NEW s \in Signals
  PROVE  [box EXCEPT ![r] = Append(@, s)] \in [Receivers -> Seq(Signals)]
<1>1. r \in Receivers => Append(box[r], s) \in Seq(Signals)
  OBVIOUS
<1> QED  BY <1>1

LEMMA TailBox ==
  ASSUME NEW box \in [Receivers -> Seq(Signals)], NEW r \in Receivers, box[r] # <<>>
  PROVE  /\ [box EXCEPT ![r] = Tail(@)] \in [Receivers -> Seq(Signals)]
         /\ Head(box[r]) = box[r][1] /\ 1 \in DOMAIN box[r]
<1>1. Tail(box[r]) \in Seq(Signals) /\ 1 \in DOMAIN box[r] /\ Head(box[r]) = box[r][1]
  OBVIOUS
<1> QED  BY <1>1

LEMMA SignalTypes ==
  \A c \in Slots: \A k \in {"fetch", "offer", "answer", "cancel"}:
    /\ Signal(k, c) \in Signals
    /\ Signal(k, c).kind = k /\ Signal(k, c).conn = c
BY DEF Signal, Signals

LEMMA BoxTypesStep ==
  ASSUME BoxTypes, LinkTypes, Next
  PROVE  BoxTypes'
<1> USE DEF BoxTypes
<1>0. /\ Signal("fetch", NoConn) \in Signals /\ Signal("cancel", NoConn) \in Signals
      /\ \A c \in Conns: Signal("offer", c) \in Signals /\ Signal("answer", c) \in Signals
  BY SignalTypes DEF Slots
<1>1. ASSUME NEW r \in Receivers, AutoFetch(r) \/ Retry(r) PROVE BoxTypes'
  <2>1. /\ toSender' = [toSender EXCEPT ![r] = Append(@, Signal("fetch", NoConn))]
        /\ UNCHANGED toReceiver
    BY <1>1 DEF AutoFetch, Retry, AskSender
  <2> QED  BY <2>1, <1>0, AppendBox
<1>2. ASSUME NEW r \in Receivers, OnFetch(r) PROVE BoxTypes'
  <2>1. toSender[r] # <<>> /\ toSender' = [toSender EXCEPT ![r] = Tail(@)]
    BY <1>2 DEF OnFetch, Arrived
  <2>2. \/ toReceiver' = toReceiver
        \/ toReceiver' = [toReceiver EXCEPT ![r] = Append(@, Signal("cancel", NoConn))]
    BY <1>2 DEF OnFetch, Respond
  <2>3. CASE toReceiver' = toReceiver
    BY <2>1, <2>3, TailBox
  <2>4. CASE toReceiver' = [toReceiver EXCEPT ![r] = Append(@, Signal("cancel", NoConn))]
    BY <2>1, <2>4, <1>0, TailBox, AppendBox
  <2> QED  BY <2>2, <2>3, <2>4
<1>3. ASSUME NEW r \in Receivers, OnAnswer(r) PROVE BoxTypes'
  BY <1>3, TailBox DEF OnAnswer, Arrived
<1>4. ASSUME NEW r \in Receivers, OnOffer(r) \/ OnCancel(r) PROVE BoxTypes'
  <2>1. /\ toReceiver[r] # <<>> /\ toReceiver' = [toReceiver EXCEPT ![r] = Tail(@)]
        /\ UNCHANGED toSender
    BY <1>4 DEF OnOffer, OnCancel, Arrived
  <2> QED  BY <2>1, TailBox
<1>5. ASSUME NEW r \in Receivers, Lose(r) PROVE BoxTypes'
  <2>1. CASE /\ toReceiver[r] # <<>> /\ toReceiver' = [toReceiver EXCEPT ![r] = Tail(@)]
             /\ UNCHANGED toSender
    BY <2>1, TailBox
  <2>2. CASE /\ toSender[r] # <<>> /\ toSender' = [toSender EXCEPT ![r] = Tail(@)]
             /\ UNCHANGED toReceiver
    BY <2>2, TailBox
  <2> QED  BY <1>5, <2>1, <2>2 DEF Lose
<1>6. ASSUME NEW c \in Conns, SendOffer(c) PROVE BoxTypes'
  BY <1>6, <1>0, AppendBox DEF SendOffer, Respond
<1>7. ASSUME NEW c \in Conns, SendAnswer(c) PROVE BoxTypes'
  BY <1>7, <1>0, AppendBox DEF SendAnswer
<1>8. ASSUME NEW r \in Receivers, HandleComplete(r) \/ Timeout(r) \/ RestartReceiver(r)
      PROVE UNCHANGED signals
  BY <1>8 DEF HandleComplete, Timeout, RestartReceiver
<1>9. ASSUME NEW c \in Conns,
             \/ OfferFails(c) \/ OpenSender(c) \/ SendFrame(c) \/ EndSender(c)
             \/ SenderLosesLink(c) \/ AnswerFails(c) \/ ReceiverOnIce(c) \/ Connected(c)
             \/ Header(c) \/ Chunk(c) \/ Done(c) \/ EndReceiver(c) \/ ReceiverLosesLink(c)
             \/ NeverOpened(c)
      PROVE UNCHANGED signals
  BY <1>9 DEF OfferFails, OpenSender, SendFrame, EndSender, SenderLosesLink, AnswerFails,
              ReceiverOnIce, Connected, Header, Chunk, Done, EndReceiver, ReceiverLosesLink,
              NeverOpened
<1>10. RestartSender => UNCHANGED signals
  BY DEF RestartSender
<1>11. UNCHANGED signals => BoxTypes'
  BY DEF signals
<1> QED
  BY <1>1, <1>2, <1>3, <1>4, <1>5, <1>6, <1>7, <1>8, <1>9, <1>10, <1>11
  DEF Next, PerReceiver, PerConnection, SeeClose, WriteFails

(* Only an offer starts the task of a receiver, and it comes from one of the sender. *)
LEMMA TasksStep ==
  ASSUME TasksOK, OffersOK, LinkTypes, BoxTypes, Next
  PROVE  TasksOK'
<1> USE FileAssumption DEF TasksOK, LinkTypes, Frames
<1>1. ASSUME NEW r \in Receivers,
             \/ AutoFetch(r) \/ Retry(r) \/ HandleComplete(r) \/ Timeout(r) \/ OnAnswer(r)
             \/ OnCancel(r) \/ Lose(r)
      PROVE UNCHANGED <<to, sTask, rTask, sent>>
  BY <1>1 DEF AutoFetch, Retry, HandleComplete, Timeout, OnAnswer, OnCancel, Lose, senderVars,
              connVars
<1>2. ASSUME NEW r \in Receivers, OnFetch(r) PROVE TasksOK'
  BY <1>2 DEF OnFetch, connVars, Free, Nobody
<1>3. ASSUME NEW r \in Receivers, OnOffer(r) PROVE TasksOK'
  <2>1. Head(toReceiver[r]) = toReceiver[r][1] /\ 1 \in DOMAIN toReceiver[r]
    BY <1>3, TailBox DEF OnOffer, Arrived, BoxTypes
  <2> QED
    BY <1>3, <2>1 DEF OnOffer, Arrived, OffersOK, IsOffer, senderVars
<1>4. ASSUME NEW c \in Conns, SendOffer(c) PROVE TasksOK'
  BY <1>4 DEF SendOffer, connVars
<1>5. ASSUME NEW c \in Conns, OfferFails(c) PROVE TasksOK'
  BY <1>5 DEF OfferFails, connVars
<1>6. ASSUME NEW c \in Conns, OpenSender(c) PROVE TasksOK'
  BY <1>6 DEF OpenSender, connVars
<1>7. ASSUME NEW c \in Conns, SendFrame(c) PROVE TasksOK'
  BY <1>7 DEF SendFrame, connVars
<1>8. ASSUME NEW c \in Conns, EndSender(c) PROVE TasksOK'
  BY <1>8 DEF EndSender, connVars
<1>9. ASSUME NEW c \in Conns, SenderLosesLink(c) \/ ReceiverOnIce(c) \/ Chunk(c)
      PROVE UNCHANGED <<to, sTask, rTask, sent>>
  BY <1>9 DEF SenderLosesLink, ReceiverOnIce, Chunk, senderVars, connVars
<1>10. ASSUME NEW c \in Conns,
              \/ SendAnswer(c) \/ AnswerFails(c) \/ Connected(c) \/ Header(c) \/ Done(c)
              \/ (EndReceiver(c) /\ rTask[c] # "none") \/ ReceiverLosesLink(c) \/ NeverOpened(c)
       PROVE /\ UNCHANGED <<to, sTask, sent>>
             /\ rTask[c] # "none" \/ rTask' = rTask
             /\ \A d \in Conns: d # c => rTask'[d] = rTask[d]
  BY <1>10 DEF SendAnswer, AnswerFails, Connected, Header, Done, EndReceiver,
               ReceiverLosesLink, NeverOpened, Frame, senderVars
<1>11. RestartSender => TasksOK'
  BY DEF RestartSender, connVars
<1>12. ASSUME NEW r \in Receivers, RestartReceiver(r) PROVE TasksOK'
  BY <1>12 DEF RestartReceiver, senderVars
<1>13. UNCHANGED <<to, sTask, rTask, sent>> => TasksOK'
  OBVIOUS
<1>14. ASSUME NEW c \in Conns, UNCHANGED <<to, sTask, sent>>,
              rTask[c] # "none" \/ rTask' = rTask,
              \A d \in Conns: d # c => rTask'[d] = rTask[d]
       PROVE TasksOK'
  BY <1>14
<1> HIDE DEF TasksOK, LinkTypes
<1>15. ASSUME NEW c \in Conns, SeeClose(c) \/ WriteFails(c)
       PROVE EndReceiver(c) /\ rTask[c] # "none"
  BY <1>15 DEF SeeClose, WriteFails
<1> QED
  BY <1>1, <1>2, <1>3, <1>4, <1>5, <1>6, <1>7, <1>8, <1>9, <1>10, <1>11, <1>12, <1>13, <1>14,
     <1>15
  DEF Next, PerReceiver, PerConnection

(* What is in a box after a signal has been taken from it, or put into it. *)
LEMMA TailAt ==
  ASSUME NEW box \in [Receivers -> Seq(Signals)], NEW r \in Receivers, box[r] # <<>>,
         NEW box1, box1 = [box EXCEPT ![r] = Tail(@)]
  PROVE  /\ \A q \in Receivers: q # r => box1[q] = box[q]
         /\ \A i \in DOMAIN box1[r]:
              i \in Nat /\ i # 0 /\ i + 1 \in DOMAIN box[r] /\ box1[r][i] = box[r][i + 1]
<1>1. Tail(box[r]) = box1[r]  OBVIOUS
<1>2. \A i \in DOMAIN Tail(box[r]):
        i \in Nat /\ i # 0 /\ i + 1 \in DOMAIN box[r] /\ Tail(box[r])[i] = box[r][i + 1]
  OBVIOUS
<1> QED  BY <1>1, <1>2

LEMMA AppendAt ==
  ASSUME NEW box \in [Receivers -> Seq(Signals)], NEW r \in Receivers, NEW s \in Signals,
         NEW box1, box1 = [box EXCEPT ![r] = Append(@, s)]
  PROVE  /\ \A q \in Receivers: q # r => box1[q] = box[q]
         /\ \A i \in DOMAIN box1[r]:
              \/ i \in DOMAIN box[r] /\ box1[r][i] = box[r][i]
              \/ i = Len(box[r]) + 1 /\ box1[r][i] = s
<1>1. Append(box[r], s) = box1[r]  OBVIOUS
<1>2. \A i \in DOMAIN Append(box[r], s):
        \/ i \in DOMAIN box[r] /\ Append(box[r], s)[i] = box[r][i]
        \/ i = Len(box[r]) + 1 /\ Append(box[r], s)[i] = s
  OBVIOUS
<1> QED  BY <1>1, <1>2

(* A task never goes back to where its offer was still to come. *)
Onward ==
  /\ UNCHANGED to
  /\ \A c \in Conns: sTask[c] \notin {"none", "building"} => sTask'[c] \notin {"none", "building"}
  /\ \A c \in Conns: rTask[c] = "none" => rTask'[c] = "none"

LEMMA OffersKept ==
  ASSUME OffersOK, Onward, UNCHANGED toReceiver
  PROVE  OffersOK'
BY DEF OffersOK, Onward

LEMMA OffersTaken ==
  ASSUME OffersOK, BoxTypes, Onward, NEW r \in Receivers, toReceiver[r] # <<>>,
         toReceiver' = [toReceiver EXCEPT ![r] = Tail(@)]
  PROVE  OffersOK'
<1>1. SUFFICES ASSUME NEW q \in Receivers, NEW i \in DOMAIN toReceiver'[q],
                      IsOffer(toReceiver'[q][i])
               PROVE  LET c == toReceiver'[q][i].conn IN
                        /\ c \in Conns /\ to'[c] = q
                        /\ sTask'[c] \notin {"none", "building"} /\ rTask'[c] = "none"
                        /\ \A j \in DOMAIN toReceiver'[q]:
                             IsOffer(toReceiver'[q][j]) /\ toReceiver'[q][j].conn = c => i = j
  BY <1>1 DEF OffersOK
<1>2. CASE q # r
  <2>1. toReceiver'[q] = toReceiver[q]
    BY <1>2, TailAt DEF BoxTypes
  <2> QED  BY <1>1, <2>1 DEF OffersOK, Onward
<1>3. CASE q = r
  <2>1. \A k \in DOMAIN toReceiver'[r]:
          /\ k \in Nat /\ k + 1 \in DOMAIN toReceiver[r]
          /\ toReceiver'[r][k] = toReceiver[r][k + 1]
    BY TailAt DEF BoxTypes
  <2>2. \A j \in DOMAIN toReceiver'[r]: i + 1 = j + 1 => i = j
    BY <2>1, <1>3
  <2> QED  BY <1>1, <1>3, <2>1, <2>2 DEF OffersOK, Onward
<1> QED  BY <1>2, <1>3

(* An offer is put into the box once, before the receiver has a task, and taken once. *)
LEMMA OffersStep ==
  ASSUME TasksOK, OffersOK, LinkTypes, BoxTypes, Next
  PROVE  OffersOK'
<1>1. ASSUME NEW r \in Receivers, OnFetch(r) PROVE OffersOK'
  <2>1. CASE /\ UNCHANGED <<to, sTask>>
             /\ toReceiver' = [toReceiver EXCEPT ![r] = Append(@, Signal("cancel", NoConn))]
    <3>1. Signal("cancel", NoConn) \in Signals /\ ~IsOffer(Signal("cancel", NoConn))
      BY SignalTypes DEF Slots, IsOffer
    <3>2. rTask' = rTask
      BY <1>1 DEF OnFetch, connVars
    <3>3. \A q \in Receivers: \A i \in DOMAIN toReceiver'[q]: IsOffer(toReceiver'[q][i]) =>
            i \in DOMAIN toReceiver[q] /\ toReceiver'[q][i] = toReceiver[q][i]
      BY <2>1, <3>1, AppendAt DEF BoxTypes
    <3> QED  BY <2>1, <3>2, <3>3 DEF OffersOK
  <2>2. ASSUME NEW c \in Conns, to[c] = Nobody, to' = [to EXCEPT ![c] = r],
               sTask' = [sTask EXCEPT ![c] = "building"], UNCHANGED <<rTask, toReceiver>>
        PROVE  OffersOK'
    <3>1. sTask[c] = "none"
      BY <2>2 DEF TasksOK
    <3> QED  BY <2>2, <3>1 DEF OffersOK, LinkTypes
  <2>3. \/ /\ UNCHANGED <<to, sTask>>
           /\ toReceiver' = [toReceiver EXCEPT ![r] = Append(@, Signal("cancel", NoConn))]
        \/ \E c \in Conns: /\ to[c] = Nobody /\ to' = [to EXCEPT ![c] = r]
                           /\ sTask' = [sTask EXCEPT ![c] = "building"]
                           /\ UNCHANGED <<rTask, toReceiver>>
    BY <1>1 DEF OnFetch, Free, Respond, connVars
  <2> QED  BY <2>1, <2>2, <2>3
<1>2. ASSUME NEW c \in Conns, SendOffer(c) PROVE OffersOK'
  <2> DEFINE r == to[c]
  <2>1. /\ sTask[c] = "building" /\ sTask' = [sTask EXCEPT ![c] = "offered"]
        /\ UNCHANGED <<to, rTask>>
        /\ toReceiver' = [toReceiver EXCEPT ![r] = Append(@, Signal("offer", c))]
    BY <1>2 DEF SendOffer, Respond, connVars
  <2>2. r \in Receivers /\ rTask[c] = "none"
    BY <2>1 DEF TasksOK, LinkTypes
  <2>3. Signal("offer", c) \in Signals /\ Signal("offer", c).conn = c
    BY SignalTypes DEF Slots
  <2>4. \A q \in Receivers: \A i \in DOMAIN toReceiver'[q]:
          \/ i \in DOMAIN toReceiver[q] /\ toReceiver'[q][i] = toReceiver[q][i]
          \/ q = r /\ i = Len(toReceiver[r]) + 1 /\ toReceiver'[q][i] = Signal("offer", c)
    BY <2>1, <2>2, <2>3, AppendAt DEF BoxTypes
  <2>5. \A q \in Receivers: \A i \in DOMAIN toReceiver[q]:
          IsOffer(toReceiver[q][i]) => toReceiver[q][i].conn # c
    BY <2>1 DEF OffersOK
  <2> HIDE DEF r
  <2>6. to[c] = r BY DEF r
  <2> QED  BY <2>1, <2>2, <2>3, <2>4, <2>5, <2>6 DEF OffersOK, LinkTypes
<1>3. ASSUME NEW r \in Receivers, OnOffer(r) PROVE OffersOK'
  <2> DEFINE c == Head(toReceiver[r]).conn
  <2>1. /\ toReceiver[r] # <<>> /\ Head(toReceiver[r]).kind = "offer"
        /\ toReceiver' = [toReceiver EXCEPT ![r] = Tail(@)]
        /\ rTask' = [rTask EXCEPT ![c] = "building"] /\ UNCHANGED <<to, sTask>>
    BY <1>3 DEF OnOffer, Arrived, senderVars
  <2>2. 1 \in DOMAIN toReceiver[r] /\ IsOffer(toReceiver[r][1]) /\ toReceiver[r][1].conn = c
    BY <2>1, TailBox DEF BoxTypes, IsOffer
  <2>3. \A q \in Receivers: \A i \in DOMAIN toReceiver'[q]:
          \E k \in DOMAIN toReceiver[q]:
            /\ k = IF q = r THEN i + 1 ELSE i
            /\ toReceiver'[q][i] = toReceiver[q][k]
            /\ q = r => i \in Nat /\ k # 1
    BY <2>1, TailAt DEF BoxTypes
  <2>4. to[c] = r
    BY <2>2 DEF OffersOK
  <2> HIDE DEF c
  <2>5. \A q \in Receivers: \A i \in DOMAIN toReceiver'[q]:
          IsOffer(toReceiver'[q][i]) => toReceiver'[q][i].conn # c
    BY <2>2, <2>3, <2>4 DEF OffersOK
  <2>6. \A q \in Receivers: \A i, j \in DOMAIN toReceiver'[q]:
          IsOffer(toReceiver'[q][i]) /\ IsOffer(toReceiver'[q][j])
          /\ toReceiver'[q][j].conn = toReceiver'[q][i].conn => i = j
    BY <2>3 DEF OffersOK
  <2>7. \A q \in Receivers: \A i \in DOMAIN toReceiver'[q]: IsOffer(toReceiver'[q][i]) =>
          LET d == toReceiver'[q][i].conn IN
            d \in Conns /\ to[d] = q /\ sTask[d] \notin {"none", "building"} /\ rTask[d] = "none"
    BY <2>3 DEF OffersOK
  <2>8. \A d \in Conns: d # c => rTask'[d] = rTask[d]
    BY <2>1 DEF LinkTypes
  <2>9. \A q \in Receivers: \A i \in DOMAIN toReceiver'[q]: IsOffer(toReceiver'[q][i]) =>
          LET d == toReceiver'[q][i].conn IN
            /\ d \in Conns /\ to'[d] = q
            /\ sTask'[d] \notin {"none", "building"} /\ rTask'[d] = "none"
    BY <2>1, <2>5, <2>7, <2>8
  <2> QED  BY <2>6, <2>9 DEF OffersOK
<1>4. ASSUME NEW r \in Receivers, OnCancel(r) \/ Lose(r) PROVE OffersOK'
  BY <1>4, OffersTaken, OffersKept DEF OnCancel, Arrived, Lose, Onward, senderVars, connVars
<1>5. ASSUME NEW r \in Receivers,
             \/ AutoFetch(r) \/ Retry(r) \/ HandleComplete(r) \/ Timeout(r) \/ OnAnswer(r)
      PROVE  Onward /\ UNCHANGED toReceiver
  BY <1>5 DEF AutoFetch, Retry, AskSender, HandleComplete, Timeout, OnAnswer, senderVars,
              connVars, signals, Onward
<1>6. ASSUME NEW c \in Conns,
             \/ OpenSender(c) \/ SendFrame(c) \/ EndSender(c)
             \/ SenderLosesLink(c)
      PROVE  Onward /\ UNCHANGED toReceiver
  BY <1>6 DEF OpenSender, SendFrame, EndSender, SenderLosesLink, connVars, signals, Onward,
              LinkTypes
<1>7. ASSUME NEW c \in Conns, OfferFails(c) PROVE Onward /\ UNCHANGED toReceiver
  BY <1>7 DEF OfferFails, connVars, signals, Onward, LinkTypes
<1>8. ASSUME NEW c \in Conns,
             \/ SendAnswer(c) \/ AnswerFails(c) \/ ReceiverOnIce(c) \/ Connected(c)
             \/ Header(c) \/ Chunk(c) \/ Done(c)
      PROVE  Onward /\ UNCHANGED toReceiver
  BY <1>8 DEF SendAnswer, AnswerFails, ReceiverOnIce, Connected, Header, Chunk, Done, Frame,
              senderVars, signals, Onward, LinkTypes
<1>9. ASSUME NEW c \in Conns, EndReceiver(c), rTask[c] # "none" PROVE Onward /\ UNCHANGED toReceiver
  BY <1>9 DEF EndReceiver, senderVars, signals, Onward, LinkTypes
<1>10. ASSUME NEW c \in Conns, ReceiverLosesLink(c) \/ NeverOpened(c)
       PROVE  Onward /\ UNCHANGED toReceiver
  BY <1>10 DEF ReceiverLosesLink, NeverOpened, senderVars, signals, Onward, LinkTypes
<1>11. RestartSender => Onward /\ UNCHANGED toReceiver
  BY DEF RestartSender, connVars, signals, Onward, LinkTypes
<1>12. ASSUME NEW r \in Receivers, RestartReceiver(r) PROVE Onward /\ UNCHANGED toReceiver
  BY <1>12 DEF RestartReceiver, senderVars, signals, Onward, LinkTypes
<1>13. ASSUME NEW c \in Conns, SeeClose(c) \/ WriteFails(c)
       PROVE EndReceiver(c) /\ rTask[c] # "none"
  BY <1>13 DEF SeeClose, WriteFails
<1> QED
  BY <1>1, <1>2, <1>3, <1>4, <1>5, <1>6, <1>7, <1>8, <1>9, <1>10, <1>11, <1>12, <1>13, OffersKept
  DEF Next, PerReceiver, PerConnection

-----------------------------------------------------------------------------
(* A recipient that has not raced has at most one attempt under way: a fetch, or the
   answer to it, or a connection with its offer. *)
Fetching(r) == {i \in DOMAIN toSender[r]: toSender[r][i].kind = "fetch"}
Replying(r) == {i \in DOMAIN toReceiver[r]: toReceiver[r][i].kind \in {"offer", "cancel"}}
Busy(c) == SenderBusy(c) \/ ReceiverBusy(c)
Working(r) == {c \in Conns: to[c] = r /\ Busy(c)}

OneAttempt(r) ==
  /\ \A i, j \in Fetching(r): i = j
  /\ \A i, j \in Replying(r): i = j
  /\ \A c, d \in Working(r): c = d
  /\ Fetching(r) # {} => Replying(r) = {} /\ Working(r) = {}
  /\ \A i \in Replying(r), c \in Working(r): toReceiver[r][i] = Signal("offer", c)

Attempts == \A r \in Receivers: ~raced[r] => OneAttempt(r)

(* Fewer tasks and signals leave at most one attempt. *)
Fewer(r) ==
  /\ Working(r)' \subseteq Working(r)
  /\ UNCHANGED <<toSender[r], toReceiver[r]>>

LEMMA FewerKeepsOne ==
  ASSUME NEW r \in Receivers, OneAttempt(r), Fewer(r)
  PROVE  OneAttempt(r)'
BY DEF OneAttempt, Fewer, Fetching, Replying

(* Signals may move up in their boxes. *)
LEMMA ShiftKeepsOne ==
  ASSUME NEW r \in Receivers, OneAttempt(r), Working(r)' \subseteq Working(r),
         NEW m \in {0, 1}, NEW n \in {0, 1},
         \A i \in DOMAIN toSender'[r]:
           i \in Nat /\ i + m \in DOMAIN toSender[r] /\ toSender'[r][i] = toSender[r][i + m],
         \A i \in DOMAIN toReceiver'[r]:
           i \in Nat /\ i + n \in DOMAIN toReceiver[r] /\ toReceiver'[r][i] = toReceiver[r][i + n]
  PROVE  OneAttempt(r)'
<1>1. \A i \in Fetching(r)': i \in Nat /\ i + m \in Fetching(r)
  BY DEF Fetching
<1>2. \A i \in Replying(r)':
        i \in Nat /\ i + n \in Replying(r) /\ toReceiver'[r][i] = toReceiver[r][i + n]
  BY DEF Replying
<1>3. \A i, j \in Nat: (i + m = j + m \/ i + n = j + n) => i = j
  OBVIOUS
<1> QED  BY <1>1, <1>2, <1>3 DEF OneAttempt

LEMMA TakenKeepsOne ==
  ASSUME NEW r \in Receivers, OneAttempt(r), BoxTypes, Working(r)' \subseteq Working(r),
         \/ /\ toSender[r] # <<>> /\ toSender' = [toSender EXCEPT ![r] = Tail(@)]
            /\ UNCHANGED toReceiver
         \/ /\ toReceiver[r] # <<>> /\ toReceiver' = [toReceiver EXCEPT ![r] = Tail(@)]
            /\ UNCHANGED toSender
  PROVE  OneAttempt(r)'
<1>1. \A i \in DOMAIN toSender[r]: i \in Nat /\ i + 0 = i
  BY DEF BoxTypes
<1>2. \A i \in DOMAIN toReceiver[r]: i \in Nat /\ i + 0 = i
  BY DEF BoxTypes
<1>3. CASE /\ toSender[r] # <<>> /\ toSender' = [toSender EXCEPT ![r] = Tail(@)]
           /\ UNCHANGED toReceiver
  <2>1. \A i \in DOMAIN toSender'[r]:
          i \in Nat /\ i + 1 \in DOMAIN toSender[r] /\ toSender'[r][i] = toSender[r][i + 1]
    BY <1>3, TailAt DEF BoxTypes
  <2>2. \A i \in DOMAIN toReceiver'[r]:
          i \in Nat /\ i + 0 \in DOMAIN toReceiver[r] /\ toReceiver'[r][i] = toReceiver[r][i + 0]
    BY <1>2, <1>3
  <2> QED  BY <2>1, <2>2, ShiftKeepsOne
<1>4. CASE /\ toReceiver[r] # <<>> /\ toReceiver' = [toReceiver EXCEPT ![r] = Tail(@)]
           /\ UNCHANGED toSender
  <2>1. \A i \in DOMAIN toReceiver'[r]:
          i \in Nat /\ i + 1 \in DOMAIN toReceiver[r] /\ toReceiver'[r][i] = toReceiver[r][i + 1]
    BY <1>4, TailAt DEF BoxTypes
  <2>2. \A i \in DOMAIN toSender'[r]:
          i \in Nat /\ i + 0 \in DOMAIN toSender[r] /\ toSender'[r][i] = toSender[r][i + 0]
    BY <1>1, <1>4
  <2> QED  BY <2>1, <2>2, ShiftKeepsOne
<1> QED  BY <1>3, <1>4

(* A fetch starts an attempt; one that meets another marks its recipient. *)
LEMMA AskAttempts ==
  ASSUME Attempts, LinkTypes, BoxTypes, NEW r \in Receivers, AutoFetch(r) \/ Retry(r)
  PROVE  Attempts'
<1>1. /\ toSender' = [toSender EXCEPT ![r] = Append(@, Signal("fetch", NoConn))]
      /\ UNCHANGED <<toReceiver, to, sTask, rTask>>
      /\ raced' = [raced EXCEPT ![r] = @ \/ UnderWay(r)]
  BY DEF AutoFetch, Retry, AskSender, senderVars, connVars
<1>2. Signal("fetch", NoConn) \in Signals
  BY SignalTypes DEF Slots
<1>3. \A q \in Receivers: Working(q)' = Working(q)
  BY <1>1 DEF Working, Busy, SenderBusy, ReceiverBusy
<1>4. \A q \in Receivers: q # r => toSender'[q] = toSender[q]
  BY <1>1, <1>2, AppendAt DEF BoxTypes
<1>5. SUFFICES ASSUME NEW q \in Receivers, ~raced'[q]
               PROVE  OneAttempt(q)'
  BY DEF Attempts
<1>6. ~raced[q] /\ OneAttempt(q)
  BY <1>1, <1>5 DEF Attempts, LinkTypes
<1>7. CASE q # r
  BY <1>1, <1>3, <1>4, <1>6, <1>7, FewerKeepsOne DEF Fewer
<1>8. CASE q = r
  <2>1. ~UnderWay(r)
    BY <1>1, <1>5, <1>8 DEF LinkTypes
  <2>2. Fetching(r) = {} /\ Replying(r) = {} /\ Working(r) = {}
    BY <2>1 DEF UnderWay, Fetching, Replying, Working, Busy
  <2>3. Replying(r)' = {} /\ Working(r)' = {}
    BY <2>2, <1>1, <1>3 DEF Replying
  <2>4. \A i \in Fetching(r)': i = Len(toSender[r]) + 1
    BY <2>2, <1>1, <1>2, AppendAt DEF Fetching, BoxTypes
  <2> QED  BY <2>3, <2>4, <1>8 DEF OneAttempt
<1> QED  BY <1>7, <1>8

(* The sender turns a fetch into a cancel or a connection. *)
LEMMA FetchAttempts ==
  ASSUME Attempts, LinkTypes, BoxTypes, TasksOK, NEW r \in Receivers, OnFetch(r)
  PROVE  Attempts'
<1>1. /\ toSender[r] # <<>> /\ Head(toSender[r]).kind = "fetch"
      /\ toSender' = [toSender EXCEPT ![r] = Tail(@)] /\ UNCHANGED <<raced, rTask>>
  BY DEF OnFetch, Arrived, connVars, history
<1>2. \/ /\ UNCHANGED <<to, sTask>>
         /\ toReceiver' = [toReceiver EXCEPT ![r] = Append(@, Signal("cancel", NoConn))]
      \/ \E c \in Conns:
           /\ to[c] = Nobody /\ to' = [to EXCEPT ![c] = r]
           /\ sTask' = [sTask EXCEPT ![c] = "building"] /\ UNCHANGED toReceiver
  BY DEF OnFetch, Respond, Free
<1>3. Signal("cancel", NoConn) \in Signals
  BY SignalTypes DEF Slots
<1>4. 1 \in Fetching(r) /\ \A i \in Fetching(r)': i \in Nat /\ i # 0 /\ i + 1 \in Fetching(r)
  BY <1>1, TailBox, TailAt DEF BoxTypes, Fetching
<1>5. SUFFICES ASSUME NEW q \in Receivers, ~raced[q]
               PROVE  OneAttempt(q)'
  BY <1>1 DEF Attempts
<1>6. OneAttempt(q)
  BY <1>5 DEF Attempts
<1>7. CASE q # r
  <2>1. toSender'[q] = toSender[q]
    BY <1>1, <1>7, TailAt DEF BoxTypes
  <2>2. toReceiver'[q] = toReceiver[q]
    BY <1>2, <1>3, <1>7, AppendAt DEF BoxTypes
  <2>3. Working(q)' \subseteq Working(q)
    BY <1>1, <1>2, <1>7 DEF Working, Busy, SenderBusy, ReceiverBusy, LinkTypes
  <2> QED  BY <1>6, <2>1, <2>2, <2>3, FewerKeepsOne DEF Fewer
<1>8. CASE q = r
  <2>1. Fetching(r)' = {}
    <3>1. \A i \in Nat: i + 1 = 1 => i = 0  OBVIOUS
    <3> QED  BY <1>4, <1>6, <1>8, <3>1 DEF OneAttempt
  <2>2. Replying(r) = {} /\ Working(r) = {}
    BY <1>4, <1>6, <1>8 DEF OneAttempt
  <2>3. CASE /\ UNCHANGED <<to, sTask>>
             /\ toReceiver' = [toReceiver EXCEPT ![r] = Append(@, Signal("cancel", NoConn))]
    <3>1. \A i \in Replying(r)': i = Len(toReceiver[r]) + 1
      BY <2>2, <2>3, <1>3, AppendAt DEF Replying, BoxTypes
    <3>2. Working(r)' = {}
      BY <2>2, <2>3, <1>1 DEF Working, Busy, SenderBusy, ReceiverBusy
    <3> QED  BY <1>8, <2>1, <3>1, <3>2 DEF OneAttempt
  <2>4. CASE \E c \in Conns:
               /\ to[c] = Nobody /\ to' = [to EXCEPT ![c] = r]
               /\ sTask' = [sTask EXCEPT ![c] = "building"] /\ UNCHANGED toReceiver
    <3>1. PICK c \in Conns: /\ to[c] = Nobody /\ to' = [to EXCEPT ![c] = r]
                            /\ sTask' = [sTask EXCEPT ![c] = "building"] /\ UNCHANGED toReceiver
      BY <2>4
    <3>2. Working(r)' \subseteq {c}
      BY <2>2, <3>1, <1>1 DEF Working, Busy, SenderBusy, ReceiverBusy, LinkTypes
    <3>3. Replying(r)' = {}
      BY <2>2, <3>1 DEF Replying
    <3> QED  BY <1>8, <2>1, <3>2, <3>3 DEF OneAttempt
  <2> QED  BY <1>2, <2>3, <2>4
<1> QED  BY <1>7, <1>8

(* The offer is the connection it belongs to. *)
LEMMA OfferAttempts ==
  ASSUME Attempts, LinkTypes, BoxTypes, TasksOK, OffersOK, NEW c \in Conns, SendOffer(c)
  PROVE  Attempts'
<1>0. sTask[c] = "building"
  BY DEF SendOffer
<1>2. PICK r \in Receivers: r = to[c]
  BY <1>0 DEF TasksOK, LinkTypes
<1>3. to[c] = r
  BY <1>2
<1>1. /\ sTask[c] = "building" /\ sTask' = [sTask EXCEPT ![c] = "offered"]
      /\ toReceiver' = [toReceiver EXCEPT ![r] = Append(@, Signal("offer", c))]
      /\ UNCHANGED <<to, rTask, toSender, raced>>
  BY <1>3 DEF SendOffer, Respond, connVars, history
<1>4. /\ Signal("offer", c) \in Signals
      /\ Signal("offer", c).conn = c /\ Signal("offer", c).kind = "offer"
  BY SignalTypes DEF Slots
<1>5. \A d \in Conns: Busy(d)' => Busy(d)
  BY <1>1 DEF Busy, SenderBusy, ReceiverBusy, LinkTypes
<1>6. \A q \in Receivers: Working(q)' \subseteq Working(q)
  BY <1>1, <1>5 DEF Working
<1>7. SUFFICES ASSUME NEW q \in Receivers, ~raced[q]
               PROVE  OneAttempt(q)'
  BY <1>1 DEF Attempts
<1>8. OneAttempt(q)
  BY <1>7 DEF Attempts
<1>9. CASE q # r
  <2>1. toReceiver'[q] = toReceiver[q]
    BY <1>1, <1>2, <1>4, <1>9, AppendAt DEF BoxTypes
  <2> QED  BY <1>1, <1>6, <1>8, <2>1, FewerKeepsOne DEF Fewer
<1>10. CASE q = r
  <2>1. c \in Working(r)
    BY <1>1, <1>3 DEF Working, Busy, SenderBusy
  <2>2. Replying(r) = {}
    <3>1. SUFFICES ASSUME NEW i \in Replying(r) PROVE FALSE
      OBVIOUS
    <3>2. toReceiver[r][i] = Signal("offer", c) /\ i \in DOMAIN toReceiver[r]
      BY <1>8, <1>10, <2>1, <3>1 DEF OneAttempt, Replying
    <3> QED  BY <1>1, <1>2, <1>4, <3>2 DEF OffersOK, IsOffer
  <2>3. Fetching(r)' = {}
    BY <1>1, <1>8, <1>10, <2>1 DEF OneAttempt, Fetching
  <2>4. \A i \in Replying(r)':
          i = Len(toReceiver[r]) + 1 /\ toReceiver'[r][i] = Signal("offer", c)
    BY <1>1, <1>2, <1>4, <2>2, AppendAt DEF BoxTypes, Replying
  <2>5. \A d \in Working(r)': d = c
    BY <1>6, <1>2, <1>8, <1>10, <2>1 DEF OneAttempt
  <2> QED  BY <1>10, <2>3, <2>4, <2>5 DEF OneAttempt
<1> QED  BY <1>9, <1>10

(* So is the task the offer starts. *)
LEMMA OnOfferAttempts ==
  ASSUME Attempts, LinkTypes, BoxTypes, OffersOK, NEW r \in Receivers, OnOffer(r)
  PROVE  Attempts'
<1> DEFINE c == Head(toReceiver[r]).conn
<1>1. /\ toReceiver[r] # <<>> /\ Head(toReceiver[r]).kind = "offer"
      /\ toReceiver' = [toReceiver EXCEPT ![r] = Tail(@)]
      /\ rTask' = [rTask EXCEPT ![c] = "building"]
      /\ UNCHANGED <<to, sTask, toSender, raced>>
  BY DEF OnOffer, Arrived, senderVars, history
<1>2. Head(toReceiver[r]) = toReceiver[r][1] /\ 1 \in DOMAIN toReceiver[r]
  BY <1>1, TailBox DEF BoxTypes
<1>3. toReceiver[r][1].conn = c
  BY <1>2
<1> HIDE DEF c
<1>4. c \in Conns /\ to[c] = r /\ 1 \in Replying(r)
  BY <1>1, <1>2, <1>3 DEF OffersOK, IsOffer, Replying
<1>5. \A d \in Conns: d # c /\ Busy(d)' => Busy(d)
  BY <1>1 DEF Busy, SenderBusy, ReceiverBusy, LinkTypes
<1>6. SUFFICES ASSUME NEW q \in Receivers, ~raced[q]
               PROVE  OneAttempt(q)'
  BY <1>1 DEF Attempts
<1>7. OneAttempt(q)
  BY <1>6 DEF Attempts
<1>8. CASE q # r
  <2>1. toReceiver'[q] = toReceiver[q]
    BY <1>1, <1>8, TailAt DEF BoxTypes
  <2>2. Working(q)' \subseteq Working(q)
    BY <1>1, <1>4, <1>5, <1>8 DEF Working
  <2> QED  BY <1>1, <1>7, <2>1, <2>2, FewerKeepsOne DEF Fewer
<1>9. CASE q = r
  <2>1. Fetching(r)' = {}
    BY <1>1, <1>4, <1>7, <1>9 DEF OneAttempt, Fetching
  <2>2. \A i \in Replying(r)': i \in Nat /\ i # 0 /\ i + 1 \in Replying(r)
    BY <1>1, TailAt DEF BoxTypes, Replying
  <2>3. Replying(r)' = {}
    <3>1. \A i \in Nat: i + 1 = 1 => i = 0  OBVIOUS
    <3> QED  BY <1>4, <1>7, <1>9, <2>2, <3>1 DEF OneAttempt
  <2>4. \A d \in Working(r): d = c
    <3>1. SUFFICES ASSUME NEW d \in Working(r) PROVE d = c
      OBVIOUS
    <3>2. toReceiver[r][1] = Signal("offer", d) /\ d \in Conns
      BY <1>4, <1>7, <1>9, <3>1 DEF OneAttempt, Working
    <3>3. Signal("offer", d).conn = d
      BY <3>2, SignalTypes DEF Slots
    <3> QED  BY <1>3, <3>2, <3>3
  <2>5. \A d \in Working(r)': d = c
    BY <1>1, <1>5, <2>4 DEF Working
  <2> QED  BY <1>9, <2>1, <2>3, <2>5 DEF OneAttempt
<1> QED  BY <1>8, <1>9

(* An answer is not an attempt. *)
LEMMA AnswerAttempts ==
  ASSUME Attempts, LinkTypes, BoxTypes, NEW c \in Conns, SendAnswer(c), to[c] \in Receivers
  PROVE  Attempts'
<1> DEFINE r == to[c]
<1>1. /\ rTask[c] = "building" /\ rTask' = [rTask EXCEPT ![c] = "answered"]
      /\ toSender' = [toSender EXCEPT ![r] = Append(@, Signal("answer", c))]
      /\ UNCHANGED <<to, sTask, toReceiver, raced>>
  BY DEF SendAnswer, senderVars, history
<1>2. r \in Receivers  OBVIOUS
<1> HIDE DEF r
<1>3. Signal("answer", c) \in Signals /\ Signal("answer", c).kind = "answer"
  BY SignalTypes DEF Slots
<1>4. \A d \in Conns: Busy(d)' => Busy(d)
  BY <1>1 DEF Busy, SenderBusy, ReceiverBusy, LinkTypes
<1>5. \A q \in Receivers: Working(q)' \subseteq Working(q)
  BY <1>1, <1>4 DEF Working
<1>6. \A q \in Receivers: Fetching(q)' \subseteq Fetching(q)
  BY <1>1, <1>2, <1>3, AppendAt DEF BoxTypes, Fetching
<1> QED  BY <1>1, <1>5, <1>6 DEF Attempts, OneAttempt, Replying

(* Everything else only takes signals away or ends tasks. *)
LEMMA AttemptsStep ==
  ASSUME Attempts, LinkTypes, BoxTypes, TasksOK, OffersOK, Next
  PROVE  Attempts'
<1> DEFINE Rest == UNCHANGED <<to, signals, raced>> /\ \A c \in Conns: Busy(c)' => Busy(c)
<1>1. ASSUME Rest PROVE Attempts'
  <2>1. \A r \in Receivers: Working(r)' \subseteq Working(r)
    BY <1>1 DEF Working
  <2> QED  BY <1>1, <2>1, FewerKeepsOne DEF Attempts, Fewer, signals
<1>2. ASSUME NEW r \in Receivers, OnAnswer(r) \/ OnCancel(r) \/ Lose(r) PROVE Attempts'
  <2>1. /\ \/ /\ toSender[r] # <<>> /\ toSender' = [toSender EXCEPT ![r] = Tail(@)]
              /\ UNCHANGED toReceiver
           \/ /\ toReceiver[r] # <<>> /\ toReceiver' = [toReceiver EXCEPT ![r] = Tail(@)]
              /\ UNCHANGED toSender
        /\ UNCHANGED <<to, sTask, rTask, raced>>
    BY <1>2 DEF OnAnswer, OnCancel, Lose, Arrived, senderVars, connVars, history
  <2>2. \A q \in Receivers: Working(q)' \subseteq Working(q)
    BY <2>1 DEF Working, Busy, SenderBusy, ReceiverBusy
  <2>3. \A q \in Receivers: q # r => UNCHANGED <<toSender[q], toReceiver[q]>>
    BY <2>1, TailAt DEF BoxTypes
  <2>4. \A q \in Receivers: q # r => Fewer(q)
    BY <2>2, <2>3 DEF Fewer
  <2> QED  BY <2>1, <2>2, <2>4, FewerKeepsOne, TakenKeepsOne DEF Attempts
<1>3. ASSUME NEW c \in Conns, SendAnswer(c) PROVE Attempts'
  <2>1. to[c] \in Receivers
    BY <1>3 DEF SendAnswer, TasksOK, LinkTypes
  <2> QED  BY <1>3, <2>1, AnswerAttempts
<1>4. ASSUME NEW r \in Receivers, HandleComplete(r) \/ Timeout(r) PROVE Rest
  BY <1>4 DEF HandleComplete, Timeout, senderVars, connVars, history, signals, Busy, SenderBusy,
              ReceiverBusy
<1>5. ASSUME NEW c \in Conns,
             OfferFails(c) \/ OpenSender(c) \/ SendFrame(c) \/ EndSender(c) \/ SenderLosesLink(c)
      PROVE  Rest
  BY <1>5 DEF OfferFails, OpenSender, SendFrame, EndSender, SenderLosesLink, connVars, history,
              Busy, SenderBusy, ReceiverBusy, LinkTypes
<1>6. ASSUME NEW c \in Conns,
             \/ AnswerFails(c) \/ ReceiverOnIce(c) \/ Connected(c) \/ Header(c) \/ Chunk(c)
             \/ Done(c) \/ EndReceiver(c) \/ ReceiverLosesLink(c) \/ NeverOpened(c)
      PROVE  UNCHANGED <<to, sTask, signals, raced>>
  BY <1>6 DEF AnswerFails, ReceiverOnIce, Connected, Header, Chunk, Done, EndReceiver,
              ReceiverLosesLink, NeverOpened, senderVars, history
<1>7. ASSUME NEW c \in Conns,
             \/ AnswerFails(c) \/ ReceiverOnIce(c) \/ Connected(c) \/ Header(c) \/ Chunk(c)
             \/ Done(c) \/ EndReceiver(c) \/ ReceiverLosesLink(c) \/ NeverOpened(c)
      PROVE  \A d \in Conns: ReceiverBusy(d)' => ReceiverBusy(d)
  BY <1>7 DEF AnswerFails, ReceiverOnIce, Connected, Header, Chunk, Done, EndReceiver, Frame,
              ReceiverLosesLink, NeverOpened, ReceiverBusy, LinkTypes
<1>8. ASSUME NEW c \in Conns,
             \/ AnswerFails(c) \/ ReceiverOnIce(c) \/ Connected(c) \/ Header(c) \/ Chunk(c)
             \/ Done(c) \/ EndReceiver(c) \/ ReceiverLosesLink(c) \/ NeverOpened(c)
      PROVE  Rest
  BY <1>6, <1>7, <1>8 DEF Busy, SenderBusy
<1>9. RestartSender => Rest
  BY DEF RestartSender, connVars, Busy, SenderBusy, ReceiverBusy, LinkTypes
<1>10. ASSUME NEW r \in Receivers, RestartReceiver(r) PROVE Rest
  BY <1>10 DEF RestartReceiver, senderVars, Busy, SenderBusy, ReceiverBusy, LinkTypes
<1> HIDE DEF Rest
<1> QED
  BY <1>1, <1>2, <1>3, <1>4, <1>5, <1>8, <1>9, <1>10, AskAttempts, FetchAttempts,
     OfferAttempts, OnOfferAttempts
  DEF Next, PerReceiver, PerConnection, SeeClose, WriteFails

-----------------------------------------------------------------------------
FileTypes ==
  /\ part \in [Receivers -> Slots] /\ final \in [Receivers -> Slots]
  /\ content \in [Conns -> SUBSET Chunks] /\ fd \in [Conns -> Slots]
  /\ got \in [Conns -> Nat]
  /\ news \in [Receivers -> BOOLEAN] /\ held \in [Receivers -> BOOLEAN]
  /\ refused \in [Receivers -> BOOLEAN]

(* Files belong to the recipient whose transfer created them. *)
Begun(c) == rTask[c] \in {"loading", "grace", "ended"}
FileOf(f, r) == f # NoConn => to[f] = r /\ Begun(f)
OwnFiles ==
  /\ \A r \in Receivers: FileOf(part[r], r) /\ FileOf(final[r], r)
  /\ \A c \in Conns: FileOf(fd[c], to[c]) /\ (rTask[c] = "loading" => fd[c] # NoConn)

(* What has been read is in the one temporary file, and a final file is whole. *)
Loading(r, c) == to[c] = r /\ rTask[c] = "loading"
WholeFiles(r) ==
  /\ final[r] # NoConn => content[final[r]] = Chunks /\ part[r] # final[r]
  /\ held[r] \/ news[r] => final[r] # NoConn
  /\ \A c \in Conns: Loading(r, c) =>
       /\ fd[c] = part[r] /\ got[c] >= 1
       /\ content[part[r]] = 1..(got[c] - 1)
Sound(r) == ~raced[r] /\ ~refused[r]
Files == \A r \in Receivers: Sound(r) => WholeFiles(r)

fileVars == <<part, final, content, fd, got, news, held, refused>>

(* The tasks go on without touching a file. *)
Untouched ==
  /\ UNCHANGED fileVars
  /\ \A r \in Receivers: raced[r] => raced'[r]
  /\ \A c \in Conns: to'[c] = to[c] \/ (fd[c] = NoConn /\ rTask[c] = "none")
  /\ \A c \in Conns: Begun(c) => Begun(c)'
  /\ \A c \in Conns: rTask'[c] = "loading" => rTask[c] = "loading"

LEMMA UntouchedKeepsFiles ==
  ASSUME FileTypes, OwnFiles, Files, Untouched
  PROVE  FileTypes' /\ OwnFiles' /\ Files'
<1>1. FileTypes'
  BY DEF FileTypes, Untouched, fileVars
<1>2. OwnFiles'
  BY DEF FileTypes, OwnFiles, FileOf, Untouched, fileVars, Slots, Begun
<1>3. ASSUME NEW r \in Receivers, Sound(r)' PROVE WholeFiles(r)'
  <2>1. WholeFiles(r)
    BY <1>3 DEF Files, Sound, Untouched, fileVars
  <2>2. \A c \in Conns: Loading(r, c)' => Loading(r, c)
    BY DEF Loading, Untouched
  <2> QED  BY <2>1, <2>2 DEF WholeFiles, Untouched, fileVars
<1> QED  BY <1>1, <1>2, <1>3 DEF Files

LEMMA TasksUntouched ==
  ASSUME FileTypes, OwnFiles, LinkTypes, TasksOK, OffersOK, BoxTypes
  PROVE  /\ \A r \in Receivers:
              \/ AutoFetch(r) \/ Retry(r) \/ Timeout(r) \/ OnFetch(r) \/ OnAnswer(r)
              \/ OnOffer(r) \/ OnCancel(r) \/ Lose(r)
              => Untouched
         /\ \A c \in Conns:
              \/ SendOffer(c) \/ OfferFails(c) \/ OpenSender(c) \/ SendFrame(c) \/ EndSender(c)
              \/ SenderLosesLink(c) \/ SendAnswer(c) \/ AnswerFails(c) \/ ReceiverOnIce(c)
              \/ Connected(c) \/ ReceiverLosesLink(c) \/ NeverOpened(c)
              => Untouched
         /\ RestartSender => Untouched
<1> USE DEF Untouched, fileVars, Begun
<1>1. ASSUME NEW r \in Receivers, AutoFetch(r) \/ Retry(r) PROVE Untouched
  BY <1>1 DEF AutoFetch, Retry, AskSender, senderVars, connVars, disk, LinkTypes
<1>2. ASSUME NEW r \in Receivers, Timeout(r) \/ OnAnswer(r) \/ OnCancel(r) \/ Lose(r)
      PROVE  Untouched
  BY <1>2 DEF Timeout, OnAnswer, OnCancel, Lose, senderVars, connVars, disk, screen, history
<1>3. ASSUME NEW r \in Receivers, OnFetch(r) PROVE Untouched
  <2>1. \A c \in Conns: to[c] = Nobody => rTask[c] = "none" /\ fd[c] = NoConn
    BY DEF TasksOK, OwnFiles, FileOf, FileTypes, Slots
  <2> QED  BY <1>3, <2>1 DEF OnFetch, Free, connVars, disk, screen, history, LinkTypes
<1>4. ASSUME NEW r \in Receivers, OnOffer(r) PROVE Untouched
  <2>1. rTask[Head(toReceiver[r]).conn] = "none"
    BY <1>4, TailBox DEF OnOffer, Arrived, BoxTypes, OffersOK, IsOffer
  <2> QED  BY <1>4, <2>1 DEF OnOffer, senderVars, disk, screen, history, LinkTypes
<1>5. ASSUME NEW c \in Conns,
             \/ SendOffer(c) \/ OfferFails(c) \/ OpenSender(c) \/ SendFrame(c) \/ EndSender(c)
             \/ SenderLosesLink(c)
      PROVE  Untouched
  BY <1>5 DEF SendOffer, OfferFails, OpenSender, SendFrame, EndSender, SenderLosesLink,
              connVars, disk, screen, history
<1>6. ASSUME NEW c \in Conns,
             \/ SendAnswer(c) \/ AnswerFails(c) \/ ReceiverOnIce(c) \/ Connected(c)
             \/ ReceiverLosesLink(c) \/ NeverOpened(c)
      PROVE  Untouched
  BY <1>6 DEF SendAnswer, AnswerFails, ReceiverOnIce, Connected, ReceiverLosesLink, NeverOpened,
              senderVars, disk, screen, history, LinkTypes
<1>7. RestartSender => Untouched
  BY DEF RestartSender, connVars, disk, screen
<1> QED  BY <1>1, <1>2, <1>3, <1>4, <1>5, <1>6, <1>7

(* A recipient that has not raced has one task that receives. *)
LEMMA OneLoads ==
  ASSUME Attempts, NEW r \in Receivers, Sound(r), NEW c \in Conns, to[c] = r, ReceiverBusy(c)
  PROVE  \A d \in Conns: to[d] = r /\ ReceiverBusy(d) => d = c
BY DEF Sound, Attempts, OneAttempt, Working, Busy

(* The header empties the temporary file; other recipients' files are not touched. *)
LEMMA HeaderFiles ==
  ASSUME FileTypes, OwnFiles, Files, LinkTypes, TasksOK, Attempts, NEW c \in Conns, Header(c)
  PROVE  FileTypes' /\ OwnFiles' /\ Files'
<1>1. PICK r \in Receivers: r = to[c]
  BY DEF Header, Frame, TasksOK, LinkTypes
<1>2. /\ rTask[c] \in {"connected", "loading"} /\ got[c] + 1 = 1 /\ got' = [got EXCEPT ![c] = 1]
      /\ UNCHANGED <<to, raced, final, news, held, refused>>
  BY DEF Header, Frame, senderVars, history
<1>3. CASE UNCHANGED <<part, fd, content, rTask>>
  <2>1. Sound(r) => rTask[c] = "connected"
    BY <1>1, <1>2 DEF Files, WholeFiles, Loading, FileTypes
  <2>2. FileTypes' /\ OwnFiles'
    BY <1>2, <1>3 DEF FileTypes, OwnFiles, FileOf, Begun
  <2>3. ASSUME NEW q \in Receivers, Sound(q) PROVE WholeFiles(q)'
    <3>1. WholeFiles(q)
      BY <2>3 DEF Files
    <3>2. \A d \in Conns: Loading(q, d) => got'[d] = got[d]
      BY <1>1, <1>2, <2>1, <2>3 DEF Loading, FileTypes
    <3> QED  BY <1>2, <1>3, <3>1, <3>2 DEF WholeFiles, Loading
  <2> QED  BY <1>2, <2>2, <2>3 DEF Files, Sound
<1>4. CASE ~UNCHANGED <<part, fd, content, rTask>>
  <2>1. PICK f \in Conns:
          /\ f = IF part[r] = NoConn THEN c ELSE part[r]
          /\ part' = [part EXCEPT ![r] = f] /\ fd' = [fd EXCEPT ![c] = f]
          /\ content' = [content EXCEPT ![f] = {}] /\ rTask' = [rTask EXCEPT ![c] = "loading"]
    BY <1>1, <1>4 DEF Header, FileTypes, Slots
  <2>2. to[f] = r /\ (f = c \/ Begun(f))
    BY <1>1, <2>1 DEF OwnFiles, FileOf
  <2>3. FileTypes'
    BY <1>2, <2>1 DEF FileTypes, Slots
  <2>4. OwnFiles'
    BY <1>1, <1>2, <2>1, <2>2 
       DEF OwnFiles, FileOf, Begun, FileTypes, LinkTypes, Slots, NoConn, Conns
  <2>5. ASSUME NEW q \in Receivers, Sound(q) PROVE WholeFiles(q)'
    <3>1. WholeFiles(q)
      BY <2>5 DEF Files
    <3>2. CASE q # r
      <4>1. \A d \in Conns: to[d] = q => d # c /\ d # f
        BY <1>1, <2>2, <3>2
      <4>2. /\ part'[q] = part[q] /\ final'[q] = final[q]
            /\ held'[q] = held[q] /\ news'[q] = news[q] /\ refused'[q] = refused[q]
            /\ \A d \in Conns: d # f => content'[d] = content[d]
            /\ \A d \in Conns: d # c => fd'[d] = fd[d] /\ rTask'[d] = rTask[d] /\ got'[d] = got[d]
        BY <1>2, <2>1, <3>2 DEF FileTypes, LinkTypes
      <4>3. /\ final[q] # NoConn => final[q] \in Conns /\ to[final[q]] = q
            /\ \A d \in Conns: Loading(q, d) => part[q] \in Conns /\ to[part[q]] = q
        BY <3>1 DEF OwnFiles, FileOf, FileTypes, Slots, WholeFiles, Loading
      <4> QED  BY <1>2, <3>1, <4>1, <4>2, <4>3 DEF WholeFiles, Loading
    <3>3. CASE q = r
      <4>1. rTask[c] = "connected"
        BY <1>1, <1>2, <3>1, <3>3 DEF WholeFiles, Loading, FileTypes
      <4>2. \A d \in Conns: Loading(r, d)' => d = c
        BY <1>1, <1>2, <2>1, <2>5, <3>3, <4>1, OneLoads DEF Loading, ReceiverBusy, LinkTypes
      <4>3. final[r] # NoConn => final[r] # f /\ final[r] \in Conns
        BY <3>1, <3>3, <4>1, <2>1 DEF WholeFiles, OwnFiles, FileOf, Begun, FileTypes, Slots
      <4>4. got'[c] = 1 /\ fd'[c] = f /\ part'[r] = f /\ content'[f] = {}
        BY <1>2, <2>1 DEF FileTypes
      <4>5. 1..(1 - 1) = {}
        OBVIOUS
      <4>6. final[r] # NoConn => content'[final[r]] = content[final[r]]
        BY <2>1, <4>3 DEF FileTypes
      <4>7. \A d \in Conns: Loading(r, d)' =>
              /\ fd'[d] = part'[r] /\ got'[d] >= 1 /\ content'[part'[r]] = 1..(got'[d] - 1)
        BY <4>2, <4>4, <4>5
      <4> QED  BY <1>2, <3>1, <3>3, <4>3, <4>4, <4>6, <4>7 DEF WholeFiles
    <3> QED  BY <3>2, <3>3
  <2> QED  BY <1>2, <2>3, <2>4, <2>5 DEF Files, Sound
<1> QED  BY <1>3, <1>4

(* A chunk follows those the temporary file has. *)
LEMMA ChunkFiles ==
  ASSUME FileTypes, OwnFiles, Files, LinkTypes, TasksOK, Attempts, NEW c \in Conns, Chunk(c)
  PROVE  FileTypes' /\ OwnFiles' /\ Files'
<1>1. PICK r \in Receivers: r = to[c]
  BY DEF Chunk, Frame, TasksOK, LinkTypes
<1>2. PICK k \in Chunks:
        /\ got[c] + 1 = k + 1 /\ got' = [got EXCEPT ![c] = k + 1]
        /\ content' = IF rTask[c] = "loading"
                      THEN [content EXCEPT ![fd[c]] = @ \union {k}] ELSE content
  BY DEF Chunk, Frame
<1>3. /\ rTask[c] \in {"connected", "loading"}
      /\ UNCHANGED <<to, raced, rTask, part, fd, final, news, held, refused>>
  BY DEF Chunk, Frame, senderVars, history, screen
<1>4. k \in Nat /\ got[c] = k
  BY <1>2 DEF Chunks, FileTypes
<1>5. FileTypes'
  <2>1. content' \in [Conns -> SUBSET Chunks]
    BY <1>2 DEF FileTypes
  <2>2. got' \in [Conns -> Nat]
    BY <1>2, <1>4 DEF FileTypes
  <2> QED  BY <1>3, <2>1, <2>2 DEF FileTypes
<1>6. OwnFiles'
  BY <1>3 DEF OwnFiles, FileOf, Begun
<1>7. ASSUME NEW q \in Receivers, Sound(q) PROVE WholeFiles(q)'
  <2>1. WholeFiles(q)
    BY <1>7 DEF Files
  <2>2. CASE rTask[c] = "connected"
    <3>1. content' = content /\ \A d \in Conns: Loading(q, d) => got'[d] = got[d]
      BY <1>2, <2>2 DEF Loading, FileTypes
    <3> QED  BY <1>3, <2>1, <3>1 DEF WholeFiles, Loading
  <2>3. CASE rTask[c] = "loading" /\ q # r
    <3>1. fd[c] \in Conns /\ to[fd[c]] = r
      BY <1>1, <2>3 DEF OwnFiles, FileOf, FileTypes, Slots
    <3>2. \A d \in Conns: to[d] = q => content'[d] = content[d] /\ got'[d] = got[d]
      BY <1>1, <1>2, <2>3, <3>1 DEF FileTypes
    <3>3. /\ final[q] # NoConn => final[q] \in Conns /\ to[final[q]] = q
          /\ \A d \in Conns: Loading(q, d) => part[q] \in Conns /\ to[part[q]] = q
      BY <2>1 DEF OwnFiles, FileOf, FileTypes, Slots, WholeFiles, Loading
    <3> QED  BY <1>3, <2>1, <3>2, <3>3 DEF WholeFiles, Loading
  <2>4. CASE rTask[c] = "loading" /\ q = r
    <3>1. fd[c] = part[r] /\ content[part[r]] = 1..(k - 1) /\ fd[c] \in Conns
      BY <1>1, <1>4, <2>1, <2>4 DEF WholeFiles, Loading, OwnFiles, FileTypes, Slots
    <3>2. \A d \in Conns: Loading(r, d) => d = c
      BY <1>1, <1>7, <2>4, OneLoads DEF Loading, ReceiverBusy
    <3>3. content'[part[r]] = 1..(k - 1) \union {k}
      BY <1>2, <2>4, <3>1 DEF FileTypes
    <3>4. 1..(k - 1) \union {k} = 1..((k + 1) - 1)
      BY <1>2, <1>4 DEF Chunks
    <3>5. got'[c] = k + 1 /\ k + 1 >= 1
      BY <1>2, <1>4 DEF FileTypes
    <3>6. final[r] # NoConn => content'[final[r]] = content[final[r]]
      BY <1>2, <2>1, <2>4, <3>1 DEF WholeFiles, FileTypes, Slots
    <3> QED  BY <1>3, <2>1, <2>4, <3>1, <3>2, <3>3, <3>4, <3>5, <3>6 DEF WholeFiles, Loading
  <2> QED  BY <1>3, <2>2, <2>3, <2>4
<1> QED  BY <1>3, <1>5, <1>6, <1>7 DEF Files, Sound

(* At the end the temporary file is whole, and becomes the final one. *)
LEMMA DoneFiles ==
  ASSUME FileTypes, OwnFiles, Files, LinkTypes, TasksOK, Attempts, NEW c \in Conns, Done(c)
  PROVE  FileTypes' /\ OwnFiles' /\ Files'
<1>1. PICK r \in Receivers: r = to[c]
  BY DEF Done, Frame, TasksOK, LinkTypes
<1>2. /\ rTask[c] \in {"connected", "loading"} /\ rTask' = [rTask EXCEPT ![c] = "grace"]
      /\ got[c] + 1 = Frames /\ got' = [got EXCEPT ![c] = Frames]
      /\ UNCHANGED <<to, raced, fd, held>>
  BY DEF Done, Frame, senderVars, history, screen
<1>3. PICK fails \in BOOLEAN, lost \in SUBSET Chunks:
        IF rTask[c] = "loading"
        THEN /\ lost # {} => fails
             /\ content' = [content EXCEPT ![fd[c]] = @ \ lost]
             /\ refused' = [refused EXCEPT ![r] = @ \/ fails]
             /\ \/ /\ part[r] # NoConn
                   /\ final' = [final EXCEPT ![r] = part[r]]
                   /\ part' = [part EXCEPT ![r] = NoConn]
                \/ /\ fails \/ part[r] = NoConn
                   /\ UNCHANGED <<final, part>>
             /\ news' = [news EXCEPT ![r] = TRUE]
        ELSE UNCHANGED <<final, part, content, news, refused>>
  BY <1>1 DEF Done, Chunks
<1>4. Frames \in Nat /\ got[c] = Parts + 1 /\ 1..(got[c] - 1) = Chunks
  BY <1>2, FileAssumption DEF Frames, Chunks, FileTypes
<1>5. FileTypes'
  <2>1. content' \in [Conns -> SUBSET Chunks]
    BY <1>3 DEF FileTypes
  <2>2. part' \in [Receivers -> Slots] /\ final' \in [Receivers -> Slots]
    <3>1. CASE UNCHANGED <<final, part>>
      BY <3>1 DEF FileTypes
    <3>2. CASE /\ final' = [final EXCEPT ![r] = part[r]]
               /\ part' = [part EXCEPT ![r] = NoConn]
      BY <3>2 DEF FileTypes, Slots
    <3> QED  BY <1>3, <3>1, <3>2
  <2>3. news' \in [Receivers -> BOOLEAN] /\ refused' \in [Receivers -> BOOLEAN]
    BY <1>3 DEF FileTypes
  <2>4. got' \in [Conns -> Nat]
    BY <1>2, <1>4 DEF FileTypes
  <2> QED  BY <1>2, <2>1, <2>2, <2>3, <2>4 DEF FileTypes
<1>6. OwnFiles'
  <2>1. \A c1 \in Conns: Begun(c1) => Begun(c1)'
    BY <1>2 DEF Begun, LinkTypes, RecvTasks
  <2>2. \A q \in Receivers: /\ final'[q] \in {final[q], part[q]}
                           /\ part'[q] \in {part[q], NoConn}
    <3>1. CASE UNCHANGED <<final, part>>
      BY <3>1
    <3>2. CASE /\ final' = [final EXCEPT ![r] = part[r]]
               /\ part' = [part EXCEPT ![r] = NoConn]
      BY <3>2 DEF FileTypes
    <3> QED  BY <1>3, <3>1, <3>2
  <2>3. \A q \in Receivers: final[q] \in Slots /\ part[q] \in Slots
    BY DEF FileTypes
  <2>4. \A q \in Receivers: (FileOf(part[q], q) /\ FileOf(final[q], q))'
    BY <1>2, <2>1, <2>2, <2>3 DEF OwnFiles, FileOf, Slots
  <2>5. \A c1 \in Conns: (FileOf(fd[c1], to[c1]) /\ (rTask[c1] = "loading" => fd[c1] # NoConn))'
    BY <1>2, <2>1 DEF OwnFiles, FileOf, FileTypes, LinkTypes, Slots
  <2> QED  BY <2>4, <2>5 DEF OwnFiles
<1>7. ASSUME NEW q \in Receivers, Sound(q)' PROVE WholeFiles(q)'
  <2>1. Sound(q) /\ WholeFiles(q)
    BY <1>2, <1>3, <1>7 DEF Files, Sound, FileTypes
  <2>2. \A d \in Conns: Loading(q, d)' => Loading(q, d) /\ d # c /\ got'[d] = got[d]
    BY <1>2 DEF Loading, LinkTypes, FileTypes
  <2>3. CASE rTask[c] = "connected"
    BY <1>2, <1>3, <2>1, <2>2, <2>3 DEF WholeFiles, Loading
  <2>4. CASE rTask[c] = "loading" /\ q # r
    <3>1. final'[q] = final[q] /\ part'[q] = part[q] /\ news'[q] = news[q]
      BY <1>3, <2>4 DEF FileTypes
    <3>2. fd[c] \in Conns /\ to[fd[c]] = r
      BY <1>1, <2>4 DEF OwnFiles, FileOf, FileTypes, Slots
    <3>3. \A f \in Conns: to[f] = q => content'[f] = content[f]
      BY <1>3, <2>4, <3>2 DEF FileTypes
    <3>4. /\ final[q] # NoConn => final[q] \in Conns /\ to[final[q]] = q
          /\ \A d \in Conns: Loading(q, d) => part[q] \in Conns /\ to[part[q]] = q
      BY <2>1 DEF OwnFiles, FileOf, FileTypes, Slots, WholeFiles, Loading
    <3> QED  BY <1>2, <2>1, <2>2, <3>1, <3>3, <3>4 DEF WholeFiles, Loading
  <2>5. CASE rTask[c] = "loading" /\ q = r
    <3>1. part[r] # NoConn /\ part[r] \in Conns /\ fd[c] = part[r] /\ content[part[r]] = Chunks
      BY <1>1, <1>4, <2>1, <2>5 DEF WholeFiles, Loading, OwnFiles, FileTypes, Slots
    <3>2. ~fails /\ lost = {}
      BY <1>3, <1>7, <2>5 DEF Sound, FileTypes
    <3>3. final'[r] = part[r] /\ part'[r] = NoConn /\ content'[part[r]] = Chunks
      BY <1>3, <2>5, <3>1, <3>2 DEF FileTypes
    <3>4. \A d \in Conns: ~Loading(r, d)'
      BY <1>1, <2>1, <2>2, <2>5, OneLoads DEF Loading, ReceiverBusy
    <3> QED  BY <2>5, <3>1, <3>3, <3>4 DEF WholeFiles
  <2> QED  BY <1>2, <2>3, <2>4, <2>5
<1> QED  BY <1>5, <1>6, <1>7 DEF Files

(* A task that ends early takes the temporary file with it, or leaves it to the next. *)
LEMMA EndFiles ==
  ASSUME FileTypes, OwnFiles, Files, LinkTypes, TasksOK, Attempts, NEW c \in Conns,
         SeeClose(c) \/ WriteFails(c)
  PROVE  FileTypes' /\ OwnFiles' /\ Files'
<1>1. rTask[c] \in {"grace", "connected", "loading"}
  BY DEF SeeClose, WriteFails
<1>2. PICK r \in Receivers: r = to[c]
  BY <1>1 DEF TasksOK, LinkTypes
<1>3. /\ rTask' = [rTask EXCEPT ![c] = "ended"]
      /\ got' = [got EXCEPT ![c] = 0] /\ fd' = [fd EXCEPT ![c] = NoConn]
      /\ part' = part \/ (rTask[c] = "loading" /\ part' = [part EXCEPT ![r] = NoConn])
      /\ UNCHANGED <<to, raced, content, final, news, held, refused>>
  BY <1>2 DEF SeeClose, WriteFails, EndReceiver, senderVars, history
<1>4. FileTypes'
  BY <1>3 DEF FileTypes, Slots
<1>5. OwnFiles'
  BY <1>3 DEF OwnFiles, FileOf, Begun, LinkTypes, FileTypes
<1>6. ASSUME NEW q \in Receivers, Sound(q) PROVE WholeFiles(q)'
  <2>1. WholeFiles(q)
    BY <1>6 DEF Files
  <2>2. \A d \in Conns: Loading(q, d)' =>
          Loading(q, d) /\ d # c /\ got'[d] = got[d] /\ fd'[d] = fd[d]
    BY <1>3 DEF Loading, LinkTypes, FileTypes
  <2>3. CASE part'[q] = part[q]
    BY <1>3, <2>1, <2>2, <2>3 DEF WholeFiles
  <2>4. CASE rTask[c] = "loading" /\ q = r /\ part' = [part EXCEPT ![r] = NoConn]
    <3>1. part'[r] = NoConn
      BY <1>3, <2>4 DEF FileTypes
    <3>2. \A d \in Conns: ~Loading(r, d)'
      BY <1>2, <1>6, <2>2, <2>4, OneLoads DEF Loading, ReceiverBusy
    <3> QED  BY <1>3, <2>1, <2>4, <3>1, <3>2 DEF WholeFiles
  <2>5. \/ part'[q] = part[q]
        \/ rTask[c] = "loading" /\ q = r /\ part' = [part EXCEPT ![r] = NoConn]
    BY <1>3 DEF FileTypes
  <2> QED  BY <2>3, <2>4, <2>5
<1> QED  BY <1>3, <1>4, <1>5, <1>6 DEF Files, Sound

LEMMA CompleteFiles ==
  ASSUME FileTypes, OwnFiles, Files, NEW r \in Receivers, HandleComplete(r)
  PROVE  FileTypes' /\ OwnFiles' /\ Files'
<1>1. /\ news[r] /\ news' = [news EXCEPT ![r] = FALSE] /\ held' = [held EXCEPT ![r] = TRUE]
      /\ UNCHANGED <<to, rTask, raced, part, final, content, fd, got, refused>>
  BY DEF HandleComplete, senderVars, connVars, disk, history
<1> QED
  BY <1>1 DEF FileTypes, OwnFiles, FileOf, Begun, Files, Sound, WholeFiles, Loading

LEMMA RestartFiles ==
  ASSUME FileTypes, OwnFiles, Files, LinkTypes, NEW r \in Receivers, RestartReceiver(r)
  PROVE  FileTypes' /\ OwnFiles' /\ Files'
<1>1. /\ news' = [news EXCEPT ![r] = FALSE] /\ held' = [held EXCEPT ![r] = final[r] # NoConn]
      /\ rTask' = [c \in Conns |-> IF to[c] = r /\ rTask[c] # "none" THEN "ended" ELSE rTask[c]]
      /\ got' = [c \in Conns |-> IF to[c] = r THEN 0 ELSE got[c]]
      /\ fd' = [c \in Conns |-> IF to[c] = r THEN NoConn ELSE fd[c]]
      /\ UNCHANGED <<to, raced, part, final, content, refused>>
  BY DEF RestartReceiver, senderVars, disk
<1>2. FileTypes'
  BY <1>1 DEF FileTypes, Slots
<1>3. OwnFiles'
  BY <1>1 DEF OwnFiles, FileOf, Begun, FileTypes, LinkTypes, Slots
<1>4. ASSUME NEW q \in Receivers, Sound(q) PROVE WholeFiles(q)'
  <2>1. WholeFiles(q)
    BY <1>4 DEF Files
  <2>2. \A c \in Conns: Loading(q, c)' =>
          q # r /\ Loading(q, c) /\ got'[c] = got[c] /\ fd'[c] = fd[c]
    BY <1>1 DEF Loading
  <2>3. held'[q] \/ news'[q] => final[q] # NoConn
    BY <1>1, <2>1 DEF WholeFiles, FileTypes
  <2> QED  BY <1>1, <2>1, <2>2, <2>3 DEF WholeFiles
<1> QED  BY <1>1, <1>2, <1>3, <1>4 DEF Files, Sound

LEMMA FilesStep ==
  ASSUME FileTypes, OwnFiles, Files, LinkTypes, BoxTypes, TasksOK, OffersOK, Attempts, Next
  PROVE  FileTypes' /\ OwnFiles' /\ Files'
BY TasksUntouched, UntouchedKeepsFiles, HeaderFiles, ChunkFiles, DoneFiles, EndFiles,
   CompleteFiles, RestartFiles
DEF Next, PerReceiver, PerConnection

-----------------------------------------------------------------------------
IInv ==
  /\ LinkTypes /\ BoxTypes /\ TasksOK /\ OffersOK /\ Attempts
  /\ FileTypes /\ OwnFiles /\ Files

LEMMA Initially == Init => IInv
<1> SUFFICES ASSUME Init PROVE IInv
  OBVIOUS
<1>1. LinkTypes /\ TasksOK
  BY DEF Init, LinkTypes, SendTasks, RecvTasks, TasksOK
<1>2. BoxTypes /\ OffersOK
  BY DEF Init, BoxTypes, OffersOK
<1>3. Attempts
  BY DEF Init, Attempts, OneAttempt, Fetching, Replying, Working, Busy, SenderBusy, ReceiverBusy
<1>4. FileTypes /\ OwnFiles /\ Files
  BY DEF Init, FileTypes, OwnFiles, FileOf, Files, Sound, WholeFiles, Loading, Slots
<1> QED  BY <1>1, <1>2, <1>3, <1>4 DEF IInv

(* The invariant is inductive. *)
LEMMA Inductive == IInv /\ [Next]_vars => IInv'
<1>1. ASSUME IInv, Next PROVE IInv'
  BY <1>1, LinkTypesStep, BoxTypesStep, TasksStep, OffersStep, AttemptsStep, FilesStep DEF IInv
<1>2. ASSUME IInv, UNCHANGED vars PROVE IInv'
  <2>1. UNCHANGED <<linkVars, signals, fileVars>>
    BY <1>2 DEF vars, linkVars, signals, fileVars, senderVars, connVars, disk, screen, history
  <2>2. (LinkTypes /\ TasksOK)'
    BY <1>2, <2>1 DEF IInv, linkVars, LinkTypes, TasksOK
  <2>3. (BoxTypes /\ OffersOK)'
    BY <1>2, <2>1 DEF IInv, linkVars, signals, BoxTypes, OffersOK
  <2>4. Attempts'
    BY <1>2, <2>1 DEF IInv, linkVars, signals, Attempts, OneAttempt, Fetching, Replying, Working,
                      Busy, SenderBusy, ReceiverBusy
  <2>5. (FileTypes /\ OwnFiles /\ Files)'
    BY <1>2, <2>1 DEF IInv, linkVars, fileVars, FileTypes, OwnFiles, FileOf, Begun, Files,
                      Sound, WholeFiles, Loading
  <2> QED  BY <2>2, <2>3, <2>4, <2>5 DEF IInv
<1> QED  BY <1>1, <1>2

(* The refinement mapping, and what makes a step one of FileDelivery's. *)
CopyOf(r) == IF final[r] = NoConn THEN "none"
             ELSE IF content[final[r]] = Chunks THEN "whole" ELSE "torn"

LEMMA Stutters ==
  ASSUME UNCHANGED <<held, raced, refused>>, \A r \in Receivers: CopyOf(r)' = CopyOf(r)
  PROVE  UNCHANGED Delivery!vars
BY DEF Delivery!vars, CopyOf

LEMMA Shows ==
  ASSUME NEW r \in Receivers, raced[r] \/ refused[r] \/ CopyOf(r) = "whole",
         held' = [held EXCEPT ![r] = TRUE], UNCHANGED <<final, content, raced, refused>>
  PROVE  Delivery!Show(r)
BY DEF Delivery!Show, CopyOf

LEMMA Restarts ==
  ASSUME NEW r \in Receivers, held' = [held EXCEPT ![r] = CopyOf(r) # "none"],
         UNCHANGED <<final, content, raced, refused>>
  PROVE  Delivery!Restart(r)
BY DEF Delivery!Restart, CopyOf

LEMMA Races ==
  ASSUME NEW r \in Receivers, raced' = [raced EXCEPT ![r] = TRUE],
         UNCHANGED <<final, content, held, refused>>
  PROVE  Delivery!Race(r)
BY DEF Delivery!Race, CopyOf

LEMMA Stores ==
  ASSUME NEW r \in Receivers, CopyOf(r)' = "whole", UNCHANGED <<held, raced, refused>>,
         \A q \in Receivers: q # r => CopyOf(q)' = CopyOf(q)
  PROVE  Delivery!Store(r)
BY DEF Delivery!Store, CopyOf

LEMMA Refuses ==
  ASSUME NEW r \in Receivers, refused' = [refused EXCEPT ![r] = TRUE], UNCHANGED <<held, raced>>,
         CopyOf(r)' \in {CopyOf(r), "torn", "whole"},
         \A q \in Receivers: q # r => CopyOf(q)' = CopyOf(q)
  PROVE  Delivery!Refuse(r)
<1>1. PICK k \in {CopyOf(r), "torn", "whole"}: CopyOf(r)' = k
  OBVIOUS
<1> QED  BY <1>1 DEF Delivery!Refuse, CopyOf

LEMMA Clashes ==
  ASSUME NEW r \in Receivers, ~Sound(r), CopyOf(r)' # "none", UNCHANGED <<held, raced, refused>>,
         \A q \in Receivers: q # r => CopyOf(q)' = CopyOf(q)
  PROVE  Delivery!Clash(r)
<1>1. PICK k \in {"torn", "whole"}: CopyOf(r)' = k
  BY DEF CopyOf
<1> QED  BY <1>1 DEF Delivery!Clash, CopyOf, Sound

(* A write to a file of r changes no other recipient's copy; only a recipient that has
   raced can be writing into its final file. *)
LEMMA Writes ==
  ASSUME IInv, NEW r \in Receivers, NEW f \in Conns, to[f] = r,
         Sound(r) => final[r] # f,
         \A d \in Conns: d # f => content'[d] = content[d], UNCHANGED <<final, held, raced, refused>>
  PROVE  Delivery!Next \/ UNCHANGED Delivery!vars
<1>1. \A q \in Receivers: final[q] # NoConn => final[q] \in Conns /\ to[final[q]] = q
  BY DEF IInv, FileTypes, OwnFiles, FileOf, Slots
<1>2. \A q \in Receivers: final[q] # f => CopyOf(q)' = CopyOf(q)
  BY <1>1 DEF CopyOf
<1>3. \A q \in Receivers: q # r => CopyOf(q)' = CopyOf(q)
  BY <1>1, <1>2 DEF Conns, NoConn
<1>4. CASE final[r] # f
  <2>1. CopyOf(r)' = CopyOf(r)
    BY <1>2, <1>4
  <2> QED  BY <1>3, <2>1, Stutters
<1>5. CASE final[r] = f
  <2>1. CopyOf(r)' # "none" /\ ~Sound(r)
    BY <1>5 DEF CopyOf, Conns, NoConn
  <2> QED  BY <1>3, <2>1, Clashes DEF Delivery!Next
<1> QED  BY <1>4, <1>5

LEMMA HeaderMaps ==
  ASSUME IInv, NEW c \in Conns, Header(c)
  PROVE  Delivery!Next \/ UNCHANGED Delivery!vars
<1>1. PICK r \in Receivers: r = to[c]
  BY DEF Header, Frame, IInv, TasksOK, LinkTypes
<1>2. /\ rTask[c] \in {"connected", "loading"} /\ got[c] + 1 = 1
      /\ UNCHANGED <<final, held, raced, refused>>
  BY DEF Header, Frame, history
<1>3. CASE UNCHANGED content
  BY <1>2, <1>3, Stutters DEF CopyOf
<1>4. CASE ~UNCHANGED content
  <2>1. PICK f \in Conns: /\ f = IF part[r] = NoConn THEN c ELSE part[r]
                          /\ content' = [content EXCEPT ![f] = {}]
    BY <1>1, <1>4 DEF Header, IInv, FileTypes, Slots
  <2>2. to[f] = r
    BY <1>1, <2>1 DEF IInv, OwnFiles, FileOf
  <2>3. ASSUME Sound(r) PROVE final[r] # f
    <3>1. WholeFiles(r)
      BY <2>3 DEF IInv, Files
    <3>2. rTask[c] = "connected"
      BY <1>1, <1>2, <3>1 DEF WholeFiles, Loading, IInv, FileTypes
    <3>3. final[r] # c
      BY <3>2 DEF IInv, OwnFiles, FileOf, Begun, Conns, NoConn
    <3> QED  BY <2>1, <3>1, <3>3 DEF WholeFiles
  <2>4. \A d \in Conns: d # f => content'[d] = content[d]
    BY <2>1 DEF IInv, FileTypes
  <2> QED  BY <1>2, <2>2, <2>3, <2>4, Writes
<1> QED  BY <1>3, <1>4

LEMMA ChunkMaps ==
  ASSUME IInv, NEW c \in Conns, Chunk(c)
  PROVE  Delivery!Next \/ UNCHANGED Delivery!vars
<1>1. PICK r \in Receivers: r = to[c]
  BY DEF Chunk, Frame, IInv, TasksOK, LinkTypes
<1>2. /\ rTask[c] \in {"connected", "loading"} /\ UNCHANGED <<final, held, raced, refused>>
  BY DEF Chunk, Frame, history, screen
<1>3. CASE rTask[c] = "connected"
  BY <1>2, <1>3, Stutters DEF CopyOf, Chunk
<1>4. CASE rTask[c] = "loading"
  <2>1. PICK f \in Conns: f = fd[c]
    BY <1>4 DEF IInv, OwnFiles, FileTypes, Slots
  <2>2. to[f] = r
    BY <1>1, <2>1 DEF IInv, OwnFiles, FileOf, Conns, NoConn
  <2>3. Sound(r) => final[r] # f
    BY <1>1, <1>4, <2>1 DEF IInv, Files, WholeFiles, Loading, Conns, NoConn
  <2>4. \A d \in Conns: d # f => content'[d] = content[d]
    BY <1>4, <2>1 DEF Chunk, IInv, FileTypes
  <2> QED  BY <1>2, <2>2, <2>3, <2>4, Writes
<1> QED  BY <1>2, <1>3, <1>4

LEMMA DoneMaps ==
  ASSUME IInv, NEW c \in Conns, Done(c)
  PROVE  Delivery!Next \/ UNCHANGED Delivery!vars
<1>1. PICK r \in Receivers: r = to[c]
  BY DEF Done, Frame, IInv, TasksOK, LinkTypes
<1>2. UNCHANGED <<held, raced>>
  BY DEF Done, screen
<1>3. CASE rTask[c] # "loading"
  BY <1>2, <1>3, Stutters DEF CopyOf, Done
<1>4. CASE rTask[c] = "loading"
  <2>1. PICK fails \in BOOLEAN, lost \in SUBSET Chunks:
          /\ lost # {} => fails
          /\ content' = [content EXCEPT ![fd[c]] = @ \ lost]
          /\ refused' = [refused EXCEPT ![r] = @ \/ fails]
          /\ \/ part[r] # NoConn /\ final' = [final EXCEPT ![r] = part[r]]
             \/ UNCHANGED final
    BY <1>1, <1>4 DEF Done
  <2>2. fd[c] \in Conns /\ to[fd[c]] = r
    BY <1>1, <1>4 DEF IInv, OwnFiles, FileOf, FileTypes, Slots
  <2>3. \A q \in Receivers: q # r => CopyOf(q)' = CopyOf(q)
    <3>1. ASSUME NEW q \in Receivers, q # r PROVE CopyOf(q)' = CopyOf(q)
      <4>1. final'[q] = final[q] /\ (final[q] # NoConn => final[q] \in Conns /\ final[q] # fd[c])
        BY <2>1, <2>2, <3>1 DEF IInv, OwnFiles, FileOf, FileTypes, Slots
      <4>2. final[q] # NoConn => content'[final[q]] = content[final[q]]
        BY <2>1, <4>1 DEF IInv, FileTypes
      <4> QED  BY <4>1, <4>2 DEF CopyOf
    <3> QED  BY <3>1
  <2>4. CASE fails
    <3>1. refused' = [refused EXCEPT ![r] = TRUE]
      BY <2>1, <2>4
    <3>2. CopyOf(r)' \in {CopyOf(r), "torn", "whole"}
      <4>1. final'[r] # NoConn \/ final'[r] = final[r]
        BY <2>1 DEF IInv, FileTypes
      <4> QED  BY <4>1 DEF CopyOf
    <3> QED  BY <1>2, <2>3, <3>1, <3>2, Refuses DEF Delivery!Next
  <2>5. CASE ~fails
    <3>1. UNCHANGED <<content, refused>>
      BY <2>1, <2>5 DEF IInv, FileTypes
    <3>2. CASE UNCHANGED final
      BY <1>2, <3>1, <3>2, Stutters DEF CopyOf
    <3>3. CASE part[r] # NoConn /\ final' = [final EXCEPT ![r] = part[r]]
      <4>1. final'[r] = part[r]
        BY <3>3 DEF IInv, FileTypes
      <4>2. CASE ~Sound(r)
        <5>1. CopyOf(r)' # "none"
          BY <3>3, <4>1 DEF CopyOf
        <5> QED  BY <1>2, <2>3, <3>1, <4>2, <5>1, Clashes DEF Delivery!Next
      <4>3. CASE Sound(r)
        <5>1. content[part[r]] = 1..(got[c] - 1)
          BY <1>1, <1>4, <4>3 DEF IInv, Files, WholeFiles, Loading
        <5>2. 1..(got[c] - 1) = Chunks
          BY FileAssumption DEF Done, Frame, Frames, Chunks, IInv, FileTypes
        <5>3. CopyOf(r)' = "whole"
          BY <3>1, <3>3, <4>1, <5>1, <5>2 DEF CopyOf, Chunks
        <5> QED  BY <1>2, <2>3, <3>1, <5>3, Stores DEF Delivery!Next
      <4> QED  BY <4>2, <4>3
    <3> QED  BY <2>1, <3>2, <3>3
  <2> QED  BY <2>4, <2>5
<1> QED  BY <1>3, <1>4

LEMMA CompleteMaps ==
  ASSUME IInv, NEW r \in Receivers, HandleComplete(r)
  PROVE  Delivery!Next \/ UNCHANGED Delivery!vars
<1>1. /\ news[r] /\ held' = [held EXCEPT ![r] = TRUE]
      /\ UNCHANGED <<final, content, raced, refused>>
  BY DEF HandleComplete, disk, history
<1>2. raced[r] \/ refused[r] \/ CopyOf(r) = "whole"
  BY <1>1 DEF IInv, Files, Sound, WholeFiles, CopyOf
<1> QED  BY <1>1, <1>2, Shows DEF Delivery!Next

LEMMA RestartMaps ==
  ASSUME NEW r \in Receivers, RestartReceiver(r)
  PROVE  Delivery!Next \/ UNCHANGED Delivery!vars
<1>1. held' = [held EXCEPT ![r] = final[r] # NoConn]
      /\ UNCHANGED <<final, content, raced, refused>>
  BY DEF RestartReceiver, disk
<1>2. (final[r] # NoConn) = (CopyOf(r) # "none")
  BY DEF CopyOf
<1> QED  BY <1>1, <1>2, Restarts DEF Delivery!Next

LEMMA AskMaps ==
  ASSUME IInv, NEW r \in Receivers, AutoFetch(r) \/ Retry(r)
  PROVE  Delivery!Next \/ UNCHANGED Delivery!vars
<1>1. /\ raced' = [raced EXCEPT ![r] = @ \/ UnderWay(r)]
      /\ UNCHANGED <<final, content, held, refused>>
  BY DEF AutoFetch, Retry, AskSender, disk
<1>2. CASE UnderWay(r)
  BY <1>1, <1>2, Races DEF Delivery!Next
<1>3. CASE ~UnderWay(r)
  <2>1. raced' = raced
    BY <1>1, <1>3 DEF IInv, LinkTypes
  <2> QED  BY <1>1, <2>1, Stutters DEF CopyOf
<1> QED  BY <1>2, <1>3

(* Each step is one of FileDelivery, or changes nothing it speaks of. *)
LEMMA StepMaps ==
  ASSUME IInv, [Next]_vars
  PROVE  [Delivery!Next]_(Delivery!vars)
<1>1. ASSUME UNCHANGED <<final, content, held, raced, refused>> PROVE UNCHANGED Delivery!vars
  BY <1>1, Stutters DEF CopyOf
<1>2. ASSUME NEW r \in Receivers,
             Timeout(r) \/ OnFetch(r) \/ OnAnswer(r) \/ OnOffer(r) \/ OnCancel(r) \/ Lose(r)
      PROVE  UNCHANGED <<final, content, held, raced, refused>>
  BY <1>2 DEF Timeout, OnFetch, OnAnswer, OnOffer, OnCancel, Lose, disk, screen, history
<1>3. ASSUME NEW c \in Conns,
             \/ SendOffer(c) \/ OfferFails(c) \/ OpenSender(c) \/ SendFrame(c) \/ EndSender(c)
             \/ SenderLosesLink(c) \/ SendAnswer(c) \/ AnswerFails(c) \/ ReceiverOnIce(c)
             \/ Connected(c) \/ EndReceiver(c) \/ ReceiverLosesLink(c) \/ NeverOpened(c)
      PROVE  UNCHANGED <<final, content, held, raced, refused>>
  BY <1>3 DEF SendOffer, OfferFails, OpenSender, SendFrame, EndSender, SenderLosesLink, SendAnswer,
              AnswerFails, ReceiverOnIce, Connected, EndReceiver, ReceiverLosesLink, NeverOpened,
              disk, screen, history
<1>4. RestartSender \/ UNCHANGED vars => UNCHANGED <<final, content, held, raced, refused>>
  BY DEF RestartSender, vars, disk, screen, history
<1> QED
  BY <1>1, <1>2, <1>3, <1>4, HeaderMaps, ChunkMaps, DoneMaps, CompleteMaps, RestartMaps, AskMaps
  DEF Next, PerReceiver, PerConnection, SeeClose, WriteFails

(* Every execution of the transfer (p2p.rs) is one that FileDelivery allows, for any
   recipients, any length of the file and any number of attempts, losses and restarts. *)
THEOREM TransferDelivers == Spec => Delivers
<1>1. Init => Delivery!Init
  BY DEF Init, Delivery!Init
<1> QED
  BY <1>1, Initially, Inductive, StepMaps, PTL DEF Spec, Delivers, Delivery!Spec

(***************************************************************************)
(* The settings: what the client shows is what the server permits and      *)
(* keeps.                                                                  *)
(*                                                                         *)
(* None of the properties is inductive: they speak of answers, and of a    *)
(* client at rest.  The invariant says of every request what it has read   *)
(* so far (ProfileRead, MineRead, ListRead), and of what is shown that it  *)
(* is as kept or that a request is on its way whose answer will put it     *)
(* right (MarksKept, MineKept, ListsKept).                                 *)
(***************************************************************************)

(* The invariant. *)

Acts == Marks \union Values \union {None, "load", "create"}
ProfileOf(X) == [of: X, blocked: BOOLEAN, muted: BOOLEAN, visible: BOOLEAN]

IsRequest(q) ==
  /\ q \in [n: {q.n}, shows: Shown, act: Acts, of: {q.of}, stage: Stages, chained: BOOLEAN,
            got: ProfileOf(Others \union {None}), table: {q.table}, old: BOOLEAN,
            was: {q.was}, changes: 0..2]
  /\ q.shows = "profile" => q.of \in Others
  /\ q.shows \in {"privacy", "devices"} /\ q.act = "load" => q.of = None
  /\ q.act = "create" => q.shows = "stickers"

(* The visibility read first is current until others change it once; and   *)
(* as long as the override is not set, it is the one to be seen.           *)
ProfileRead(q) ==
  /\ q.stage \in {"sent", "changed"} => q.changes = 0
  /\ q.stage \in {"row", "blocked", "muted"} =>
       /\ Seen(q.of) \in q.was
       /\ q.changes = 0 => q.got.visible = visible[q.of]
       /\ q.changes = 1 /\ override[q.of] = None => q.got.visible \in q.was
  /\ q.stage = "ok" /\ q.changes < 2 => q.got.visible \in q.was

MarksRead(q) ==
  /\ q.stage \in {"row", "blocked", "muted", "ok"} => q.got.of = q.of
  /\ q.stage \in {"blocked", "muted", "ok"} /\ ~q.old => q.got.blocked = (q.of \in blocks)
  /\ q.stage \in {"muted", "ok"} /\ ~q.old => q.got.muted = (q.of \in mutes)

MineRead(q) == q.stage = "ok" /\ ~q.old => q.got.visible = mine

(* Packs t so far: each is a row of S, that is to be read or has been, and *)
(* each row of S is one.                                                   *)
Covers(t, S) ==
  /\ \A x \in t: \E e \in S: x[1] = e[1] /\ (x[2] \in Pending \/ x = e)
  /\ \A e \in S: \E x \in t: x[1] = e[1]

ListRead(q) ==
  q.act = "load" /\ ~q.old =>
    /\ q.stage = "names" => Covers(q.table, {e \in rows[q.shows]: NameFound(Term(q), e)})
    /\ q.stage = "packs" => Covers(q.table, {e \in rows[q.shows]: Found(Term(q), e)})
    /\ q.stage = "ok" => q.table = {e \in rows[q.shows]: Found(Term(q), e)}

RequestOK(q) ==
  /\ IsRequest(q)
  /\ q.shows = "profile" => ProfileRead(q) /\ MarksRead(q)
  /\ q.shows = "mine" => MineRead(q)
  /\ q.shows \in Lists => ListRead(q)
RequestsOK == \A q \in reqs: RequestOK(q)

MarksShown ==
  profile.blocked = (profile.of \in blocks) /\ profile.muted = (profile.of \in mutes)
MarksComing == \E q \in reqs: q.shows = "profile" /\ q.stage \notin {"sent", "failed"}
MarksKept == "profile" \in missed \/ profile.of = None \/ MarksShown \/ MarksComing

MineComing == \E q \in reqs: q.shows = "mine" /\ q.stage # "failed"
MineKept == "mine" \in missed \/ mineShown = mine \/ MineComing

Wanted(l) == {e \in rows[l]: Found(IF l = "stickers" THEN search ELSE None, e)}
ListComing(l) ==
  \E q \in reqs: q.shows = l /\ q.stage # "failed" /\ (q.act = "load" \/ q.stage = "ok")
ListKept(l) == l \in missed \/ lists[l] = Wanted(l) \/ ListComing(l)
ListsKept == \A l \in Lists: ListKept(l)

Types ==
  /\ visible \in [Others -> BOOLEAN] /\ override \in [Others -> Values \union {None}]
  /\ mine \in BOOLEAN /\ mineShown \in BOOLEAN
  /\ profile \in ProfileOf(Others \union {None})
  /\ rows = [l \in Lists |-> rows[l]] /\ lists = [l \in Lists |-> lists[l]]
  /\ \A x, y \in rows["stickers"]: x[1] = y[1] => x = y

Inv == Types /\ RequestsOK /\ MarksKept /\ MineKept /\ ListsKept

LEMMA InitInv == SettingsInit => Inv
<1> SUFFICES ASSUME SettingsInit PROVE Inv
  OBVIOUS
<1>1. Types
  BY DEF SettingsInit, Types, NoProfile, ProfileOf, Lists
<1>2. RequestsOK
  BY DEF SettingsInit, RequestsOK
<1>3. MarksKept
  BY DEF SettingsInit, MarksKept, NoProfile
<1>4. MineKept
  BY DEF SettingsInit, MineKept
<1>5. ListsKept
  BY DEF SettingsInit, ListsKept, ListKept
<1> QED  BY <1>1, <1>2, <1>3, <1>4, <1>5 DEF Inv

-----------------------------------------------------------------------------
(* What is shown and kept stays well formed. *)

LEMMA GotProfile ==
  ASSUME RequestsOK, NEW q \in reqs, q.shows \in {"profile", "mine"}
  PROVE  q.got \in ProfileOf(Others \union {None}) /\ q.got.visible \in BOOLEAN
BY DEF RequestsOK, RequestOK, IsRequest, ProfileOf

LEMMA PutKeys ==
  ASSUME Types, NEW l, NEW x, NEW v, Put(l, x, v)
  PROVE  /\ rows' = [k \in Lists |-> rows'[k]]
         /\ \A d, e \in rows'["stickers"]: d[1] = e[1] => d = e
<1>1. rows' = [k \in Lists |-> rows'[k]]
  BY DEF Types, Put
<1>2. CASE l # "stickers"
  BY <1>2 DEF Types, Put, Lists
<1>3. CASE l = "stickers"
  <2>0. PICK p : p = <<x, v>>
    OBVIOUS
  <2>1. p[1] = x
    BY <2>0
  <2>2. PICK R : R = rows["stickers"] /\ \A d, e \in R: d[1] = e[1] => d = e
    BY DEF Types
  <2>3. PICK R1 : R1 = rows'["stickers"]
    OBVIOUS
  <2>4. ASSUME NEW e \in R1 PROVE (e[1] # x /\ e \in R) \/ e = p
    <3>1. R1 = (R \ Entry(l, x)) \union (IF v = None THEN {} ELSE {p})
      BY <1>3, <2>0, <2>2, <2>3 DEF Types, Put, Lists
    <3>2. Entry(l, x) = {d \in R: d[1] = x}
      BY <1>3, <2>2 DEF Entry
    <3> QED  BY <2>4, <3>1, <3>2
  <2>5. ASSUME NEW d \in R1, NEW e \in R1, d[1] = e[1] PROVE d = e
    BY <2>1, <2>2, <2>4, <2>5
  <2> QED  BY <1>1, <2>3, <2>5
<1> QED  BY <1>1, <1>2, <1>3

(* A statement of list_sticker_packs, or its end. *)
PackStep(q) ==
  \/ ListPacks(q) \/ ListByStickers(q) \/ PacksRead(q)
  \/ \E x \in q.table: FindPack(q, x) \/ ReadPack(q, x)

LEMMA TypesStep ==
  ASSUME Types, RequestsOK, SettingsNext
  PROVE  Types'
<1>1. ASSUME User PROVE Types'
  <2>1. UNCHANGED <<server, profile, lists>>
    BY <1>1 DEF User, ShowProfile, PrivacyOverrideRemove, PrivacyOverrideSet, ToggleBlock, ToggleMute,
       PrivacyDefaultToggled, SaveSettings, OpenList, ToggleStickerMenu, StickerSearchChanged,
       RevokeSession, CreateStickerPack, PickStickerImages, DeleteStickerPack, server, client
  <2>2. mineShown' \in {mineShown, ~mineShown}
    BY <1>1 DEF User, ShowProfile, PrivacyOverrideRemove, PrivacyOverrideSet, ToggleBlock, ToggleMute,
       PrivacyDefaultToggled, SaveSettings, OpenList, ToggleStickerMenu, StickerSearchChanged,
       RevokeSession, CreateStickerPack, PickStickerImages, DeleteStickerPack, server, client
  <2> QED  BY <2>1, <2>2 DEF Types, server
<1>2. ASSUME NEW q \in reqs,
             \/ ModerateUser(q) \/ ReadRow(q) \/ ReadBlocked(q) \/ ReadMuted(q) \/ ReadOverride(q)
             \/ ReadMe(q) \/ CheckRow(q) \/ ReadList(q) \/ PackStep(q) \/ Fail(q)
      PROVE Types'
  BY <1>2 DEF ModerateUser, ReadRow, ReadBlocked, ReadMuted, ReadOverride, ReadMe, CheckRow, ReadList,
     PackStep, ListPacks, ListByStickers, FindPack, ReadPack, PacksRead, Fail,
     Unaffected, Types, server, client
<1>3. ASSUME NEW q \in reqs, UpdateMe(q) PROVE Types'
  BY <1>3 DEF UpdateMe, Unaffected, Types, client
<1>4. ASSUME NEW q \in reqs, ChangeRow(q) PROVE Types'
  BY <1>4, PutKeys DEF ChangeRow, Unaffected, Types, client
<1>5. ASSUME NEW l, NEW x, NEW v, OtherDevice(l, x, v) PROVE Types'
  BY <1>5, PutKeys DEF OtherDevice, Types, client
<1>6. ASSUME NEW o \in Others, NEW show \in BOOLEAN, NEW v \in Values \union {None}, OtherHides(o, show, v)
      PROVE Types'
  BY <1>6 DEF OtherHides, Types, client
<1>7. ASSUME NEW q \in reqs, ProfileLoaded(q) PROVE Types'
  BY <1>7, GotProfile DEF ProfileLoaded, Answered, Types, server
<1>8. ASSUME NEW q \in reqs, SettingsResult(q) PROVE Types'
  BY <1>8, GotProfile DEF SettingsResult, Answered, Types, server
<1>9. ASSUME NEW q \in reqs, NEW l \in Lists, ListLoaded(q, l) PROVE Types'
  BY <1>9 DEF ListLoaded, Types, server
<1>10. ASSUME NEW q \in reqs, NEW l, ListDropped(q) \/ ChangeResult(q, l) PROVE Types'
  BY <1>10 DEF ListDropped, ChangeResult, Types, server, client
<1> QED
  BY <1>1, <1>2, <1>3, <1>4, <1>5, <1>6, <1>7, <1>8, <1>9, <1>10
  DEF SettingsNext, Server, Client, PackStep

-----------------------------------------------------------------------------
(* Requests and answers. *)

(* A request that has just been sent, whatever its number. *)
Fresh(r) ==
  /\ r = [n |-> r.n, shows |-> r.shows, act |-> r.act, of |-> r.of, stage |-> "sent",
          chained |-> r.chained, got |-> NoProfile, table |-> {}, old |-> FALSE,
          was |-> {}, changes |-> 0]
  /\ r.shows \in Shown /\ r.act \in Acts /\ r.chained \in BOOLEAN
  /\ r.shows = "profile" => r.of \in Others
  /\ r.shows \in {"privacy", "devices"} /\ r.act = "load" => r.of = None
  /\ r.act = "create" => r.shows = "stickers"

LEMMA NewRequest ==
  ASSUME NEW r, Fresh(r)
  PROVE  RequestOK(r)
<1>1. r.stage = "sent" /\ r.changes = 0
  BY DEF Fresh
<1>2. IsRequest(r)
  <2>1. r \in [n: {r.n}, shows: Shown, act: Acts, of: {r.of}, stage: Stages, chained: BOOLEAN,
               got: ProfileOf(Others \union {None}), table: {r.table}, old: BOOLEAN,
               was: {r.was}, changes: 0..2]
    <3>0. PICK k, o, c : k = r.n /\ o = r.of /\ c = r.chained
      OBVIOUS
    <3>3. r.shows \in Shown /\ r.act \in Acts /\ c \in BOOLEAN
      BY <3>0 DEF Fresh
    <3>4. PICK shows \in Shown, act \in Acts : shows = r.shows /\ act = r.act
      BY <3>3
    <3>1. r = [n |-> k, shows |-> shows, act |-> act, of |-> o, stage |-> "sent",
               chained |-> c, got |-> NoProfile, table |-> {}, old |-> FALSE,
               was |-> {}, changes |-> 0]
      BY <3>0, <3>4 DEF Fresh
    <3>2. NoProfile \in ProfileOf(Others \union {None})
      BY DEF ProfileOf, NoProfile
    <3> QED  BY <3>1, <3>2, <3>3 DEF Stages
  <2> QED  BY <2>1 DEF Fresh, IsRequest
<1> QED  BY <1>1, <1>2 DEF RequestOK, ProfileRead, MarksRead, MineRead, ListRead

(* What has been read stays as it was read. *)
LEMMA ListReadStays ==
  ASSUME NEW y, NEW x, ListRead(y), rows'[y.shows] = rows[y.shows],
         x.shows = y.shows, x.act = y.act, x.of = y.of, x.chained = y.chained,
         x.stage = y.stage, x.table = y.table, ~x.old => ~y.old
  PROVE  ListRead(x)'
<1>1. PICK R : R = rows[y.shows] /\ R = rows'[y.shows]
  OBVIOUS
<1>2. Term(x) = Term(y)
  BY DEF Term
<1>3. PICK u : u = Term(y)
  OBVIOUS
<1>4. ASSUME x.act = "load", ~x.old
      PROVE  /\ x.stage = "names" => Covers(x.table, {e \in R: NameFound(u, e)})
             /\ x.stage = "packs" => Covers(x.table, {e \in R: Found(u, e)})
             /\ x.stage = "ok" => x.table = {e \in R: Found(u, e)}
  BY <1>1, <1>3, <1>4 DEF ListRead
<1> QED  BY <1>1, <1>2, <1>3, <1>4 DEF ListRead, Covers, Found, NameFound

LEMMA StillOK ==
  ASSUME NEW q, RequestOK(q), UNCHANGED server
  PROVE  RequestOK(q)'
<1>1. q.shows \in Lists => ListRead(q)'
  BY ListReadStays DEF RequestOK, server
<1> QED  BY <1>1 DEF RequestOK, IsRequest, ProfileRead, MarksRead, MineRead, Seen, server

LEMMA Asked ==
  ASSUME RequestsOK, UNCHANGED server,
         NEW shows \in Shown, NEW act \in Acts, NEW of, NEW chained \in BOOLEAN,
         Call(shows, act, of, chained),
         shows = "profile" => of \in Others,
         shows \in {"privacy", "devices"} /\ act = "load" => of = None,
         act = "create" => shows = "stickers"
  PROVE  RequestsOK'
<1>1. PICK r : r = Request(shows, act, of, chained)
  OBVIOUS
<1>2. reqs' = reqs \union {r}
  BY <1>1 DEF Call
<1>3. RequestOK(r)
  <2>1. Fresh(r)
    BY <1>1 DEF Fresh, Request
  <2> QED  BY <2>1, NewRequest
<1>4. ASSUME NEW x \in reqs' PROVE RequestOK(x)'
  BY <1>2, <1>3, <1>4, StillOK DEF RequestsOK
<1> QED  BY <1>4 DEF RequestsOK

LEMMA UserRequests ==
  ASSUME RequestsOK, Types, User
  PROVE  RequestsOK'
<1> USE DEF Shown, Lists, Acts, Marks, Values, None
<1>1. ASSUME NEW o \in Others, ShowProfile(o) PROVE RequestsOK'
  BY <1>1, Asked DEF ShowProfile
<1>2. ASSUME NEW o \in Others, PrivacyOverrideRemove(o) PROVE RequestsOK'
  BY <1>2, Asked DEF PrivacyOverrideRemove
<1>3. ASSUME NEW o \in Others, NEW v \in Values, PrivacyOverrideSet(o, v) PROVE RequestsOK'
  BY <1>3, Asked DEF PrivacyOverrideSet
<1>4. ASSUME ToggleBlock PROVE RequestsOK'
  BY <1>4, Asked DEF ToggleBlock, Types, ProfileOf
<1>5. ASSUME ToggleMute PROVE RequestsOK'
  BY <1>5, Asked DEF ToggleMute, Types, ProfileOf
<1>6. ASSUME PrivacyDefaultToggled PROVE RequestsOK'
  BY <1>6, Asked DEF PrivacyDefaultToggled
<1>7. ASSUME SaveSettings PROVE RequestsOK'
  BY <1>7, Asked DEF SaveSettings
<1>8. ASSUME NEW l \in Lists, OpenList(l) PROVE RequestsOK'
  BY <1>8, Asked DEF OpenList
<1>9. ASSUME ToggleStickerMenu PROVE RequestsOK'
  BY <1>9, Asked DEF ToggleStickerMenu
<1>10. ASSUME NEW p, StickerSearchChanged(p) PROVE RequestsOK'
  BY <1>10, Asked DEF StickerSearchChanged
<1>11. ASSUME NEW d, RevokeSession(d) PROVE RequestsOK'
  BY <1>11, Asked DEF RevokeSession
<1>12. ASSUME NEW p, CreateStickerPack(p) PROVE RequestsOK'
  BY <1>12, Asked DEF CreateStickerPack
<1>13. ASSUME NEW p, PickStickerImages(p) PROVE RequestsOK'
  BY <1>13, Asked DEF PickStickerImages
<1>14. ASSUME NEW p, DeleteStickerPack(p) PROVE RequestsOK'
  BY <1>14, Asked DEF DeleteStickerPack
<1> QED
  BY <1>1, <1>2, <1>3, <1>4, <1>5, <1>6, <1>7, <1>8, <1>9, <1>10, <1>11, <1>12, <1>13, <1>14
  DEF User

LEMMA Replied ==
  ASSUME RequestsOK, UNCHANGED server, NEW q \in reqs, NEW r, Reply(q, r), RequestOK(r)
  PROVE  RequestsOK'
<1>1. ASSUME NEW x \in reqs' PROVE RequestOK(x)'
  BY <1>1, StillOK DEF Reply, RequestsOK
<1> QED  BY <1>1 DEF RequestsOK

LEMMA Taken ==
  ASSUME RequestsOK, UNCHANGED server, NEW q \in reqs, NEW more, Take(q, more),
         \A r \in more: RequestOK(r)
  PROVE  RequestsOK'
<1>1. ASSUME NEW x \in reqs' PROVE RequestOK(x)'
  BY <1>1, StillOK DEF Take, RequestsOK
<1> QED  BY <1>1 DEF RequestsOK

(* What the fields of a request hold, as its record set tells the provers. *)
LEMMA Fields ==
  ASSUME NEW q, IsRequest(q)
  PROVE  /\ q.shows \in Shown /\ q.act \in Acts /\ q.stage \in Stages
         /\ q.got = [of |-> q.got.of, blocked |-> q.got.blocked, muted |-> q.got.muted,
                     visible |-> q.got.visible]
         /\ q.got.of \in Others \union {None}
         /\ {q.got.blocked, q.got.muted, q.got.visible, q.old, q.chained} \subseteq BOOLEAN
         /\ q.changes \in 0..2
BY DEF IsRequest, ProfileOf

LEMMA TruthValue == ASSUME NEW x, NEW S PROVE (x \in S) \in BOOLEAN
OBVIOUS

(* A later stage of the same request, with other things read. *)
Advance(q, stage, read, table, was) ==
  [q EXCEPT !.stage = stage, !.got = read, !.table = table, !.was = was]

LEMMA Advanced ==
  ASSUME NEW q, IsRequest(q), NEW stage \in Stages, NEW read \in ProfileOf(Others \union {None}),
         NEW table, NEW was, NEW r,
         r = Advance(q, stage, read, table, was)
  PROVE  /\ IsRequest(r)
         /\ r.n = q.n /\ r.shows = q.shows /\ r.act = q.act /\ r.of = q.of /\ r.chained = q.chained
         /\ r.old = q.old /\ r.changes = q.changes
         /\ r.stage = stage /\ r.got = read /\ r.table = table /\ r.was = was
<1>1. /\ r.n = q.n /\ r.shows = q.shows /\ r.act = q.act /\ r.of = q.of /\ r.chained = q.chained
      /\ r.old = q.old /\ r.changes = q.changes
      /\ r.stage = stage /\ r.got = read /\ r.table = table /\ r.was = was
  BY DEF Advance, IsRequest
<1>2. r \in [n: {r.n}, shows: Shown, act: Acts, of: {r.of}, stage: Stages, chained: BOOLEAN,
             got: ProfileOf(Others \union {None}), table: {r.table}, old: BOOLEAN,
             was: {r.was}, changes: 0..2]
  BY DEF Advance, IsRequest
<1> QED  BY <1>1, <1>2 DEF IsRequest

(* The statements that read, and a loss. *)
LEMMA ReadRequests ==
  ASSUME RequestsOK, Types, NEW q \in reqs,
         \/ ReadRow(q) \/ ReadBlocked(q) \/ ReadMuted(q) \/ ReadOverride(q)
         \/ ReadMe(q) \/ ReadList(q) \/ Fail(q)
  PROVE  RequestsOK'
<1> USE DEF At, Step
<1>1. RequestOK(q) /\ IsRequest(q)
  BY DEF RequestsOK, RequestOK
<1>0. {"row", "blocked", "muted", "ok", "failed"} \subseteq Stages
  BY DEF Stages
<1>2. q.stage \in Stages /\ q.got \in ProfileOf(Others \union {None})
  BY <1>1 DEF IsRequest
<1>3. CASE ReadRow(q)
  <2>0. PICK w : w = {Seen(q.of)}
    OBVIOUS
  <2>1. PICK r : r = [Step(q, "row") EXCEPT !.got.of = q.of, !.got.visible = visible[q.of],
                                           !.was = w]
    OBVIOUS
  <2>2. Reply(q, r) /\ UNCHANGED server /\ q.shows = "profile" /\ q.stage \in {"sent", "changed"}
    BY <1>3, <2>0, <2>1 DEF ReadRow
  <2>3. q.of \in Others /\ q.changes = 0
    BY <1>1, <2>2 DEF IsRequest, RequestOK, ProfileRead
  <2>4. PICK g : g = [q.got EXCEPT !.of = q.of, !.visible = visible[q.of]]
    OBVIOUS
  <2>5. g \in ProfileOf(Others \union {None}) /\ g.of = q.of /\ g.visible = visible[q.of]
    BY <1>2, <2>3, <2>4 DEF ProfileOf, Types
  <2>6. r = Advance(q, "row", g, q.table, w)
    BY <1>1, <2>1, <2>4 DEF Advance, IsRequest
  <2>7. /\ IsRequest(r) /\ r.shows = "profile" /\ r.of = q.of /\ r.stage = "row" /\ r.changes = 0
        /\ r.got = g /\ r.was = w
    BY <1>0, <1>1, <2>2, <2>3, <2>5, <2>6, Advanced
  <2>8. RequestOK(r)
    BY <2>0, <2>5, <2>7 DEF RequestOK, ProfileRead, MarksRead, Seen, Lists
  <2> QED  BY <2>2, <2>8, Replied
<1>4. CASE ReadBlocked(q)
  <2>0. PICK b : b = (q.of \in blocks) /\ b \in BOOLEAN
    BY TruthValue
  <2>1. PICK r : r = [Step(q, "blocked") EXCEPT !.got.blocked = b]
    OBVIOUS
  <2>2. Reply(q, r) /\ UNCHANGED server /\ q.shows = "profile" /\ q.stage = "row"
    BY <1>4, <2>0, <2>1 DEF ReadBlocked
  <2>3. PICK g : g = [q.got EXCEPT !.blocked = b]
    OBVIOUS
  <2>4. /\ g \in ProfileOf(Others \union {None}) /\ g.of = q.got.of /\ g.visible = q.got.visible
        /\ g.blocked = b
    BY <1>2, <2>0, <2>3 DEF ProfileOf
  <2>5. r = Advance(q, "blocked", g, q.table, q.was)
    BY <1>1, <2>1, <2>3 DEF Advance, IsRequest
  <2>6. /\ IsRequest(r) /\ r.shows = "profile" /\ r.of = q.of /\ r.stage = "blocked"
        /\ r.changes = q.changes /\ r.got = g /\ r.was = q.was
    BY <1>0, <1>1, <2>2, <2>4, <2>5, Advanced
  <2>7. RequestOK(r)
    BY <1>1, <2>0, <2>2, <2>4, <2>6 DEF RequestOK, ProfileRead, MarksRead, Lists
  <2> QED  BY <2>2, <2>7, Replied
<1>5. CASE ReadMuted(q)
  <2>0. PICK b : b = (q.of \in mutes) /\ b \in BOOLEAN
    BY TruthValue
  <2>1. PICK r : r = [Step(q, "muted") EXCEPT !.got.muted = b]
    OBVIOUS
  <2>2. Reply(q, r) /\ UNCHANGED server /\ q.shows = "profile" /\ q.stage = "blocked"
    BY <1>5, <2>0, <2>1 DEF ReadMuted
  <2>3. PICK g : g = [q.got EXCEPT !.muted = b]
    OBVIOUS
  <2>4. /\ g \in ProfileOf(Others \union {None}) /\ g.of = q.got.of /\ g.visible = q.got.visible
        /\ g.blocked = q.got.blocked /\ g.muted = b
    BY <1>2, <2>0, <2>3 DEF ProfileOf
  <2>5. r = Advance(q, "muted", g, q.table, q.was)
    BY <1>1, <2>1, <2>3 DEF Advance, IsRequest
  <2>6. /\ IsRequest(r) /\ r.shows = "profile" /\ r.of = q.of /\ r.stage = "muted"
        /\ r.changes = q.changes /\ r.got = g /\ r.was = q.was /\ r.old = q.old
    BY <1>0, <1>1, <2>2, <2>4, <2>5, Advanced
  <2>7. RequestOK(r)
    BY <1>1, <2>0, <2>2, <2>4, <2>6 DEF RequestOK, ProfileRead, MarksRead, Lists
  <2> QED  BY <2>2, <2>7, Replied
<1>6. CASE ReadOverride(q)
  <2>1. PICK v : v = IF override[q.of] = None THEN q.got.visible ELSE override[q.of] = "on"
    OBVIOUS
  <2>2. PICK r : r = [Step(q, "ok") EXCEPT !.got.visible = v]
    OBVIOUS
  <2>3. Reply(q, r) /\ UNCHANGED server /\ q.shows = "profile" /\ q.stage = "muted"
    BY <1>1, <1>6, <2>1, <2>2 DEF ReadOverride, IsRequest
  <2>4. v \in BOOLEAN
    BY <1>2, <2>1 DEF ProfileOf
  <2>5. PICK g : g = [q.got EXCEPT !.visible = v]
    OBVIOUS
  <2>6. /\ g \in ProfileOf(Others \union {None}) /\ g.of = q.got.of /\ g.visible = v
        /\ g.blocked = q.got.blocked /\ g.muted = q.got.muted
    BY <1>2, <2>4, <2>5 DEF ProfileOf
  <2>7. r = Advance(q, "ok", g, q.table, q.was)
    BY <1>1, <2>2, <2>5 DEF Advance, IsRequest
  <2>8. /\ IsRequest(r) /\ r.shows = "profile" /\ r.of = q.of /\ r.stage = "ok"
        /\ r.changes = q.changes /\ r.got = g /\ r.was = q.was /\ r.old = q.old
    BY <1>0, <1>1, <2>3, <2>6, <2>7, Advanced
  <2>9. q.changes < 2 => v \in q.was
    <3>1. q.changes \in 0..2 /\ q.of \in Others
      BY <1>1, <2>3 DEF IsRequest
    <3>2. /\ Seen(q.of) \in q.was
          /\ q.changes = 0 => q.got.visible = visible[q.of]
          /\ q.changes = 1 /\ override[q.of] = None => q.got.visible \in q.was
      BY <1>1, <2>3 DEF RequestOK, ProfileRead
    <3>3. q.changes < 2 => q.changes = 0 \/ q.changes = 1
      BY <3>1
    <3> QED  BY <2>1, <3>2, <3>3 DEF Seen
  <2>10. RequestOK(r)
    BY <1>1, <2>3, <2>6, <2>8, <2>9 DEF RequestOK, ProfileRead, MarksRead, Lists
  <2> QED  BY <2>3, <2>10, Replied
<1>7. CASE ReadMe(q)
  <2>1. PICK r : r = [Step(q, "ok") EXCEPT !.got.visible = mine]
    OBVIOUS
  <2>2. Reply(q, r) /\ UNCHANGED server /\ q.shows = "mine" /\ q.stage = "changed"
    BY <1>7, <2>1 DEF ReadMe
  <2>3. PICK g : g = [q.got EXCEPT !.visible = mine]
    OBVIOUS
  <2>4. g \in ProfileOf(Others \union {None}) /\ g.visible = mine
    BY <1>2, <2>3 DEF ProfileOf, Types
  <2>5. r = Advance(q, "ok", g, q.table, q.was)
    BY <1>1, <2>1, <2>3 DEF Advance, IsRequest
  <2>6. IsRequest(r) /\ r.shows = "mine" /\ r.got = g
    BY <1>0, <1>1, <2>2, <2>4, <2>5, Advanced
  <2>7. RequestOK(r)
    BY <2>4, <2>6 DEF RequestOK, MineRead, Lists
  <2> QED  BY <2>2, <2>7, Replied
<1>8. CASE ReadList(q)
  <2>1. PICK t : t = rows[q.shows]
    OBVIOUS
  <2>2. PICK r : r = [Step(q, "ok") EXCEPT !.table = t]
    OBVIOUS
  <2>3. /\ Reply(q, r) /\ UNCHANGED server
        /\ q.shows \in {"privacy", "devices"} /\ q.act = "load"
    BY <1>8, <2>1, <2>2 DEF ReadList
  <2>4. r = Advance(q, "ok", q.got, t, q.was)
    BY <1>1, <2>2 DEF Advance, IsRequest
  <2>5. IsRequest(r) /\ r.shows = q.shows /\ r.of = None /\ r.table = t /\ r.stage = "ok"
    BY <1>0, <1>1, <1>2, <2>3, <2>4, Advanced DEF IsRequest
  <2>6. ListRead(r)
    BY <2>1, <2>5 DEF ListRead, Found, NameFound, Term
  <2>7. RequestOK(r)
    BY <2>3, <2>5, <2>6 DEF RequestOK
  <2> QED  BY <2>3, <2>7, Replied
<1>9. CASE Fail(q)
  <2>1. PICK r : r = [Step(q, "failed") EXCEPT !.got = NoProfile, !.table = {}]
    OBVIOUS
  <2>2. Reply(q, r) /\ UNCHANGED server
    BY <1>9, <2>1 DEF Fail
  <2>3. r = Advance(q, "failed", NoProfile, {}, q.was)
    BY <1>1, <2>1 DEF Advance, IsRequest
  <2>4. NoProfile \in ProfileOf(Others \union {None})
    BY DEF NoProfile, ProfileOf
  <2>5. IsRequest(r) /\ r.stage = "failed"
    BY <1>0, <1>1, <2>3, <2>4, Advanced
  <2>6. RequestOK(r)
    BY <2>5 DEF RequestOK, ProfileRead, MarksRead, MineRead, ListRead
  <2> QED  BY <2>2, <2>6, Replied
<1> QED  BY <1>3, <1>4, <1>5, <1>6, <1>7, <1>8, <1>9

(* The statements of list_sticker_packs keep the packs covered. *)
LEMMA Finds ==
  ASSUME NEW S
  PROVE  Covers(As("found", S), S)
<1>1. ASSUME NEW x \in As("found", S) PROVE \E e \in S: x[1] = e[1] /\ x[2] \in Pending
  BY DEF As, Pending
<1>2. ASSUME NEW e \in S PROVE \E x \in As("found", S): x[1] = e[1]
  <2>1. <<e[1], "found">> \in As("found", S)
    BY DEF As
  <2> QED  BY <2>1
<1> QED  BY <1>1, <1>2 DEF Covers

LEMMA Adds ==
  ASSUME NEW t, NEW S, NEW S0 \in SUBSET S, Covers(t, S0)
  PROVE  Covers(t \union As("named", {e \in S: \A x \in t: x[1] # e[1]}), S)
<1>1. PICK U : U = {e \in S: \A x \in t: x[1] # e[1]}
  OBVIOUS
<1>2. ASSUME NEW x \in As("named", U) PROVE \E e \in S: x[1] = e[1] /\ x[2] \in Pending
  BY <1>1 DEF As, Pending
<1>3. ASSUME NEW e \in S PROVE \E x \in t \union As("named", U): x[1] = e[1]
  <2>1. CASE e \in U
    <3>1. <<e[1], "named">> \in As("named", U)
      BY <2>1 DEF As
    <3> QED  BY <3>1
  <2>2. CASE e \notin U
    BY <1>1, <2>2
  <2> QED  BY <2>1, <2>2
<1>4. Covers(t \union As("named", U), S)
  BY <1>2, <1>3 DEF Covers
<1> QED  BY <1>1, <1>4

(* A pending pack gives way to its row or to the mark that it is found. *)
LEMMA GivesWay ==
  ASSUME NEW t, NEW S, Covers(t, S), NEW R, S \subseteq R, \A d, e \in R: d[1] = e[1] => d = e,
         NEW x \in t, x[2] \in Pending, NEW E, E = {e \in R: e[1] = x[1]}
  PROVE  /\ Covers((t \ {x}) \union As("found", E), S)
         /\ Covers((t \ {x}) \union E, S)
<1>1. PICK d \in S : d[1] = x[1]
  BY DEF Covers
<1>2. E = {d}
  BY <1>1
<1>3. PICK z : z = <<d[1], "found">>
  OBVIOUS
<1>4. As("found", {d}) = {z} /\ z[1] = d[1] /\ z[2] \in Pending
  BY <1>3 DEF As, Pending
<1>5. Covers((t \ {x}) \union {d}, S)
  BY <1>1 DEF Covers
<1>6. Covers((t \ {x}) \union {z}, S)
  BY <1>1, <1>4 DEF Covers
<1> QED  BY <1>2, <1>4, <1>5, <1>6

LEMMA AllRead ==
  ASSUME NEW t, NEW S, Covers(t, S), NEW R, S \subseteq R, \A d, e \in R: d[1] = e[1] => d = e,
         \A x \in t: x[2] \notin Pending
  PROVE  t = S
<1>1. \A x \in t: x \in S
  BY DEF Covers
<1>2. \A e \in S: e \in t
  BY <1>1 DEF Covers
<1> QED  BY <1>1, <1>2

LEMMA PackRequests ==
  ASSUME RequestsOK, Types, NEW q \in reqs, PackStep(q)
  PROVE  RequestsOK'
<1>1. RequestOK(q) /\ IsRequest(q) /\ ListRead(q)
  BY DEF RequestsOK, RequestOK, PackStep, ListPacks, ListByStickers, FindPack, ReadPack, PacksRead,
     Packing, At, Lists
<1>2. /\ UNCHANGED server /\ q.shows = "stickers" /\ q.act = "load"
      /\ q.got \in ProfileOf(Others \union {None})
  BY <1>1 DEF PackStep, ListPacks, ListByStickers, FindPack, ReadPack, PacksRead, Packing, At, IsRequest
<1>3. PICK R : R = rows["stickers"] /\ \A d, e \in R: d[1] = e[1] => d = e
  BY DEF Types
<1>4. PICK u, t0 : u = Term(q) /\ t0 = q.table
  OBVIOUS
<1>5. PICK S0, S : /\ S0 = {e \in R: NameFound(u, e)} /\ S = {e \in R: Found(u, e)}
  OBVIOUS
<1>6. S0 \in SUBSET S /\ S \subseteq R
  BY <1>5 DEF Found
<1>7. ~q.old => /\ q.stage = "names" => Covers(t0, S0)
                /\ q.stage = "packs" => Covers(t0, S)
  BY <1>1, <1>2, <1>3, <1>4, <1>5 DEF ListRead
(* It is enough that the next table is as it should be. *)
<1>8. ASSUME NEW stage \in {"names", "packs", "ok"}, NEW t, NEW r, Reply(q, r),
             r = Advance(q, stage, q.got, t, q.was),
             ~q.old => /\ stage = "names" => Covers(t, S0)
                       /\ stage = "packs" => Covers(t, S)
                       /\ stage = "ok" => t = S
      PROVE  RequestsOK'
  <2>1. stage \in Stages
    BY DEF Stages
  <2>2. /\ IsRequest(r) /\ r.shows = "stickers" /\ r.stage = stage /\ r.table = t /\ r.old = q.old
        /\ r.of = q.of /\ r.chained = q.chained
    BY <1>1, <1>2, <1>8, <2>1, Advanced
  <2>3. Term(r) = u
    BY <1>4, <2>2 DEF Term
  <2>4. ListRead(r)
    BY <1>3, <1>5, <1>8, <2>2, <2>3 DEF ListRead
  <2>5. RequestOK(r)
    BY <2>2, <2>4 DEF RequestOK
  <2> QED  BY <1>2, <1>8, <2>5, Replied
<1>9. CASE ListPacks(q)
  <2>1. PICK t : t = As("found", S0)
    OBVIOUS
  <2>2. PICK stage : stage = IF u = None THEN "packs" ELSE "names"
    OBVIOUS
  <2>3. PICK r : r = [Step(q, stage) EXCEPT !.table = t]
    OBVIOUS
  <2>4. Reply(q, r)
    BY <1>3, <1>4, <1>5, <1>9, <2>1, <2>2, <2>3 DEF ListPacks
  <2>5. r = Advance(q, stage, q.got, t, q.was)
    BY <1>1, <2>3 DEF Step, Advance, IsRequest
  <2>6. Covers(t, S0)
    BY <2>1, Finds
  <2>7. u = None => S = S0
    BY <1>5 DEF Found, NameFound
  <2> QED  BY <1>8, <2>2, <2>4, <2>5, <2>6, <2>7
<1>10. CASE ListByStickers(q)
  <2>1. PICK t : t = t0 \union As("named", {e \in S: \A x \in t0: x[1] # e[1]})
    OBVIOUS
  <2>2. PICK r : r = [Step(q, "packs") EXCEPT !.table = t]
    OBVIOUS
  <2>3. {e \in S: \A x \in t0: x[1] # e[1]} = {e \in R: Found(u, e) /\ \A x \in t0: x[1] # e[1]}
    BY <1>5
  <2>4. Reply(q, r) /\ q.stage = "names"
    <3>1. [Step(q, "packs") EXCEPT !.table = @ \union
             As("named", {e \in rows["stickers"]: Found(Term(q), e) /\ \A x \in q.table: x[1] # e[1]})] = r
      BY <1>1, <1>3, <1>4, <2>1, <2>2, <2>3 DEF Step, IsRequest
    <3> QED  BY <1>10, <3>1 DEF ListByStickers, Packing, At
  <2>5. r = Advance(q, "packs", q.got, t, q.was)
    BY <1>1, <2>2 DEF Step, Advance, IsRequest
  <2>6. ~q.old => Covers(t, S)
    BY <1>6, <1>7, <2>1, <2>4, Adds
  <2> QED  BY <1>8, <2>4, <2>5, <2>6
<1>11. ASSUME NEW x \in q.table, FindPack(q, x) PROVE RequestsOK'
  <2>0. PICK E : E = {e \in R: e[1] = x[1]}
    OBVIOUS
  <2>1. PICK t : t = (t0 \ {x}) \union As("found", E)
    OBVIOUS
  <2>2. PICK r : r = [q EXCEPT !.table = t]
    OBVIOUS
  <2>3. Reply(q, r) /\ q.stage = "packs" /\ x[2] \in Pending /\ x \in t0
    <3>1. Entry("stickers", x[1]) = E
      BY <1>3, <2>0 DEF Entry
    <3>2. [q EXCEPT !.table = (@ \ {x}) \union As("found", Entry("stickers", x[1]))] = r
      BY <1>1, <1>4, <2>1, <2>2, <3>1 DEF IsRequest
    <3> QED  BY <1>4, <1>11, <3>2 DEF FindPack, Packing, At, Pending
  <2>4. r = Advance(q, "packs", q.got, t, q.was)
    BY <1>1, <2>2, <2>3 DEF Advance, IsRequest
  <2>5. ASSUME ~q.old PROVE Covers(t, S)
    <3>1. Covers(t0, S)
      BY <1>7, <2>3, <2>5
    <3>2. Covers((t0 \ {x}) \union As("found", E), S)
      BY <1>3, <1>6, <2>0, <2>3, <3>1, GivesWay
    <3> QED  BY <2>1, <3>2
  <2> QED  BY <1>8, <2>3, <2>4, <2>5
<1>12. ASSUME NEW x \in q.table, ReadPack(q, x) PROVE RequestsOK'
  <2>1. PICK E : E = {e \in R: e[1] = x[1]}
    OBVIOUS
  <2>2. PICK t : t = (t0 \ {x}) \union (IF E = {} THEN {<<x[1], "off">>} ELSE E)
    OBVIOUS
  <2>3. PICK r : r = [q EXCEPT !.table = t]
    OBVIOUS
  <2>4. Reply(q, r) /\ q.stage = "packs" /\ x[2] \in Pending /\ x \in t0
    <3>1. Entry("stickers", x[1]) = E
      BY <1>3, <2>1 DEF Entry
    <3>2. [q EXCEPT !.table = (@ \ {x}) \union
            (IF Entry("stickers", x[1]) = {} THEN {<<x[1], "off">>} ELSE Entry("stickers", x[1]))] = r
      BY <1>1, <1>4, <2>2, <2>3, <3>1 DEF IsRequest
    <3> QED  BY <1>4, <1>12, <3>2 DEF ReadPack, Packing, At, Pending
  <2>5. r = Advance(q, "packs", q.got, t, q.was)
    BY <1>1, <2>3, <2>4 DEF Advance, IsRequest
  <2>6. ASSUME ~q.old PROVE Covers(t, S)
    <3>1. Covers(t0, S)
      BY <1>7, <2>4, <2>6
    <3>2. x \in t0 /\ x[2] \in Pending
      BY <2>4
    <3>3. E # {}
      BY <1>6, <2>1, <3>1, <3>2 DEF Covers
    <3>4. Covers((t0 \ {x}) \union E, S)
      BY <1>3, <1>6, <2>1, <3>1, <3>2, GivesWay
    <3> QED  BY <2>2, <3>3, <3>4
  <2> QED  BY <1>8, <2>4, <2>5, <2>6
<1>13. CASE PacksRead(q)
  <2>1. PICK r : r = Step(q, "ok")
    OBVIOUS
  <2>2. Reply(q, r) /\ q.stage = "packs" /\ \A x \in t0: x[2] \notin Pending
    BY <1>4, <1>13, <2>1 DEF PacksRead, Packing, At
  <2>3. r = Advance(q, "ok", q.got, t0, q.was)
    BY <1>1, <1>4, <2>1 DEF Step, Advance, IsRequest
  <2>4. ~q.old => t0 = S
    BY <1>3, <1>6, <1>7, <2>2, AllRead
  <2> QED  BY <1>8, <2>2, <2>3, <2>4
<1> QED  BY <1>9, <1>10, <1>11, <1>12, <1>13 DEF PackStep

(* What has been read may be old by now. *)
Aged(q, b) == [q EXCEPT !.old = q.old \/ b]

LEMMA AgedFields ==
  ASSUME NEW q, IsRequest(q), NEW b \in BOOLEAN, NEW r, r = Aged(q, b)
  PROVE  /\ IsRequest(r)
         /\ r.n = q.n /\ r.shows = q.shows /\ r.act = q.act /\ r.of = q.of /\ r.chained = q.chained
         /\ r.changes = q.changes /\ r.stage = q.stage /\ r.got = q.got /\ r.table = q.table
         /\ r.was = q.was /\ (r.old <=> q.old \/ b)
<1>1. /\ r.n = q.n /\ r.shows = q.shows /\ r.act = q.act /\ r.of = q.of /\ r.chained = q.chained
      /\ r.changes = q.changes /\ r.stage = q.stage /\ r.got = q.got /\ r.table = q.table
      /\ r.was = q.was /\ (r.old <=> q.old \/ b)
  BY DEF Aged, IsRequest
<1>2. r \in [n: {r.n}, shows: Shown, act: Acts, of: {r.of}, stage: Stages, chained: BOOLEAN,
             got: ProfileOf(Others \union {None}), table: {r.table}, old: BOOLEAN,
             was: {r.was}, changes: 0..2]
  BY DEF Aged, IsRequest
<1> QED  BY <1>1, <1>2 DEF IsRequest

LEMMA ModerateRequests ==
  ASSUME RequestsOK, NEW q \in reqs, ModerateUser(q)
  PROVE  RequestsOK'
<1>1. IsRequest(q) /\ RequestOK(q) /\ q.shows = "profile" /\ q.stage = "sent" /\ q.changes = 0
  BY DEF RequestsOK, RequestOK, ProfileRead, ModerateUser, At
<1>2. UNCHANGED <<visible, override, mine, rows>>
  BY DEF ModerateUser
<1>3. /\ \A u: u # q.of => (u \in blocks' <=> u \in blocks)
      /\ q.act \notin {"block", "unblock"} => blocks' = blocks
      /\ \A u: u # q.of => (u \in mutes' <=> u \in mutes)
  BY DEF ModerateUser
<1>4. PICK r : r = Step(q, "changed")
  OBVIOUS
<1>5. RequestOK(r)'
  <2>1. r = Advance(q, "changed", q.got, q.table, q.was)
    BY <1>1, <1>4 DEF Step, Advance, IsRequest
  <2>2. "changed" \in Stages /\ q.got \in ProfileOf(Others \union {None})
    BY <1>1 DEF Stages, IsRequest
  <2>3. IsRequest(r) /\ r.shows = "profile" /\ r.stage = "changed" /\ r.changes = 0
    BY <1>1, <2>1, <2>2, Advanced
  <2> QED  BY <2>3 DEF RequestOK, IsRequest, ProfileRead, MarksRead, Lists
<1>6. ASSUME NEW y \in reqs, NEW b, NEW x, x = Aged(y, b),
             b = (y.shows = "profile" /\ y.of = q.of /\
                  y.stage \in {"muted", "ok"} \union
                    (IF q.act \in {"block", "unblock"} THEN {"blocked"} ELSE {}))
      PROVE  RequestOK(x)'
  <2>0. x = Aged(y, b)
    BY <1>6
  <2>1. RequestOK(y) /\ IsRequest(y) /\ b \in BOOLEAN
    BY <1>6 DEF RequestsOK, RequestOK
  <2>2. /\ IsRequest(x)
        /\ x.shows = y.shows /\ x.act = y.act /\ x.of = y.of /\ x.changes = y.changes
        /\ x.chained = y.chained /\ x.stage = y.stage /\ x.got = y.got /\ x.table = y.table /\ x.was = y.was
        /\ (x.old <=> y.old \/ b)
    BY <2>0, <2>1, AgedFields
  <2>3. x.shows = "profile" => ProfileRead(x)'
    BY <1>2, <2>1, <2>2 DEF RequestOK, ProfileRead, Seen
  <2>4. x.shows = "profile" => MarksRead(x)'
    <3>1. CASE b
      <4>1. x.shows = "profile" => /\ x.stage \in {"row", "blocked", "muted", "ok"} => x.got.of = x.of
                                   /\ x.old
        BY <2>1, <2>2, <3>1 DEF RequestOK, MarksRead
      <4> QED  BY <4>1 DEF MarksRead
    <3>2. CASE ~b /\ y.shows = "profile"
      <4>1. /\ y.of # q.of \/ y.stage \notin {"muted", "ok"}
            /\ y.of # q.of \/ q.act \notin {"block", "unblock"} \/ y.stage # "blocked"
        BY <1>6, <3>2
      <4>2. y.stage \in {"blocked", "muted", "ok"} => (y.of \in blocks' <=> y.of \in blocks)
        BY <1>3, <4>1
      <4>3. y.stage \in {"muted", "ok"} => (y.of \in mutes' <=> y.of \in mutes)
        BY <1>3, <4>1
      <4> QED  BY <2>1, <2>2, <3>2, <4>2, <4>3 DEF RequestOK, MarksRead
    <3> QED  BY <2>2, <3>1, <3>2
  <2>5. x.shows = "mine" => MineRead(x)'
    BY <1>2, <2>1, <2>2 DEF RequestOK, MineRead
  <2>6. x.shows \in Lists => ListRead(x)'
    BY <1>2, <2>1, <2>2, ListReadStays DEF RequestOK
  <2> QED  BY <2>2, <2>3, <2>4, <2>5, <2>6 DEF RequestOK, IsRequest
<1>7. ASSUME NEW x \in reqs' PROVE RequestOK(x)'
  <2>1. x = r \/ \E y \in reqs: x = Aged(y, y.shows = "profile" /\ y.of = q.of /\
                  y.stage \in {"muted", "ok"} \union
                    (IF q.act \in {"block", "unblock"} THEN {"blocked"} ELSE {}))
    BY <1>4, <1>7 DEF ModerateUser, ReplyOver, Aged
  <2> QED  BY <1>5, <1>6, <2>1
<1> QED  BY <1>7 DEF RequestsOK

LEMMA UpdateMeRequests ==
  ASSUME RequestsOK, NEW q \in reqs, UpdateMe(q)
  PROVE  RequestsOK'
<1>1. IsRequest(q) /\ RequestOK(q) /\ q.shows = "mine"
  BY DEF RequestsOK, RequestOK, UpdateMe, At
<1>2. UNCHANGED <<visible, override, blocks, mutes, rows>>
  BY DEF UpdateMe
<1>3. PICK r : r = Step(q, "changed")
  OBVIOUS
<1>4. RequestOK(r)'
  <2>1. r = Advance(q, "changed", q.got, q.table, q.was)
    BY <1>1, <1>3 DEF Step, Advance, IsRequest
  <2>2. "changed" \in Stages /\ q.got \in ProfileOf(Others \union {None})
    BY <1>1 DEF Stages, IsRequest
  <2>3. IsRequest(r) /\ r.shows = "mine" /\ r.stage = "changed"
    BY <1>1, <2>1, <2>2, Advanced
  <2> QED  BY <2>3 DEF RequestOK, IsRequest, MineRead, Lists
<1>5. ASSUME NEW y \in reqs, NEW b, NEW x, x = Aged(y, b), b = (y.shows = "mine" /\ y.stage = "ok")
      PROVE  RequestOK(x)'
  <2>0. x = Aged(y, b)
    BY <1>5
  <2>1. RequestOK(y) /\ IsRequest(y) /\ b \in BOOLEAN
    BY <1>5 DEF RequestsOK, RequestOK
  <2>2. /\ IsRequest(x)
        /\ x.shows = y.shows /\ x.act = y.act /\ x.of = y.of /\ x.changes = y.changes
        /\ x.chained = y.chained /\ x.stage = y.stage /\ x.got = y.got /\ x.table = y.table /\ x.was = y.was
        /\ (x.old <=> y.old \/ b)
    BY <2>0, <2>1, AgedFields
  <2>3. x.shows = "profile" => ProfileRead(x)'
    BY <1>2, <2>1, <2>2 DEF RequestOK, ProfileRead, Seen
  <2>4. x.shows = "profile" => MarksRead(x)'
    BY <1>2, <2>1, <2>2 DEF RequestOK, MarksRead
  <2>5. x.shows = "mine" => MineRead(x)'
    BY <1>5, <2>1, <2>2 DEF RequestOK, MineRead
  <2>6. x.shows \in Lists => ListRead(x)'
    BY <1>2, <2>1, <2>2, ListReadStays DEF RequestOK
  <2> QED  BY <2>2, <2>3, <2>4, <2>5, <2>6 DEF RequestOK, IsRequest
<1>6. ASSUME NEW x \in reqs' PROVE RequestOK(x)'
  <2>1. x = r \/ \E y \in reqs: x = Aged(y, y.shows = "mine" /\ y.stage = "ok")
    BY <1>3, <1>6 DEF UpdateMe, ReplyOver, Aged
  <2> QED  BY <1>4, <1>5, <2>1
<1> QED  BY <1>6 DEF RequestsOK

(* A list changes: what loads of it have read is old. *)
LEMMA ListAged ==
  ASSUME RequestsOK, NEW l, UNCHANGED <<visible, override, blocks, mutes, mine>>,
         \A k \in Lists: k # l => rows'[k] = rows[k],
         NEW y \in reqs, NEW b, NEW x, x = Aged(y, b), b = ReadOf(y, l)
  PROVE  RequestOK(x)'
<1>1. RequestOK(y) /\ IsRequest(y) /\ b \in BOOLEAN
  BY DEF RequestsOK, RequestOK, ReadOf
<1>2. /\ IsRequest(x)
      /\ x.shows = y.shows /\ x.act = y.act /\ x.of = y.of /\ x.changes = y.changes
      /\ x.chained = y.chained
      /\ x.stage = y.stage /\ x.got = y.got /\ x.table = y.table /\ x.was = y.was
      /\ (x.old <=> y.old \/ b)
  BY <1>1, AgedFields
<1>3. x.shows = "profile" => ProfileRead(x)'
  BY <1>1, <1>2 DEF RequestOK, ProfileRead, Seen
<1>4. x.shows = "profile" => MarksRead(x)'
  BY <1>1, <1>2 DEF RequestOK, MarksRead
<1>5. x.shows = "mine" => MineRead(x)'
  BY <1>1, <1>2 DEF RequestOK, MineRead
<1>6. x.shows \in Lists => ListRead(x)'
  <2>1. CASE x.shows = l
    BY <1>2, <2>1 DEF ListRead, ReadOf
  <2>2. CASE x.shows # l
    BY <1>1, <1>2, <2>2, ListReadStays DEF RequestOK
  <2> QED  BY <2>1, <2>2
<1> QED  BY <1>2, <1>3, <1>4, <1>5, <1>6 DEF RequestOK, IsRequest

LEMMA PutElsewhere ==
  ASSUME Types, NEW l, NEW x, NEW v, Put(l, x, v)
  PROVE  \A k \in Lists: k # l => rows'[k] = rows[k]
BY DEF Types, Put

LEMMA ChangeRequests ==
  ASSUME RequestsOK, Types, NEW q \in reqs, CheckRow(q) \/ ChangeRow(q)
  PROVE  RequestsOK'
<1>1. IsRequest(q) /\ q.shows \in Lists /\ q.act # "load"
  BY DEF RequestsOK, RequestOK, CheckRow, ChangeRow
<1>2. ASSUME NEW stage \in Stages, NEW r, r = Step(q, stage)
      PROVE  RequestOK(r) /\ RequestOK(r)'
  <2>1. r = Advance(q, stage, q.got, q.table, q.was)
    BY <1>1, <1>2 DEF Step, Advance, IsRequest
  <2>2. q.got \in ProfileOf(Others \union {None})
    BY <1>1 DEF IsRequest
  <2>3. IsRequest(r) /\ r.shows \in Lists /\ r.act # "load"
    BY <1>1, <2>1, <2>2, Advanced
  <2> QED  BY <2>3 DEF RequestOK, IsRequest, ListRead, Lists
<1>3. ASSUME NEW stage \in Stages, Reply(q, Step(q, stage)), UNCHANGED server PROVE RequestsOK'
  <2>1. PICK r : r = Step(q, stage)
    OBVIOUS
  <2>2. RequestOK(r)
    BY <1>2, <2>1
  <2> QED  BY <1>3, <2>1, <2>2, Replied
<1>4. CASE /\ Put(q.shows, q.of, IF q.act = "create" THEN "off" ELSE q.act)
           /\ ReplyOver(q, Step(q, "ok"), LAMBDA x: ReadOf(x, q.shows))
  <2>1. \A k \in Lists: k # q.shows => rows'[k] = rows[k]
    BY <1>4, PutElsewhere
  <2>2. UNCHANGED <<visible, override, blocks, mutes, mine>>
    BY DEF CheckRow, ChangeRow, server
  <2>3. PICK r : r = Step(q, "ok")
    OBVIOUS
  <2>4. RequestOK(r)'
    BY <1>2, <2>3 DEF Stages
  <2>5. ASSUME NEW x \in reqs' PROVE RequestOK(x)'
    <3>1. x = r \/ \E y \in reqs: x = Aged(y, ReadOf(y, q.shows))
      BY <1>4, <2>3, <2>5 DEF ReplyOver, Aged
    <3> QED  BY <2>1, <2>2, <2>4, <3>1, ListAged
  <2> QED  BY <2>5 DEF RequestsOK
<1>5. CASE CheckRow(q)
  BY <1>3, <1>5 DEF CheckRow, Stages
<1>6. CASE ChangeRow(q)
  BY <1>3, <1>4, <1>6 DEF ChangeRow, Stages, server
<1> QED  BY <1>5, <1>6

LEMMA OtherDeviceRequests ==
  ASSUME RequestsOK, Types, NEW l, NEW x, NEW v, OtherDevice(l, x, v)
  PROVE  RequestsOK'
<1>1. \A k \in Lists: k # l => rows'[k] = rows[k]
  BY PutElsewhere DEF OtherDevice
<1>2. UNCHANGED <<visible, override, blocks, mutes, mine>>
  BY DEF OtherDevice
<1>3. ASSUME NEW z \in reqs' PROVE RequestOK(z)'
  <2>1. \E y \in reqs: z = Aged(y, ReadOf(y, l))
    BY <1>3 DEF OtherDevice, Aged
  <2> QED  BY <1>1, <1>2, <2>1, ListAged
<1> QED  BY <1>3 DEF RequestsOK

LEMMA OneMore ==
  ASSUME NEW k \in 0..2
  PROVE  /\ Min({2, k + 1}) \in 0..2 /\ (Min({2, k + 1}) < 2 => k = 0) /\ Min({2, k + 1}) # 0
<1>1. PICK m \in {2, k + 1} : \A y \in {2, k + 1}: m <= y
  <2>1. CASE k + 1 <= 2
    BY <2>1
  <2>2. CASE 2 <= k + 1
    BY <2>2
  <2> QED  BY <2>1, <2>2
<1>2. Min({2, k + 1}) \in {2, k + 1} /\ \A y \in {2, k + 1}: Min({2, k + 1}) <= y
  BY <1>1 DEF Min
<1> QED  BY <1>2

LEMMA HideRequests ==
  ASSUME RequestsOK, Types, NEW o \in Others, NEW show \in BOOLEAN, NEW v \in Values \union {None},
         OtherHides(o, show, v)
  PROVE  RequestsOK'
<1>1. /\ UNCHANGED <<blocks, mutes, mine, rows>>
      /\ \A u \in Others: u # o => visible'[u] = visible[u] /\ override'[u] = override[u]
      /\ visible' = visible \/ override' = override
  BY DEF OtherHides, Types
<1>2. ASSUME NEW y \in reqs, y.shows = "profile" => y.of # o \/ y.stage \notin {"row", "blocked", "muted"}
      PROVE  RequestOK(y)'
  <2>1. RequestOK(y) /\ IsRequest(y)
    BY DEF RequestsOK, RequestOK
  <2>2. y.shows = "profile" => ProfileRead(y)'
    BY <1>1, <1>2, <2>1 DEF RequestOK, ProfileRead, Seen, IsRequest
  <2>3. y.shows = "profile" => MarksRead(y)'
    BY <1>1, <2>1 DEF RequestOK, MarksRead
  <2>4. y.shows = "mine" => MineRead(y)'
    BY <1>1, <2>1 DEF RequestOK, MineRead
  <2>5. y.shows \in Lists => ListRead(y)'
    BY <1>1, <2>1, ListReadStays DEF RequestOK
  <2> QED  BY <2>1, <2>2, <2>3, <2>4, <2>5 DEF RequestOK, IsRequest
<1>3. ASSUME NEW y \in reqs, NEW x, y.shows = "profile", y.of = o,
             y.stage \in {"row", "blocked", "muted"},
             x = [y EXCEPT !.was = @ \union {Seen(o)'}, !.changes = Min({2, @ + 1})]
      PROVE  RequestOK(x)'
  <2>1. RequestOK(y) /\ IsRequest(y) /\ y.changes \in 0..2
    BY DEF RequestsOK, RequestOK, IsRequest
  <2>2. PICK s : s = Seen(o)'
    OBVIOUS
  <2>3. PICK m : m = Min({2, y.changes + 1})
    OBVIOUS
  <2>4. m \in 0..2 /\ (m < 2 => y.changes = 0) /\ m # 0
    BY <2>1, <2>3, OneMore
  <2>5. /\ x.n = y.n /\ x.shows = y.shows /\ x.act = y.act /\ x.of = y.of /\ x.chained = y.chained
        /\ x.stage = y.stage /\ x.got = y.got /\ x.table = y.table /\ x.old = y.old
        /\ x.was = y.was \union {s} /\ x.changes = m
    BY <1>3, <2>1, <2>2, <2>3 DEF IsRequest
  <2>6. x \in [n: {x.n}, shows: Shown, act: Acts, of: {x.of}, stage: Stages, chained: BOOLEAN,
               got: ProfileOf(Others \union {None}), table: {x.table}, old: BOOLEAN,
               was: {x.was}, changes: 0..2]
    BY <1>3, <2>1, <2>2, <2>3, <2>4, <2>5 DEF IsRequest
  <2>7. ProfileRead(x)'
    <3>1. /\ y.changes = 0 => y.got.visible = visible[o]
          /\ Seen(o) \in y.was
      BY <1>3, <2>1 DEF RequestOK, ProfileRead
    <3>2. Seen(o)' \in x.was
      BY <2>2, <2>5
    <3>3. m = 1 /\ override'[o] = None => y.got.visible \in x.was
      <4>1. CASE override' = override /\ m = 1 /\ override'[o] = None
        BY <2>4, <2>5, <3>1, <4>1 DEF Seen
      <4>2. CASE visible' = visible /\ m = 1 /\ override'[o] = None
        BY <2>4, <3>1, <3>2, <4>2 DEF Seen
      <4> QED  BY <1>1, <4>1, <4>2
    <3> QED  BY <1>3, <2>4, <2>5, <3>2, <3>3 DEF ProfileRead
  <2>8. MarksRead(x)'
    BY <1>1, <1>3, <2>1, <2>5 DEF RequestOK, MarksRead
  <2> QED  BY <1>3, <2>1, <2>5, <2>6, <2>7, <2>8 DEF RequestOK, IsRequest, Lists
<1>4. ASSUME NEW x \in reqs' PROVE RequestOK(x)'
  <2>1. PICK y \in reqs :
          x = IF y.shows = "profile" /\ y.of = o /\ y.stage \in {"row", "blocked", "muted"}
              THEN [y EXCEPT !.was = @ \union {Seen(o)'}, !.changes = Min({2, @ + 1})] ELSE y
    BY <1>4 DEF OtherHides
  <2> QED  BY <1>2, <1>3, <2>1
<1> QED  BY <1>4 DEF RequestsOK

(* The client takes an answer, and may ask for the list again. *)
LEMMA ClientRequests ==
  ASSUME RequestsOK, NEW q \in reqs,
         ProfileLoaded(q) \/ SettingsResult(q) \/ ListDropped(q)
           \/ \E l \in Lists: ListLoaded(q, l) \/ ChangeResult(q, l)
  PROVE  RequestsOK'
<1>1. UNCHANGED server
  BY DEF ProfileLoaded, SettingsResult, ListDropped, ListLoaded, ChangeResult
<1>2. ASSUME NEW r, r = [Load("privacy") EXCEPT !.n = q.n] PROVE RequestOK(r)
  <2>1. Fresh(r)
    BY <1>2 DEF Fresh, Load, Request, Shown, Lists, Acts
  <2> QED  BY <2>1, NewRequest
<1>3. CASE ProfileLoaded(q)
  BY <1>1, <1>2, <1>3, Taken DEF ProfileLoaded
<1>4. CASE SettingsResult(q)
  BY <1>1, <1>4, Taken DEF SettingsResult
<1>5. CASE ListDropped(q)
  <2>1. ASSUME NEW r, r = [Request("stickers", "on", q.of, FALSE) EXCEPT !.n = q.n] PROVE RequestOK(r)
    <3>1. Fresh(r)
      BY <2>1 DEF Fresh, Request, Shown, Lists, Acts, Values
    <3> QED  BY <3>1, NewRequest
  <2>2. PICK more : Take(q, more) /\ more \in {{}, {[Request("stickers", "on", q.of, FALSE) EXCEPT !.n = q.n]}}
    BY <1>5 DEF ListDropped
  <2>3. \A r \in more: RequestOK(r)
    BY <2>1, <2>2
  <2> QED  BY <1>1, <2>2, <2>3, Taken
<1>6. CASE \E l \in Lists: ListLoaded(q, l)
  BY <1>1, <1>6, Taken DEF ListLoaded
<1>7. ASSUME NEW l \in Lists, ChangeResult(q, l) PROVE RequestsOK'
  <2>1. PICK more :
          /\ Take(q, more)
          /\ more = IF q.stage = "failed" THEN {}
                    ELSE IF q.act = "create"
                         THEN {[Load(l) EXCEPT !.n = q.n, !.of = q.of, !.chained = TRUE]}
                         ELSE {[Load(l) EXCEPT !.n = q.n]}
    BY <1>7 DEF ChangeResult
  <2>2. q.act = "create" => l = "stickers"
    BY <1>7 DEF ChangeResult, Answered, RequestsOK, RequestOK, IsRequest
  <2>3. PICK of : of = IF l = "stickers" THEN search ELSE None
    OBVIOUS
  <2>4. ASSUME NEW r, r = [Load(l) EXCEPT !.n = q.n] PROVE RequestOK(r)
    <3>1. r = [n |-> q.n, shows |-> l, act |-> "load", of |-> of, stage |-> "sent", chained |-> FALSE,
             got |-> NoProfile, table |-> {}, old |-> FALSE, was |-> {}, changes |-> 0]
      BY <2>3, <2>4 DEF Load, Request
    <3>2. Fresh(r)
      BY <2>3, <3>1 DEF Fresh, Shown, Lists, Acts
    <3> QED  BY <3>2, NewRequest
  <2>5. ASSUME NEW r, q.act = "create", r = [Load(l) EXCEPT !.n = q.n, !.of = q.of, !.chained = TRUE]
        PROVE  RequestOK(r)
    <3>1. r = [n |-> q.n, shows |-> l, act |-> "load", of |-> q.of, stage |-> "sent", chained |-> TRUE,
             got |-> NoProfile, table |-> {}, old |-> FALSE, was |-> {}, changes |-> 0]
      BY <2>3, <2>5 DEF Load, Request
    <3>2. l = "stickers"
      BY <2>2, <2>5
    <3>3. Fresh(r)
      BY <3>1, <3>2 DEF Fresh, Shown, Lists, Acts
    <3> QED  BY <3>3, NewRequest
  <2>6. \A r \in more: RequestOK(r)
    BY <2>1, <2>4, <2>5
  <2> QED  BY <1>1, <2>1, <2>6, Taken
<1> QED  BY <1>3, <1>4, <1>5, <1>6, <1>7

LEMMA RequestsStep ==
  ASSUME Types, RequestsOK, SettingsNext
  PROVE  RequestsOK'
BY UserRequests, ReadRequests, PackRequests, ModerateRequests, UpdateMeRequests, ChangeRequests,
   OtherDeviceRequests, HideRequests, ClientRequests
DEF SettingsNext, Server, Client, PackStep

-----------------------------------------------------------------------------
(* The screen. *)

ScreenKept == MarksKept /\ MineKept /\ ListsKept

(* What is shown and kept stays, and what is on its way. *)
LEMMA MarksStay ==
  ASSUME MarksKept, UNCHANGED <<profile, blocks, mutes>>,
         "profile" \in missed => "profile" \in missed', MarksComing => MarksComing'
  PROVE  MarksKept'
BY DEF MarksKept, MarksShown

LEMMA MineStays ==
  ASSUME MineKept, UNCHANGED <<mineShown, mine>>,
         "mine" \in missed => "mine" \in missed', MineComing => MineComing'
  PROVE  MineKept'
BY DEF MineKept

LEMMA ListStays ==
  ASSUME NEW l, ListKept(l), lists'[l] = lists[l], rows'[l] = rows[l], l # "stickers" \/ search' = search,
         l \in missed => l \in missed', ListComing(l) => ListComing(l)'
  PROVE  ListKept(l)'
BY DEF ListKept, Wanted, Found, NameFound

LEMMA UserScreen ==
  ASSUME ScreenKept, User
  PROVE  ScreenKept'
<1>1. /\ UNCHANGED <<server, profile, lists>>
      /\ search' = search \/ "stickers" \in missed'
      /\ missed \subseteq missed'
  BY DEF User, ShowProfile, PrivacyOverrideRemove, PrivacyOverrideSet, ToggleBlock, ToggleMute,
     PrivacyDefaultToggled, SaveSettings, OpenList, ToggleStickerMenu, StickerSearchChanged,
     RevokeSession, CreateStickerPack, PickStickerImages, DeleteStickerPack, client
<1>2. reqs \subseteq reqs'
  BY DEF User, ShowProfile, PrivacyOverrideRemove, PrivacyOverrideSet, ToggleBlock, ToggleMute,
     PrivacyDefaultToggled, SaveSettings, OpenList, ToggleStickerMenu, StickerSearchChanged,
     RevokeSession, CreateStickerPack, PickStickerImages, DeleteStickerPack, Call
<1>3. mineShown' = mineShown \/ MineComing'
  <2>1. ASSUME PrivacyDefaultToggled PROVE MineComing'
    <3>1. PICK r : r = Request("mine", IF mineShown THEN "off" ELSE "on", None, FALSE)
      OBVIOUS
    <3>2. r.shows = "mine" /\ r.stage = "sent" /\ r \in reqs'
      BY <2>1, <3>1 DEF PrivacyDefaultToggled, Call, Request
    <3> QED  BY <3>2 DEF MineComing
  <2> QED
    BY <2>1 DEF User, ShowProfile, PrivacyOverrideRemove, PrivacyOverrideSet, ToggleBlock, ToggleMute,
       SaveSettings, OpenList, ToggleStickerMenu, StickerSearchChanged,
       RevokeSession, CreateStickerPack, PickStickerImages, DeleteStickerPack, client
<1>4. /\ MarksComing => MarksComing'
      /\ MineComing => MineComing'
      /\ \A l \in Lists: ListComing(l) => ListComing(l)'
  BY <1>2 DEF MarksComing, MineComing, ListComing
<1>5. MarksKept'
  BY <1>1, <1>4, MarksStay DEF ScreenKept, server
<1>6. MineKept'
  BY <1>1, <1>3, <1>4, MineStays DEF ScreenKept, MineKept, server
<1>7. ASSUME NEW l \in Lists PROVE ListKept(l)'
  <2>1. CASE l \in missed'
    BY <2>1 DEF ListKept
  <2>2. CASE l \notin missed'
    BY <1>1, <1>4, <2>2, ListStays DEF ScreenKept, ListsKept, server
  <2> QED  BY <2>1, <2>2
<1> QED  BY <1>5, <1>6, <1>7 DEF ScreenKept, ListsKept

(* A step of the server: q comes to the stage, the other requests stay what they are. *)
Moved(q, stage) ==
  \A y \in reqs: \E z \in reqs':
    z.shows = y.shows /\ z.act = y.act /\ z.stage = IF y = q THEN stage ELSE y.stage

LEMMA RepliedMoves ==
  ASSUME RequestsOK, NEW q \in reqs, NEW r, Reply(q, r), r.shows = q.shows, r.act = q.act
  PROVE  Moved(q, r.stage)
<1>1. ASSUME NEW y \in reqs, y # q PROVE y \in reqs'
  BY <1>1 DEF Reply
<1>2. r \in reqs'
  BY DEF Reply
<1> QED  BY <1>1, <1>2 DEF Moved

LEMMA ComingStays ==
  ASSUME NEW q \in reqs, NEW stage, Moved(q, stage), stage \notin {"sent", "failed"},
         q.shows \in Lists => stage = "ok" \/ q.act = "load"
  PROVE  /\ MarksComing => MarksComing'
         /\ MineComing => MineComing'
         /\ \A l \in Lists: ListComing(l) => ListComing(l)'
         /\ q.shows = "profile" => MarksComing'
         /\ q.shows = "mine" => MineComing'
         /\ q.shows \in Lists => ListComing(q.shows)'
<1>1. PICK z \in reqs' : z.shows = q.shows /\ z.act = q.act /\ z.stage = stage
  BY DEF Moved
<1>2. ASSUME NEW y \in reqs, y # q
      PROVE  \E x \in reqs': x.shows = y.shows /\ x.act = y.act /\ x.stage = y.stage
  BY <1>2 DEF Moved
<1>3. /\ q.shows = "profile" => MarksComing'
      /\ q.shows = "mine" => MineComing'
      /\ q.shows \in Lists => ListComing(q.shows)'
  BY <1>1 DEF MarksComing, MineComing, ListComing
<1>4. MarksComing => MarksComing'
  BY <1>2, <1>3 DEF MarksComing
<1>5. MineComing => MineComing'
  BY <1>2, <1>3 DEF MineComing
<1>6. ASSUME NEW l \in Lists, ListComing(l) PROVE ListComing(l)'
  BY <1>2, <1>3, <1>6 DEF ListComing
<1> QED  BY <1>3, <1>4, <1>5, <1>6

(* One that fails takes only its own part with it. *)
LEMMA ComingElsewhere ==
  ASSUME NEW q \in reqs, NEW stage, Moved(q, stage)
  PROVE  /\ q.shows # "profile" /\ MarksComing => MarksComing'
         /\ q.shows # "mine" /\ MineComing => MineComing'
         /\ \A l \in Lists: (q.shows # l \/ ~(q.act = "load" \/ q.stage = "ok")) /\ ListComing(l)
              => ListComing(l)'
<1>1. ASSUME NEW y \in reqs, y # q
      PROVE  \E x \in reqs': x.shows = y.shows /\ x.act = y.act /\ x.stage = y.stage
  BY <1>1 DEF Moved
<1> QED  BY <1>1 DEF MarksComing, MineComing, ListComing

(* The statements that read. *)
LEMMA ReadMoves ==
  ASSUME RequestsOK, NEW q \in reqs
  PROVE  /\ ReadRow(q) => Moved(q, "row") /\ q.shows = "profile"
         /\ ReadBlocked(q) => Moved(q, "blocked") /\ q.shows = "profile"
         /\ ReadMuted(q) => Moved(q, "muted") /\ q.shows = "profile"
         /\ ReadOverride(q) => Moved(q, "ok") /\ q.shows = "profile"
         /\ ReadMe(q) => Moved(q, "ok") /\ q.shows = "mine"
         /\ ReadList(q) => Moved(q, "ok")
         /\ PackStep(q) => (Moved(q, "names") \/ Moved(q, "packs") \/ Moved(q, "ok")) /\ q.act = "load"
         /\ Fail(q) => Moved(q, "failed")
<1>1. IsRequest(q)
  BY DEF RequestsOK, RequestOK
<1>2. ASSUME NEW stage, NEW r, Reply(q, r), r.shows = q.shows, r.act = q.act, r.stage = stage
      PROVE  Moved(q, stage)
  BY <1>2, RepliedMoves
<1> USE DEF At, Step
<1>3. ASSUME ReadRow(q) PROVE Moved(q, "row") /\ q.shows = "profile"
  <2>1. PICK w : w = {Seen(q.of)}
    OBVIOUS
  <2>2. PICK r : r = [Step(q, "row") EXCEPT !.got.of = q.of, !.got.visible = visible[q.of], !.was = w]
    OBVIOUS
  <2>3. Reply(q, r) /\ q.shows = "profile"
    BY <1>3, <2>1, <2>2 DEF ReadRow
  <2>4. r.shows = q.shows /\ r.act = q.act /\ r.stage = "row"
    BY <1>1, <2>2 DEF IsRequest
  <2> QED  BY <1>2, <2>3, <2>4
<1>4. ASSUME ReadBlocked(q) PROVE Moved(q, "blocked") /\ q.shows = "profile"
  <2>1. PICK b : b = (q.of \in blocks)
    OBVIOUS
  <2>2. PICK r : r = [Step(q, "blocked") EXCEPT !.got.blocked = b]
    OBVIOUS
  <2>3. Reply(q, r) /\ q.shows = "profile"
    BY <1>4, <2>1, <2>2 DEF ReadBlocked
  <2>4. r.shows = q.shows /\ r.act = q.act /\ r.stage = "blocked"
    BY <1>1, <2>2 DEF IsRequest
  <2> QED  BY <1>2, <2>3, <2>4
<1>5. ASSUME ReadMuted(q) PROVE Moved(q, "muted") /\ q.shows = "profile"
  <2>1. PICK b : b = (q.of \in mutes)
    OBVIOUS
  <2>2. PICK r : r = [Step(q, "muted") EXCEPT !.got.muted = b]
    OBVIOUS
  <2>3. Reply(q, r) /\ q.shows = "profile"
    BY <1>5, <2>1, <2>2 DEF ReadMuted
  <2>4. r.shows = q.shows /\ r.act = q.act /\ r.stage = "muted"
    BY <1>1, <2>2 DEF IsRequest
  <2> QED  BY <1>2, <2>3, <2>4
<1>6. ASSUME ReadOverride(q) PROVE Moved(q, "ok") /\ q.shows = "profile"
  <2>1. PICK v : v = IF override[q.of] = None THEN q.got.visible ELSE override[q.of] = "on"
    OBVIOUS
  <2>2. PICK r : r = [Step(q, "ok") EXCEPT !.got.visible = v]
    OBVIOUS
  <2>3. Reply(q, r) /\ q.shows = "profile"
    BY <1>1, <1>6, <2>1, <2>2 DEF ReadOverride, IsRequest
  <2>4. r.shows = q.shows /\ r.act = q.act /\ r.stage = "ok"
    BY <1>1, <2>2 DEF IsRequest
  <2> QED  BY <1>2, <2>3, <2>4
<1>7. ASSUME ReadMe(q) PROVE Moved(q, "ok") /\ q.shows = "mine"
  <2>1. PICK r : r = [Step(q, "ok") EXCEPT !.got.visible = mine]
    OBVIOUS
  <2>2. Reply(q, r) /\ q.shows = "mine"
    BY <1>7, <2>1 DEF ReadMe
  <2>3. r.shows = q.shows /\ r.act = q.act /\ r.stage = "ok"
    BY <1>1, <2>1 DEF IsRequest
  <2> QED  BY <1>2, <2>2, <2>3
<1>8. ASSUME ReadList(q) PROVE Moved(q, "ok")
  <2>1. PICK t : t = rows[q.shows]
    OBVIOUS
  <2>2. PICK r : r = [Step(q, "ok") EXCEPT !.table = t]
    OBVIOUS
  <2>3. Reply(q, r)
    BY <1>8, <2>1, <2>2 DEF ReadList
  <2>4. r.shows = q.shows /\ r.act = q.act /\ r.stage = "ok"
    BY <1>1, <2>2 DEF IsRequest
  <2> QED  BY <1>2, <2>3, <2>4
<1>9. ASSUME Fail(q) PROVE Moved(q, "failed")
  <2>1. PICK r : r = [Step(q, "failed") EXCEPT !.got = NoProfile, !.table = {}]
    OBVIOUS
  <2>2. Reply(q, r)
    BY <1>9, <2>1 DEF Fail
  <2>3. r.shows = q.shows /\ r.act = q.act /\ r.stage = "failed"
    BY <1>1, <2>1 DEF IsRequest
  <2> QED  BY <1>2, <2>2, <2>3
<1>10. ASSUME PackStep(q)
       PROVE  (Moved(q, "names") \/ Moved(q, "packs") \/ Moved(q, "ok")) /\ q.act = "load"
  <2>1. \E stage \in {"names", "packs", "ok"}: \E t: Reply(q, [q EXCEPT !.stage = stage, !.table = t])
    <3>1. CASE ListPacks(q)
      BY <3>1 DEF ListPacks
    <3>2. CASE ListByStickers(q)
      BY <1>1, <3>2 DEF ListByStickers, IsRequest
    <3>3. ASSUME NEW t, Reply(q, [q EXCEPT !.table = t]), q.stage = "packs"
          PROVE  Reply(q, [q EXCEPT !.stage = "packs", !.table = t])
      <4>1. [q EXCEPT !.table = t] = [q EXCEPT !.stage = "packs", !.table = t]
        BY <1>1, <3>3 DEF IsRequest
      <4> QED  BY <3>3, <4>1
    <3>4. CASE \E x \in q.table: FindPack(q, x)
      <4>1. PICK x \in q.table : FindPack(q, x)
        BY <3>4
      <4>2. PICK t : t = (q.table \ {x}) \union As("found", Entry("stickers", x[1]))
        OBVIOUS
      <4>3. Reply(q, [q EXCEPT !.table = t]) /\ q.stage = "packs"
        BY <1>1, <4>1, <4>2 DEF FindPack, Packing, IsRequest
      <4> QED  BY <3>3, <4>3
    <3>5. CASE \E x \in q.table: ReadPack(q, x)
      <4>1. PICK x \in q.table : ReadPack(q, x)
        BY <3>5
      <4>2. PICK t : t = (q.table \ {x}) \union
              (IF Entry("stickers", x[1]) = {} THEN {<<x[1], "off">>} ELSE Entry("stickers", x[1]))
        OBVIOUS
      <4>3. Reply(q, [q EXCEPT !.table = t]) /\ q.stage = "packs"
        BY <1>1, <4>1, <4>2 DEF ReadPack, Packing, IsRequest
      <4> QED  BY <3>3, <4>3
    <3>6. CASE PacksRead(q)
      <4>1. Step(q, "ok") = [q EXCEPT !.stage = "ok", !.table = q.table]
        BY <1>1 DEF IsRequest
      <4> QED  BY <3>6, <4>1 DEF PacksRead
    <3> QED  BY <1>10, <3>1, <3>2, <3>4, <3>5, <3>6 DEF PackStep
  <2>2a. PICK stage \in {"names", "packs", "ok"} :
           \E t: Reply(q, [q EXCEPT !.stage = stage, !.table = t])
    BY <2>1
  <2>2. PICK t : Reply(q, [q EXCEPT !.stage = stage, !.table = t])
    BY <2>2a
  <2>3. PICK r : r = [q EXCEPT !.stage = stage, !.table = t]
    OBVIOUS
  <2>4. r.shows = q.shows /\ r.act = q.act /\ r.stage = stage
    BY <1>1, <2>3 DEF IsRequest
  <2>5. Moved(q, stage)
    BY <1>2, <2>2, <2>3, <2>4
  <2>6. q.act = "load"
    BY <1>10 DEF PackStep, ListPacks, ListByStickers, FindPack, ReadPack, PacksRead, Packing
  <2> QED  BY <2>5, <2>6
<1> QED  BY <1>3, <1>4, <1>5, <1>6, <1>7, <1>8, <1>9, <1>10

LEMMA ReadScreen ==
  ASSUME ScreenKept, RequestsOK, NEW q \in reqs,
         \/ ReadRow(q) \/ ReadBlocked(q) \/ ReadMuted(q) \/ ReadOverride(q) \/ ReadMe(q) \/ ReadList(q)
         \/ PackStep(q)
  PROVE  ScreenKept'
<1>1. UNCHANGED <<server, client, missed>>
  BY DEF ReadRow, ReadBlocked, ReadMuted, ReadOverride, ReadMe, ReadList, PackStep, ListPacks,
     ListByStickers, FindPack, ReadPack, PacksRead, Unaffected
<1>2. \E stage \in {"row", "blocked", "muted", "names", "packs", "ok"}:
        Moved(q, stage) /\ (q.shows \in Lists => stage = "ok" \/ q.act = "load")
  BY ReadMoves DEF Lists
<1>3. /\ MarksComing => MarksComing'
      /\ MineComing => MineComing'
      /\ \A l \in Lists: ListComing(l) => ListComing(l)'
  BY <1>2, ComingStays
<1>4. MarksKept' /\ MineKept'
  BY <1>1, <1>3, MarksStay, MineStays DEF ScreenKept, server, client
<1>5. ASSUME NEW l \in Lists PROVE ListKept(l)'
  BY <1>1, <1>3, ListStays DEF ScreenKept, ListsKept, server, client
<1> QED  BY <1>4, <1>5 DEF ScreenKept, ListsKept

LEMMA FailScreen ==
  ASSUME ScreenKept, RequestsOK, NEW q \in reqs, Fail(q)
  PROVE  ScreenKept'
<1>1. UNCHANGED <<server, client>> /\ missed' = missed \union {q.shows}
  BY DEF Fail
<1>2. /\ q.shows # "profile" /\ MarksComing => MarksComing'
      /\ q.shows # "mine" /\ MineComing => MineComing'
      /\ \A l \in Lists: q.shows # l /\ ListComing(l) => ListComing(l)'
  BY ReadMoves, ComingElsewhere
<1>3. MarksKept'
  <2>1. CASE q.shows = "profile"
    BY <1>1, <2>1 DEF MarksKept
  <2>2. CASE q.shows # "profile"
    BY <1>1, <1>2, <2>2, MarksStay DEF ScreenKept, server, client
  <2> QED  BY <2>1, <2>2
<1>4. MineKept'
  <2>1. CASE q.shows = "mine"
    BY <1>1, <2>1 DEF MineKept
  <2>2. CASE q.shows # "mine"
    BY <1>1, <1>2, <2>2, MineStays DEF ScreenKept, server, client
  <2> QED  BY <2>1, <2>2
<1>5. ASSUME NEW l \in Lists PROVE ListKept(l)'
  <2>1. CASE q.shows = l
    BY <1>1, <2>1 DEF ListKept
  <2>2. CASE q.shows # l
    BY <1>1, <1>2, <2>2, ListStays DEF ScreenKept, ListsKept, server, client
  <2> QED  BY <2>1, <2>2
<1> QED  BY <1>3, <1>4, <1>5 DEF ScreenKept, ListsKept

(* The statements that write: what they change is on its way. *)
LEMMA OverMoves ==
  ASSUME RequestsOK, NEW q \in reqs, NEW stage, NEW r, r = Step(q, stage), r \in reqs',
         \A y \in reqs: y # q => \E b \in BOOLEAN: Aged(y, b) \in reqs'
  PROVE  Moved(q, stage)
<1>1. r.shows = q.shows /\ r.act = q.act /\ r.stage = stage
  BY DEF RequestsOK, RequestOK, IsRequest, Step
<1>2. ASSUME NEW y \in reqs, y # q
      PROVE  \E z \in reqs': z.shows = y.shows /\ z.act = y.act /\ z.stage = y.stage
  <2>1. PICK b \in BOOLEAN, z \in reqs' : z = Aged(y, b)
    BY <1>2
  <2>2. IsRequest(y)
    BY DEF RequestsOK, RequestOK
  <2>3. z.shows = y.shows /\ z.act = y.act /\ z.stage = y.stage
    BY <2>1, <2>2, AgedFields
  <2> QED  BY <2>3
<1> QED  BY <1>1, <1>2 DEF Moved

LEMMA ModerateScreen ==
  ASSUME ScreenKept, RequestsOK, NEW q \in reqs, ModerateUser(q)
  PROVE  ScreenKept'
<1>1. UNCHANGED <<mine, rows, client, missed>> /\ q.shows = "profile"
  BY DEF ModerateUser, Unaffected, At
<1>2. Moved(q, "changed")
  <2>1. PICK r : r = Step(q, "changed")
    OBVIOUS
  <2>2. r \in reqs'
    BY <2>1 DEF ModerateUser, ReplyOver
  <2>3. ASSUME NEW y \in reqs, y # q PROVE \E b \in BOOLEAN: Aged(y, b) \in reqs'
    <3>1. PICK b : b = (y.shows = "profile" /\ y.of = q.of /\
                        y.stage \in {"muted", "ok"} \union
                          (IF q.act \in {"block", "unblock"} THEN {"blocked"} ELSE {}))
      OBVIOUS
    <3>2. Aged(y, b) \in reqs'
      BY <2>3, <3>1 DEF ModerateUser, ReplyOver, Aged
    <3> QED  BY <3>1, <3>2
  <2> QED  BY <2>1, <2>2, <2>3, OverMoves
<1>3. /\ MarksComing'
      /\ MineComing => MineComing'
      /\ \A l \in Lists: ListComing(l) => ListComing(l)'
  BY <1>1, <1>2, ComingStays DEF Lists
<1>4. MarksKept' /\ MineKept'
  BY <1>1, <1>3, MineStays DEF MarksKept, ScreenKept, client
<1>5. ASSUME NEW l \in Lists PROVE ListKept(l)'
  BY <1>1, <1>3, ListStays DEF ScreenKept, ListsKept, client
<1> QED  BY <1>4, <1>5 DEF ScreenKept, ListsKept

LEMMA UpdateMeScreen ==
  ASSUME ScreenKept, RequestsOK, NEW q \in reqs, UpdateMe(q)
  PROVE  ScreenKept'
<1>1. UNCHANGED <<blocks, mutes, rows, client, missed>> /\ q.shows = "mine"
  BY DEF UpdateMe, Unaffected, At
<1>2. Moved(q, "changed")
  <2>1. PICK r : r = Step(q, "changed")
    OBVIOUS
  <2>2. r \in reqs'
    BY <2>1 DEF UpdateMe, ReplyOver
  <2>3. ASSUME NEW y \in reqs, y # q PROVE \E b \in BOOLEAN: Aged(y, b) \in reqs'
    <3>1. PICK b : b = (y.shows = "mine" /\ y.stage = "ok")
      OBVIOUS
    <3>2. Aged(y, b) \in reqs'
      BY <2>3, <3>1 DEF UpdateMe, ReplyOver, Aged
    <3> QED  BY <3>1, <3>2
  <2> QED  BY <2>1, <2>2, <2>3, OverMoves
<1>3. /\ MarksComing => MarksComing'
      /\ MineComing'
      /\ \A l \in Lists: ListComing(l) => ListComing(l)'
  BY <1>1, <1>2, ComingStays DEF Lists
<1>4. MarksKept' /\ MineKept'
  BY <1>1, <1>3, MarksStay DEF MineKept, ScreenKept, client
<1>5. ASSUME NEW l \in Lists PROVE ListKept(l)'
  BY <1>1, <1>3, ListStays DEF ScreenKept, ListsKept, client
<1> QED  BY <1>4, <1>5 DEF ScreenKept, ListsKept

LEMMA ChangeScreen ==
  ASSUME ScreenKept, RequestsOK, Types, NEW q \in reqs, CheckRow(q) \/ ChangeRow(q)
  PROVE  ScreenKept'
<1>1. /\ UNCHANGED <<blocks, mutes, mine, client, missed>>
      /\ q.shows \in Lists /\ q.act # "load" /\ q.stage # "ok"
  BY DEF CheckRow, ChangeRow, Unaffected, server
<1>2. ASSUME NEW stage, Reply(q, Step(q, stage)), UNCHANGED rows PROVE ScreenKept'
  <2>1. Moved(q, stage)
    <3>1. PICK r : r = Step(q, stage)
      OBVIOUS
    <3>2. r.shows = q.shows /\ r.act = q.act /\ r.stage = stage
      BY <3>1 DEF Step, RequestsOK, RequestOK, IsRequest
    <3> QED  BY <1>2, <3>1, <3>2, RepliedMoves
  <2>2. /\ MarksComing => MarksComing'
        /\ MineComing => MineComing'
        /\ \A l \in Lists: ListComing(l) => ListComing(l)'
    BY <1>1, <2>1, ComingElsewhere DEF Lists
  <2>3. MarksKept' /\ MineKept'
    BY <1>1, <2>2, MarksStay, MineStays DEF ScreenKept, client
  <2>4. ASSUME NEW l \in Lists PROVE ListKept(l)'
    BY <1>1, <1>2, <2>2, ListStays DEF ScreenKept, ListsKept, client
  <2> QED  BY <2>3, <2>4 DEF ScreenKept, ListsKept
<1>3. CASE /\ Put(q.shows, q.of, IF q.act = "create" THEN "off" ELSE q.act)
           /\ ReplyOver(q, Step(q, "ok"), LAMBDA x: ReadOf(x, q.shows))
  <2>1. \A k \in Lists: k # q.shows => rows'[k] = rows[k]
    BY <1>3, PutElsewhere
  <2>2. Moved(q, "ok")
    <3>1. PICK r : r = Step(q, "ok")
      OBVIOUS
    <3>2. r \in reqs'
      BY <1>3, <3>1 DEF ReplyOver
    <3>3. ASSUME NEW y \in reqs, y # q PROVE \E b \in BOOLEAN: Aged(y, b) \in reqs'
      <4>1. PICK b : b = ReadOf(y, q.shows) /\ b \in BOOLEAN
        BY DEF ReadOf
      <4>2. Aged(y, b) \in reqs'
        BY <1>3, <3>3, <4>1 DEF ReplyOver, Aged
      <4> QED  BY <4>1, <4>2
    <3> QED  BY <3>1, <3>2, <3>3, OverMoves
  <2>3. /\ MarksComing => MarksComing'
        /\ MineComing => MineComing'
        /\ \A l \in Lists: ListComing(l) => ListComing(l)'
        /\ ListComing(q.shows)'
    BY <1>1, <2>2, ComingStays
  <2>4. MarksKept' /\ MineKept'
    BY <1>1, <2>3, MarksStay, MineStays DEF ScreenKept, client
  <2>5. ASSUME NEW l \in Lists PROVE ListKept(l)'
    <3>1. CASE l = q.shows
      BY <2>3, <3>1 DEF ListKept
    <3>2. CASE l # q.shows
      BY <1>1, <2>1, <2>3, <3>2, ListStays DEF ScreenKept, ListsKept, client
    <3> QED  BY <3>1, <3>2
  <2> QED  BY <2>4, <2>5 DEF ScreenKept, ListsKept
<1>4. CASE CheckRow(q)
  BY <1>2, <1>4 DEF CheckRow, server
<1>5. CASE ChangeRow(q)
  BY <1>2, <1>3, <1>5 DEF ChangeRow
<1> QED  BY <1>4, <1>5

LEMMA OthersScreen ==
  ASSUME ScreenKept, RequestsOK, Types,
         \/ \E l \in Lists: \E x \in Keys[l], v \in Values \union {None}: OtherDevice(l, x, v)
         \/ \E o \in Others, show \in BOOLEAN, v \in Values \union {None}: OtherHides(o, show, v)
  PROVE  ScreenKept'
<1>1. ASSUME NEW l0 \in Lists, NEW x, NEW v, OtherDevice(l0, x, v) PROVE ScreenKept'
  <2>1. UNCHANGED <<blocks, mutes, mine, client>> /\ missed' = missed \union {l0}
    BY <1>1 DEF OtherDevice
  <2>2. \A k \in Lists: k # l0 => rows'[k] = rows[k]
    BY <1>1, PutElsewhere DEF OtherDevice
  <2>3. ASSUME NEW y \in reqs
        PROVE  \E z \in reqs': z.shows = y.shows /\ z.act = y.act /\ z.stage = y.stage
    <3>1. PICK b : b = ReadOf(y, l0) /\ b \in BOOLEAN
      BY DEF ReadOf
    <3>2. PICK z \in reqs' : z = Aged(y, b)
      BY <1>1, <3>1 DEF OtherDevice, Aged
    <3>3. IsRequest(y)
      BY DEF RequestsOK, RequestOK
    <3>4. z.shows = y.shows /\ z.act = y.act /\ z.stage = y.stage
      BY <3>1, <3>2, <3>3, AgedFields
    <3> QED  BY <3>4
  <2>4. /\ MarksComing => MarksComing'
        /\ MineComing => MineComing'
        /\ \A l \in Lists: ListComing(l) => ListComing(l)'
    BY <2>3 DEF MarksComing, MineComing, ListComing
  <2>5. MarksKept' /\ MineKept'
    BY <2>1, <2>4, MarksStay, MineStays DEF ScreenKept, client
  <2>6. ASSUME NEW l \in Lists PROVE ListKept(l)'
    <3>1. CASE l = l0
      BY <2>1, <3>1 DEF ListKept
    <3>2. CASE l # l0
      BY <2>1, <2>2, <2>4, <3>2, ListStays DEF ScreenKept, ListsKept, client
    <3> QED  BY <3>1, <3>2
  <2> QED  BY <2>5, <2>6 DEF ScreenKept, ListsKept
<1>2. ASSUME NEW o \in Others, NEW show \in BOOLEAN, NEW v \in Values \union {None},
             OtherHides(o, show, v)
      PROVE  ScreenKept'
  <2>1. UNCHANGED <<blocks, mutes, mine, rows, client, missed>>
    BY <1>2 DEF OtherHides
  <2>2. ASSUME NEW y \in reqs
        PROVE  \E z \in reqs': z.shows = y.shows /\ z.act = y.act /\ z.stage = y.stage
    <3>1. PICK s : s = Seen(o)'
      OBVIOUS
    <3>2. PICK m : m = Min({2, y.changes + 1})
      OBVIOUS
    <3>3. PICK z : z = IF y.shows = "profile" /\ y.of = o /\ y.stage \in {"row", "blocked", "muted"}
                       THEN [y EXCEPT !.was = @ \union {s}, !.changes = m] ELSE y
      OBVIOUS
    <3>4. z \in reqs'
      BY <1>2, <3>1, <3>2, <3>3 DEF OtherHides
    <3>5. z.shows = y.shows /\ z.act = y.act /\ z.stage = y.stage
      BY <3>3 DEF RequestsOK, RequestOK, IsRequest
    <3> QED  BY <3>4, <3>5
  <2>3. /\ MarksComing => MarksComing'
        /\ MineComing => MineComing'
        /\ \A l \in Lists: ListComing(l) => ListComing(l)'
    BY <2>2 DEF MarksComing, MineComing, ListComing
  <2>4. MarksKept' /\ MineKept'
    BY <2>1, <2>3, MarksStay, MineStays DEF ScreenKept, client
  <2>5. ASSUME NEW l \in Lists PROVE ListKept(l)'
    BY <2>1, <2>3, ListStays DEF ScreenKept, ListsKept, client
  <2> QED  BY <2>4, <2>5 DEF ScreenKept, ListsKept
<1> QED  BY <1>1, <1>2

(* An answer is taken: the other requests stay. *)
LEMMA TakenLeaves ==
  ASSUME NEW q \in reqs, NEW more, Take(q, more)
  PROVE  /\ q.shows # "profile" \/ q.stage \in {"sent", "failed"} => (MarksComing => MarksComing')
         /\ q.shows # "mine" \/ q.stage = "failed" => (MineComing => MineComing')
         /\ \A l \in Lists: q.shows # l \/ q.stage = "failed" => (ListComing(l) => ListComing(l)')
<1>1. reqs \ {q} \subseteq reqs'
  BY DEF Take
<1>2. q.shows # "profile" \/ q.stage \in {"sent", "failed"} => (MarksComing => MarksComing')
  BY <1>1 DEF MarksComing
<1>3. q.shows # "mine" \/ q.stage = "failed" => (MineComing => MineComing')
  BY <1>1 DEF MineComing
<1>4. ASSUME NEW l \in Lists, q.shows # l \/ q.stage = "failed", ListComing(l) PROVE ListComing(l)'
  BY <1>1, <1>4 DEF ListComing
<1> QED  BY <1>2, <1>3, <1>4

LEMMA ProfileScreen ==
  ASSUME ScreenKept, RequestsOK, NEW q \in reqs, ProfileLoaded(q)
  PROVE  ScreenKept'
<1>1. UNCHANGED <<server, mineShown, lists, search>> /\ q.shows = "profile" /\ q.stage \in {"ok", "failed"}
  BY DEF ProfileLoaded, Answered
<1>2. missed' \in {missed, missed \union {"profile"}, missed \ {"profile"}}
  BY DEF ProfileLoaded, Renewed
<1>3. /\ q.stage = "failed" => (MarksComing => MarksComing')
      /\ MineComing => MineComing'
      /\ \A l \in Lists: ListComing(l) => ListComing(l)'
  BY <1>1, TakenLeaves DEF ProfileLoaded, Lists
<1>4. MarksKept'
  <2>1. CASE q.stage = "failed"
    BY <1>1, <1>3, <2>1, MarksStay DEF ProfileLoaded, ScreenKept, server
  <2>2. CASE q.stage = "ok" /\ q.old
    BY <2>2 DEF ProfileLoaded, Renewed, MarksKept
  <2>3. CASE q.stage = "ok" /\ ~q.old
    <3>1. profile' = q.got
      BY <2>3 DEF ProfileLoaded
    <3>2. /\ q.got.of = q.of
          /\ q.got.blocked = (q.of \in blocks) /\ q.got.muted = (q.of \in mutes)
      BY <1>1, <2>3 DEF RequestsOK, RequestOK, MarksRead
    <3> QED  BY <1>1, <3>1, <3>2 DEF MarksKept, MarksShown, server
  <2> QED  BY <1>1, <2>1, <2>2, <2>3
<1>5. MineKept'
  BY <1>1, <1>2, <1>3, MineStays DEF ScreenKept, server
<1>6. ASSUME NEW l \in Lists PROVE ListKept(l)'
  BY <1>1, <1>2, <1>3, ListStays DEF ScreenKept, ListsKept, Lists, server
<1> QED  BY <1>4, <1>5, <1>6 DEF ScreenKept, ListsKept

LEMMA MineScreen ==
  ASSUME ScreenKept, RequestsOK, NEW q \in reqs, SettingsResult(q)
  PROVE  ScreenKept'
<1>1. UNCHANGED <<server, profile, lists, search>> /\ q.shows = "mine" /\ q.stage \in {"ok", "failed"}
  BY DEF SettingsResult, Answered
<1>2. missed' \in {missed, missed \union {"mine"}, missed \ {"mine"}}
  BY DEF SettingsResult, Renewed
<1>3. /\ MarksComing => MarksComing'
      /\ q.stage = "failed" => (MineComing => MineComing')
      /\ \A l \in Lists: ListComing(l) => ListComing(l)'
  BY <1>1, TakenLeaves DEF SettingsResult, Lists
<1>4. MarksKept'
  BY <1>1, <1>2, <1>3, MarksStay DEF ScreenKept, server
<1>5. MineKept'
  <2>1. CASE q.stage = "failed"
    BY <1>1, <1>3, <2>1, MineStays DEF SettingsResult, ScreenKept, server
  <2>2. CASE q.stage = "ok" /\ q.old
    BY <2>2 DEF SettingsResult, Renewed, MineKept
  <2>3. CASE q.stage = "ok" /\ ~q.old
    BY <1>1, <2>3 DEF SettingsResult, MineKept, RequestsOK, RequestOK, MineRead, server
  <2> QED  BY <1>1, <2>1, <2>2, <2>3
<1>6. ASSUME NEW l \in Lists PROVE ListKept(l)'
  BY <1>1, <1>2, <1>3, ListStays DEF ScreenKept, ListsKept, Lists, server
<1> QED  BY <1>4, <1>5, <1>6 DEF ScreenKept, ListsKept

LEMMA ListScreen ==
  ASSUME ScreenKept, RequestsOK, Types, NEW q \in reqs, NEW l \in Lists, ListLoaded(q, l)
  PROVE  ScreenKept'
<1>1. /\ UNCHANGED <<server, profile, mineShown, search>>
      /\ q.shows = l /\ q.stage \in {"ok", "failed"} /\ q.act = "load" /\ ~q.chained
  BY DEF ListLoaded, Answered
<1>2. missed' \in {missed, missed \union {l}, missed \ {l}}
  BY DEF ListLoaded, Renewed
<1>3. /\ MarksComing => MarksComing'
      /\ MineComing => MineComing'
      /\ \A k \in Lists: k # l \/ q.stage = "failed" => (ListComing(k) => ListComing(k)')
  BY <1>1, TakenLeaves DEF ListLoaded, Lists
<1>4. MarksKept' /\ MineKept'
  BY <1>1, <1>2, <1>3, MarksStay, MineStays DEF ScreenKept, Lists, server
<1>5. \A k \in Lists: k # l => lists'[k] = lists[k]
  BY DEF ListLoaded, Types
<1>6. ASSUME NEW k \in Lists, k # l PROVE ListKept(k)'
  BY <1>1, <1>2, <1>3, <1>5, <1>6, ListStays DEF ScreenKept, ListsKept, server
<1>7. ListKept(l)'
  <2>1. CASE q.stage = "failed"
    BY <1>1, <1>3, <2>1, ListStays DEF ListLoaded, ScreenKept, ListsKept, server
  <2>2. CASE q.stage = "ok" /\ (q.old \/ (l = "stickers" /\ q.of # search))
    BY <2>2 DEF ListLoaded, Renewed, ListKept
  <2>3. CASE q.stage = "ok" /\ ~(q.old \/ (l = "stickers" /\ q.of # search))
    <3>1. lists'[l] = q.table
      BY <2>3 DEF ListLoaded, Types
    <3>2. q.table = {e \in rows[l]: Found(Term(q), e)}
      BY <1>1, <2>3 DEF RequestsOK, RequestOK, ListRead
    <3>3. q.of = IF l = "stickers" THEN search ELSE None
      BY <1>1, <2>3 DEF RequestsOK, RequestOK, IsRequest, Lists
    <3>4. q.table = Wanted(l)
      BY <1>1, <3>2, <3>3 DEF Wanted, Term
    <3>5. Wanted(l)' = Wanted(l)
      BY <1>1 DEF Wanted, Found, NameFound, server
    <3> QED  BY <3>1, <3>4, <3>5 DEF ListKept
  <2> QED  BY <1>1, <2>1, <2>2, <2>3
<1> QED  BY <1>4, <1>6, <1>7 DEF ScreenKept, ListsKept

LEMMA ChangeResultScreen ==
  ASSUME ScreenKept, RequestsOK, NEW q \in reqs, NEW l \in Lists, ChangeResult(q, l)
  PROVE  ScreenKept'
<1>1. /\ UNCHANGED <<server, client, missed>>
      /\ q.shows = l /\ q.stage \in {"ok", "failed"} /\ q.act # "load"
  BY DEF ChangeResult, Answered
<1>2. /\ MarksComing => MarksComing'
      /\ MineComing => MineComing'
      /\ \A k \in Lists: k # l \/ q.stage = "failed" => (ListComing(k) => ListComing(k)')
  BY <1>1, TakenLeaves DEF ChangeResult, Lists
<1>3. q.stage = "ok" => ListComing(l)'
  <2>1. ASSUME q.stage = "ok" PROVE \E r \in reqs': r.shows = l /\ r.act = "load" /\ r.stage = "sent"
    <3>1. PICK of : of = IF l = "stickers" THEN search ELSE None
      OBVIOUS
    <3>2. CASE q.act = "create"
      <4>1. PICK r : r = [Load(l) EXCEPT !.n = q.n, !.of = q.of, !.chained = TRUE]
        OBVIOUS
      <4>2. r \in reqs'
        BY <1>1, <2>1, <3>2, <4>1 DEF ChangeResult, Take
      <4>3. r.shows = l /\ r.act = "load" /\ r.stage = "sent"
        BY <3>1, <4>1 DEF Load, Request
      <4> QED  BY <4>2, <4>3
    <3>3. CASE q.act # "create"
      <4>1. PICK r : r = [Load(l) EXCEPT !.n = q.n]
        OBVIOUS
      <4>2. r \in reqs'
        BY <1>1, <2>1, <3>3, <4>1 DEF ChangeResult, Take
      <4>3. r.shows = l /\ r.act = "load" /\ r.stage = "sent"
        BY <3>1, <4>1 DEF Load, Request
      <4> QED  BY <4>2, <4>3
    <3> QED  BY <3>2, <3>3
  <2> QED  BY <2>1 DEF ListComing
<1>4. MarksKept' /\ MineKept'
  BY <1>1, <1>2, MarksStay, MineStays DEF ScreenKept, server, client
<1>5. ASSUME NEW k \in Lists PROVE ListKept(k)'
  <2>1. CASE k = l /\ q.stage = "ok"
    BY <1>3, <2>1 DEF ListKept
  <2>2. CASE k # l \/ q.stage = "failed"
    BY <1>1, <1>2, <2>2, ListStays DEF ScreenKept, ListsKept, server, client
  <2> QED  BY <1>1, <2>1, <2>2
<1> QED  BY <1>4, <1>5 DEF ScreenKept, ListsKept

LEMMA DroppedScreen ==
  ASSUME ScreenKept, NEW q \in reqs, ListDropped(q)
  PROVE  ScreenKept'
<1>1. UNCHANGED <<server, client>> /\ missed' = missed \union {"stickers"} /\ q.shows = "stickers"
  BY DEF ListDropped, Answered
<1>2. /\ MarksComing => MarksComing'
      /\ MineComing => MineComing'
      /\ \A k \in Lists: k # "stickers" => (ListComing(k) => ListComing(k)')
  BY <1>1, TakenLeaves DEF ListDropped, Lists
<1>3. MarksKept' /\ MineKept'
  BY <1>1, <1>2, MarksStay, MineStays DEF ScreenKept, server, client
<1>4. ASSUME NEW k \in Lists PROVE ListKept(k)'
  <2>1. CASE k = "stickers"
    BY <1>1, <2>1 DEF ListKept
  <2>2. CASE k # "stickers"
    BY <1>1, <1>2, <2>2, ListStays DEF ScreenKept, ListsKept, server, client
  <2> QED  BY <2>1, <2>2
<1> QED  BY <1>3, <1>4 DEF ScreenKept, ListsKept

LEMMA ScreenStep ==
  ASSUME ScreenKept, Types, RequestsOK, SettingsNext
  PROVE  ScreenKept'
BY UserScreen, ReadScreen, FailScreen, ModerateScreen, UpdateMeScreen, ChangeScreen, OthersScreen,
   ProfileScreen, MineScreen, ListScreen, ChangeResultScreen, DroppedScreen
DEF SettingsNext, Server, Client, PackStep

-----------------------------------------------------------------------------
LEMMA StutterInv == Inv /\ UNCHANGED settingsVars => Inv'
<1> SUFFICES ASSUME Inv, UNCHANGED settingsVars PROVE Inv'
  OBVIOUS
<1>1. UNCHANGED server /\ UNCHANGED client /\ UNCHANGED <<reqs, missed>>
  BY DEF settingsVars
<1>2. Types'
  BY <1>1 DEF Inv, Types, server, client
<1>3. RequestsOK'
  BY <1>1, StillOK DEF Inv, RequestsOK
<1>4. /\ MarksComing => MarksComing'
      /\ MineComing => MineComing'
      /\ \A k \in Lists: ListComing(k) => ListComing(k)'
  BY <1>1 DEF MarksComing, MineComing, ListComing
<1>5. MarksKept' /\ MineKept'
  BY <1>1, <1>4, MarksStay, MineStays DEF Inv, server, client
<1>6. ListsKept'
  <2> SUFFICES ASSUME NEW k \in Lists PROVE ListKept(k)'
    BY DEF ListsKept
  <2> QED  BY <1>1, <1>4, ListStays DEF Inv, ListsKept, server, client
<1> QED  BY <1>2, <1>3, <1>5, <1>6 DEF Inv

LEMMA Invariance == SettingsSpec => []Inv
<1>1. Inv /\ [SettingsNext]_settingsVars => Inv'
  BY TypesStep, RequestsStep, ScreenStep, StutterInv DEF Inv, ScreenKept
<1> QED  BY <1>1, InitInv, PTL DEF SettingsSpec

(* A profile (moderation.rs, profile_value) is answered as it was to be seen at some time while its
   rows were read, unless others changed it twice then. *)
THEOREM ProfilesAsPermitted == SettingsSpec => []ShownAsPermitted
<1>1. Inv => ShownAsPermitted
  BY DEF Inv, RequestsOK, RequestOK, ProfileRead, ShownAsPermitted
<1> QED  BY <1>1, Invariance, PTL

(* The marks on a profile (moderation.rs) and the own visibility (main.rs, PrivacyDefaultToggled) are
   shown as kept when no request on them is on its way, unless an answer was lost or overtaken. *)
THEOREM SwitchesRest == SettingsSpec => []SwitchesAsKept
<1>1. Inv => SwitchesAsKept
  BY DEF Inv, MarksKept, MarksShown, MarksComing, MineKept, MineComing, SwitchesAsKept
<1> QED  BY <1>1, Invariance, PTL

(* The lists of overrides, devices and sticker packs (main.rs) show the rows of the server when no
   request on them is on its way, unless an answer was lost, overtaken, or was that of an earlier
   search, or others changed the rows. *)
THEOREM ListsRest == SettingsSpec => []ListsAsKept
<1>1. Inv => ListsAsKept
  BY DEF Inv, ListsKept, ListKept, ListComing, Wanted, ListsAsKept
<1> QED  BY <1>1, Invariance, PTL
=============================================================================
