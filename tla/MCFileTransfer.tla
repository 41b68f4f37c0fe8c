--------------------------- MODULE MCFileTransfer ---------------------------
(***************************************************************************)
(* FileTransfer for TLC.  Of the behaviours within the bounds those are    *)
(* left out in which a client restarts after it has asked twice, or in     *)
(* which something else goes wrong after the restart: a restart is the     *)
(* last fault of a behaviour, and a second attempt may follow it.          *)
(***************************************************************************)
EXTENDS FileTransfer

\* Signals get lost, connections fail or break, and disks refuse.
Fails ==
    \/ \E r \in Receivers: Lose(r)
    \/ \E c \in Conns: OfferFails(c) \/ AnswerFails(c) \/ WriteFails(c)
                       \/ SenderLosesLink(c) \/ ReceiverLosesLink(c)
    \/ refused' # refused

MCNext ==
    /\ Next
    /\ restarts' # restarts => \A r \in Receivers: fetches[r] <= 1
    /\ restarts > 0 => ~Fails

MCSpec == Init /\ [][MCNext]_vars /\ Fairness
=============================================================================
