---------------------------- MODULE MCFederation ----------------------------
(***************************************************************************)
(* Federation for TLC.  At most two operations run at once; there is a     *)
(* third one, after one of them, only while there is a single message.     *)
(***************************************************************************)
EXTENDS Federation, TLC

AtOnce == 2

MCCall(i) ==
    /\ Cardinality({j \in Ops : Running(j)}) < AtOnce
    /\ i > 2 => Cardinality({m \in Msgs : msg[m].there}) = 1
    /\ Call(i)
    /\ i > 2 => op'[i].kind # "message"

MCNext == \E i \in Ops : MCCall(i) \/ Step(i) \/ Abandon(i) \/ Lose(i)

MCSpec == Init /\ [][MCNext]_vars

\* Messages, recipients and texts are interchangeable: no definition names one.
AllSymmetry == Permutations(Msgs) \cup Permutations(Recipients) \cup Permutations(Bodies)
=============================================================================
