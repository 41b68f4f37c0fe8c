---------------------------- MODULE MCVoicePeers ----------------------------
(* Model-checking instance of VoicePeers. *)
EXTENDS VoicePeers, TLC

UserSymmetry == Permutations(Users)
=============================================================================
