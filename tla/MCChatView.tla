----------------------------- MODULE MCChatView -----------------------------
(* Model-checking instance of ChatView. *)
EXTENDS ChatView, TLC

ConvSymmetry == Permutations(Convs)
=============================================================================
