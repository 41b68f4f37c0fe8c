--------------------------- MODULE MCClientSession ---------------------------
(* Model-checking instance of ClientSession. *)
EXTENDS ClientSession, TLC

AccountSymmetry == Permutations(Accounts)

(* Every property excepts the states after a late answer, and only Restart *)
(* leads out of them: with no step left, nothing is to be found there.     *)
Telling == late => steps < MaxSteps
=============================================================================
