------------------------------ MODULE MCSettings ------------------------------
(* Model-checking instance of Settings. *)
EXTENDS Settings, TLC

CONSTANTS p1, named, drawn

(* One word is in the name of the pack and of its stickers, the other only *)
(* in those of its stickers.                                               *)
MCByName == (named :> {p1}) @@ (drawn :> {})
MCBySticker == (named :> {p1}) @@ (drawn :> {p1})

UserSymmetry == Permutations(Others)
===============================================================================
