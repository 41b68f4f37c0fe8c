-------------------------- MODULE MCGuildAuthority --------------------------
(***************************************************************************)
(* Instances of GuildAuthority for TLC.                                    *)
(***************************************************************************)
EXTENDS GuildAuthority, TLC

\* Users are interchangeable: no definition names one.
UserSymmetry == Permutations(Users)
=============================================================================
