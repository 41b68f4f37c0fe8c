----------------------------- MODULE MCSessions -----------------------------
(***************************************************************************)
(* SessionFaults for TLC, in three scenarios that share one run and bound  *)
(* what is called:                                                         *)
(*   "serial"      one request at a time, none cut short, by clients that  *)
(*                 send their device, every session id and two secrets;    *)
(*   "concurrent"  the same, two requests at a time, two sessions and one  *)
(*                 secret;                                                 *)
(*   "legacy"      one request at a time, that may fail anywhere, by       *)
(*                 clients that may send no device and come from anywhere, *)
(*                 with two sessions and one secret.                       *)
(***************************************************************************)
EXTENDS SessionFaults, TLC

VARIABLE scenario

MCInit == FInit /\ scenario \in {"serial", "concurrent", "legacy"}

InFlight(op) == {r \in Reqs : req[r].op = op}
Alone == CHOOSE r \in Reqs : TRUE
Home == CHOOSE i \in Ips : TRUE

(* Which calls a scenario has room for. *)
Full == Cardinality(Issued) + Cardinality(InFlight("login")) >= 2
Rooted == secret # 0 \/ InFlight("two_fa_setup") # {}

MCOps == IF scenario = "serial" THEN Ops
         ELSE Ops \ ((IF Full THEN {"login"} ELSE {}) \cup (IF Rooted THEN {"two_fa_setup"} ELSE {}))

MCCall(r) ==
    /\ scenario # "concurrent" => r = Alone
    /\ IF scenario = "legacy" THEN CallBy(r, MCOps, Headers, Addresses)
                              ELSE CallBy(r, MCOps, Headers \ {None}, {Home})
    /\ Noted(r)
    /\ UNCHANGED scenario

MCNext ==
    \/ \E r \in Reqs : MCCall(r)
    \/ \E r \in Reqs : HandlerRuns(r) /\ UNCHANGED <<past, scenario>>
    \/ \E r \in Reqs : /\ scenario = "legacy"
                       /\ Abandon(r) /\ past' = past \cup {"torn"}
                       /\ UNCHANGED scenario
    \/ \E s \in Sids : Expire(s) /\ UNCHANGED <<past, scenario>>

MCSpec == MCInit /\ [][MCNext]_<<fvars, scenario>>

\* Session ids and devices are interchangeable: no definition names one.
SidDeviceSymmetry == Permutations(Sids) \cup Permutations(Devices)
=============================================================================
