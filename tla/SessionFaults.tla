--------------------------- MODULE SessionFaults ---------------------------
(***************************************************************************)
(* Sessions with a history variable: the events that a handler without a   *)
(* transaction may not survive.  Each property below names those it does   *)
(* not; all the others may have happened.                                  *)
(***************************************************************************)
EXTENDS Sessions

\* "overlap": a call came while another request was being handled;
\* "torn": a handler was cut short; "bare": a call came without a device.
VARIABLE past

fvars == <<vars, past>>

Among(r) == \E q \in Reqs \ {r} : ~At(q, "idle")

\* What the call that request r has just taken adds to `past'.
Noted(r) == past' = past \cup (IF Among(r) THEN {"overlap"} ELSE {})
                         \cup (IF req'[r].device = None THEN {"bare"} ELSE {})

FInit == Init /\ past = {}

HandlerRuns(r) == LoginStep(r) \/ Login2faStep(r) \/ AuthStep(r) \/ HandlerStep(r)

FNext ==
    \/ \E r \in Reqs : Call(r) /\ Noted(r)
    \/ \E r \in Reqs : HandlerRuns(r) /\ UNCHANGED past
    \/ \E r \in Reqs : Abandon(r) /\ past' = past \cup {"torn"}
    \/ \E s \in Sids : Expire(s) /\ UNCHANGED past

FSpec == FInit /\ [][FNext]_fvars

Serially == "overlap" \notin past

\* two_fa_enable: "Enable 2FA after verifying the current code against the stored
\* secret" (auth_handlers.rs:337): as long as requests come one at a time, the secret
\* in force is a verified one, handlers cut short and repeated set-ups included.
EnabledSecretVerifiedSerially == Serially => EnabledSecretVerified

\* create_session: "Reuse a single session per device" (auth_handlers.rs:700): with
\* requests one at a time, from clients that send their device, a device has one full
\* session and one pending one at most, handlers cut short included.
OneOfAKindPerDeviceSerially == Serially /\ "bare" \notin past => OneOfAKindPerDevice

\* "Legacy sessions are bound on first use" (auth.rs:197): with requests one at a time
\* a session authenticates one device, also when it was created without one.
OneDevicePerSessionSerially == Serially => OneDevicePerSession

\* "A device mismatch is treated as theft: the session is revoked outright"
\* (auth.rs:196): whatever runs at the same time, as long as the DELETE succeeds.
StolenSessionsRevokedUnlessTorn == "torn" \notin past => StolenSessionsRevoked
=============================================================================
