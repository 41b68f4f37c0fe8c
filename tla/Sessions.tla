------------------------------ MODULE Sessions ------------------------------
(***************************************************************************)
(* Sessions and two-factor authentication of one account:                  *)
(* src/crates/feditexter-server/src/auth.rs (the AuthUser and AuthUserLax  *)
(* extractors and the session binding) and api/auth_handlers.rs (login,    *)
(* login_2fa, two_fa_setup, two_fa_enable, logout, revoke_session).        *)
(*                                                                         *)
(* A session is bound to the device UUID and the IP it was created with.   *)
(* As in Guilds, a handler is a sequence of SQL statements without a       *)
(* transaction, and statements of different requests interleave.  Every    *)
(* statement here is restricted to one user, so one account is modelled.   *)
(* Requests with a wrong password change nothing and are left out.         *)
(***************************************************************************)
EXTENDS Naturals, FiniteSets

CONSTANTS
    Sids,       \* ids of session rows (AUTO_INCREMENT: never reused)
    Devices,    \* device UUIDs
    Ips,        \* client addresses
    Headers,    \* x-device-id headers the clients send: devices, None for no header
    Addresses,  \* addresses the server sees: addresses, None for an unknown one
    MaxSecret,  \* bound on the number of TOTP secrets generated
    Reqs,       \* requests handled at the same time
    Ops,        \* handlers the clients call
    Faults,     \* may a handler stop between two statements?
    None

Lax == {"two_fa_setup", "two_fa_enable", "logout"}  \* AuthUserLax: 2FA not required
Strict == {"use", "revoke_session"}                \* AuthUser; "use": any other handler
AllOps == {"login", "login_2fa"} \cup Lax \cup Strict

ASSUME ConstantsAssumption ==
    /\ None \notin Devices \cup Ips \cup Sids
    /\ Headers \subseteq Devices \cup {None}
    /\ Addresses \subseteq Ips \cup {None}
    /\ MaxSecret \in Nat
    /\ Ops \subseteq AllOps
    /\ Faults \in BOOLEAN

VARIABLES
    sess,       \* the rows of `sessions'
    secret,     \* users.totp_secret: the n-th generated secret, 0 for NULL
    enabled,    \* users.totp_enabled
    req,        \* the requests being handled
    (* history *)
    second,     \* sessions created as 2FA-pending
    proved,     \* sessions for which login_2fa was given a code of the secret in force
    verified,   \* secrets of which two_fa_enable was given a code
    served,     \* served[s]: the devices whose requests session s has authenticated
    stolen      \* sessions presented by another device than their own

history == <<second, proved, verified, served, stolen>>
vars == <<sess, secret, enabled, req, history>>

Status == {"unused", "pending", "full", "gone"}
Stages == {"idle", "user", "dropPending", "dropFull", "insertPending", "insertFull",
           "pending", "secret", "dropOthers", "promote", "session", "kill", "bindDevice",
           "bindIp", "load", "setup", "code", "enable", "target", "delete"}

Rows == [st : Status, device : Devices \cup {None}, ip : Ips \cup {None}, expired : BOOLEAN]
NoRow == [st |-> "unused", device |-> None, ip |-> None, expired |-> FALSE]

\* `row' is the session row as the request has read it.
Requests == [pc : Stages, op : AllOps \cup {None}, device : Devices \cup {None},
             ip : Ips \cup {None}, sid : Sids \cup {None}, target : Sids \cup {None},
             code : 0..MaxSecret, row : Rows]
Idle == [pc |-> "idle", op |-> None, device |-> None, ip |-> None, sid |-> None,
         target |-> None, code |-> 0, row |-> NoRow]

TypeOK ==
    /\ sess \in [Sids -> Rows]
    /\ secret \in 0..MaxSecret
    /\ enabled \in BOOLEAN
    /\ req \in [Reqs -> Requests]
    /\ second \subseteq Sids /\ proved \subseteq Sids /\ stolen \subseteq Sids
    /\ verified \subseteq 1..MaxSecret
    /\ served \in [Sids -> SUBSET Devices]

Init ==
    /\ sess = [s \in Sids |-> NoRow]
    /\ secret = 0 /\ enabled = FALSE
    /\ req = [r \in Reqs |-> Idle]
    /\ second = {} /\ proved = {} /\ verified = {} /\ stolen = {}
    /\ served = [s \in Sids |-> {}]

-----------------------------------------------------------------------------
Issued == {s \in Sids : sess[s].st # "unused"}
Exists(s) == sess[s].st \in {"pending", "full"}
At(r, stage) == req[r].pc = stage
Goto(r, stage) == req' = [req EXCEPT ![r].pc = stage]
Return(r) == req' = [req EXCEPT ![r] = Idle]

\* DELETE FROM sessions: the rows of S go.
Deleted(S) == [s \in Sids |-> IF s \in S /\ Exists(s) THEN [sess[s] EXCEPT !.st = "gone"] ELSE sess[s]]

FirstStage(op) == CASE op = "login" -> "user"
                    [] op = "login_2fa" -> "pending"
                    [] OTHER -> "session"

\* A client calls a handler: with a token it was given once, from some device
\* and address, with a code of some secret (0: a wrong code).
CallBy(r, ops, headers, addresses) ==
    /\ At(r, "idle")
    /\ \E op \in ops, d \in headers, i \in addresses :
       \E s \in IF op = "login" THEN {None} ELSE Issued,
          t \in IF op = "revoke_session" THEN Issued ELSE {None},
          c \in IF op \in {"login_2fa", "two_fa_enable"} THEN 0..secret ELSE {0} :
            req' = [req EXCEPT ![r] = [Idle EXCEPT !.pc = FirstStage(op), !.op = op, !.device = d,
                                                   !.ip = i, !.sid = s, !.target = t, !.code = c]]
    /\ UNCHANGED <<sess, secret, enabled, history>>

Call(r) == CallBy(r, Ops, Headers, Addresses)

-----------------------------------------------------------------------------
(* login: the user row, the old sessions of the device, the new session.    *)

SelectUser(r) ==
    /\ At(r, "user")
    /\ Goto(r, IF enabled
               THEN IF req[r].device = None THEN "insertPending" ELSE "dropPending"
               ELSE IF req[r].device = None THEN "insertFull" ELSE "dropFull")
    /\ UNCHANGED <<sess, secret, enabled, history>>

OfDevice(d, st) == {s \in Sids : sess[s].device = d /\ sess[s].st = st}

\* Faulty variant: is_2fa_pending compared with the wrong value.
DropPendingFull(r) ==
    /\ At(r, "dropPending")
    /\ sess' = Deleted(OfDevice(req[r].device, "full"))
    /\ Goto(r, "insertPending")
    /\ UNCHANGED <<secret, enabled, history>>
DropPending(r) ==
    /\ At(r, "dropPending")
    /\ sess' = Deleted(OfDevice(req[r].device, "pending"))
    /\ Goto(r, "insertPending")
    /\ UNCHANGED <<secret, enabled, history>>
DropFull(r) ==
    /\ At(r, "dropFull")
    /\ sess' = Deleted(OfDevice(req[r].device, "full"))
    /\ Goto(r, "insertFull")
    /\ UNCHANGED <<secret, enabled, history>>

\* Bound: when no id is left the INSERT fails.
InsertSession(r) ==
    /\ At(r, "insertPending") \/ At(r, "insertFull")
    /\ LET st == IF At(r, "insertFull") THEN "full" ELSE "pending" IN
       \/ \E s \in Sids \ Issued :
            /\ sess' = [sess EXCEPT ![s] = [st |-> st, device |-> req[r].device,
                                            ip |-> req[r].ip, expired |-> FALSE]]
            /\ second' = IF st = "pending" THEN second \cup {s} ELSE second
       \/ Issued = Sids /\ UNCHANGED <<sess, second>>
    /\ Return(r)
    /\ UNCHANGED <<secret, enabled, proved, verified, served, stolen>>

-----------------------------------------------------------------------------
(* login_2fa: the pending session, its device, the code; then the other     *)
(* sessions of the device go and the session is promoted.                   *)

WrongDevice(row, d) == row.device # None /\ row.device # d
Theft(r) == Goto(r, "kill") /\ stolen' = stolen \cup {req[r].sid}

\* The row is looked up by token and is_2fa_pending; expires_at is not compared.
SelectPending(r) ==
    /\ At(r, "pending")
    /\ LET row == sess[req[r].sid] IN
       IF row.st # "pending" THEN Return(r) /\ UNCHANGED stolen
       ELSE IF WrongDevice(row, req[r].device) THEN Theft(r)
       ELSE req' = [req EXCEPT ![r].row = row, ![r].pc = "secret"] /\ UNCHANGED stolen
    /\ UNCHANGED <<sess, secret, enabled, second, proved, verified, served>>

\* Faulty variant: any code is accepted.
CodeMatchesAny(q) == secret # 0

CodeMatches(q) == secret # 0 /\ q.code = secret

CheckSecret(r) ==
    /\ At(r, "secret")
    /\ IF CodeMatches(req[r])
       THEN Goto(r, IF req[r].row.device = None THEN "promote" ELSE "dropOthers")
       ELSE Return(r)
    /\ proved' = IF req[r].code \in {secret} \ {0} THEN proved \cup {req[r].sid} ELSE proved
    /\ UNCHANGED <<sess, secret, enabled, second, verified, served, stolen>>

DropOthers(r) ==
    /\ At(r, "dropOthers")
    /\ sess' = Deleted(OfDevice(req[r].row.device, "full") \ {req[r].sid})
    /\ Goto(r, "promote")
    /\ UNCHANGED <<secret, enabled, history>>

\* Faulty variant: the session is written back as it was read.
PromoteWritesBack(r) ==
    /\ At(r, "promote")
    /\ sess' = [sess EXCEPT ![req[r].sid] = [req[r].row EXCEPT !.st = "full", !.expired = FALSE]]
    /\ Return(r)
    /\ UNCHANGED <<secret, enabled, history>>

\* UPDATE ... WHERE id = ?: changes nothing when the row has gone.
Promote(r) ==
    /\ At(r, "promote")
    /\ LET s == req[r].sid IN
       sess' = IF Exists(s) THEN [sess EXCEPT ![s].st = "full", ![s].expired = FALSE] ELSE sess
    /\ Return(r)
    /\ UNCHANGED <<secret, enabled, history>>

-----------------------------------------------------------------------------
(* load_auth_user, at the head of every authenticated handler.              *)

\* enforce_session_binding, the part after the device: the address.
IpStage(row, ip) ==
    IF ip = None THEN "load"
    ELSE IF row.ip = None THEN "bindIp"
    ELSE IF row.ip = ip THEN "load"
    ELSE "idle"

\* The session row: it exists, has not expired, is not pending; then the device.
AfterSession(row, d, ip) ==
    IF row.st # "full" \/ row.expired THEN "idle"
    ELSE IF WrongDevice(row, d) THEN "kill"
    ELSE IF row.device # None THEN IpStage(row, ip)
    ELSE IF d = None THEN "idle"
    ELSE "bindDevice"

SelectSession(r) ==
    /\ At(r, "session")
    /\ LET row == sess[req[r].sid]
           next == AfterSession(row, req[r].device, req[r].ip)
       IN CASE next = "idle" -> Return(r) /\ UNCHANGED stolen
            [] next = "kill" -> Theft(r)
            [] OTHER -> req' = [req EXCEPT ![r].row = row, ![r].pc = next] /\ UNCHANGED stolen
    /\ UNCHANGED <<sess, secret, enabled, second, proved, verified, served>>

\* Faulty variant: the call is refused, the session kept.
KillRefusesOnly(r) ==
    /\ At(r, "kill")
    /\ Return(r)
    /\ UNCHANGED <<sess, secret, enabled, history>>

\* "A device mismatch is treated as theft": the session is deleted, the call
\* refused.  When the DELETE fails the call is refused all the same: Abandon.
Kill(r) ==
    /\ At(r, "kill")
    /\ sess' = Deleted({req[r].sid})
    /\ Return(r)
    /\ UNCHANGED <<secret, enabled, history>>

\* Faulty variant: the device is not written.
BindDeviceForgets(r) ==
    /\ At(r, "bindDevice")
    /\ LET next == IpStage(req[r].row, req[r].ip) IN
       IF next = "idle" THEN Return(r) ELSE Goto(r, next)
    /\ UNCHANGED <<sess, secret, enabled, history>>

\* A session without a device or an address gets those of its first user.  The
\* UPDATE does not look whether the column is still NULL.
BindDevice(r) ==
    /\ At(r, "bindDevice")
    /\ sess' = IF Exists(req[r].sid) THEN [sess EXCEPT ![req[r].sid].device = req[r].device] ELSE sess
    /\ LET next == IpStage(req[r].row, req[r].ip) IN
       IF next = "idle" THEN Return(r) ELSE Goto(r, next)
    /\ UNCHANGED <<secret, enabled, history>>
BindIp(r) ==
    /\ At(r, "bindIp")
    /\ sess' = IF Exists(req[r].sid) THEN [sess EXCEPT ![req[r].sid].ip = req[r].ip] ELSE sess
    /\ Goto(r, "load")
    /\ UNCHANGED <<secret, enabled, history>>

FirstOwnStage(op) ==
    CASE op = "two_fa_setup" -> "setup"
      [] op = "two_fa_enable" -> "code"
      [] op = "logout" -> "delete"
      [] op = "revoke_session" -> "target"
      [] OTHER -> "idle"

\* The user row; AuthUser answers TwoFaSetupRequired while 2FA is not enabled.
LoadUser(r) ==
    /\ At(r, "load")
    /\ IF req[r].op \in Strict /\ ~enabled
       THEN Return(r) /\ UNCHANGED served
       ELSE /\ served' = [served EXCEPT ![req[r].sid] = @ \cup ({req[r].device} \ {None})]
            /\ LET next == FirstOwnStage(req[r].op) IN
               IF next = "idle" THEN Return(r) ELSE Goto(r, next)
    /\ UNCHANGED <<sess, secret, enabled, second, proved, verified, stolen>>

-----------------------------------------------------------------------------
(* The handlers behind the extractors.                                      *)

\* Faulty variant: totp_enabled is not reset.
TwoFaSetupStaysEnabled(r) ==
    /\ At(r, "setup")
    /\ secret' = IF secret < MaxSecret THEN secret + 1 ELSE secret
    /\ Return(r)
    /\ UNCHANGED <<sess, enabled, history>>

\* Bound: MaxSecret secrets.
TwoFaSetup(r) ==
    /\ At(r, "setup")
    /\ IF secret < MaxSecret THEN secret' = secret + 1 /\ enabled' = FALSE
                             ELSE UNCHANGED <<secret, enabled>>
    /\ Return(r)
    /\ UNCHANGED <<sess, history>>

CheckEnableCode(r) ==
    /\ At(r, "code")
    /\ IF CodeMatches(req[r]) THEN Goto(r, "enable") ELSE Return(r)
    /\ verified' = verified \cup ({req[r].code} \ {0})
    /\ UNCHANGED <<sess, secret, enabled, second, proved, served, stolen>>

Enable(r) ==
    /\ At(r, "enable")
    /\ enabled' = TRUE
    /\ Return(r)
    /\ UNCHANGED <<sess, secret, history>>

\* revoke_session: not the current session, and one of the caller's.
SelectTarget(r) ==
    /\ At(r, "target")
    /\ IF req[r].target # req[r].sid /\ Exists(req[r].target) THEN Goto(r, "delete") ELSE Return(r)
    /\ UNCHANGED <<sess, secret, enabled, history>>

DeleteSession(r) ==
    /\ At(r, "delete")
    /\ sess' = Deleted({IF req[r].op = "logout" THEN req[r].sid ELSE req[r].target})
    /\ Return(r)
    /\ UNCHANGED <<secret, enabled, history>>

\* expires_at passes: 10 minutes for a pending session, days for a full one.
Expire(s) ==
    /\ Exists(s) /\ ~sess[s].expired
    /\ sess' = [sess EXCEPT ![s].expired = TRUE]
    /\ UNCHANGED <<secret, enabled, req, history>>

\* A statement fails or the client goes away: the handler stops where it is.
Abandon(r) ==
    /\ Faults
    /\ ~At(r, "idle")
    /\ Return(r)
    /\ UNCHANGED <<sess, secret, enabled, history>>

LoginStep(r) == SelectUser(r) \/ DropPending(r) \/ DropFull(r) \/ InsertSession(r)
Login2faStep(r) == SelectPending(r) \/ CheckSecret(r) \/ DropOthers(r) \/ Promote(r)
AuthStep(r) == SelectSession(r) \/ Kill(r) \/ BindDevice(r) \/ BindIp(r) \/ LoadUser(r)
HandlerStep(r) ==
    TwoFaSetup(r) \/ CheckEnableCode(r) \/ Enable(r) \/ SelectTarget(r) \/ DeleteSession(r)

Next ==
    \/ \E r \in Reqs : \/ Call(r) \/ LoginStep(r) \/ Login2faStep(r) \/ AuthStep(r)
                       \/ HandlerStep(r) \/ Abandon(r)
    \/ \E s \in Sids : Expire(s)

Spec == Init /\ [][Next]_vars

-----------------------------------------------------------------------------
(* Properties.                                                              *)

Quiet == \A r \in Reqs : At(r, "idle")

\* login with 2FA enabled gives a session that no handler accepts until login_2fa
\* has checked a code for that very session, whatever else happens to it.
SecondFactorProved == \A s \in second : sess[s].st = "full" => s \in proved

\* two_fa_enable: "Enable 2FA after verifying the current code against the stored
\* secret" (auth_handlers.rs:337): the secret in force has been checked.
EnabledSecretVerified == enabled => secret \in verified

\* create_session: "Reuse a single session per device" (auth_handlers.rs:700),
\* login_2fa: "one session per device" (:265), and create_pending_session: "a fresh
\* login attempt invalidates any earlier in-progress 2FA exchange on the same device".
OneOfAKindPerDevice ==
    Quiet => \A d \in Devices, st \in {"full", "pending"} : Cardinality(OfDevice(d, st)) <= 1

\* enforce_session_binding: a session authenticates requests of one device only
\* ("Legacy sessions are bound on first use", auth.rs:197).
OneDevicePerSession == \A s \in Sids : Cardinality(served[s]) <= 1

\* "A device mismatch is treated as theft: the session is revoked outright"
\* (auth.rs:196): no session outlives a call from a foreign device, unless the
\* statement that deletes it fails.
StolenSessionsRevoked == Quiet => \A s \in stolen : ~Exists(s)

\* A session that has been deleted, by logout, by revoke_session, by a relogin or
\* as stolen, never comes back, even when a handler that read it is still running.
DeletedStaysDeleted ==
    [][\A s \in Sids : sess[s].st = "gone" => sess'[s].st = "gone"]_vars

\* "invalid or expired pending token" (auth_handlers.rs:228): login_2fa does not
\* turn a pending session that has expired into a full one.
ExpiredPendingRejected ==
    [][\A s \in Sids : sess[s].st = "pending" /\ sess[s].expired => sess'[s].st # "full"]_vars
=============================================================================
