--------------------------- MODULE SessionsProofs ---------------------------
(***************************************************************************)
(* Theorems about Sessions, for any number of sessions, devices, addresses *)
(* and concurrent requests, failures included.                             *)
(***************************************************************************)
EXTENDS SessionFaults, FiniteSetTheorems, TLAPS

\* Behind login every request has a session, and one that goes on to the promotion
\* has proved its second factor.
LoginStages == {"idle", "user", "dropPending", "dropFull", "insertPending", "insertFull"}
WellFormed(q, P) == /\ q.pc \notin LoginStages => q.sid \in Sids
                    /\ q.pc \in {"dropOthers", "promote"} => q.sid \in P
RequestsOK == req \in [Reqs -> Requests] /\ \A r \in Reqs : WellFormed(req[r], proved)

\* Ids are never reused: a session created as pending is an issued one.
PendingIssued == \A s \in second : s \in Sids /\ sess[s].st # "unused"

Safe == TypeOK /\ RequestsOK /\ PendingIssued /\ SecondFactorProved

\* How a statement changes the request that runs it.
LEMMA RequestStep ==
    ASSUME RequestsOK, proved \subseteq proved', NEW r \in Reqs, NEW q \in Requests, WellFormed(q, proved'),
           req' = [req EXCEPT ![r] = q]
    PROVE  RequestsOK'
  BY DEF RequestsOK, WellFormed

LEMMA ReturnStep ==
    ASSUME RequestsOK, proved \subseteq proved', NEW r \in Reqs, Return(r)
    PROVE  RequestsOK'
  <1>1. Idle \in Requests
    BY ConstantsAssumption DEF Idle, Requests, Stages, Rows, NoRow, Status
  <1>2. WellFormed(Idle, proved')
    BY DEF Idle, WellFormed, LoginStages
  <1> QED
    BY <1>1, <1>2, RequestStep DEF Return

LEMMA GotoStep ==
    ASSUME RequestsOK, proved \subseteq proved', NEW r \in Reqs, NEW stage \in Stages, Goto(r, stage),
           stage \notin LoginStages => req[r].pc \notin LoginStages,
           stage \in {"dropOthers", "promote"} => req[r].sid \in proved'
    PROVE  RequestsOK'
  <1> DEFINE q == [req[r] EXCEPT !.pc = stage]
  <1>1. req[r] \in Requests /\ WellFormed(req[r], proved)
    BY DEF RequestsOK
  <1>2. q \in Requests /\ q.pc = stage /\ q.sid = req[r].sid
    BY <1>1 DEF Requests
  <1> HIDE DEF q
  <1>3. WellFormed(q, proved')
    BY <1>1, <1>2 DEF WellFormed
  <1>4. req' = [req EXCEPT ![r] = q]
    BY DEF Goto, q
  <1> QED
    BY <1>2, <1>3, <1>4, RequestStep

LEMMA DeletedRows ==
    ASSUME sess \in [Sids -> Rows], NEW S
    PROVE  /\ Deleted(S) \in [Sids -> Rows]
           /\ \A s \in Sids : \/ Deleted(S)[s] = sess[s]
                              \/ Exists(s) /\ Deleted(S)[s].st = "gone"
  <1> DEFINE d(s) == IF s \in S /\ Exists(s) THEN [sess[s] EXCEPT !.st = "gone"] ELSE sess[s]
  <1>1. ASSUME NEW s \in Sids
        PROVE  d(s) \in Rows /\ (d(s) = sess[s] \/ (Exists(s) /\ d(s).st = "gone"))
    <2> DEFINE g == [sess[s] EXCEPT !.st = "gone"]
    <2>1. g \in Rows /\ g.st = "gone"
      BY DEF Rows, Status
    <2>2. CASE s \in S /\ Exists(s)
      <3>1. d(s) = g
        BY <2>2
      <3> HIDE DEF d, g
      <3> QED
        BY <2>1, <2>2, <3>1
    <2>3. CASE ~(s \in S /\ Exists(s))
      <3>1. d(s) = sess[s]
        BY <2>3
      <3> HIDE DEF d
      <3> QED
        BY <3>1
    <2> QED
      BY <2>2, <2>3
  <1>2. Deleted(S) = [s \in Sids |-> d(s)]
    BY DEF Deleted
  <1> HIDE DEF d
  <1> QED
    BY <1>1, <1>2

\* A step that creates no session and turns none into a full one.
LEMMA SafeKept ==
    ASSUME Safe, RequestsOK', TypeOK', second' = second, proved \subseteq proved',
           \A s \in Sids : /\ sess[s].st # "unused" => sess'[s].st # "unused"
                           /\ sess'[s].st = "full" => sess[s].st = "full"
    PROVE  Safe'
  BY DEF Safe, PendingIssued, SecondFactorProved

LEMMA DeleteSafe ==
    ASSUME Safe, NEW S, sess' = Deleted(S), RequestsOK', UNCHANGED <<secret, enabled, history>>
    PROVE  Safe'
  <1>1. sess \in [Sids -> Rows]
    BY DEF Safe, TypeOK
  <1>2. /\ sess' \in [Sids -> Rows]
        /\ \A s \in Sids : sess'[s] = sess[s] \/ (Exists(s) /\ sess'[s].st = "gone")
    BY <1>1, DeletedRows
  <1>3. TypeOK'
    BY <1>2 DEF Safe, TypeOK, RequestsOK, history
  <1> QED
    BY <1>2, <1>3, SafeKept DEF Exists, history

\* A SELECT: only the request changes, and the history of what it has seen.
LEMMA SelectSafe ==
    ASSUME Safe, RequestsOK', UNCHANGED <<sess, secret, enabled, second>>,
           proved \subseteq proved', proved' \subseteq Sids,
           verified' \subseteq 1..MaxSecret, stolen' \subseteq Sids,
           served' \in [Sids -> SUBSET Devices]
    PROVE  Safe'
  <1>1. TypeOK'
    BY DEF Safe, TypeOK, RequestsOK
  <1> QED
    BY <1>1, SafeKept DEF Safe, TypeOK

LEMMA QuietSafe ==
    ASSUME Safe, RequestsOK', UNCHANGED <<sess, secret, enabled, history>>
    PROVE  Safe'
  <1>1. UNCHANGED <<second, proved, verified, served, stolen>>
    BY DEF history
  <1> QED
    BY <1>1, SelectSafe DEF Safe, TypeOK

-----------------------------------------------------------------------------
(* login                                                                    *)

\* Stages of a request and its arguments.
LEMMA FirstStages == \A op : FirstStage(op) \in {"user", "pending", "session"}
  BY DEF FirstStage

LEMMA CallSafe == ASSUME Safe, NEW r \in Reqs, Call(r) PROVE Safe'
  <1>1. PICK op \in Ops, d \in Headers, i \in Addresses :
           \E s \in IF op = "login" THEN {None} ELSE Issued,
              t \in IF op = "revoke_session" THEN Issued ELSE {None},
              c \in IF op \in {"login_2fa", "two_fa_enable"} THEN 0..secret ELSE {0} :
                 req' = [req EXCEPT ![r] = [Idle EXCEPT !.pc = FirstStage(op), !.op = op, !.device = d,
                                                        !.ip = i, !.sid = s, !.target = t, !.code = c]]
    BY DEF Call, CallBy
  <1>2. PICK s \in IF op = "login" THEN {None} ELSE Issued,
             t \in IF op = "revoke_session" THEN Issued ELSE {None},
             c \in IF op \in {"login_2fa", "two_fa_enable"} THEN 0..secret ELSE {0} :
                 req' = [req EXCEPT ![r] = [Idle EXCEPT !.pc = FirstStage(op), !.op = op, !.device = d,
                                                        !.ip = i, !.sid = s, !.target = t, !.code = c]]
    BY <1>1
  <1> DEFINE q == [Idle EXCEPT !.pc = FirstStage(op), !.op = op, !.device = d,
                               !.ip = i, !.sid = s, !.target = t, !.code = c]
  <1>3. /\ op \in AllOps /\ d \in Devices \cup {None} /\ i \in Ips \cup {None}
        /\ s \in Sids \cup {None} /\ t \in Sids \cup {None} /\ c \in 0..MaxSecret
        /\ op # "login" => s \in Sids
    BY ConstantsAssumption DEF Issued, Safe, TypeOK
  <1>4. q \in Requests
    BY <1>3, FirstStages DEF Idle, Requests, Stages, Rows, NoRow, Status
  <1>5. q.pc = FirstStage(op) /\ q.sid = s
    BY DEF Idle
  <1>6. FirstStage(op) = "user" <=> op = "login"
    BY DEF FirstStage
  <1>7. WellFormed(q, proved)
    BY <1>3, <1>5, <1>6, FirstStages DEF WellFormed, LoginStages
  <1>8. proved' = proved /\ req' = [req EXCEPT ![r] = q]
    BY <1>2 DEF Call, CallBy, history
  <1> HIDE DEF q
  <1>9. RequestsOK'
    BY <1>4, <1>7, <1>8, RequestStep DEF Safe
  <1> QED
    BY <1>9, QuietSafe DEF Call, CallBy

\* The common case: a statement that changes the stage of its request only, among
\* those of login or behind it.
LEMMA StageSafe ==
    ASSUME Safe, NEW r \in Reqs, NEW stage \in Stages \ {"dropOthers", "promote"}, Goto(r, stage),
           stage \notin LoginStages => req[r].pc \notin LoginStages,
           proved \subseteq proved'
    PROVE  RequestsOK'
  BY GotoStep DEF Safe

LEMMA SelectUserSafe == ASSUME Safe, NEW r \in Reqs, SelectUser(r) PROVE Safe'
  <1>1. PICK stage \in {"insertPending", "dropPending", "insertFull", "dropFull"} : Goto(r, stage)
    BY DEF SelectUser
  <1>2. RequestsOK'
    BY <1>1, StageSafe DEF SelectUser, Stages, LoginStages, history
  <1> QED
    BY <1>2, QuietSafe DEF SelectUser

LEMMA DropPendingSafe == ASSUME Safe, NEW r \in Reqs, DropPending(r) PROVE Safe'
  <1>1. RequestsOK'
    BY StageSafe DEF DropPending, Stages, LoginStages, history
  <1> QED
    BY <1>1, DeleteSafe DEF DropPending

LEMMA DropFullSafe == ASSUME Safe, NEW r \in Reqs, DropFull(r) PROVE Safe'
  <1>1. RequestsOK'
    BY StageSafe DEF DropFull, Stages, LoginStages, history
  <1> QED
    BY <1>1, DeleteSafe DEF DropFull

LEMMA InsertSessionSafe == ASSUME Safe, NEW r \in Reqs, InsertSession(r) PROVE Safe'
  <1> DEFINE st == IF At(r, "insertFull") THEN "full" ELSE "pending"
  <1>1. RequestsOK'
    BY ReturnStep DEF InsertSession, Safe
  <1>2. CASE UNCHANGED <<sess, second>>
    <2>1. UNCHANGED <<sess, secret, enabled, history>>
      BY <1>2 DEF InsertSession, history
    <2> QED
      BY <1>1, <2>1, QuietSafe
  <1>3. CASE \E s \in Sids \ Issued :
               /\ sess' = [sess EXCEPT ![s] = [st |-> st, device |-> req[r].device,
                                               ip |-> req[r].ip, expired |-> FALSE]]
               /\ second' = IF st = "pending" THEN second \cup {s} ELSE second
    <2>1. PICK s \in Sids \ Issued :
               /\ sess' = [sess EXCEPT ![s] = [st |-> st, device |-> req[r].device,
                                               ip |-> req[r].ip, expired |-> FALSE]]
               /\ second' = IF st = "pending" THEN second \cup {s} ELSE second
      BY <1>3
    <2> DEFINE row == [st |-> st, device |-> req[r].device, ip |-> req[r].ip, expired |-> FALSE]
    <2>2. row \in Rows /\ row.st = st /\ st \in {"full", "pending"}
      BY DEF Rows, Status, Safe, RequestsOK, Requests
    <2>3. sess \in [Sids -> Rows] /\ s \notin second /\ second \subseteq Sids
      BY DEF Safe, TypeOK, PendingIssued, Issued
    <2> HIDE DEF row
    <2>4. sess' \in [Sids -> Rows] /\ sess'[s].st = st /\ \A x \in Sids \ {s} : sess'[x] = sess[x]
      BY <2>1, <2>2, <2>3 DEF row
    <2>5. second' \subseteq Sids /\ UNCHANGED <<secret, enabled, proved, verified, served, stolen>>
      BY <2>1, <2>3 DEF InsertSession
    <2>6. TypeOK'
      BY <1>1, <2>4, <2>5 DEF Safe, TypeOK, RequestsOK
    <2>7. PendingIssued'
      BY <2>1, <2>2, <2>4 DEF Safe, PendingIssued
    <2>8. SecondFactorProved'
      BY <2>1, <2>3, <2>4, <2>5 DEF Safe, SecondFactorProved, PendingIssued
    <2> QED
      BY <1>1, <2>6, <2>7, <2>8 DEF Safe
  <1> QED
    BY <1>2, <1>3 DEF InsertSession

-----------------------------------------------------------------------------
(* login_2fa and load_auth_user                                             *)

\* A request reads the row of its session and goes on.
LEMMA RowStep ==
    ASSUME Safe, NEW r \in Reqs, req[r].pc \notin LoginStages, proved' = proved,
           NEW stage \in Stages \ {"dropOthers", "promote"},
           req' = [req EXCEPT ![r].row = sess[req[r].sid], ![r].pc = stage]
    PROVE  RequestsOK'
  <1> DEFINE q == [req[r] EXCEPT !.row = sess[req[r].sid], !.pc = stage]
  <1>1. req[r] \in Requests /\ req[r].sid \in Sids
    BY DEF Safe, RequestsOK, WellFormed
  <1>2. sess[req[r].sid] \in Rows
    BY <1>1 DEF Safe, TypeOK
  <1>3. q \in Requests /\ q.pc = stage /\ q.sid = req[r].sid
    BY <1>1, <1>2 DEF Requests
  <1>4. req' = [req EXCEPT ![r] = q]
    OBVIOUS
  <1> HIDE DEF q
  <1>5. WellFormed(q, proved')
    BY <1>1, <1>3 DEF WellFormed
  <1> QED
    BY <1>3, <1>4, <1>5, RequestStep DEF Safe

\* A session presented by a foreign device: only `stolen' and the stage change.
LEMMA TheftSafe ==
    ASSUME Safe, NEW r \in Reqs, req[r].pc \notin LoginStages, Theft(r),
           UNCHANGED <<sess, secret, enabled, second, proved, verified, served>>
    PROVE  Safe'
  <1>1. RequestsOK'
    BY StageSafe DEF Theft, Stages, LoginStages
  <1>2. req[r].sid \in Sids
    BY DEF Safe, RequestsOK, WellFormed
  <1>3. stolen' \subseteq Sids
    BY <1>2 DEF Theft, Safe, TypeOK
  <1> QED
    BY <1>1, <1>3, SelectSafe DEF Safe, TypeOK

LEMMA SelectPendingSafe == ASSUME Safe, NEW r \in Reqs, SelectPending(r) PROVE Safe'
  <1>1. req[r].pc \notin LoginStages
    BY DEF SelectPending, At, LoginStages
  <1>2. UNCHANGED <<sess, secret, enabled, second, proved, verified, served>>
    BY DEF SelectPending
  <1>3. CASE Theft(r)
    BY <1>1, <1>2, <1>3, TheftSafe
  <1>4. CASE UNCHANGED stolen
    <2>1. Return(r) \/ req' = [req EXCEPT ![r].row = sess[req[r].sid], ![r].pc = "secret"] \/ Theft(r)
      BY DEF SelectPending
    <2>2. CASE Return(r)
      <3>1. RequestsOK'
        BY <1>2, <2>2, ReturnStep DEF Safe
      <3> QED
        BY <1>2, <1>4, <3>1, QuietSafe DEF history
    <2>3. CASE req' = [req EXCEPT ![r].row = sess[req[r].sid], ![r].pc = "secret"]
      <3>1. RequestsOK'
        BY <1>1, <1>2, <2>3, RowStep DEF Stages
      <3> QED
        BY <1>2, <1>4, <3>1, QuietSafe DEF history
    <2> QED
      BY <1>3, <2>1, <2>2, <2>3
  <1> QED
    BY <1>3, <1>4 DEF SelectPending

LEMMA CheckSecretSafe == ASSUME Safe, NEW r \in Reqs, CheckSecret(r) PROVE Safe'
  <1>1. req[r].pc \notin LoginStages
    BY DEF CheckSecret, At, LoginStages
  <1>2. req[r].sid \in Sids
    BY <1>1 DEF Safe, RequestsOK, WellFormed
  <1>3. /\ UNCHANGED <<sess, secret, enabled, second, verified, served, stolen>>
        /\ proved' = IF req[r].code \in {secret} \ {0} THEN proved \cup {req[r].sid} ELSE proved
    BY DEF CheckSecret
  <1>4. proved \subseteq proved' /\ proved' \subseteq Sids
    BY <1>2, <1>3 DEF Safe, TypeOK
  <1>5. RequestsOK'
    <2>1. CASE CodeMatches(req[r])
      <3>1. PICK stage \in {"promote", "dropOthers"} : Goto(r, stage)
        BY <2>1 DEF CheckSecret
      <3>2. req[r].sid \in proved'
        BY <1>3, <2>1 DEF CodeMatches
      <3>3. RequestsOK
        BY DEF Safe
      <3> QED
        BY <1>1, <1>4, <3>1, <3>2, <3>3, GotoStep DEF Stages
    <2>2. CASE ~CodeMatches(req[r])
      BY <1>4, <2>2, ReturnStep DEF CheckSecret, Safe
    <2> QED
      BY <2>1, <2>2
  <1> QED
    BY <1>3, <1>4, <1>5, SelectSafe DEF Safe, TypeOK

LEMMA DropOthersSafe == ASSUME Safe, NEW r \in Reqs, DropOthers(r) PROVE Safe'
  <1>1. RequestsOK /\ req[r].sid \in proved
    BY DEF DropOthers, At, Safe, RequestsOK, WellFormed
  <1>2. RequestsOK'
    BY <1>1, GotoStep DEF DropOthers, At, Stages, LoginStages, history
  <1> QED
    BY <1>2, DeleteSafe DEF DropOthers

\* An UPDATE of a row that does not touch is_2fa_pending, or that promotes a proved session.
LEMMA UpdateSafe ==
    ASSUME Safe, RequestsOK', NEW s \in Sids, NEW row \in Rows,
           sess' = [sess EXCEPT ![s] = row], Exists(s),
           row.st = sess[s].st \/ (row.st = "full" /\ s \in proved),
           UNCHANGED <<secret, enabled, history>>
    PROVE  Safe'
  <1>1. /\ sess' \in [Sids -> Rows] /\ sess'[s] = row
        /\ \A x \in Sids \ {s} : sess'[x] = sess[x]
    BY DEF Safe, TypeOK
  <1>2. UNCHANGED <<second, proved, verified, served, stolen>>
    BY DEF history
  <1>3. TypeOK'
    BY <1>1, <1>2 DEF Safe, TypeOK, RequestsOK
  <1>4. PendingIssued'
    BY <1>1, <1>2 DEF Safe, PendingIssued, Exists
  <1>5. SecondFactorProved'
    BY <1>1, <1>2 DEF Safe, SecondFactorProved, PendingIssued
  <1> QED
    BY <1>3, <1>4, <1>5 DEF Safe

LEMMA PromoteSafe == ASSUME Safe, NEW r \in Reqs, Promote(r) PROVE Safe'
  <1> DEFINE s == req[r].sid
             row == [sess[s] EXCEPT !.st = "full", !.expired = FALSE]
  <1>1. s \in Sids /\ s \in proved
    BY DEF Promote, At, Safe, RequestsOK, WellFormed, LoginStages
  <1>2. RequestsOK'
    BY ReturnStep DEF Promote, Safe, history
  <1>3. CASE Exists(s)
    <2>1. sess[s] \in Rows
      BY <1>1 DEF Safe, TypeOK
    <2>2. row \in Rows /\ row.st = "full"
      BY <2>1 DEF Rows, Status
    <2>3. sess' = [sess EXCEPT ![s] = row]
      BY <1>3 DEF Promote
    <2> HIDE DEF row
    <2> QED
      BY <1>1, <1>2, <1>3, <2>2, <2>3, UpdateSafe DEF Promote
  <1>4. CASE ~Exists(s)
    BY <1>2, <1>4, QuietSafe DEF Promote
  <1> QED
    BY <1>3, <1>4

\* Where load_auth_user goes after the session row, and after the device.
LEMMA NextStages ==
    /\ \A row, ip : IpStage(row, ip) \in {"load", "bindIp", "idle"}
    /\ \A row, d, ip : AfterSession(row, d, ip) \in {"idle", "kill", "bindDevice", "bindIp", "load"}
  BY DEF IpStage, AfterSession

LEMMA SelectSessionSafe == ASSUME Safe, NEW r \in Reqs, SelectSession(r) PROVE Safe'
  <1> DEFINE next == AfterSession(sess[req[r].sid], req[r].device, req[r].ip)
  <1>1. req[r].pc \notin LoginStages
    BY DEF SelectSession, At, LoginStages
  <1>2. UNCHANGED <<sess, secret, enabled, second, proved, verified, served>>
    BY DEF SelectSession
  <1>3. CASE next = "idle"
    <2>1. Return(r) /\ UNCHANGED stolen
      BY <1>3 DEF SelectSession
    <2>2. RequestsOK'
      BY <1>2, <2>1, ReturnStep DEF Safe
    <2> QED
      BY <1>2, <2>1, <2>2, QuietSafe DEF history
  <1>4. CASE next = "kill"
    <2>1. Theft(r)
      BY <1>4 DEF SelectSession
    <2> QED
      BY <1>1, <1>2, <2>1, TheftSafe
  <1>5. CASE next \in {"bindDevice", "bindIp", "load"}
    <2>1. req' = [req EXCEPT ![r].row = sess[req[r].sid], ![r].pc = next] /\ UNCHANGED stolen
      BY <1>5 DEF SelectSession
    <2>2. RequestsOK'
      BY <1>1, <1>2, <1>5, <2>1, RowStep DEF Stages
    <2> QED
      BY <1>2, <2>1, <2>2, QuietSafe DEF history
  <1> QED
    BY <1>3, <1>4, <1>5, NextStages

LEMMA KillSafe == ASSUME Safe, NEW r \in Reqs, Kill(r) PROVE Safe'
  <1>1. RequestsOK'
    BY ReturnStep DEF Kill, Safe, history
  <1>2. CASE sess' = Deleted({req[r].sid})
    BY <1>1, <1>2, DeleteSafe DEF Kill
  <1>3. CASE UNCHANGED sess
    BY <1>1, <1>3, QuietSafe DEF Kill
  <1> QED
    BY <1>2, <1>3 DEF Kill

LEMMA BindDeviceSafe == ASSUME Safe, NEW r \in Reqs, BindDevice(r) PROVE Safe'
  <1> DEFINE s == req[r].sid
             row == [sess[s] EXCEPT !.device = req[r].device]
  <1>1. s \in Sids /\ req[r] \in Requests /\ req[r].pc \notin LoginStages
    BY DEF BindDevice, At, Safe, RequestsOK, WellFormed, LoginStages
  <1>2. RequestsOK'
    <2>1. CASE Return(r)
      BY <2>1, ReturnStep DEF BindDevice, Safe, history
    <2>2. CASE Goto(r, IpStage(req[r].row, req[r].ip))
      <3>1. IpStage(req[r].row, req[r].ip) \in Stages \ {"dropOthers", "promote"}
        BY NextStages DEF Stages
      <3> QED
        BY <1>1, <2>2, <3>1, StageSafe DEF BindDevice, history
    <2> QED
      BY <2>1, <2>2 DEF BindDevice
  <1>3. CASE Exists(s)
    <2>1. sess[s] \in Rows
      BY <1>1 DEF Safe, TypeOK
    <2>2. row \in Rows /\ row.st = sess[s].st
      BY <1>1, <2>1 DEF Rows, Requests
    <2>3. sess' = [sess EXCEPT ![s] = row]
      BY <1>3 DEF BindDevice
    <2> HIDE DEF row
    <2> QED
      BY <1>1, <1>2, <1>3, <2>2, <2>3, UpdateSafe DEF BindDevice
  <1>4. CASE ~Exists(s)
    BY <1>2, <1>4, QuietSafe DEF BindDevice
  <1> QED
    BY <1>3, <1>4

LEMMA BindIpSafe == ASSUME Safe, NEW r \in Reqs, BindIp(r) PROVE Safe'
  <1> DEFINE s == req[r].sid
             row == [sess[s] EXCEPT !.ip = req[r].ip]
  <1>1. s \in Sids /\ req[r] \in Requests /\ req[r].pc \notin LoginStages
    BY DEF BindIp, At, Safe, RequestsOK, WellFormed, LoginStages
  <1>2. RequestsOK'
    BY <1>1, StageSafe DEF BindIp, Stages, LoginStages, history
  <1>3. CASE Exists(s)
    <2>1. sess[s] \in Rows
      BY <1>1 DEF Safe, TypeOK
    <2>2. row \in Rows /\ row.st = sess[s].st
      BY <1>1, <2>1 DEF Rows, Requests
    <2>3. sess' = [sess EXCEPT ![s] = row]
      BY <1>3 DEF BindIp
    <2> HIDE DEF row
    <2> QED
      BY <1>1, <1>2, <1>3, <2>2, <2>3, UpdateSafe DEF BindIp
  <1>4. CASE ~Exists(s)
    BY <1>2, <1>4, QuietSafe DEF BindIp
  <1> QED
    BY <1>3, <1>4

LEMMA LoadUserSafe == ASSUME Safe, NEW r \in Reqs, LoadUser(r) PROVE Safe'
  <1>1. req[r].pc \notin LoginStages /\ req[r] \in Requests /\ req[r].sid \in Sids
    BY DEF LoadUser, At, Safe, RequestsOK, WellFormed, LoginStages
  <1>2. UNCHANGED <<sess, secret, enabled, second, proved, verified, stolen>>
    BY DEF LoadUser
  <1>3. RequestsOK'
    <2>1. CASE Return(r)
      BY <1>2, <2>1, ReturnStep DEF Safe
    <2>2. CASE Goto(r, FirstOwnStage(req[r].op))
      <3>1. FirstOwnStage(req[r].op) \in {"setup", "code", "delete", "target", "idle"}
        BY DEF FirstOwnStage
      <3> QED
        BY <1>1, <1>2, <2>2, <3>1, StageSafe DEF Stages
    <2> QED
      BY <2>1, <2>2 DEF LoadUser
  <1>4. served' \in [Sids -> SUBSET Devices]
    <2>1. req[r].device \in Devices \cup {None}
      BY <1>1 DEF Requests
    <2>2. \/ served' = served
          \/ served' = [served EXCEPT ![req[r].sid] = @ \cup ({req[r].device} \ {None})]
      BY DEF LoadUser
    <2> QED
      BY <2>1, <2>2 DEF Safe, TypeOK
  <1> QED
    BY <1>2, <1>3, <1>4, SelectSafe DEF Safe, TypeOK

-----------------------------------------------------------------------------
(* The handlers behind the extractors.                                      *)

LEMMA TwoFaSetupSafe == ASSUME Safe, NEW r \in Reqs, TwoFaSetup(r) PROVE Safe'
  <1>1. RequestsOK'
    BY ReturnStep DEF TwoFaSetup, Safe, history
  <1>2. secret' \in 0..MaxSecret /\ enabled' \in BOOLEAN
    <2>1. MaxSecret \in Nat /\ secret \in 0..MaxSecret /\ enabled \in BOOLEAN
      BY ConstantsAssumption DEF Safe, TypeOK
    <2>2. CASE secret < MaxSecret
      <3>1. secret' = secret + 1 /\ enabled' = FALSE
        BY <2>2 DEF TwoFaSetup
      <3>2. secret + 1 \in 0..MaxSecret
        BY <2>1, <2>2
      <3> QED
        BY <3>1, <3>2
    <2>3. CASE ~(secret < MaxSecret)
      <3>1. secret' = secret /\ enabled' = enabled
        BY <2>3 DEF TwoFaSetup
      <3> QED
        BY <2>1, <3>1
    <2> QED
      BY <2>2, <2>3
  <1>3. UNCHANGED <<sess, second, proved, verified, served, stolen>>
    BY DEF TwoFaSetup, history
  <1>4. TypeOK'
    BY <1>1, <1>2, <1>3 DEF Safe, TypeOK, RequestsOK
  <1> QED
    BY <1>1, <1>3, <1>4, SafeKept

LEMMA CheckEnableCodeSafe == ASSUME Safe, NEW r \in Reqs, CheckEnableCode(r) PROVE Safe'
  <1>1. req[r].pc \notin LoginStages /\ req[r] \in Requests
    BY DEF CheckEnableCode, At, Safe, RequestsOK, LoginStages
  <1>2. /\ UNCHANGED <<sess, secret, enabled, second, proved, served, stolen>>
        /\ verified' = verified \cup ({req[r].code} \ {0})
    BY DEF CheckEnableCode
  <1>3. RequestsOK'
    <2>1. CASE Return(r)
      BY <1>2, <2>1, ReturnStep DEF Safe
    <2>2. CASE Goto(r, "enable")
      BY <1>1, <1>2, <2>2, StageSafe DEF Stages
    <2> QED
      BY <2>1, <2>2 DEF CheckEnableCode
  <1>4. verified' \subseteq 1..MaxSecret
    <2>1. req[r].code \in 0..MaxSecret /\ verified \subseteq 1..MaxSecret /\ MaxSecret \in Nat
      BY <1>1, ConstantsAssumption DEF Safe, TypeOK, Requests
    <2> DEFINE code == req[r].code
    <2>2. code \in 0..MaxSecret /\ verified' = verified \cup ({code} \ {0})
      BY <1>2, <2>1
    <2> HIDE DEF code
    <2>3. code # 0 => code \in 1..MaxSecret
      BY <2>1, <2>2
    <2> QED
      BY <2>1, <2>2, <2>3
  <1> QED
    BY <1>2, <1>3, <1>4, SelectSafe DEF Safe, TypeOK

LEMMA EnableSafe == ASSUME Safe, NEW r \in Reqs, Enable(r) PROVE Safe'
  <1>1. RequestsOK'
    BY ReturnStep DEF Enable, Safe, history
  <1>2. enabled' = TRUE /\ UNCHANGED <<sess, secret, second, proved, verified, served, stolen>>
    BY DEF Enable, history
  <1>3. TypeOK'
    BY <1>1, <1>2 DEF Safe, TypeOK, RequestsOK
  <1> QED
    BY <1>1, <1>2, <1>3, SafeKept

LEMMA SelectTargetSafe == ASSUME Safe, NEW r \in Reqs, SelectTarget(r) PROVE Safe'
  <1>1. req[r].pc \notin LoginStages
    BY DEF SelectTarget, At, LoginStages
  <1>2. RequestsOK'
    <2>1. CASE Return(r)
      BY <2>1, ReturnStep DEF SelectTarget, Safe, history
    <2>2. CASE Goto(r, "delete")
      BY <1>1, <2>2, StageSafe DEF SelectTarget, Stages, history
    <2> QED
      BY <2>1, <2>2 DEF SelectTarget
  <1> QED
    BY <1>2, QuietSafe DEF SelectTarget

LEMMA DeleteSessionSafe == ASSUME Safe, NEW r \in Reqs, DeleteSession(r) PROVE Safe'
  <1>1. RequestsOK'
    BY ReturnStep DEF DeleteSession, Safe, history
  <1> QED
    BY <1>1, DeleteSafe DEF DeleteSession

LEMMA AbandonSafe == ASSUME Safe, NEW r \in Reqs, Abandon(r) PROVE Safe'
  <1>1. RequestsOK'
    BY ReturnStep DEF Abandon, Safe, history
  <1> QED
    BY <1>1, QuietSafe DEF Abandon

LEMMA ExpireSafe == ASSUME Safe, NEW s \in Sids, Expire(s) PROVE Safe'
  <1> DEFINE row == [sess[s] EXCEPT !.expired = TRUE]
  <1>1. sess[s] \in Rows /\ Exists(s)
    BY DEF Expire, Safe, TypeOK
  <1>2. row \in Rows /\ row.st = sess[s].st
    BY <1>1 DEF Rows
  <1>3. sess' = [sess EXCEPT ![s] = row]
    BY DEF Expire
  <1>4. RequestsOK'
    BY DEF Expire, history, Safe, RequestsOK, WellFormed
  <1> HIDE DEF row
  <1> QED
    BY <1>1, <1>2, <1>3, <1>4, UpdateSafe DEF Expire

-----------------------------------------------------------------------------
LEMMA InitSafe == ASSUME Init PROVE Safe
  <1>1. NoRow \in Rows /\ Idle \in Requests
    BY ConstantsAssumption DEF Idle, Requests, Stages, Rows, NoRow, Status
  <1>2. \A r \in Reqs : WellFormed(req[r], proved)
    BY DEF Init, WellFormed, Idle, LoginStages
  <1>3. second = {} /\ proved = {}
    BY DEF Init
  <1>4. TypeOK
    <2>1. 0 \in 0..MaxSecret
      BY ConstantsAssumption
    <2> QED
      BY <1>1, <2>1 DEF Init, TypeOK
  <1>5. RequestsOK
    BY <1>2, <1>4 DEF TypeOK, RequestsOK
  <1> QED
    BY <1>3, <1>4, <1>5 DEF Safe, PendingIssued, SecondFactorProved

LEMMA StepSafe == ASSUME Safe, [Next]_vars PROVE Safe'
  <1>1. CASE UNCHANGED vars
    <2>1. RequestsOK'
      BY <1>1 DEF vars, history, Safe, RequestsOK, WellFormed
    <2> QED
      BY <1>1, <2>1, QuietSafe DEF vars
  <1>2. ASSUME NEW r \in Reqs, LoginStep(r) PROVE Safe'
    BY <1>2, SelectUserSafe, DropPendingSafe, DropFullSafe, InsertSessionSafe DEF LoginStep
  <1>3. ASSUME NEW r \in Reqs, Login2faStep(r) PROVE Safe'
    BY <1>3, SelectPendingSafe, CheckSecretSafe, DropOthersSafe, PromoteSafe DEF Login2faStep
  <1>4. ASSUME NEW r \in Reqs, AuthStep(r) PROVE Safe'
    BY <1>4, SelectSessionSafe, KillSafe, BindDeviceSafe, BindIpSafe, LoadUserSafe DEF AuthStep
  <1>5. ASSUME NEW r \in Reqs, HandlerStep(r) PROVE Safe'
    BY <1>5, TwoFaSetupSafe, CheckEnableCodeSafe, EnableSafe, SelectTargetSafe, DeleteSessionSafe
       DEF HandlerStep
  <1> QED
    BY <1>1, <1>2, <1>3, <1>4, <1>5, CallSafe, AbandonSafe, ExpireSafe DEF Next

\* The tables and the requests keep their types.
THEOREM TypeCorrect == Spec => []TypeOK
  <1>1. Init => Safe
    BY InitSafe
  <1>2. Safe /\ [Next]_vars => Safe'
    BY StepSafe
  <1>3. Safe => TypeOK
    BY DEF Safe
  <1> QED
    BY <1>1, <1>2, <1>3, PTL DEF Spec

\* No interleaving of logins, codes, set-ups, deletions and failures gives a full
\* session that was created as pending and has not proved its second factor.
THEOREM SecondFactorHolds == Spec => []SecondFactorProved
  <1>1. Init => Safe
    BY InitSafe
  <1>2. Safe /\ [Next]_vars => Safe'
    BY StepSafe
  <1>3. Safe => SecondFactorProved
    BY DEF Safe
  <1> QED
    BY <1>1, <1>2, <1>3, PTL DEF Spec

-----------------------------------------------------------------------------
(* Deleted sessions stay deleted.                                           *)

\* A statement of a handler that read the session before it was deleted changes nothing.
LEMMA GoneStep ==
    ASSUME Safe, [Next]_vars, NEW s \in Sids, sess[s].st = "gone"
    PROVE  sess'[s].st = "gone"
  <1> DEFINE Kept == sess'[s] = sess[s]
  <1>1. sess \in [Sids -> Rows] /\ ~Exists(s) /\ s \in Issued
    BY DEF Safe, TypeOK, Exists, Issued
  <1>2. ASSUME NEW S, sess' = Deleted(S) PROVE Kept
    BY <1>1, <1>2 DEF Deleted
  <1>3. ASSUME NEW r \in Reqs, LoginStep(r) PROVE Kept
    <2>1. CASE InsertSession(r)
      BY <1>1, <2>1 DEF InsertSession
    <2> QED
      BY <1>2, <1>3, <2>1 DEF LoginStep, SelectUser, DropPending, DropFull
  <1>4. ASSUME NEW r \in Reqs, Login2faStep(r) PROVE Kept
    <2>1. CASE Promote(r)
      BY <1>1, <2>1 DEF Promote
    <2> QED
      BY <1>2, <1>4, <2>1 DEF Login2faStep, SelectPending, CheckSecret, DropOthers
  <1>5. ASSUME NEW r \in Reqs, AuthStep(r) PROVE Kept
    <2>1. CASE BindDevice(r) \/ BindIp(r)
      BY <1>1, <2>1 DEF BindDevice, BindIp
    <2> QED
      BY <1>2, <1>5, <2>1 DEF AuthStep, SelectSession, Kill, LoadUser
  <1>6. ASSUME NEW r \in Reqs, HandlerStep(r) PROVE Kept
    BY <1>2, <1>6 DEF HandlerStep, TwoFaSetup, CheckEnableCode, Enable, SelectTarget, DeleteSession
  <1>7. ASSUME NEW x \in Sids, Expire(x) PROVE Kept
    BY <1>1, <1>7 DEF Expire
  <1>8. CASE UNCHANGED vars
    BY <1>8 DEF vars
  <1>9. ASSUME NEW r \in Reqs, Call(r) \/ Abandon(r) PROVE Kept
    <2>1. UNCHANGED sess
      BY <1>9 DEF Call, CallBy, Abandon
    <2> QED
      BY <2>1
  <1>10. CASE Next
    <2>1. CASE \E x \in Sids : Expire(x)
      BY <1>7, <2>1
    <2>2. ASSUME NEW r \in Reqs,
                 Call(r) \/ LoginStep(r) \/ Login2faStep(r) \/ AuthStep(r) \/ HandlerStep(r) \/ Abandon(r)
          PROVE  Kept
      BY <1>3, <1>4, <1>5, <1>6, <1>9, <2>2
    <2> QED
      BY <1>10, <2>1, <2>2 DEF Next
  <1> QED
    BY <1>8, <1>10

\* A deleted session never comes back, whatever the handlers that run had read of it.
THEOREM DeletedForGood == Spec => DeletedStaysDeleted
  <1>1. Init => Safe
    BY InitSafe
  <1>2. Safe /\ [Next]_vars => Safe'
    BY StepSafe
  <1>3. Safe /\ [Next]_vars => [\A s \in Sids : sess[s].st = "gone" => sess'[s].st = "gone"]_vars
    BY GoneStep
  <1> QED
    BY <1>1, <1>2, <1>3, PTL DEF Spec, DeletedStaysDeleted

-----------------------------------------------------------------------------
(* What a statement does to the request that runs it, and to the rows.      *)

Kills(q) == q.pc = "kill"

\* The stages of the handlers, in order.
Edge(q, stage) ==
    \/ q.pc = "user" /\ stage \in (IF q.device = None THEN {"insertPending", "insertFull"}
                                                      ELSE {"dropPending", "dropFull"})
    \/ q.pc = "dropPending" /\ stage = "insertPending"
    \/ q.pc = "dropFull" /\ stage = "insertFull"
    \/ q.pc = "pending" /\ stage \in {"kill", "secret"}
    \/ q.pc = "secret" /\ stage = (IF q.row.device = None THEN "promote" ELSE "dropOthers")
    \/ q.pc = "dropOthers" /\ stage = "promote"
    \/ q.pc = "session" /\ stage \in {"kill", "bindDevice", "bindIp", "load"}
    \/ q.pc = "bindDevice" /\ stage \in {"bindIp", "load"}
    \/ q.pc = "bindIp" /\ stage = "load"
    \/ q.pc = "load" /\ stage \in {"setup", "code", "delete", "target"}
    \/ q.pc = "code" /\ stage = "enable" /\ CodeMatches(q)
    \/ q.pc = "target" /\ stage = "delete"

\* What load_auth_user has seen of a session row before it goes on.
Binds(row, d, stage) ==
    /\ row.st = "full"
    /\ stage = "bindDevice" => row.device = None /\ d # None
    /\ stage \in {"bindIp", "load"} => row.device = d

Reads(q) == q.pc \in {"pending", "session"}

\* A request that goes on keeps its arguments; a SELECT of the session stores the row.
GoesOn(q, p, row) ==
    /\ p.sid = q.sid /\ p.device = q.device /\ p.op = q.op
    /\ Edge(q, p.pc)
    /\ ~Reads(q) => p.row = q.row
    /\ Reads(q) /\ ~Kills(p) => p.row = row
    /\ q.pc = "session" /\ ~Kills(p) => Binds(row, q.device, p.pc)

Moves(r) ==
    /\ ~At(r, "idle")
    /\ \A x \in Reqs \ {r} : req'[x] = req[x]
    /\ req'[r] = Idle \/ GoesOn(req[r], req'[r], sess[req[r].sid])

LEMMA IdleFacts == Idle.pc = "idle" /\ Idle.device = None
  BY DEF Idle

LEMMA MovesTo ==
    ASSUME RequestsOK, NEW r \in Reqs, ~At(r, "idle"), NEW stage, Goto(r, stage),
           Edge(req[r], stage), ~Reads(req[r]) \/ stage = "kill"
    PROVE  Moves(r)
  <1> DEFINE q == [req[r] EXCEPT !.pc = stage]
  <1>1. req[r] \in Requests /\ req' = [req EXCEPT ![r] = q]
    BY DEF RequestsOK, Goto
  <1>2. /\ q.pc = stage /\ q.sid = req[r].sid /\ q.device = req[r].device /\ q.op = req[r].op
        /\ q.row = req[r].row
    BY <1>1 DEF Requests
  <1> HIDE DEF q
  <1>3. req'[r] = q /\ \A x \in Reqs \ {r} : req'[x] = req[x]
    BY <1>1 DEF RequestsOK
  <1>4. GoesOn(req[r], q, sess[req[r].sid])
    BY <1>2 DEF GoesOn, Kills, Reads
  <1> QED
    BY <1>3, <1>4 DEF Moves

LEMMA MovesReading ==
    ASSUME RequestsOK, NEW r \in Reqs, Reads(req[r]), NEW stage,
           req' = [req EXCEPT ![r].row = sess[req[r].sid], ![r].pc = stage],
           Edge(req[r], stage), At(r, "session") => Binds(sess[req[r].sid], req[r].device, stage)
    PROVE  Moves(r)
  <1> DEFINE q == [req[r] EXCEPT !.row = sess[req[r].sid], !.pc = stage]
  <1>1. req[r] \in Requests /\ req' = [req EXCEPT ![r] = q]
    BY DEF RequestsOK
  <1>2. /\ q.pc = stage /\ q.sid = req[r].sid /\ q.device = req[r].device /\ q.op = req[r].op
        /\ q.row = sess[req[r].sid]
    BY <1>1 DEF Requests
  <1> HIDE DEF q
  <1>3. req'[r] = q /\ \A x \in Reqs \ {r} : req'[x] = req[x]
    BY <1>1 DEF RequestsOK
  <1>4. GoesOn(req[r], q, sess[req[r].sid])
    BY <1>2 DEF GoesOn, Kills, Reads, At
  <1> QED
    BY <1>3, <1>4 DEF Moves, At, Reads

LEMMA MovesHome ==
    ASSUME RequestsOK, NEW r \in Reqs, ~At(r, "idle"), Return(r)
    PROVE  Moves(r)
  BY DEF RequestsOK, Return, Moves

\* The device and the address of a session row, as enforce_session_binding compares them.
LEMMA BindingStages ==
    ASSUME NEW row, NEW d, NEW ip, AfterSession(row, d, ip) \notin {"idle", "kill"}
    PROVE  Binds(row, d, AfterSession(row, d, ip))
  <1>1. IpStage(row, ip) \in {"load", "bindIp", "idle"}
    BY NextStages
  <1>2. row.st = "full" /\ ~row.expired /\ ~WrongDevice(row, d)
    BY DEF AfterSession
  <1>3. CASE row.device = None /\ d # None
    <2>1. AfterSession(row, d, ip) = "bindDevice"
      BY <1>2, <1>3 DEF AfterSession
    <2> QED
      BY <1>2, <1>3, <2>1 DEF Binds
  <1>4. CASE row.device # None
    <2>1. AfterSession(row, d, ip) = IpStage(row, ip)
      BY <1>2, <1>4 DEF AfterSession
    <2>2. row.device = d
      BY <1>2, <1>4 DEF WrongDevice
    <2> QED
      BY <1>1, <1>2, <2>1, <2>2 DEF Binds
  <1>5. CASE row.device = None /\ d = None
    BY <1>2, <1>5 DEF AfterSession
  <1> QED
    BY <1>3, <1>4, <1>5

LEMMA LoginMoves == ASSUME RequestsOK, NEW r \in Reqs, LoginStep(r) PROVE Moves(r)
  <1>1. CASE SelectUser(r)
    <2>1. PICK stage \in (IF req[r].device = None THEN {"insertPending", "insertFull"}
                                                ELSE {"dropPending", "dropFull"}) : Goto(r, stage)
      BY <1>1 DEF SelectUser
    <2>2. At(r, "user")
      BY <1>1 DEF SelectUser
    <2>3. Edge(req[r], stage) /\ ~At(r, "idle") /\ ~Reads(req[r])
      BY <2>1, <2>2 DEF Edge, At, Reads
    <2> QED
      BY <2>1, <2>3, MovesTo
  <1>2. CASE DropPending(r)
    BY <1>2, MovesTo DEF DropPending, Edge, At, Reads
  <1>3. CASE DropFull(r)
    BY <1>3, MovesTo DEF DropFull, Edge, At, Reads
  <1>4. CASE InsertSession(r)
    BY <1>4, MovesHome DEF InsertSession, At
  <1> QED
    BY <1>1, <1>2, <1>3, <1>4 DEF LoginStep

LEMMA Login2faMoves == ASSUME RequestsOK, NEW r \in Reqs, Login2faStep(r) PROVE Moves(r)
  <1>1. CASE SelectPending(r)
    <2>1. At(r, "pending")
      BY <1>1 DEF SelectPending
    <2>2. Reads(req[r]) /\ ~At(r, "idle") /\ ~At(r, "session")
      BY <2>1 DEF At, Reads
    <2>3. Edge(req[r], "kill") /\ Edge(req[r], "secret")
      BY <2>1 DEF At, Edge
    <2>4. \/ Return(r)
          \/ Goto(r, "kill")
          \/ req' = [req EXCEPT ![r].row = sess[req[r].sid], ![r].pc = "secret"]
      BY <1>1 DEF SelectPending, Theft
    <2> QED
      BY <2>2, <2>3, <2>4, MovesTo, MovesReading, MovesHome
  <1>2. CASE CheckSecret(r)
    <2>1. At(r, "secret")
      BY <1>2 DEF CheckSecret
    <2>2. Return(r) \/ Goto(r, IF req[r].row.device = None THEN "promote" ELSE "dropOthers")
      BY <1>2 DEF CheckSecret
    <2>3. /\ Edge(req[r], IF req[r].row.device = None THEN "promote" ELSE "dropOthers")
          /\ ~At(r, "idle") /\ ~Reads(req[r])
      BY <2>1 DEF Edge, At, Reads
    <2> QED
      BY <2>2, <2>3, MovesTo, MovesHome
  <1>3. CASE DropOthers(r)
    BY <1>3, MovesTo DEF DropOthers, Edge, At, Reads
  <1>4. CASE Promote(r)
    BY <1>4, MovesHome DEF Promote, At
  <1> QED
    BY <1>1, <1>2, <1>3, <1>4 DEF Login2faStep

LEMMA AuthMoves == ASSUME RequestsOK, NEW r \in Reqs, AuthStep(r) PROVE Moves(r)
  <1>1. CASE SelectSession(r)
    <2> DEFINE row == sess[req[r].sid]
               next == AfterSession(row, req[r].device, req[r].ip)
    <2>1. At(r, "session") /\ Reads(req[r]) /\ ~At(r, "idle")
      BY <1>1 DEF SelectSession, At, Reads
    <2>2. next \in {"idle", "kill", "bindDevice", "bindIp", "load"}
      BY NextStages
    <2>3. \/ next = "idle" /\ Return(r)
          \/ next = "kill" /\ Goto(r, "kill")
          \/ next \notin {"idle", "kill"} /\ req' = [req EXCEPT ![r].row = row, ![r].pc = next]
      BY <1>1, <2>2 DEF SelectSession, Theft
    <2>4. next # "idle" => Edge(req[r], next)
      BY <2>1, <2>2 DEF Edge, At
    <2>5. next \notin {"idle", "kill"} => Binds(row, req[r].device, next)
      BY BindingStages
    <2> HIDE DEF next
    <2>6. CASE next = "idle" /\ Return(r)
      BY <2>1, <2>6, MovesHome
    <2>7. CASE next = "kill" /\ Goto(r, "kill")
      BY <2>1, <2>4, <2>7, MovesTo
    <2>8. CASE next \notin {"idle", "kill"} /\ req' = [req EXCEPT ![r].row = row, ![r].pc = next]
      BY <2>1, <2>4, <2>5, <2>8, MovesReading
    <2> QED
      BY <2>3, <2>6, <2>7, <2>8
  <1>2. CASE Kill(r)
    BY <1>2, MovesHome DEF Kill, At
  <1>3. CASE BindDevice(r)
    <2> DEFINE next == IpStage(req[r].row, req[r].ip)
    <2>1. At(r, "bindDevice") /\ ~Reads(req[r]) /\ ~At(r, "idle")
      BY <1>3 DEF BindDevice, At, Reads
    <2>2. next \in {"load", "bindIp", "idle"}
      BY NextStages
    <2>3. (next = "idle" /\ Return(r)) \/ (next # "idle" /\ Goto(r, next))
      BY <1>3 DEF BindDevice
    <2>4. next # "idle" => Edge(req[r], next)
      BY <2>1, <2>2 DEF Edge, At
    <2> HIDE DEF next
    <2> QED
      BY <2>1, <2>3, <2>4, MovesTo, MovesHome
  <1>4. CASE BindIp(r)
    BY <1>4, MovesTo DEF BindIp, Edge, At, Reads
  <1>5. CASE LoadUser(r)
    <2> DEFINE next == FirstOwnStage(req[r].op)
    <2>1. At(r, "load") /\ ~Reads(req[r]) /\ ~At(r, "idle")
      BY <1>5 DEF LoadUser, At, Reads
    <2>2. next \in {"setup", "code", "delete", "target", "idle"}
      BY DEF FirstOwnStage
    <2>3. Return(r) \/ (next # "idle" /\ Goto(r, next))
      BY <1>5 DEF LoadUser
    <2>4. next # "idle" => Edge(req[r], next)
      BY <2>1, <2>2 DEF Edge, At
    <2> HIDE DEF next
    <2> QED
      BY <2>1, <2>3, <2>4, MovesTo, MovesHome
  <1> QED
    BY <1>1, <1>2, <1>3, <1>4, <1>5 DEF AuthStep

LEMMA HandlerMoves == ASSUME RequestsOK, NEW r \in Reqs, HandlerStep(r) PROVE Moves(r)
  <1>1. CASE TwoFaSetup(r)
    BY <1>1, MovesHome DEF TwoFaSetup, At
  <1>2. CASE CheckEnableCode(r)
    <2>1. At(r, "code") /\ ~Reads(req[r]) /\ ~At(r, "idle")
      BY <1>2 DEF CheckEnableCode, At, Reads
    <2>2. Return(r) \/ (CodeMatches(req[r]) /\ Goto(r, "enable"))
      BY <1>2 DEF CheckEnableCode
    <2>3. CodeMatches(req[r]) => Edge(req[r], "enable")
      BY <2>1 DEF Edge, At
    <2> QED
      BY <2>1, <2>2, <2>3, MovesTo, MovesHome
  <1>3. CASE Enable(r)
    BY <1>3, MovesHome DEF Enable, At
  <1>4. CASE SelectTarget(r)
    <2>1. At(r, "target") /\ ~Reads(req[r]) /\ ~At(r, "idle")
      BY <1>4 DEF SelectTarget, At, Reads
    <2>2. Return(r) \/ Goto(r, "delete")
      BY <1>4 DEF SelectTarget
    <2>3. Edge(req[r], "delete")
      BY <2>1 DEF Edge, At
    <2> QED
      BY <2>1, <2>2, <2>3, MovesTo, MovesHome
  <1>5. CASE DeleteSession(r)
    BY <1>5, MovesHome DEF DeleteSession, At
  <1> QED
    BY <1>1, <1>2, <1>3, <1>4, <1>5 DEF HandlerStep

LEMMA RequestMoves == ASSUME Safe, NEW r \in Reqs, HandlerRuns(r) PROVE Moves(r)
  BY LoginMoves, Login2faMoves, AuthMoves, HandlerMoves DEF HandlerRuns, Safe

\* The stage of a request names the statement that it runs.
LEMMA RunsItsStage ==
    ASSUME NEW r \in Reqs, HandlerRuns(r)
    PROVE  /\ At(r, "kill") => Kill(r)
           /\ At(r, "load") => LoadUser(r)
           /\ At(r, "bindDevice") => BindDevice(r)
           /\ At(r, "bindIp") => BindIp(r)
           /\ At(r, "setup") => TwoFaSetup(r)
           /\ At(r, "code") => CheckEnableCode(r)
           /\ At(r, "enable") => Enable(r)
           /\ At(r, "dropPending") => DropPending(r)
           /\ At(r, "dropFull") => DropFull(r)
           /\ At(r, "insertPending") \/ At(r, "insertFull") => InsertSession(r)
           /\ At(r, "dropOthers") => DropOthers(r)
           /\ At(r, "promote") => Promote(r)
           /\ At(r, "delete") => DeleteSession(r)
  BY DEF HandlerRuns, LoginStep, Login2faStep, AuthStep, HandlerStep, At, SelectUser, DropPending,
         DropFull, InsertSession, SelectPending, CheckSecret, DropOthers, Promote, SelectSession, Kill,
         BindDevice, BindIp, LoadUser, TwoFaSetup, CheckEnableCode, Enable, SelectTarget, DeleteSession

\* The other stages write no session row; two_fa_setup and two_fa_enable alone write the
\* secret, its flag and what has been verified, load_auth_user what has been served.
LEMMA WhoWrites ==
    ASSUME NEW r \in Reqs, HandlerRuns(r)
    PROVE  /\ req[r].pc \notin {"dropPending", "dropFull", "insertPending", "insertFull", "dropOthers",
                                "promote", "kill", "bindDevice", "bindIp", "delete"} => sess' = sess
           /\ req[r].pc \notin {"setup", "code", "enable"} =>
                 secret' = secret /\ enabled' = enabled /\ verified' = verified
           /\ req[r].pc # "load" => served' = served
           /\ stolen' # stolen => Theft(r)
  BY DEF HandlerRuns, LoginStep, Login2faStep, AuthStep, HandlerStep, At, SelectUser, DropPending,
         DropFull, InsertSession, SelectPending, CheckSecret, DropOthers, Promote, SelectSession, Kill,
         BindDevice, BindIp, LoadUser, TwoFaSetup, CheckEnableCode, Enable, SelectTarget, DeleteSession,
         history

\* What becomes of a row: nothing, a DELETE, the INSERT, or one of the UPDATEs.
RowFate(r, s) ==
    \/ sess'[s] = sess[s]
    \/ /\ Exists(s) /\ sess'[s].device = sess[s].device
       /\ sess'[s].st = "gone" \/ sess'[s].st = sess[s].st
    \/ /\ InsertSession(r) /\ s \notin Issued /\ sess'[s].device = req[r].device
       /\ sess'[s].st = (IF At(r, "insertFull") THEN "full" ELSE "pending")
    \/ /\ Promote(r) /\ s = req[r].sid /\ Exists(s)
       /\ sess'[s].device = sess[s].device /\ sess'[s].st = "full"
    \/ /\ BindDevice(r) /\ s = req[r].sid /\ Exists(s)
       /\ sess'[s].device = req[r].device /\ sess'[s].st = sess[s].st

LEMMA DeletedRow ==
    ASSUME sess \in [Sids -> Rows], NEW S, NEW s \in Sids, sess' = Deleted(S)
    PROVE  /\ s \in S /\ Exists(s) => sess'[s].st = "gone" /\ sess'[s].device = sess[s].device
           /\ ~(s \in S /\ Exists(s)) => sess'[s] = sess[s]
  <1>1. sess[s] \in Rows
    OBVIOUS
  <1> DEFINE g == [sess[s] EXCEPT !.st = "gone"]
  <1>2. g.st = "gone" /\ g.device = sess[s].device
    BY <1>1 DEF Rows
  <1>3. sess'[s] = IF s \in S /\ Exists(s) THEN g ELSE sess[s]
    BY DEF Deleted
  <1> HIDE DEF g
  <1> QED
    BY <1>2, <1>3

LEMMA InsertedRow ==
    ASSUME sess \in [Sids -> Rows], NEW r \in Reqs, NEW s \in Sids, InsertSession(r)
    PROVE  RowFate(r, s)
  <1> DEFINE st == IF At(r, "insertFull") THEN "full" ELSE "pending"
             row == [st |-> st, device |-> req[r].device, ip |-> req[r].ip, expired |-> FALSE]
  <1>1. CASE UNCHANGED sess
    BY <1>1 DEF RowFate
  <1>2. CASE \E x \in Sids \ Issued : sess' = [sess EXCEPT ![x] = row]
    <2>1. PICK x \in Sids \ Issued : sess' = [sess EXCEPT ![x] = row]
      BY <1>2
    <2>2. row.st = st /\ row.device = req[r].device
      OBVIOUS
    <2> HIDE DEF row
    <2>3. s # x => sess'[s] = sess[s]
      BY <2>1
    <2>4. s = x => sess'[s] = row
      BY <2>1
    <2> QED
      BY <2>1, <2>2, <2>3, <2>4 DEF RowFate
  <1> QED
    BY <1>1, <1>2 DEF InsertSession

LEMMA UpdatedRow ==
    ASSUME sess \in [Sids -> Rows], NEW r \in Reqs, NEW s \in Sids, Promote(r) \/ BindDevice(r) \/ BindIp(r)
    PROVE  RowFate(r, s)
  <1> DEFINE row == sess[s]
  <1>0. row \in Rows
    OBVIOUS
  <1>1. CASE Promote(r)
    <2> DEFINE new == [row EXCEPT !.st = "full", !.expired = FALSE]
    <2>1. new.st = "full" /\ new.device = row.device
      BY <1>0 DEF Rows
    <2>2. sess'[s] = row \/ (s = req[r].sid /\ Exists(s) /\ sess'[s] = new)
      BY <1>1 DEF Promote
    <2> HIDE DEF new
    <2> QED
      BY <1>1, <2>1, <2>2 DEF RowFate
  <1>2. CASE BindDevice(r)
    <2> DEFINE new == [row EXCEPT !.device = req[r].device]
    <2>1. new.st = row.st /\ new.device = req[r].device
      BY <1>0 DEF Rows
    <2>2. sess'[s] = row \/ (s = req[r].sid /\ Exists(s) /\ sess'[s] = new)
      BY <1>2 DEF BindDevice
    <2> HIDE DEF new
    <2> QED
      BY <1>2, <2>1, <2>2 DEF RowFate
  <1>3. CASE BindIp(r)
    <2> DEFINE new == [row EXCEPT !.ip = req[r].ip]
    <2>1. new.st = row.st /\ new.device = row.device
      BY <1>0 DEF Rows
    <2>2. sess'[s] = row \/ (Exists(s) /\ sess'[s] = new)
      BY <1>3 DEF BindIp
    <2> HIDE DEF new
    <2> QED
      BY <2>1, <2>2 DEF RowFate
  <1> QED
    BY <1>1, <1>2, <1>3

LEMMA RowFates ==
    ASSUME Safe, NEW r \in Reqs, HandlerRuns(r), NEW s \in Sids
    PROVE  RowFate(r, s)
  <1>0. sess \in [Sids -> Rows]
    BY DEF Safe, TypeOK
  <1>1. ASSUME NEW S, sess' = Deleted(S) PROVE RowFate(r, s)
    BY <1>0, <1>1, DeletedRow DEF RowFate
  <1>2. CASE InsertSession(r)
    BY <1>0, <1>2, InsertedRow
  <1>3. CASE Promote(r) \/ BindDevice(r) \/ BindIp(r)
    BY <1>0, <1>3, UpdatedRow
  <1>4. CASE sess' = sess
    BY <1>4 DEF RowFate
  <1>5. \/ sess' = sess \/ InsertSession(r) \/ Promote(r) \/ BindDevice(r) \/ BindIp(r)
        \/ \E S : sess' = Deleted(S)
    BY DEF HandlerRuns, LoginStep, Login2faStep, AuthStep, HandlerStep, SelectUser, DropPending,
           DropFull, SelectPending, CheckSecret, DropOthers, SelectSession, Kill,
           LoadUser, TwoFaSetup, CheckEnableCode, Enable, SelectTarget, DeleteSession
  <1> QED
    BY <1>1, <1>2, <1>3, <1>4, <1>5

\* A call takes an idle request, with a session that has been issued.
LEMMA CallTakes ==
    ASSUME RequestsOK, NEW r \in Reqs, Call(r)
    PROVE  /\ At(r, "idle")
           /\ \A x \in Reqs \ {r} : req'[x] = req[x]
           /\ req'[r].pc \in {"user", "pending", "session"}
           /\ req'[r].pc \in LoginStages \/ req'[r].sid \in Issued
           /\ UNCHANGED <<sess, secret, enabled, history>>
  <1>1. PICK op \in Ops, d \in Headers, i \in Addresses :
           \E s \in IF op = "login" THEN {None} ELSE Issued,
              t \in IF op = "revoke_session" THEN Issued ELSE {None},
              c \in IF op \in {"login_2fa", "two_fa_enable"} THEN 0..secret ELSE {0} :
                 req' = [req EXCEPT ![r] = [Idle EXCEPT !.pc = FirstStage(op), !.op = op, !.device = d,
                                                        !.ip = i, !.sid = s, !.target = t, !.code = c]]
    BY DEF Call, CallBy
  <1>2. PICK s \in IF op = "login" THEN {None} ELSE Issued,
             t \in IF op = "revoke_session" THEN Issued ELSE {None},
             c \in IF op \in {"login_2fa", "two_fa_enable"} THEN 0..secret ELSE {0} :
                 req' = [req EXCEPT ![r] = [Idle EXCEPT !.pc = FirstStage(op), !.op = op, !.device = d,
                                                        !.ip = i, !.sid = s, !.target = t, !.code = c]]
    BY <1>1
  <1> DEFINE q == [Idle EXCEPT !.pc = FirstStage(op), !.op = op, !.device = d,
                               !.ip = i, !.sid = s, !.target = t, !.code = c]
  <1>3. q.pc = FirstStage(op) /\ q.sid = s
    BY DEF Idle
  <1>4. FirstStage(op) \in {"user", "pending", "session"} /\ (FirstStage(op) = "user" <=> op = "login")
    BY DEF FirstStage
  <1>5. req'[r] = q /\ \A x \in Reqs \ {r} : req'[x] = req[x]
    BY <1>2 DEF RequestsOK
  <1> HIDE DEF q
  <1>6. At(r, "idle") /\ UNCHANGED <<sess, secret, enabled, history>>
    BY DEF Call, CallBy
  <1> QED
    BY <1>2, <1>3, <1>4, <1>5, <1>6 DEF LoginStages

LEMMA AbandonLeaves ==
    ASSUME RequestsOK, NEW r \in Reqs, Abandon(r)
    PROVE  /\ ~At(r, "idle") /\ req'[r] = Idle
           /\ \A x \in Reqs \ {r} : req'[x] = req[x]
           /\ UNCHANGED <<sess, secret, enabled, history>>
  BY DEF Abandon, Return, RequestsOK

LEMMA ExpiredRow ==
    ASSUME Safe, NEW s \in Sids, Expire(s), NEW x \in Sids
    PROVE  sess'[x].st = sess[x].st /\ sess'[x].device = sess[x].device
  <1> DEFINE row == [sess[s] EXCEPT !.expired = TRUE]
  <1>1. sess[s] \in Rows /\ sess \in [Sids -> Rows]
    BY DEF Safe, TypeOK
  <1>2. row.st = sess[s].st /\ row.device = sess[s].device
    BY <1>1 DEF Rows
  <1>3. sess' = [sess EXCEPT ![s] = row]
    BY DEF Expire
  <1> HIDE DEF row
  <1> QED
    BY <1>1, <1>2, <1>3

\* A step of SessionFaults is a step of Sessions.
LEMMA FStep == ASSUME [FNext]_fvars PROVE [Next]_vars
  BY DEF FNext, fvars, Next, HandlerRuns

LEMMA FSafe == FSpec => []Safe
  <1>1. FInit => Safe
    BY InitSafe DEF FInit
  <1>2. Safe /\ [FNext]_fvars => Safe'
    BY FStep, StepSafe
  <1> QED
    BY <1>1, <1>2, PTL DEF FSpec

-----------------------------------------------------------------------------
(* One request at a time.                                                   *)

AloneInv == Serially => \A q, r \in Reqs : At(q, "idle") \/ At(r, "idle") \/ q = r

LEMMA AloneStep == ASSUME Safe, AloneInv, [FNext]_fvars PROVE AloneInv'
  <1>0. RequestsOK
    BY DEF Safe
  <1>1. ASSUME NEW r \in Reqs, Call(r), Noted(r) PROVE AloneInv'
    <2>1. /\ \A x \in Reqs \ {r} : req'[x] = req[x]
          /\ Serially' => Serially /\ ~Among(r)
      BY <1>0, <1>1, CallTakes DEF Noted, Serially
    <2> QED
      BY <2>1 DEF AloneInv, Among, At
  <1>2. ASSUME NEW r \in Reqs, HandlerRuns(r), past' = past PROVE AloneInv'
    <2>1. ~At(r, "idle") /\ \A x \in Reqs \ {r} : req'[x] = req[x]
      BY <1>2, RequestMoves DEF Moves
    <2> QED
      BY <1>2, <2>1 DEF AloneInv, At, Serially
  <1>3. ASSUME NEW r \in Reqs, Abandon(r), past' = past \cup {"torn"} PROVE AloneInv'
    <2>1. ~At(r, "idle") /\ \A x \in Reqs \ {r} : req'[x] = req[x]
      BY <1>0, <1>3, AbandonLeaves
    <2> QED
      BY <1>3, <2>1 DEF AloneInv, At, Serially
  <1>4. ASSUME req' = req, past' = past PROVE AloneInv'
    BY <1>4 DEF AloneInv, At, Serially
  <1> QED
    BY <1>1, <1>2, <1>3, <1>4 DEF FNext, fvars, vars, Expire

LEMMA AloneInit == FInit => AloneInv
  BY IdleFacts DEF FInit, Init, AloneInv, At

LEMMA OthersIdle ==
    ASSUME AloneInv, Serially, NEW r \in Reqs, ~At(r, "idle"), NEW x \in Reqs \ {r}
    PROVE  At(x, "idle")
  BY DEF AloneInv

\* Behind login a request has a session that was issued.
SidIssued == \A r \in Reqs : req[r].pc \notin LoginStages => req[r].sid \in Issued

LEMMA EdgeFromSession ==
    ASSUME NEW q, NEW stage, Edge(q, stage), stage \notin LoginStages
    PROVE  q.pc \notin LoginStages
  BY DEF Edge, LoginStages

LEMMA IssuedStays ==
    ASSUME Safe, NEW r \in Reqs, HandlerRuns(r), NEW s \in Sids, s \in Issued
    PROVE  s \in Issued'
  <1>1. RowFate(r, s)
    BY RowFates
  <1> QED
    BY <1>1 DEF RowFate, Issued, Exists

LEMMA SidStep == ASSUME Safe, SidIssued, [FNext]_fvars PROVE SidIssued'
  <1>0. RequestsOK /\ Idle.pc \in LoginStages
    BY IdleFacts DEF Safe, LoginStages
  <1>1. ASSUME NEW r \in Reqs, Call(r) PROVE SidIssued'
    <2>1. Issued' = Issued
      BY <1>0, <1>1, CallTakes DEF Issued
    <2> QED
      BY <1>0, <1>1, <2>1, CallTakes DEF SidIssued
  <1>2. ASSUME NEW r \in Reqs, HandlerRuns(r) PROVE SidIssued'
    <2>1. Moves(r) /\ Issued \subseteq Issued'
      BY <1>2, RequestMoves, IssuedStays DEF Issued
    <2>2. req'[r].pc \notin LoginStages => req[r].pc \notin LoginStages /\ req'[r].sid = req[r].sid
      BY <1>0, <2>1, EdgeFromSession DEF Moves, GoesOn
    <2> QED
      BY <2>1, <2>2 DEF SidIssued, Moves
  <1>3. ASSUME NEW r \in Reqs, Abandon(r) PROVE SidIssued'
    <2>1. Issued' = Issued
      BY <1>0, <1>3, AbandonLeaves DEF Issued
    <2> QED
      BY <1>0, <1>3, <2>1, AbandonLeaves DEF SidIssued
  <1>4. ASSUME NEW s \in Sids, Expire(s) PROVE SidIssued'
    <2>1. Issued' = Issued /\ req' = req
      BY <1>4, ExpiredRow DEF Issued, Expire
    <2> QED
      BY <2>1 DEF SidIssued
  <1>5. CASE UNCHANGED fvars
    BY <1>5 DEF SidIssued, Issued, fvars, vars
  <1> QED
    BY <1>1, <1>2, <1>3, <1>4, <1>5 DEF FNext

LEMMA SidInit == FInit => SidIssued
  BY IdleFacts DEF FInit, Init, SidIssued, LoginStages

-----------------------------------------------------------------------------
(* The secret in force is verified.  A request that is about to enable has  *)
(* just verified the secret, and nobody replaces it meanwhile.              *)

AboutToEnable == \A r \in Reqs : At(r, "enable") => secret \in verified
SecretInv == Serially => EnabledSecretVerified /\ AboutToEnable

LEMMA SecretStep == ASSUME Safe, AloneInv, SecretInv, [FNext]_fvars PROVE SecretInv'
  <1>0. RequestsOK
    BY DEF Safe
  <1>1. ASSUME NEW r \in Reqs, Call(r), Noted(r) PROVE SecretInv'
    <2>1. /\ Serially' => Serially
          /\ UNCHANGED <<secret, enabled, verified>>
          /\ \A x \in Reqs : req'[x].pc = "enable" => At(x, "enable")
      BY <1>0, <1>1, CallTakes DEF Noted, Serially, At, history
    <2> QED
      BY <2>1 DEF SecretInv, EnabledSecretVerified, AboutToEnable, At
  <1>2. ASSUME NEW r \in Reqs, HandlerRuns(r), past' = past, Serially PROVE SecretInv'
    <2>0. Moves(r) /\ EnabledSecretVerified /\ AboutToEnable
      BY <1>2, RequestMoves DEF SecretInv
    <2>1. ASSUME NEW x \in Reqs \ {r} PROVE req'[x].pc # "enable"
      <3>1. At(x, "idle")
        BY <1>2, <2>0, OthersIdle DEF Moves
      <3> QED
        BY <2>0, <3>1 DEF Moves, At
    <2>2. req'[r].pc = "enable" => At(r, "code") /\ CodeMatches(req[r])
      BY <2>0, IdleFacts DEF Moves, GoesOn, Edge, At
    <2>3. CASE At(r, "setup")
      <3>1. TwoFaSetup(r)
        BY <1>2, <2>3, RunsItsStage
      <3>2. enabled' = FALSE \/ UNCHANGED <<secret, enabled>>
        BY <3>1 DEF TwoFaSetup
      <3>3. verified' = verified /\ req'[r].pc # "enable"
        BY <2>2, <2>3, <3>1 DEF TwoFaSetup, history, At
      <3> QED
        BY <2>0, <2>1, <3>2, <3>3 DEF SecretInv, EnabledSecretVerified, AboutToEnable, At
    <2>4. CASE At(r, "code")
      <3>1. CheckEnableCode(r)
        BY <1>2, <2>4, RunsItsStage
      <3>2. /\ UNCHANGED <<secret, enabled>> /\ verified \subseteq verified'
            /\ CodeMatches(req[r]) => secret \in verified'
        BY <3>1 DEF CheckEnableCode, CodeMatches
      <3> QED
        BY <2>0, <2>1, <2>2, <3>2 DEF SecretInv, EnabledSecretVerified, AboutToEnable, At
    <2>5. CASE At(r, "enable")
      <3>1. Enable(r)
        BY <1>2, <2>5, RunsItsStage
      <3>2. secret' = secret /\ verified' = verified /\ secret \in verified /\ req'[r].pc # "enable"
        BY <2>0, <2>2, <2>5, <3>1 DEF Enable, history, AboutToEnable, At
      <3> QED
        BY <2>1, <3>2 DEF SecretInv, EnabledSecretVerified, AboutToEnable, At
    <2>6. CASE ~At(r, "setup") /\ ~At(r, "code") /\ ~At(r, "enable")
      <3>1. UNCHANGED <<secret, enabled, verified>>
        BY <1>2, <2>6, WhoWrites DEF At
      <3> QED
        BY <2>0, <2>1, <2>2, <2>6, <3>1 DEF SecretInv, EnabledSecretVerified, AboutToEnable, At
    <2> QED
      BY <2>3, <2>4, <2>5, <2>6
  <1>3. ASSUME NEW r \in Reqs, Abandon(r), past' = past \cup {"torn"} PROVE SecretInv'
    <2>1. /\ UNCHANGED <<secret, enabled, verified>>
          /\ \A x \in Reqs : req'[x].pc = "enable" => At(x, "enable")
      BY <1>0, <1>3, AbandonLeaves, IdleFacts DEF At, history
    <2> QED
      BY <1>3, <2>1 DEF SecretInv, EnabledSecretVerified, AboutToEnable, At, Serially
  <1>4. ASSUME UNCHANGED <<secret, enabled, verified, req, past>> PROVE SecretInv'
    BY <1>4 DEF SecretInv, EnabledSecretVerified, AboutToEnable, At, Serially
  <1>5. ASSUME NEW r \in Reqs, HandlerRuns(r), past' = past, ~Serially PROVE SecretInv'
    BY <1>5 DEF SecretInv, Serially
  <1> QED
    BY <1>1, <1>2, <1>3, <1>4, <1>5 DEF FNext, fvars, vars, history, Expire

LEMMA SecretInit == FInit => SecretInv
  BY IdleFacts DEF FInit, Init, SecretInv, EnabledSecretVerified, AboutToEnable, At

\* With requests one at a time, however many and whichever are cut short, two-factor
\* authentication is enabled only with a secret that has been verified.
THEOREM EnabledSecretHolds == FSpec => []EnabledSecretVerifiedSerially
  <1>1. FInit => AloneInv /\ SecretInv
    BY AloneInit, SecretInit
  <1>2. Safe /\ AloneInv /\ SecretInv /\ [FNext]_fvars => AloneInv' /\ SecretInv'
    BY AloneStep, SecretStep
  <1>3. SecretInv => EnabledSecretVerifiedSerially
    BY DEF SecretInv, EnabledSecretVerifiedSerially
  <1> QED
    BY <1>1, <1>2, <1>3, FSafe, PTL DEF FSpec

-----------------------------------------------------------------------------
(* Stolen sessions are revoked.  Whatever runs at the same time, a stolen   *)
(* session that still exists has a request in the middle of its theft.      *)

Revoking(s) == \E r \in Reqs : At(r, "kill") /\ req[r].sid = s
StolenInv == /\ stolen \subseteq Issued
             /\ "torn" \notin past => \A s \in stolen : Exists(s) => Revoking(s)

LEMMA StolenStep == ASSUME Safe, SidIssued, StolenInv, [FNext]_fvars PROVE StolenInv'
  <1>0. RequestsOK
    BY DEF Safe
  <1>1. ASSUME NEW r \in Reqs, Call(r), Noted(r) PROVE StolenInv'
    <2>1. /\ At(r, "idle") /\ \A x \in Reqs \ {r} : req'[x] = req[x]
          /\ UNCHANGED <<sess, stolen>> /\ ("torn" \notin past' => "torn" \notin past)
      BY <1>0, <1>1, CallTakes DEF Noted, history
    <2>2. ASSUME NEW s, Revoking(s) PROVE Revoking(s)'
      BY <2>1, <2>2 DEF Revoking, At
    <2> QED
      BY <2>1, <2>2 DEF StolenInv, Issued, Exists
  <1>2. ASSUME NEW r \in Reqs, HandlerRuns(r), past' = past PROVE StolenInv'
    <2>1. Moves(r)
      BY <1>2, RequestMoves
    <2>2. stolen' = stolen \/ (stolen' = stolen \cup {req[r].sid} /\ req'[r].pc = "kill")
      <3>1. Theft(r) => req'[r].pc = "kill" /\ stolen' = stolen \cup {req[r].sid}
        <4>1. req[r] \in Requests
          BY <1>0 DEF RequestsOK
        <4> QED
          BY <1>0, <4>1 DEF Theft, Goto, RequestsOK, Requests
      <3> QED
        BY <1>2, <3>1, WhoWrites
    <2>3. req'[r].pc = "kill" => req'[r].sid = req[r].sid /\ req[r].sid \in Issued
      <3>1. req'[r].pc = "kill" => GoesOn(req[r], req'[r], sess[req[r].sid])
        BY <2>1, IdleFacts DEF Moves
      <3>2. req'[r].pc = "kill" => req[r].pc \notin LoginStages
        BY <3>1, EdgeFromSession DEF GoesOn, LoginStages
      <3> QED
        BY <3>1, <3>2 DEF GoesOn, SidIssued
    <2>4. stolen' \subseteq Issued'
      BY <1>2, <2>2, <2>3, IssuedStays DEF StolenInv, Issued
    <2>5. ASSUME "torn" \notin past, NEW s \in stolen', Exists(s)' PROVE Revoking(s)'
      <3>1. CASE s \in stolen
        <4>1. s \in Issued /\ s \in Sids
          BY <3>1 DEF StolenInv, Issued
        <4>2. RowFate(r, s)
          BY <1>2, <4>1, RowFates
        <4>3. Exists(s)
          BY <2>5, <4>1, <4>2 DEF RowFate, Exists
        <4>4. PICK x \in Reqs : At(x, "kill") /\ req[x].sid = s
          BY <2>5, <3>1, <4>3 DEF StolenInv, Revoking
        <4>5. x # r
          <5>1. SUFFICES ASSUME x = r PROVE FALSE
            OBVIOUS
          <5>2. sess' = Deleted({s})
            BY <1>2, <4>4, <5>1, RunsItsStage DEF Kill
          <5>3. sess'[s].st = "gone"
            BY <4>1, <4>3, <5>2, DeletedRow DEF Safe, TypeOK
          <5> QED
            BY <2>5, <5>3 DEF Exists
        <4> QED
          BY <2>1, <4>4, <4>5 DEF Moves, Revoking, At
      <3>2. CASE s \notin stolen
        <4>1. s = req[r].sid /\ req'[r].pc = "kill"
          BY <2>2, <2>5, <3>2
        <4> QED
          BY <2>3, <4>1 DEF Revoking, At
      <3> QED
        BY <3>1, <3>2
    <2> QED
      BY <1>2, <2>4, <2>5 DEF StolenInv
  <1>3. ASSUME NEW r \in Reqs, Abandon(r), past' = past \cup {"torn"} PROVE StolenInv'
    <2>1. UNCHANGED <<sess, stolen>>
      BY <1>0, <1>3, AbandonLeaves DEF history
    <2> QED
      BY <1>3, <2>1 DEF StolenInv, Issued
  <1>4. ASSUME NEW s \in Sids, Expire(s), past' = past PROVE StolenInv'
    <2>1. \A x \in Sids : sess'[x].st = sess[x].st
      BY <1>4, ExpiredRow
    <2>2. UNCHANGED <<req, stolen>> /\ stolen \subseteq Sids
      BY <1>4 DEF Expire, history, Safe, TypeOK
    <2> QED
      BY <1>4, <2>1, <2>2 DEF StolenInv, Issued, Exists, Revoking, At
  <1>5. CASE UNCHANGED fvars
    BY <1>5 DEF StolenInv, Issued, Exists, Revoking, At, fvars, vars, history
  <1> QED
    BY <1>1, <1>2, <1>3, <1>4, <1>5 DEF FNext

LEMMA StolenInit == FInit => StolenInv
  BY DEF FInit, Init, StolenInv

\* Whatever logins, promotions and bindings run at the same time, no session outlives
\* a call from a foreign device once the requests are answered.
THEOREM StolenRevoked == FSpec => []StolenSessionsRevokedUnlessTorn
  <1>1. FInit => SidIssued /\ StolenInv
    BY SidInit, StolenInit
  <1>2. Safe /\ SidIssued /\ StolenInv /\ [FNext]_fvars => SidIssued' /\ StolenInv'
    BY SidStep, StolenStep
  <1>3. StolenInv => StolenSessionsRevokedUnlessTorn
    BY DEF StolenInv, StolenSessionsRevokedUnlessTorn, StolenSessionsRevoked, Quiet, Revoking, At
  <1> QED
    BY <1>1, <1>2, <1>3, FSafe, PTL DEF FSpec

-----------------------------------------------------------------------------
(* One device per session.  What a session has authenticated is the device  *)
(* of its row, and so is what it is about to authenticate.                  *)

\* What the request has established about the device of its session.
Established(q) ==
    /\ q.pc = "bindDevice" => Exists(q.sid) /\ sess[q.sid].device = None
    /\ q.pc \in {"bindIp", "load"} => sess[q.sid].device = q.device

UnusedUnbound == \A s \in Sids \ Issued : sess[s].device = None
ServedOwn == \A s \in Sids : served[s] \subseteq {sess[s].device}
BoundInv == /\ UnusedUnbound
            /\ Serially => ServedOwn /\ \A r \in Reqs : Established(req[r])

LEMMA EstablishedElsewhere == \A q : q.pc \notin {"bindDevice", "bindIp", "load"} => Established(q)
  BY DEF Established

\* The statement of a request that runs alone.
LEMMA EstablishedStep ==
    ASSUME Safe, SidIssued, NEW r \in Reqs, HandlerRuns(r), Established(req[r])
    PROVE  Established(req[r])'
  <1>1. Moves(r)
    BY RequestMoves
  <1>2. SUFFICES ASSUME GoesOn(req[r], req'[r], sess[req[r].sid]),
                        req'[r].pc \in {"bindDevice", "bindIp", "load"}
                 PROVE  Established(req[r])'
    BY <1>1, IdleFacts DEF Moves, Established
  <1>3. /\ req'[r].sid = req[r].sid /\ req'[r].device = req[r].device
        /\ req[r].pc \in {"session", "bindDevice", "bindIp"}
    BY <1>2 DEF GoesOn, Edge
  <1>4. req[r].sid \in Sids
    BY <1>3 DEF SidIssued, LoginStages, Issued
  <1>5. CASE req[r].pc = "session"
    <2>1. sess' = sess
      BY <1>5, WhoWrites
    <2>2. Binds(sess[req[r].sid], req[r].device, req'[r].pc)
      BY <1>2, <1>5 DEF GoesOn, Kills
    <2> QED
      BY <1>2, <1>3, <2>1, <2>2 DEF Binds, Established, Exists
  <1>6. CASE req[r].pc = "bindDevice"
    <2>1. BindDevice(r) /\ Exists(req[r].sid)
      BY <1>6, RunsItsStage DEF At, Established
    <2>2. sess[req[r].sid] \in Rows /\ sess \in [Sids -> Rows]
      BY <1>4 DEF Safe, TypeOK
    <2>3. sess'[req[r].sid].device = req[r].device
      BY <1>4, <2>1, <2>2 DEF BindDevice, Rows
    <2>4. req'[r].pc # "bindDevice"
      BY <1>2, <1>6 DEF GoesOn, Edge
    <2> QED
      BY <1>3, <2>3, <2>4 DEF Established
  <1>7. CASE req[r].pc = "bindIp"
    <2>1. ~InsertSession(r) /\ ~Promote(r) /\ ~BindDevice(r)
      BY <1>7 DEF InsertSession, Promote, BindDevice, At
    <2>2. sess'[req[r].sid].device = sess[req[r].sid].device
      BY <1>4, <2>1, RowFates DEF RowFate
    <2>3. req'[r].pc = "load"
      BY <1>2, <1>7 DEF GoesOn, Edge
    <2> QED
      BY <1>3, <1>7, <2>2, <2>3 DEF Established
  <1> QED
    BY <1>3, <1>5, <1>6, <1>7

LEMMA ServedStep ==
    ASSUME Safe, SidIssued, UnusedUnbound, ServedOwn, NEW r \in Reqs, HandlerRuns(r), Established(req[r])
    PROVE  ServedOwn'
  <1> SUFFICES ASSUME NEW s \in Sids PROVE served'[s] \subseteq {sess'[s].device}
    BY DEF ServedOwn
  <1>1. /\ served \in [Sids -> SUBSET Devices] /\ served[s] \subseteq {sess[s].device}
        /\ None \notin Devices
    BY ConstantsAssumption DEF Safe, TypeOK, ServedOwn
  <1>2. CASE At(r, "load")
    <2>1. LoadUser(r) /\ sess' = sess /\ sess[req[r].sid].device = req[r].device
      BY <1>2, RunsItsStage DEF LoadUser, Established, At
    <2>2. \/ served' = served
          \/ served' = [served EXCEPT ![req[r].sid] = @ \cup ({req[r].device} \ {None})]
      BY <2>1 DEF LoadUser
    <2> QED
      BY <1>1, <2>1, <2>2
  <1>3. CASE ~At(r, "load")
    <2>1. served' = served
      BY <1>3, WhoWrites DEF At
    <2>2. sess'[s].device = sess[s].device \/ sess[s].device = None
      <3>1. RowFate(r, s)
        BY RowFates
      <3>2. CASE InsertSession(r) /\ s \notin Issued
        BY <3>2 DEF UnusedUnbound
      <3>3. CASE BindDevice(r) /\ s = req[r].sid
        BY <3>3 DEF BindDevice, At, Established
      <3> QED
        BY <3>1, <3>2, <3>3 DEF RowFate
    <2> QED
      BY <1>1, <2>1, <2>2
  <1> QED
    BY <1>2, <1>3

LEMMA BoundStep == ASSUME Safe, AloneInv, SidIssued, BoundInv, [FNext]_fvars PROVE BoundInv'
  <1>0. RequestsOK
    BY DEF Safe
  <1>1. ASSUME NEW r \in Reqs, Call(r), Noted(r) PROVE BoundInv'
    <2>1. /\ Serially' => Serially /\ req'[r].pc \notin {"bindDevice", "bindIp", "load"}
          /\ UNCHANGED <<sess, served>> /\ \A x \in Reqs \ {r} : req'[x] = req[x]
      BY <1>0, <1>1, CallTakes DEF Noted, Serially, history
    <2> QED
      BY <2>1 DEF BoundInv, UnusedUnbound, ServedOwn, Established, Issued, Exists
  <1>2. ASSUME NEW r \in Reqs, HandlerRuns(r), past' = past PROVE BoundInv'
    <2>0. Moves(r)
      BY <1>2, RequestMoves
    <2>1. UnusedUnbound'
      <3> SUFFICES ASSUME NEW s \in Sids, s \notin Issued' PROVE sess'[s].device = None
        BY DEF UnusedUnbound
      <3>1. RowFate(r, s) /\ s \notin Issued
        BY <1>2, RowFates, IssuedStays
      <3> QED
        BY <3>1 DEF RowFate, BoundInv, UnusedUnbound, Issued, Exists
    <2>2. ASSUME Serially PROVE ServedOwn'
      BY <1>2, <2>2, ServedStep DEF BoundInv
    <2>3. ASSUME Serially, NEW x \in Reqs PROVE Established(req[x])'
      <3>1. CASE x = r
        BY <1>2, <2>3, <3>1, EstablishedStep DEF BoundInv
      <3>2. CASE x # r
        <4>1. At(x, "idle") /\ req'[x] = req[x]
          BY <2>0, <2>3, <3>2, OthersIdle DEF Moves
        <4> QED
          BY <4>1 DEF Established, At
      <3> QED
        BY <3>1, <3>2
    <2> QED
      BY <1>2, <2>1, <2>2, <2>3 DEF BoundInv, Serially
  <1>3. ASSUME NEW r \in Reqs, Abandon(r), past' = past \cup {"torn"} PROVE BoundInv'
    <2>1. UNCHANGED <<sess, served>> /\ \A x \in Reqs : req'[x] = Idle \/ req'[x] = req[x]
      BY <1>0, <1>3, AbandonLeaves DEF history
    <2>2. ASSUME NEW x \in Reqs, Established(req[x]) PROVE Established(req[x])'
      BY <2>1, <2>2, IdleFacts DEF Established, Exists
    <2> QED
      BY <1>3, <2>1, <2>2 DEF BoundInv, UnusedUnbound, ServedOwn, Issued, Serially
  <1>4. ASSUME NEW s \in Sids, Expire(s), past' = past PROVE BoundInv'
    <2>1. UNCHANGED <<req, served>> /\ \A x \in Sids : /\ sess'[x].st = sess[x].st
                                                       /\ sess'[x].device = sess[x].device
      BY <1>4, ExpiredRow DEF Expire, history
    <2>2. ASSUME NEW x \in Reqs, Established(req[x]) PROVE Established(req[x])'
      <3>1. req[x].pc \in {"bindDevice", "bindIp", "load"} => req[x].sid \in Sids
        BY DEF SidIssued, LoginStages, Issued
      <3> QED
        BY <2>1, <2>2, <3>1 DEF Established, Exists
    <2> QED
      BY <1>4, <2>1, <2>2 DEF BoundInv, UnusedUnbound, ServedOwn, Issued, Serially
  <1>5. CASE UNCHANGED fvars
    BY <1>5 DEF BoundInv, UnusedUnbound, ServedOwn, Established, Issued, Exists, Serially, fvars, vars, history
  <1> QED
    BY <1>1, <1>2, <1>3, <1>4, <1>5 DEF FNext

LEMMA BoundInit == FInit => BoundInv
  BY IdleFacts DEF FInit, Init, BoundInv, UnusedUnbound, ServedOwn, Established, NoRow

LEMMA AtMostOne == ASSUME NEW S, \A x, y \in S : x = y PROVE Cardinality(S) <= 1
  <1>1. CASE S = {}
    BY <1>1, FS_EmptySet
  <1>2. CASE S # {}
    <2>1. PICK x \in S : S = {x}
      BY <1>2
    <2> QED
      BY <2>1, FS_Singleton
  <1> QED
    BY <1>1, <1>2

\* With requests one at a time, also cut short, and sessions created without a device,
\* a session authenticates the requests of one device.
THEOREM OneDeviceHolds == FSpec => []OneDevicePerSessionSerially
  <1>1. FInit => AloneInv /\ SidIssued /\ BoundInv
    BY AloneInit, SidInit, BoundInit
  <1>2. Safe /\ AloneInv /\ SidIssued /\ BoundInv /\ [FNext]_fvars => AloneInv' /\ SidIssued' /\ BoundInv'
    BY AloneStep, SidStep, BoundStep
  <1>3. BoundInv => OneDevicePerSessionSerially
    BY AtMostOne DEF BoundInv, ServedOwn, OneDevicePerSessionSerially, OneDevicePerSession
  <1> QED
    BY <1>1, <1>2, <1>3, FSafe, PTL DEF FSpec

-----------------------------------------------------------------------------
(* One session of a kind per device.  A login clears its device of sessions *)
(* of the kind it is about to insert, login_2fa of full sessions other than *)
(* the one it promotes.                                                     *)

Named == Serially /\ "bare" \notin past

DevicesKnown == \A s \in Issued : sess[s].device # None
RowsUnique == \A s, t \in Sids : Exists(s) /\ sess[s].st = sess[t].st /\ sess[s].device = sess[t].device => s = t

\* What the request has made of the device it acts for.
Cleared(q) ==
    /\ q.pc # "idle" => q.device # None
    /\ q.pc # "bindDevice"
    /\ q.pc = "insertPending" => OfDevice(q.device, "pending") = {}
    /\ q.pc = "insertFull" => OfDevice(q.device, "full") = {}
    /\ q.pc \in {"secret", "dropOthers", "promote"} => q.row.device = sess[q.sid].device
    /\ q.pc = "promote" => OfDevice(q.row.device, "full") \subseteq {q.sid}

KindInv == Named => DevicesKnown /\ RowsUnique /\ \A r \in Reqs : Cleared(req[r])

LEMMA IdleCleared == \A q : q.pc = "idle" => Cleared(q)
  BY DEF Cleared

\* A DELETE leaves no row of those that it names.
LEMMA DeletedAll ==
    ASSUME sess \in [Sids -> Rows], NEW S, sess' = Deleted(S)
    PROVE  \A s \in Sids : Exists(s)' => s \notin S /\ sess'[s] = sess[s]
  BY DeletedRow DEF Exists

LEMMA ClearedStep ==
    ASSUME Safe, SidIssued, DevicesKnown, NEW r \in Reqs, HandlerRuns(r), Cleared(req[r])
    PROVE  Cleared(req[r])'
  <1>0. sess \in [Sids -> Rows]
    BY DEF Safe, TypeOK
  <1>1. Moves(r)
    BY RequestMoves
  <1>2. SUFFICES ASSUME GoesOn(req[r], req'[r], sess[req[r].sid]) PROVE Cleared(req[r])'
    BY <1>1, IdleFacts DEF Moves, Cleared
  <1>3. /\ req'[r].sid = req[r].sid /\ req'[r].device = req[r].device /\ req[r].device # None
        /\ Edge(req[r], req'[r].pc)
    BY <1>1, <1>2 DEF GoesOn, Moves, Cleared, At
  <1>4. req[r].pc \notin LoginStages => req[r].sid \in Sids /\ sess[req[r].sid].device # None
    BY DEF SidIssued, DevicesKnown, Issued
  <1>5. CASE req[r].pc = "dropPending"
    <2>1. sess' = Deleted(OfDevice(req[r].device, "pending") \ {})
      BY <1>5, RunsItsStage DEF At, DropPending
    <2>2. \A s \in Sids : ~(sess'[s].device = req[r].device /\ sess'[s].st = "pending")
      BY <1>0, <2>1, DeletedAll DEF OfDevice, Exists
    <2>3. req'[r].pc = "insertPending"
      BY <1>3, <1>5 DEF Edge
    <2> QED
      BY <1>3, <2>2, <2>3 DEF Cleared, OfDevice
  <1>6. CASE req[r].pc = "dropFull"
    <2>1. sess' = Deleted(OfDevice(req[r].device, "full") \ {})
      BY <1>6, RunsItsStage DEF At, DropFull
    <2>2. \A s \in Sids : ~(sess'[s].device = req[r].device /\ sess'[s].st = "full")
      BY <1>0, <2>1, DeletedAll DEF OfDevice, Exists
    <2>3. req'[r].pc = "insertFull"
      BY <1>3, <1>6 DEF Edge
    <2> QED
      BY <1>3, <2>2, <2>3 DEF Cleared, OfDevice
  <1>7. CASE req[r].pc = "dropOthers"
    <2>1. sess' = Deleted(OfDevice(req[r].row.device, "full") \ {req[r].sid})
      BY <1>7, RunsItsStage DEF At, DropOthers
    <2>2. \A s \in Sids : sess'[s].device = req[r].row.device /\ sess'[s].st = "full" => s = req[r].sid
      BY <1>0, <2>1, DeletedAll DEF OfDevice, Exists
    <2>3. req'[r].pc = "promote" /\ req'[r].row = req[r].row
      BY <1>2, <1>3, <1>7 DEF Edge, GoesOn, Reads
    <2>4. sess'[req[r].sid].device = sess[req[r].sid].device
      BY <1>0, <1>4, <1>7, <2>1, DeletedRow DEF LoginStages
    <2>5. req[r].row.device = sess[req[r].sid].device
      BY <1>7 DEF Cleared
    <2> QED
      BY <1>3, <2>2, <2>3, <2>4, <2>5 DEF Cleared, OfDevice
  <1>8. CASE req[r].pc = "pending"
    <2>1. sess' = sess /\ req'[r].pc \in {"kill", "secret"}
      BY <1>3, <1>8, WhoWrites DEF Edge
    <2>2. req'[r].pc = "secret" => req'[r].row = sess[req[r].sid]
      BY <1>2, <1>8 DEF GoesOn, Reads, Kills
    <2> QED
      BY <1>3, <2>1, <2>2 DEF Cleared
  <1>9. CASE req[r].pc = "secret"
    <2>1. req[r].row.device = sess[req[r].sid].device /\ req[r].row.device # None
      BY <1>4, <1>9 DEF Cleared, LoginStages
    <2>2. sess' = sess /\ req'[r].pc = "dropOthers" /\ req'[r].row = req[r].row
      BY <1>2, <1>3, <1>9, <2>1, WhoWrites DEF Edge, GoesOn, Reads
    <2> QED
      BY <1>3, <2>1, <2>2 DEF Cleared
  <1>10. CASE req[r].pc = "session"
    <2>1. sess[req[r].sid].device # None
      BY <1>4, <1>10 DEF LoginStages
    <2>2. req'[r].pc # "bindDevice"
      BY <1>2, <1>10, <2>1 DEF GoesOn, Binds, Kills
    <2>3. req'[r].pc \in {"kill", "bindIp", "load"}
      BY <1>3, <1>10, <2>2 DEF Edge
    <2> QED
      BY <1>3, <2>3 DEF Cleared
  <1>11. CASE req[r].pc \in {"user", "bindIp", "load", "code", "target"}
    <2>1. req'[r].pc \in {"dropPending", "dropFull", "load", "setup", "code", "delete", "target", "enable"}
      BY <1>3, <1>11 DEF Edge
    <2> QED
      BY <1>3, <2>1 DEF Cleared
  <1>12. req[r].pc # "bindDevice"
    BY DEF Cleared
  <1> QED
    BY <1>3, <1>5, <1>6, <1>7, <1>8, <1>9, <1>10, <1>11, <1>12 DEF Edge

LEMMA UniqueStep ==
    ASSUME Safe, RowsUnique, NEW r \in Reqs, HandlerRuns(r), Cleared(req[r])
    PROVE  RowsUnique'
  <1> DEFINE Same(s, t) == sess[s].st = sess[t].st /\ sess[s].device = sess[t].device
  <1>0. sess \in [Sids -> Rows] /\ \A s, t \in Sids : Exists(s) /\ Same(s, t) => s = t
    BY DEF Safe, TypeOK, RowsUnique
  <1>1. SUFFICES ASSUME NEW s \in Sids, NEW t \in Sids, Exists(s)',
                        sess'[s].st = sess'[t].st, sess'[s].device = sess'[t].device
                 PROVE  s = t
    BY DEF RowsUnique
  <1>2. RowFate(r, s) /\ RowFate(r, t) /\ ~BindDevice(r)
    BY RowFates DEF BindDevice, At, Cleared
  <1>3. sess'[s].st \in {"full", "pending"}
    BY <1>1 DEF Exists
  <1>4. CASE InsertSession(r)
    <2> DEFINE st == IF At(r, "insertFull") THEN "full" ELSE "pending"
               row == [st |-> st, device |-> req[r].device, ip |-> req[r].ip, expired |-> FALSE]
    <2>1. CASE UNCHANGED sess
      BY <1>0, <1>1, <2>1 DEF Exists
    <2>2. CASE \E x \in Sids \ Issued : sess' = [sess EXCEPT ![x] = row]
      <3>1. PICK x \in Sids \ Issued : sess' = [sess EXCEPT ![x] = row]
        BY <2>2
      <3>2. row.st = st /\ row.device = req[r].device
        OBVIOUS
      <3>3. OfDevice(req[r].device, st) = {}
        BY <1>4 DEF InsertSession, At, Cleared
      <3> HIDE DEF row, st
      <3>4. /\ \A y \in Sids \ {x} : sess'[y] = sess[y]
            /\ sess'[x].st = st /\ sess'[x].device = req[r].device
        BY <1>0, <3>1, <3>2
      <3>5. \A y \in Sids \ {x} : ~(sess'[y].st = st /\ sess'[y].device = req[r].device)
        BY <3>3, <3>4 DEF OfDevice
      <3> QED
        BY <1>0, <1>1, <3>4, <3>5 DEF Exists
    <2> QED
      BY <1>4, <2>1, <2>2 DEF InsertSession
  <1>5. CASE Promote(r)
    <2>1. /\ OfDevice(req[r].row.device, "full") \subseteq {req[r].sid}
          /\ req[r].row.device = sess[req[r].sid].device
      BY <1>5 DEF Promote, At, Cleared
    <2>2. ASSUME NEW x \in Sids
          PROVE  \/ sess'[x] = sess[x]
                 \/ x = req[r].sid /\ Exists(x) /\ sess'[x].device = sess[x].device /\ sess'[x].st = "full"
      <3>1. ~InsertSession(r)
        BY <1>5 DEF Promote, InsertSession, At
      <3>2. x # req[r].sid => sess'[x] = sess[x]
        BY <1>0, <1>5 DEF Promote
      <3>3. ~Exists(req[r].sid) => sess' = sess
        BY <1>5 DEF Promote
      <3>4. x = req[r].sid /\ Exists(x) => sess'[x].device = sess[x].device /\ sess'[x].st = "full"
        BY <1>0, <1>5 DEF Promote, Rows
      <3> QED
        BY <3>2, <3>3, <3>4
    <2>3. ASSUME NEW x \in Sids, NEW y \in Sids, x = req[r].sid, y # x,
                 sess'[y].st = "full", sess'[y].device = sess[x].device
          PROVE  FALSE
      BY <2>1, <2>2, <2>3 DEF OfDevice
    <2> QED
      BY <1>0, <1>1, <1>3, <2>2, <2>3 DEF Exists
  <1>6. CASE ~InsertSession(r) /\ ~Promote(r)
    <2>1. Exists(s) /\ sess'[s].st = sess[s].st /\ sess'[s].device = sess[s].device
      BY <1>2, <1>3, <1>6 DEF RowFate, Exists
    <2>2. sess'[t].st = sess[t].st /\ sess'[t].device = sess[t].device
      BY <1>1, <1>2, <1>3, <1>6 DEF RowFate, Exists
    <2> QED
      BY <1>0, <1>1, <2>1, <2>2
  <1> QED
    BY <1>4, <1>5, <1>6

LEMMA KnownStep ==
    ASSUME Safe, DevicesKnown, NEW r \in Reqs, HandlerRuns(r), Cleared(req[r])
    PROVE  DevicesKnown'
  <1> SUFFICES ASSUME NEW s \in Sids, s \in Issued' PROVE sess'[s].device # None
    BY DEF DevicesKnown, Issued
  <1>1. RowFate(r, s) /\ ~BindDevice(r)
    BY RowFates DEF BindDevice, At, Cleared
  <1>2. CASE InsertSession(r) /\ sess'[s].device = req[r].device
    BY <1>2 DEF InsertSession, At, Cleared
  <1>3. CASE sess'[s].device = sess[s].device /\ s \in Issued
    BY <1>3 DEF DevicesKnown
  <1>4. \/ sess'[s].device = sess[s].device /\ s \in Issued
        \/ InsertSession(r) /\ sess'[s].device = req[r].device
    BY <1>1 DEF RowFate, Issued, Exists
  <1> QED
    BY <1>2, <1>3, <1>4

LEMMA KindStep == ASSUME Safe, AloneInv, SidIssued, KindInv, [FNext]_fvars PROVE KindInv'
  <1>0. RequestsOK
    BY DEF Safe
  <1>1. ASSUME NEW r \in Reqs, Call(r), Noted(r) PROVE KindInv'
    <2>1. /\ req'[r].pc \in {"user", "pending", "session"}
          /\ UNCHANGED sess /\ \A x \in Reqs \ {r} : req'[x] = req[x]
      BY <1>0, <1>1, CallTakes
    <2>2. Named' => Named /\ req'[r].device # None
      BY <1>1 DEF Noted, Named, Serially
    <2>3. Named' => Cleared(req[r])'
      BY <2>1, <2>2 DEF Cleared
    <2>4. ASSUME NEW x \in Reqs \ {r}, Cleared(req[x]) PROVE Cleared(req[x])'
      BY <2>1, <2>4 DEF Cleared, OfDevice
    <2>5. DevicesKnown /\ RowsUnique => DevicesKnown' /\ RowsUnique'
      BY <2>1 DEF DevicesKnown, RowsUnique, Issued, Exists
    <2> QED
      BY <2>2, <2>3, <2>4, <2>5 DEF KindInv
  <1>2. ASSUME NEW r \in Reqs, HandlerRuns(r), past' = past, Named PROVE KindInv'
    <2>1. Moves(r) /\ DevicesKnown /\ RowsUnique /\ Cleared(req[r]) /\ Serially
      BY <1>2, RequestMoves DEF KindInv, Named
    <2>2. ASSUME NEW x \in Reqs PROVE Cleared(req[x])'
      <3>1. CASE x = r
        BY <1>2, <2>1, <3>1, ClearedStep
      <3>2. CASE x # r
        <4>1. At(x, "idle") /\ req'[x] = req[x]
          BY <2>1, <3>2, OthersIdle DEF Moves
        <4> QED
          BY <4>1 DEF Cleared, At
      <3> QED
        BY <3>1, <3>2
    <2> QED
      BY <1>2, <2>1, <2>2, KnownStep, UniqueStep DEF KindInv
  <1>3. ASSUME NEW r \in Reqs, Abandon(r), past' = past \cup {"torn"} PROVE KindInv'
    <2>1. UNCHANGED sess /\ req'[r] = Idle /\ \A x \in Reqs \ {r} : req'[x] = req[x]
      BY <1>0, <1>3, AbandonLeaves
    <2>2. Cleared(req[r])'
      BY <2>1, IdleFacts DEF Cleared
    <2>3. ASSUME NEW x \in Reqs \ {r}, Cleared(req[x]) PROVE Cleared(req[x])'
      BY <2>1, <2>3 DEF Cleared, OfDevice
    <2>4. DevicesKnown /\ RowsUnique => DevicesKnown' /\ RowsUnique'
      BY <2>1 DEF DevicesKnown, RowsUnique, Issued, Exists
    <2> QED
      BY <1>3, <2>2, <2>3, <2>4 DEF KindInv, Named, Serially
  <1>4. ASSUME NEW s \in Sids, Expire(s), past' = past PROVE KindInv'
    <2>1. UNCHANGED req /\ \A x \in Sids : sess'[x].st = sess[x].st /\ sess'[x].device = sess[x].device
      BY <1>4, ExpiredRow DEF Expire
    <2>2. ASSUME NEW x \in Reqs, Cleared(req[x]) PROVE Cleared(req[x])'
      <3>1. req[x].pc \in {"secret", "dropOthers", "promote"} => req[x].sid \in Sids
        BY DEF SidIssued, LoginStages, Issued
      <3>2. \A d, st : OfDevice(d, st)' = OfDevice(d, st)
        BY <2>1 DEF OfDevice
      <3> QED
        BY <2>1, <2>2, <3>1, <3>2 DEF Cleared
    <2>3. DevicesKnown /\ RowsUnique => DevicesKnown' /\ RowsUnique'
      BY <2>1 DEF DevicesKnown, RowsUnique, Issued, Exists
    <2> QED
      BY <1>4, <2>2, <2>3 DEF KindInv, Named, Serially
  <1>5. CASE UNCHANGED fvars
    <2>1. UNCHANGED <<sess, req, past>>
      BY <1>5 DEF fvars, vars
    <2> QED
      BY <2>1 DEF KindInv, DevicesKnown, RowsUnique, Cleared, OfDevice, Issued, Exists, Named, Serially
  <1>6. ASSUME NEW r \in Reqs, HandlerRuns(r), past' = past, ~Named PROVE KindInv'
    BY <1>6 DEF KindInv, Named, Serially
  <1> QED
    BY <1>1, <1>2, <1>3, <1>4, <1>5, <1>6 DEF FNext

LEMMA KindInit == FInit => KindInv
  <1> SUFFICES ASSUME FInit PROVE KindInv
    OBVIOUS
  <1>1. \A s \in Sids : sess[s].st = "unused"
    BY DEF FInit, Init, NoRow
  <1>2. \A r \in Reqs : req[r].pc = "idle"
    BY IdleFacts DEF FInit, Init
  <1> QED
    BY <1>1, <1>2, IdleCleared DEF KindInv, DevicesKnown, RowsUnique, Issued, Exists

LEMMA KindHolds == ASSUME KindInv PROVE OneOfAKindPerDeviceSerially
  <1> SUFFICES ASSUME Named, NEW d \in Devices, NEW st \in {"full", "pending"}
               PROVE  Cardinality(OfDevice(d, st)) <= 1
    BY DEF OneOfAKindPerDeviceSerially, OneOfAKindPerDevice, Named
  <1>1. \A s, t \in OfDevice(d, st) : s = t
    BY DEF KindInv, RowsUnique, OfDevice, Exists
  <1> QED
    BY <1>1, AtMostOne

\* With requests one at a time, from clients that send their device, whatever is cut
\* short, a device never has two full sessions or two pending ones.
THEOREM OneOfAKindHolds == FSpec => []OneOfAKindPerDeviceSerially
  <1>1. FInit => AloneInv /\ SidIssued /\ KindInv
    BY AloneInit, SidInit, KindInit
  <1>2. Safe /\ AloneInv /\ SidIssued /\ KindInv /\ [FNext]_fvars => AloneInv' /\ SidIssued' /\ KindInv'
    BY AloneStep, SidStep, KindStep
  <1>3. KindInv => OneOfAKindPerDeviceSerially
    BY KindHolds
  <1> QED
    BY <1>1, <1>2, <1>3, FSafe, PTL DEF FSpec
=============================================================================
