------------------------- MODULE ClientSessionProofs -------------------------
(***************************************************************************)
(* The session of the client is what it shows, saves and ends, for all     *)
(* values of the constants.                                                *)
(*                                                                         *)
(* None of the properties is inductive: what an answer does depends on     *)
(* what was asked, with which token, and on what the server held when it   *)
(* answered.  The invariant says of every request what its token was       *)
(* (AskedAs) and of every answer what it grants or refuses (AnsweredAs),   *)
(* in terms that later steps of the server keep: a session keeps its       *)
(* account, a full one stays full, a dead one stays dead (Kept).           *)
(* SecretOK adds the secret of the second factor: where it is stored, in   *)
(* the one answer that carries it, and on the screen.                      *)
(***************************************************************************)
EXTENDS ClientSession, TLAPS

USE DEF NoToken, Blank

-----------------------------------------------------------------------------
(* The invariant. *)

Account(t) == tokens[t].acct
Inside == {"Verify", "TwoFaSetup", "Chat"}
SessionKinds == {"verify", "setup", "enable"} \union ChatKinds

TokenRecords == [acct: Accounts, full: BOOLEAN, live: BOOLEAN]

TokensOK ==
  /\ tokens \in Seq(TokenRecords)
  /\ \A t \in DOMAIN tokens: Account(t) \in exists
  /\ exists \subseteq Accounts /\ enrolled \subseteq exists

(* The token in use is of a full session; a second factor is asked of who has one. *)
HeldOK ==
  /\ token \in Blank..Len(tokens) /\ {pending, file} \subseteq 0..Len(tokens)
  /\ token > NoToken => tokens[token].full
  /\ pending > NoToken /\ ~muddled => Account(pending) \in enrolled

IsRequest(q) ==
  q \in [n: {q.n}, kind: Kinds, acct: {q.acct}, tok: {q.tok},
         with: Blank..Len(tokens), shown: {q.shown}, result: Results,
         got: Blank..Len(tokens), user: Users]

(* What a request is, by its kind. *)
AskedAs(q) ==
  /\ q.kind = "login" => q.acct \in exists
  /\ q.kind = "register" => q.acct \in Accounts
  /\ q.kind = "restore" => q.tok = NoToken
  /\ q.kind = "twofa" /\ q.with > NoToken /\ ~muddled => Account(q.with) \in enrolled
  /\ q.kind \in SessionKinds =>
       q.with = q.tok /\ (q.with > NoToken => tokens[q.with].full)

(* What an answer means: the session it begins, the user it tells of, and that a refusal is
   of a dead session or of the limit on codes. *)
AnsweredAs(q) ==
  /\ q.kind \in {"login", "register", "twofa", "restore"} /\ q.result = "ok" =>
       \/ q.got > NoToken /\ tokens[q.got].full /\ q.user.acct = Account(q.got)
       \/ q.got = Blank /\ q.user = Nobody /\ q.kind # "restore"
  /\ q.kind \in {"login", "register"} /\ q.result = "ok" => ~q.user.enrolled
  /\ q.kind \in {"twofa", "restore"} /\ q.result = "ok" /\ ~muddled =>
       q.got = Blank \/ Account(q.got) \in enrolled
  /\ q.kind = "restore" /\ q.result = "ok" => q.got = q.with
  /\ q.result = "needs2fa" => q.got > NoToken /\ (~muddled => Account(q.got) \in enrolled)
  /\ q.kind \in {"verify", "enable"} /\ q.result = "ok" =>
       /\ q.with > NoToken /\ q.user.acct = Account(q.with)
       /\ q.user.enrolled /\ ~muddled => Account(q.with) \in enrolled
  /\ q.kind = "enable" /\ q.result = "ok" => q.user.enrolled
  /\ q.kind \in SessionKinds /\ q.result = "unauthorized" =>
       ~(q.with > NoToken) \/ q.with \in throttled \/ ~tokens[q.with].live

RequestOK(q) == IsRequest(q) /\ AskedAs(q) /\ AnsweredAs(q)
RequestsOK == \A q \in reqs: RequestOK(q)

(* The screens behind the sign-in are of a session, whose user is shown, or of an answer
   that could not be read. *)
ScreenOK ==
  ~late =>
    /\ screen \in Inside => token # NoToken
    /\ token > NoToken => user.acct = Account(token)
    /\ token = NoToken => user = NoUser
    /\ token = Blank => user = Nobody /\ screen # "TwoFaSetup"
    /\ screen = "Chat" /\ ~muddled => token = Blank \/ Account(token) \in enrolled

(* The file is of the session in use or, with none in use, of the one being restored. *)
FileOK ==
  ~late /\ ~forgot /\ file # NoToken =>
    /\ token # NoToken => file = token
    /\ token = NoToken => \A q \in reqs: q.kind = "restore" => q.with = file

(* The voice manager in use knows of the call. *)
CallOK ==
  /\ ~hungOn => call \in {NoToken, voice}
  /\ ~hungOn /\ ~late /\ token = NoToken => call = NoToken

(* The worker reports as expired what is dead. *)
PostedOK ==
  \A m \in posted:
    /\ m.tok = Blank \/ m.tok \in DOMAIN tokens
    /\ m.kind = "expired" => late \/ muddled \/ m.tok = Blank \/ ~tokens[m.tok].live

Flags == {late, forgot, muddled, hungOn} \subseteq BOOLEAN

Inv == TokensOK /\ HeldOK /\ RequestsOK /\ ScreenOK /\ FileOK /\ CallOK /\ PostedOK /\ Flags
-----------------------------------------------------------------------------
(* Requests and answers. *)

LEMMA FreshFields ==
  ASSUME NEW kind, NEW a, NEW tok, NEW with, NEW r, r = RequestOf(kind, a, tok, with)
  PROVE  r \in [n: {r.n}, kind: {kind}, acct: {a}, tok: {tok}, with: {with},
                shown: {r.shown}, result: {"none"}, got: {NoToken}, user: {NoUser}]
BY DEF RequestOf

(* What may become of the server's state while the client runs. *)
TokensLast ==
  \A t \in DOMAIN tokens:
    /\ tokens'[t].acct = tokens[t].acct
    /\ tokens[t].full => tokens'[t].full
    /\ ~tokens[t].live => ~tokens'[t].live

Kept ==
  /\ Len(tokens') >= Len(tokens) /\ TokensLast
  /\ exists \subseteq exists' /\ throttled \subseteq throttled'
  /\ ~muddled' => ~muddled /\ enrolled \subseteq enrolled'
  /\ late => late'

LEMMA RequestKept ==
  ASSUME TokensOK, TokensOK', Kept, NEW q, RequestOK(q)
  PROVE  RequestOK(q)'
<1>1. DOMAIN tokens = 1..Len(tokens) /\ DOMAIN tokens' = 1..Len(tokens')
      /\ Len(tokens) \in Nat /\ Len(tokens') \in Nat
  BY DEF TokensOK
<1>2. IsRequest(q)'
  BY <1>1 DEF RequestOK, IsRequest, Kept
<1>3. q.with \in Blank..Len(tokens) /\ q.got \in Blank..Len(tokens)
  BY DEF RequestOK, IsRequest
<1>4. AskedAs(q)'
  BY <1>1, <1>3 DEF RequestOK, AskedAs, Kept, TokensLast, Account, NoToken
<1>5. AnsweredAs(q)'
  BY <1>1, <1>3 DEF RequestOK, AnsweredAs, Kept, TokensLast, Account, NoToken
<1> QED  BY <1>2, <1>4, <1>5 DEF RequestOK

(* Requests of a session, as the client makes them. *)
LEMMA FreshRequest ==
  ASSUME TokensOK', NEW kind \in SessionKinds, NEW a, NEW tok \in Blank..Len(tokens'),
         tok > NoToken => tokens'[tok].full,
         NEW r, r = RequestOf(kind, a, tok, tok)
  PROVE  RequestOK(r)'
<1>1. r \in [n: {r.n}, kind: {kind}, acct: {a}, tok: {tok}, with: {tok},
             shown: {r.shown}, result: {"none"}, got: {NoToken}, user: {NoUser}]
  BY FreshFields
<1>2. Len(tokens') \in Nat  BY DEF TokensOK
<1>3. kind \in Kinds /\ NoUser \in Users /\ "none" \in Results
  BY DEF SessionKinds, ChatKinds, Commands, Kinds, AuthKinds, Results, Users, NoUser
<1>4. IsRequest(r)'
  BY <1>1, <1>2, <1>3 DEF IsRequest, NoToken
<1>5. AskedAs(r)' /\ AnsweredAs(r)'
  BY <1>1 DEF AskedAs, AnsweredAs, SessionKinds, ChatKinds, Commands
<1> QED  BY <1>4, <1>5 DEF RequestOK

-----------------------------------------------------------------------------
(* The server. *)

LEMMA MappedSessions ==
  ASSUME NEW s \in Seq(TokenRecords), NEW f \in [DOMAIN s -> TokenRecords]
  PROVE  /\ f \in Seq(TokenRecords) /\ Len(f) = Len(s)
         /\ Len(s) \in Nat /\ DOMAIN s = 1..Len(s)
OBVIOUS

LEMMA AppendSession ==
  ASSUME NEW s \in Seq(TokenRecords), NEW f \in [DOMAIN s -> TokenRecords],
         NEW r \in TokenRecords
  PROVE  /\ Append(f, r) \in Seq(TokenRecords)
         /\ Len(Append(f, r)) = Len(s) + 1
         /\ Append(f, r)[Len(s) + 1] = r
         /\ \A t \in DOMAIN s: Append(f, r)[t] = f[t]
<1>1. f \in Seq(TokenRecords) /\ Len(f) = Len(s)
  OBVIOUS
<1> QED  BY <1>1

LEMMA CreateSessionKeeps ==
  ASSUME TokensOK, NEW a \in Accounts, CreateSession(a)
  PROVE  /\ tokens' \in Seq(TokenRecords) /\ Len(tokens') = Len(tokens) + 1
         /\ tokens'[Len(tokens) + 1] = [acct |-> a, full |-> TRUE, live |-> TRUE]
         /\ TokensLast
<1> DEFINE f == [t \in DOMAIN tokens |->
                   IF tokens[t].acct = a /\ tokens[t].full
                   THEN [tokens[t] EXCEPT !.live = FALSE] ELSE tokens[t]]
           r == [acct |-> a, full |-> TRUE, live |-> TRUE]
<1>1. tokens \in Seq(TokenRecords) /\ r \in TokenRecords
  BY DEF TokensOK, TokenRecords
<1>2. \A t \in DOMAIN tokens: tokens[t] \in TokenRecords
  BY <1>1
<1>3. f \in [DOMAIN tokens -> TokenRecords]
  BY <1>2 DEF TokenRecords
<1>4. tokens' = Append(f, r)
  BY DEF CreateSession
<1>5. \A t \in DOMAIN tokens: /\ f[t].acct = tokens[t].acct
                              /\ tokens[t].full => f[t].full
                              /\ ~tokens[t].live => ~f[t].live
  BY <1>2 DEF TokenRecords
<1> HIDE DEF f, r
<1>6. r = [acct |-> a, full |-> TRUE, live |-> TRUE]  BY DEF r
<1> QED  BY <1>1, <1>3, <1>4, <1>5, <1>6, AppendSession DEF TokensLast

LEMMA CreatePendingKeeps ==
  ASSUME TokensOK, NEW a \in Accounts, CreatePending(a)
  PROVE  /\ tokens' \in Seq(TokenRecords) /\ Len(tokens') = Len(tokens) + 1
         /\ tokens'[Len(tokens) + 1] = [acct |-> a, full |-> FALSE, live |-> TRUE]
         /\ TokensLast
<1> DEFINE f == [t \in DOMAIN tokens |->
                   IF tokens[t].acct = a /\ ~tokens[t].full
                   THEN [tokens[t] EXCEPT !.live = FALSE] ELSE tokens[t]]
           r == [acct |-> a, full |-> FALSE, live |-> TRUE]
<1>1. tokens \in Seq(TokenRecords) /\ r \in TokenRecords
  BY DEF TokensOK, TokenRecords
<1>2. \A t \in DOMAIN tokens: tokens[t] \in TokenRecords
  BY <1>1
<1>3. f \in [DOMAIN tokens -> TokenRecords]
  BY <1>2 DEF TokenRecords
<1>4. tokens' = Append(f, r)
  BY DEF CreatePending
<1>5. \A t \in DOMAIN tokens: /\ f[t].acct = tokens[t].acct
                              /\ tokens[t].full => f[t].full
                              /\ ~tokens[t].live => ~f[t].live
  BY <1>2 DEF TokenRecords
<1> HIDE DEF f, r
<1>6. r = [acct |-> a, full |-> FALSE, live |-> TRUE]  BY DEF r
<1> QED  BY <1>1, <1>3, <1>4, <1>5, <1>6, AppendSession DEF TokensLast

(* Nobody asks to restore another session than was asked before. *)
RestoresKept ==
  \A p \in reqs': p.kind = "restore" => \E q \in reqs: q.kind = "restore" /\ q.with = p.with

ServerKeeps == TokensOK' /\ Kept /\ RequestsOK' /\ RestoresKept

LEMMA Replied ==
  ASSUME TokensOK, TokensOK', Kept, RequestsOK,
         NEW q \in reqs, NEW r, RequestOK(r)', r.kind = q.kind, r.with = q.with,
         reqs' = (reqs \ {q}) \union {r}
  PROVE  ServerKeeps
<1>1. RequestsOK'
  BY RequestKept DEF RequestsOK
<1>2. RestoresKept
  BY DEF RestoresKept
<1> QED  BY <1>1, <1>2 DEF ServerKeeps

LEMMA RequestFields ==
  ASSUME NEW q, IsRequest(q)
  PROVE  q \in [n: {q.n}, kind: Kinds, acct: {q.acct}, tok: {q.tok},
                with: Blank..Len(tokens), shown: {q.shown}, result: Results,
                got: Blank..Len(tokens), user: Users]
BY DEF IsRequest

(* A new session or a new attempt at the second factor, by a sign-in or a registration. *)
LEMMA SessionsGrow ==
  ASSUME TokensOK, NEW a \in exists', CreateSession(a) \/ CreatePending(a),
         exists \subseteq exists', exists' \subseteq Accounts,
         UNCHANGED <<enrolled, throttled, muddled, late>>
  PROVE  TokensOK' /\ Kept
<1>1. a \in Accounts  OBVIOUS
<1>2. /\ tokens' \in Seq(TokenRecords) /\ Len(tokens') = Len(tokens) + 1
      /\ tokens'[Len(tokens) + 1].acct = a
      /\ TokensLast
  <2>1. CASE CreateSession(a)
    <3>1. tokens'[Len(tokens) + 1] = [acct |-> a, full |-> TRUE, live |-> TRUE]
      BY <1>1, <2>1, CreateSessionKeeps
    <3>2. tokens'[Len(tokens) + 1].acct = a
      BY <3>1
    <3> QED  BY <1>1, <2>1, <3>2, CreateSessionKeeps
  <2>2. CASE CreatePending(a)
    <3>1. tokens'[Len(tokens) + 1] = [acct |-> a, full |-> FALSE, live |-> TRUE]
      BY <1>1, <2>2, CreatePendingKeeps
    <3>2. tokens'[Len(tokens) + 1].acct = a
      BY <3>1
    <3> QED  BY <1>1, <2>2, <3>2, CreatePendingKeeps
  <2> QED  BY <2>1, <2>2
<1>3. Len(tokens) \in Nat /\ DOMAIN tokens = 1..Len(tokens)
      /\ DOMAIN tokens' = 1..(Len(tokens) + 1)
  BY <1>2 DEF TokensOK
<1>4. TokensOK'
  BY <1>2, <1>3 DEF TokensOK, Account, TokensLast
<1>5. Kept
  BY <1>2, <1>3 DEF Kept
<1> QED  BY <1>4, <1>5

LEMMA UserFields ==
  ASSUME NEW a \in Accounts
  PROVE  /\ UserOf(a) \in Users /\ UserOf(a).acct = a
         /\ UserOf(a).enrolled <=> a \in enrolled
<1>1. (a \in verified) \in BOOLEAN /\ (a \in enrolled) \in BOOLEAN
  OBVIOUS
<1> QED  BY <1>1 DEF UserOf, Users

LEMMA LoginStep ==
  ASSUME TokensOK, RequestsOK, NEW q \in reqs, Login(q)
  PROVE  ServerKeeps
<1>1. /\ q.kind = "login" /\ RequestOK(q) /\ q.acct \in exists /\ q.acct \in Accounts
      /\ UNCHANGED <<exists, enrolled, throttled, muddled, late>>
  BY DEF Login, Served, RequestsOK, RequestOK, AskedAs, TokensOK, Unaffected
<1>2. CreateSession(q.acct) \/ CreatePending(q.acct)
  BY DEF Login
<1>3. TokensOK' /\ Kept
  BY <1>1, <1>2, SessionsGrow DEF TokensOK
<1>4. Len(tokens) \in Nat
  BY DEF TokensOK
<1>5. CASE q.acct \in enrolled
  <2>1. PICK r: r = [Refused(q, "needs2fa") EXCEPT !.got = Len(tokens) + 1]
    OBVIOUS
  <2>2. r \in [n: {r.n}, kind: {"login"}, acct: {q.acct}, tok: {q.tok}, with: {q.with},
               shown: {r.shown}, result: {"needs2fa"}, got: {Len(tokens) + 1}, user: {q.user}]
    BY <1>1, <2>1 DEF RequestOK, IsRequest, Refused
  <2>3. /\ Len(tokens') = Len(tokens) + 1
        /\ tokens'[Len(tokens) + 1] = [acct |-> q.acct, full |-> FALSE, live |-> TRUE]
    BY <1>1, <1>5, CreatePendingKeeps DEF Login
  <2>4. IsRequest(r)'
    BY <1>1, <1>4, <2>2, <2>3 DEF RequestOK, IsRequest, Kinds, Results, AuthKinds
  <2>5. AskedAs(r)' /\ AnsweredAs(r)'
    BY <1>1, <1>4, <1>5, <2>2, <2>3
    DEF AskedAs, AnsweredAs, SessionKinds, ChatKinds, Commands, Account, NoToken
  <2>6. reqs' = (reqs \ {q}) \union {r}
    BY <1>5, <2>1 DEF Login, Reply
  <2> QED  BY <1>1, <1>3, <2>2, <2>4, <2>5, <2>6, Replied DEF RequestOK
<1>6. CASE q.acct \notin enrolled
  <2>1. PICK r: r = Granted(q, Len(tokens) + 1, q.acct)
    OBVIOUS
  <2>2. r \in [n: {r.n}, kind: {"login"}, acct: {q.acct}, tok: {q.tok}, with: {q.with},
               shown: {r.shown}, result: {"ok"}, got: {Len(tokens) + 1}, user: {UserOf(q.acct)}]
    BY <1>1, <2>1 DEF RequestOK, IsRequest, Granted
  <2>3. /\ Len(tokens') = Len(tokens) + 1
        /\ tokens'[Len(tokens) + 1] = [acct |-> q.acct, full |-> TRUE, live |-> TRUE]
    BY <1>1, <1>6, CreateSessionKeeps DEF Login
  <2>4. /\ UserOf(q.acct) \in Users /\ UserOf(q.acct).acct = q.acct
        /\ ~UserOf(q.acct).enrolled
    BY <1>1, <1>6, UserFields
  <2>5. IsRequest(r)'
    BY <1>1, <1>4, <2>2, <2>3, <2>4 DEF RequestOK, IsRequest, Kinds, Results, AuthKinds
  <2>6. AskedAs(r)' /\ AnsweredAs(r)'
    BY <1>1, <1>4, <1>6, <2>2, <2>3, <2>4
    DEF AskedAs, AnsweredAs, SessionKinds, ChatKinds, Commands, Account, NoToken
  <2>7. reqs' = (reqs \ {q}) \union {r}
    BY <1>6, <2>1 DEF Login, Reply
  <2> QED  BY <1>1, <1>3, <2>2, <2>5, <2>6, <2>7, Replied DEF RequestOK
<1> QED  BY <1>5, <1>6

LEMMA SessionsStay ==
  ASSUME TokensOK, UNCHANGED <<tokens, exists>>, enrolled' \subseteq exists,
         throttled \subseteq throttled', ~muddled' => ~muddled /\ enrolled \subseteq enrolled',
         late => late'
  PROVE  TokensOK' /\ Kept
<1>1. TokensOK'
  BY DEF TokensOK, Account
<1>2. Len(tokens) \in Nat
  BY DEF TokensOK
<1>3. Kept
  BY <1>2 DEF Kept, TokensLast
<1> QED  BY <1>1, <1>3

LEMMA RefusedReply ==
  ASSUME TokensOK', NEW q, RequestOK(q)', NEW result \in {"failed", "unauthorized"},
         NEW r, r = Refused(q, result),
         result = "unauthorized" /\ q.kind \in SessionKinds =>
           ~(q.with > NoToken) \/ q.with \in throttled' \/ ~tokens'[q.with].live
  PROVE  RequestOK(r)' /\ r.kind = q.kind /\ r.with = q.with
<1>1. r \in [n: {r.n}, kind: {q.kind}, acct: {q.acct}, tok: {q.tok}, with: {q.with},
             shown: {r.shown}, result: {result}, got: {q.got}, user: {q.user}]
  BY DEF RequestOK, IsRequest, Refused
<1>2. IsRequest(r)'
  BY <1>1 DEF RequestOK, IsRequest, Results
<1>3. AskedAs(r)'
  BY <1>1 DEF RequestOK, AskedAs
<1>4. AnsweredAs(r)'
  BY <1>1 DEF AnsweredAs
<1> QED  BY <1>1, <1>2, <1>3, <1>4 DEF RequestOK

LEMMA RefusedStep ==
  ASSUME TokensOK, RequestsOK, TokensOK', Kept, NEW q \in reqs,
         NEW result \in {"failed", "unauthorized"}, Reply(q, Refused(q, result)),
         result = "unauthorized" /\ q.kind \in SessionKinds =>
           ~(q.with > NoToken) \/ q.with \in throttled' \/ ~tokens'[q.with].live
  PROVE  ServerKeeps
<1>1. PICK r: r = Refused(q, result)
  OBVIOUS
<1>2. RequestOK(q)'
  BY RequestKept DEF RequestsOK
<1>3. RequestOK(r)' /\ r.kind = q.kind /\ r.with = q.with
  BY <1>1, <1>2, RefusedReply
<1>4. reqs' = (reqs \ {q}) \union {r}
  BY <1>1 DEF Reply
<1> QED  BY <1>3, <1>4, Replied

LEMMA ThrottleStep ==
  ASSUME TokensOK, RequestsOK, NEW q \in reqs, Throttle(q)
  PROVE  ServerKeeps
<1>1. TokensOK' /\ Kept
  BY SessionsStay DEF Throttle, server, TokensOK
<1>2. q.with \in throttled' /\ Reply(q, Refused(q, "unauthorized"))
  BY DEF Throttle
<1> QED  BY <1>1, <1>2, RefusedStep

LEMMA FailStep ==
  ASSUME TokensOK, RequestsOK, NEW q \in reqs, Fail(q)
  PROVE  ServerKeeps
<1>1. TokensOK' /\ Kept
  BY SessionsStay DEF Fail, server, history, TokensOK
<1>2. PICK r: r = [Refused(q, "failed") EXCEPT !.got = NoToken, !.user = NoUser]
  OBVIOUS
<1>3. RequestOK(q)'
  BY <1>1, RequestKept DEF RequestsOK
<1>4. r \in [n: {r.n}, kind: {q.kind}, acct: {q.acct}, tok: {q.tok}, with: {q.with},
             shown: {r.shown}, result: {"failed"}, got: {NoToken}, user: {NoUser}]
  BY <1>2, <1>3 DEF RequestOK, IsRequest, Refused
<1>5. NoUser \in Users /\ Len(tokens') \in Nat
  BY <1>1 DEF Users, NoUser, TokensOK
<1>6. IsRequest(r)'
  BY <1>3, <1>4, <1>5 DEF RequestOK, IsRequest, Results, NoToken
<1>7. AskedAs(r)'
  BY <1>3, <1>4 DEF RequestOK, AskedAs
<1>8. AnsweredAs(r)'
  BY <1>4 DEF AnsweredAs
<1>9. reqs' = (reqs \ {q}) \union {r}
  BY <1>2 DEF Fail, Reply
<1> QED  BY <1>1, <1>4, <1>6, <1>7, <1>8, <1>9, Replied DEF RequestOK

LEMMA UnreadableStep ==
  ASSUME TokensOK, RequestsOK, NEW q \in reqs, Unreadable(q)
  PROVE  ServerKeeps
<1>1. TokensOK' /\ Kept
  BY SessionsStay DEF Unreadable, server, history, TokensOK
<1>2. PICK r: r = [Refused(q, "ok") EXCEPT !.got = Blank, !.user = Nobody]
  OBVIOUS
<1>3. RequestOK(q)' /\ q.kind \in {"login", "register", "twofa"}
  BY <1>1, RequestKept DEF RequestsOK, Unreadable
<1>4. r \in [n: {r.n}, kind: {q.kind}, acct: {q.acct}, tok: {q.tok}, with: {q.with},
             shown: {r.shown}, result: {"ok"}, got: {Blank}, user: {Nobody}]
  BY <1>2, <1>3 DEF RequestOK, IsRequest, Refused
<1>5. Nobody \in Users /\ Len(tokens') \in Nat
  BY <1>1 DEF Users, Nobody, TokensOK
<1>6. IsRequest(r)'
  BY <1>3, <1>4, <1>5 DEF RequestOK, IsRequest, Results
<1>7. AskedAs(r)'
  BY <1>3, <1>4 DEF RequestOK, AskedAs
<1>8. AnsweredAs(r)'
  BY <1>3, <1>4 DEF AnsweredAs, Nobody, SessionKinds, ChatKinds, Commands
<1>9. reqs' = (reqs \ {q}) \union {r}
  BY <1>2 DEF Unreadable, Reply
<1> QED  BY <1>1, <1>4, <1>6, <1>7, <1>8, <1>9, Replied DEF RequestOK

LEMMA RevokeStep ==
  ASSUME TokensOK, RequestsOK, NEW t \in DOMAIN tokens, Revoke(t)
  PROVE  ServerKeeps
<1>1. /\ tokens' = [tokens EXCEPT ![t].live = FALSE]
      /\ UNCHANGED <<exists, enrolled, reqs, late, muddled, throttled>>
  BY DEF Revoke, history
<1>2. tokens' \in Seq(TokenRecords) /\ Len(tokens') = Len(tokens) /\ Len(tokens) \in Nat
      /\ DOMAIN tokens' = DOMAIN tokens
  <2>1. \A i \in DOMAIN tokens: tokens[i] \in TokenRecords
    BY DEF TokensOK
  <2>2. tokens' \in [DOMAIN tokens -> TokenRecords]
    BY <1>1, <2>1 DEF TokenRecords
  <2> QED  BY <2>2, MappedSessions DEF TokensOK
<1>3. TokensLast
  <2>1. \A i \in DOMAIN tokens: tokens[i] \in TokenRecords
    BY DEF TokensOK
  <2> QED  BY <1>1, <2>1 DEF TokensLast, TokenRecords
<1>4. TokensOK'
  BY <1>1, <1>2, <1>3 DEF TokensOK, TokensLast, Account
<1>5. Kept
  BY <1>1, <1>2, <1>3 DEF Kept
<1>6. RequestsOK'
  BY <1>1, <1>4, <1>5, RequestKept DEF RequestsOK
<1> QED  BY <1>1, <1>4, <1>5, <1>6 DEF ServerKeeps, RestoresKept

LEMMA RegisterStep ==
  ASSUME TokensOK, RequestsOK, NEW q \in reqs, Register(q)
  PROVE  ServerKeeps
<1>1. /\ q.kind = "register" /\ RequestOK(q) /\ q.acct \in Accounts
      /\ UNCHANGED <<enrolled, throttled, muddled, late>>
  BY DEF Register, Served, RequestsOK, RequestOK, AskedAs, Unaffected
<1>2. CASE q.acct \in exists
  <2>1. UNCHANGED <<exists, tokens>> /\ Reply(q, Refused(q, "failed"))
    BY <1>2 DEF Register
  <2>2. TokensOK' /\ Kept
    BY <1>1, <2>1, SessionsStay DEF TokensOK
  <2> QED  BY <2>1, <2>2, RefusedStep
<1>3. CASE q.acct \notin exists
  <2>1. exists' = exists \union {q.acct} /\ CreateSession(q.acct)
    BY <1>3 DEF Register
  <2>2. TokensOK' /\ Kept
    BY <1>1, <2>1, SessionsGrow DEF TokensOK
  <2>3. PICK r: r = [Granted(q, Len(tokens) + 1, q.acct) EXCEPT !.user.verified = ~VerifyEmails]
    OBVIOUS
  <2>4. PICK u: u = [UserOf(q.acct) EXCEPT !.verified = ~VerifyEmails]
    OBVIOUS
  <2>5. u \in Users /\ u.acct = q.acct /\ ~u.enrolled
    <3>1. q.acct \notin enrolled
      BY <1>3 DEF TokensOK
    <3> QED  BY <1>1, <2>4, <3>1, UserFields, SessionAssumption DEF Users
  <2>6. r \in [n: {r.n}, kind: {"register"}, acct: {q.acct}, tok: {q.tok}, with: {q.with},
               shown: {r.shown}, result: {"ok"}, got: {Len(tokens) + 1}, user: {u}]
    BY <1>1, <2>3, <2>4 DEF RequestOK, IsRequest, Granted
  <2>7. /\ Len(tokens') = Len(tokens) + 1 /\ Len(tokens) \in Nat
        /\ tokens'[Len(tokens) + 1] = [acct |-> q.acct, full |-> TRUE, live |-> TRUE]
    BY <1>1, <2>1, CreateSessionKeeps DEF TokensOK
  <2>8. IsRequest(r)'
    BY <1>1, <2>5, <2>6, <2>7 DEF RequestOK, IsRequest, Kinds, Results, AuthKinds
  <2>9. AskedAs(r)' /\ AnsweredAs(r)'
    BY <1>1, <2>5, <2>6, <2>7
    DEF AskedAs, AnsweredAs, SessionKinds, ChatKinds, Commands, Account, NoToken
  <2>10. reqs' = (reqs \ {q}) \union {r}
    BY <1>3, <2>3 DEF Register, Reply
  <2> QED  BY <1>1, <2>2, <2>6, <2>8, <2>9, <2>10, Replied DEF RequestOK
<1> QED  BY <1>2, <1>3

LEMMA Login2faStep ==
  ASSUME TokensOK, RequestsOK, NEW q \in reqs, Login2fa(q)
  PROVE  ServerKeeps
<1>1. /\ q.kind = "twofa" /\ RequestOK(q)
      /\ UNCHANGED <<exists, enrolled, throttled, muddled, late>>
  BY DEF Login2fa, Served, RequestsOK, RequestOK, Unaffected
<1>2. CASE q.with > NoToken /\ tokens[q.with].live /\ ~tokens[q.with].full
  <2>1. PICK a: a = tokens[q.with].acct
    OBVIOUS
  <2>2. tokens' = [t \in DOMAIN tokens |->
                    IF t = q.with THEN [tokens[t] EXCEPT !.full = TRUE]
                    ELSE IF tokens[t].acct = a /\ tokens[t].full
                         THEN [tokens[t] EXCEPT !.live = FALSE] ELSE tokens[t]]
    BY <1>2, <2>1 DEF Login2fa
  <2>3. \A i \in DOMAIN tokens: tokens[i] \in TokenRecords
    BY DEF TokensOK
  <2>4. tokens' \in [DOMAIN tokens -> TokenRecords]
    BY <2>2, <2>3 DEF TokenRecords
  <2>5. /\ tokens' \in Seq(TokenRecords) /\ Len(tokens') = Len(tokens) /\ Len(tokens) \in Nat
        /\ DOMAIN tokens = 1..Len(tokens)
    BY <2>4, MappedSessions DEF TokensOK
  <2>6. TokensLast
    BY <1>2, <2>2, <2>3 DEF TokensLast, TokenRecords
  <2>7. TokensOK'
    BY <1>1, <2>4, <2>5, <2>6 DEF TokensOK, TokensLast, Account
  <2>8. Kept
    BY <1>1, <2>5, <2>6 DEF Kept
  <2>9. q.with \in DOMAIN tokens
    BY <1>1, <1>2, <2>5 DEF RequestOK, IsRequest, NoToken
  <2>10. a \in Accounts /\ tokens'[q.with].full /\ tokens'[q.with].acct = a
    BY <2>1, <2>2, <2>3, <2>9 DEF TokenRecords
  <2>11. UserOf(a) \in Users /\ UserOf(a).acct = a
    BY <2>10, UserFields
  <2>12. PICK r: r = Granted(q, q.with, a)
    OBVIOUS
  <2>13. r \in [n: {r.n}, kind: {"twofa"}, acct: {q.acct}, tok: {q.tok}, with: {q.with},
                shown: {r.shown}, result: {"ok"}, got: {q.with}, user: {UserOf(a)}]
    BY <1>1, <2>12 DEF RequestOK, IsRequest, Granted
  <2>14. IsRequest(r)'
    BY <1>1, <2>5, <2>11, <2>13 DEF RequestOK, IsRequest, Kinds, Results, AuthKinds
  <2>15. ~muddled' => tokens'[q.with].acct \in enrolled'
    BY <1>1, <1>2, <2>1, <2>10 DEF RequestOK, AskedAs, Account
  <2>16. AskedAs(r)' /\ AnsweredAs(r)'
    BY <1>2, <2>10, <2>11, <2>13, <2>15
    DEF AskedAs, AnsweredAs, SessionKinds, ChatKinds, Commands, Account
  <2>17. reqs' = (reqs \ {q}) \union {r}
    BY <1>2, <2>1, <2>12 DEF Login2fa, Reply
  <2> QED  BY <1>1, <2>7, <2>8, <2>13, <2>14, <2>16, <2>17, Replied DEF RequestOK
<1>3. CASE ~(q.with > NoToken /\ tokens[q.with].live /\ ~tokens[q.with].full)
  <2>1. UNCHANGED tokens /\ Reply(q, Refused(q, "failed"))
    BY <1>3 DEF Login2fa
  <2>2. TokensOK' /\ Kept
    BY <1>1, <2>1, SessionsStay DEF TokensOK
  <2> QED  BY <2>1, <2>2, RefusedStep
<1> QED  BY <1>2, <1>3

(* What every answer that names its session's account has in common. *)
LEMMA SessionUser ==
  ASSUME TokensOK, NEW q, RequestOK(q), Live(q.with)
  PROVE  /\ q.with \in DOMAIN tokens /\ tokens[q.with].full /\ tokens[q.with].live
         /\ tokens[q.with].acct \in Accounts /\ tokens[q.with].acct \in exists
<1>1. q.with \in DOMAIN tokens
  BY DEF RequestOK, IsRequest, Live, NoToken, TokensOK
<1>2. tokens[q.with] \in TokenRecords
  BY <1>1 DEF TokensOK
<1> QED  BY <1>1, <1>2 DEF Live, TokenRecords, TokensOK, Account

LEMMA DeadSession ==
  ASSUME TokensOK, NEW q, RequestOK(q), ~Live(q.with), q.kind \in SessionKinds
  PROVE  ~(q.with > NoToken) \/ ~tokens[q.with].live
BY DEF Live, RequestOK, AskedAs

LEMMA VerifyStep ==
  ASSUME TokensOK, RequestsOK, NEW q \in reqs, Verify(q)
  PROVE  ServerKeeps
<1>1. /\ q.kind = "verify" /\ RequestOK(q)
      /\ UNCHANGED <<exists, enrolled, tokens, throttled, muddled, late>>
  BY DEF Verify, Served, RequestsOK, RequestOK, Unaffected
<1>2. TokensOK' /\ Kept
  BY <1>1, SessionsStay DEF TokensOK
<1>3. CASE Live(q.with)
  <2>1. PICK a: a = tokens[q.with].acct
    OBVIOUS
  <2>2. a \in Accounts /\ q.with > NoToken
    BY <1>1, <1>3, <2>1, SessionUser DEF Live
  <2>3. PICK u: u = [UserOf(a) EXCEPT !.verified = TRUE]
    OBVIOUS
  <2>4. u \in Users /\ u.acct = a /\ (u.enrolled => a \in enrolled)
    BY <2>2, <2>3, UserFields DEF Users
  <2>5. PICK r: r = [Granted(q, NoToken, a) EXCEPT !.user.verified = TRUE]
    OBVIOUS
  <2>6. r \in [n: {r.n}, kind: {"verify"}, acct: {q.acct}, tok: {q.tok}, with: {q.with},
               shown: {r.shown}, result: {"ok"}, got: {NoToken}, user: {u}]
    BY <1>1, <2>3, <2>5 DEF RequestOK, IsRequest, Granted
  <2>7. Len(tokens') \in Nat
    BY <1>2 DEF TokensOK
  <2>8. IsRequest(r)'
    BY <1>1, <2>4, <2>6, <2>7 DEF RequestOK, IsRequest, Results, NoToken
  <2>9. AskedAs(r)'
    BY <1>1, <2>6 DEF RequestOK, AskedAs
  <2>10. AnsweredAs(r)'
    BY <1>1, <2>1, <2>2, <2>4, <2>6 DEF AnsweredAs, Account
  <2>11. reqs' = (reqs \ {q}) \union {r}
    BY <1>3, <2>1, <2>5 DEF Verify, Reply
  <2> QED  BY <1>1, <1>2, <2>6, <2>8, <2>9, <2>10, <2>11, Replied DEF RequestOK
<1>4. CASE ~Live(q.with)
  <2>1. Reply(q, Refused(q, "failed"))
    BY <1>4 DEF Verify
  <2> QED  BY <1>2, <2>1, RefusedStep
<1> QED  BY <1>3, <1>4

LEMMA SetupStep ==
  ASSUME TokensOK, RequestsOK, NEW q \in reqs, Setup(q)
  PROVE  ServerKeeps
<1>1. /\ q.kind = "setup" /\ RequestOK(q)
      /\ UNCHANGED <<exists, tokens, throttled, late>>
  BY DEF Setup, Served, RequestsOK, RequestOK
<1>2. CASE Live(q.with)
  <2>1. PICK a: a = tokens[q.with].acct
    OBVIOUS
  <2>2. enrolled' = enrolled \ {a} /\ muddled' = (muddled \/ a \in enrolled)
    BY <1>2, <2>1 DEF Setup
  <2>3. TokensOK' /\ Kept
    BY <1>1, <2>2, SessionsStay DEF TokensOK
  <2>4. PICK r: r = [Refused(q, "ok") EXCEPT !.shown = [acct |-> a, n |-> secret[a] + 1]]
    OBVIOUS
  <2>5. r \in [n: {r.n}, kind: {"setup"}, acct: {q.acct}, tok: {q.tok}, with: {q.with},
               shown: {r.shown}, result: {"ok"}, got: {q.got}, user: {q.user}]
    BY <1>1, <2>4 DEF RequestOK, IsRequest, Refused
  <2>6. IsRequest(r)'
    BY <1>1, <2>5 DEF RequestOK, IsRequest, Results
  <2>7. AskedAs(r)'
    BY <1>1, <2>5 DEF RequestOK, AskedAs
  <2>8. AnsweredAs(r)'
    BY <2>5 DEF AnsweredAs
  <2>9. reqs' = (reqs \ {q}) \union {r}
    BY <1>2, <2>1, <2>4 DEF Setup, Reply
  <2> QED  BY <1>1, <2>3, <2>5, <2>6, <2>7, <2>8, <2>9, Replied DEF RequestOK
<1>3. CASE ~Live(q.with)
  <2>1. Reply(q, Refused(q, "unauthorized")) /\ UNCHANGED <<enrolled, muddled>>
    BY <1>3 DEF Setup
  <2>2. TokensOK' /\ Kept
    BY <1>1, <2>1, SessionsStay DEF TokensOK
  <2>3. ~(q.with > NoToken) \/ ~tokens'[q.with].live
    BY <1>1, <1>3, DeadSession DEF SessionKinds
  <2> QED  BY <2>1, <2>2, <2>3, RefusedStep
<1> QED  BY <1>2, <1>3

LEMMA EnableStep ==
  ASSUME TokensOK, RequestsOK, NEW q \in reqs, Enable(q)
  PROVE  ServerKeeps
<1>1. /\ q.kind = "enable" /\ RequestOK(q)
      /\ UNCHANGED <<exists, tokens, throttled, muddled, late>>
  BY DEF Enable, Served, RequestsOK, RequestOK, Unaffected
<1>2. CASE Live(q.with)
  <2>1. PICK a: a = tokens[q.with].acct
    OBVIOUS
  <2>2. a \in Accounts /\ a \in exists /\ q.with > NoToken
    BY <1>1, <1>2, <2>1, SessionUser DEF Live
  <2>3. CASE q.shown = [acct |-> a, n |-> secret[a]]
    <3>1. enrolled' = enrolled \union {a}
      BY <1>2, <2>1, <2>3 DEF Enable
    <3>2. TokensOK' /\ Kept
      BY <1>1, <2>2, <3>1, SessionsStay DEF TokensOK
    <3>3. PICK u: u = [UserOf(a) EXCEPT !.enrolled = TRUE]
      OBVIOUS
    <3>4. u \in Users /\ u.acct = a /\ u.enrolled
      BY <2>2, <3>3, UserFields DEF Users
    <3>5. PICK r: r = [Granted(q, NoToken, a) EXCEPT !.user.enrolled = TRUE]
      OBVIOUS
    <3>6. r \in [n: {r.n}, kind: {"enable"}, acct: {q.acct}, tok: {q.tok}, with: {q.with},
                 shown: {r.shown}, result: {"ok"}, got: {NoToken}, user: {u}]
      BY <1>1, <3>3, <3>5 DEF RequestOK, IsRequest, Granted
    <3>7. Len(tokens') \in Nat
      BY <3>2 DEF TokensOK
    <3>8. IsRequest(r)'
      BY <1>1, <3>4, <3>6, <3>7 DEF RequestOK, IsRequest, Results, NoToken
    <3>9. AskedAs(r)'
      BY <1>1, <3>6 DEF RequestOK, AskedAs
    <3>10. AnsweredAs(r)'
      BY <1>1, <2>1, <2>2, <3>1, <3>4, <3>6 DEF AnsweredAs, Account
    <3>11. reqs' = (reqs \ {q}) \union {r}
      BY <1>2, <2>1, <2>3, <3>5 DEF Enable, Reply
    <3> QED  BY <1>1, <3>2, <3>6, <3>8, <3>9, <3>10, <3>11, Replied DEF RequestOK
  <2>4. CASE q.shown # [acct |-> a, n |-> secret[a]]
    <3>1. Reply(q, Refused(q, "failed")) /\ UNCHANGED enrolled
      BY <1>2, <2>1, <2>4 DEF Enable
    <3>2. TokensOK' /\ Kept
      BY <1>1, <3>1, SessionsStay DEF TokensOK
    <3> QED  BY <3>1, <3>2, RefusedStep
  <2> QED  BY <2>3, <2>4
<1>3. CASE ~Live(q.with)
  <2>1. Reply(q, Refused(q, "unauthorized")) /\ UNCHANGED enrolled
    BY <1>3 DEF Enable
  <2>2. TokensOK' /\ Kept
    BY <1>1, <2>1, SessionsStay DEF TokensOK
  <2>3. ~(q.with > NoToken) \/ ~tokens'[q.with].live
    BY <1>1, <1>3, DeadSession DEF SessionKinds
  <2> QED  BY <2>1, <2>2, <2>3, RefusedStep
<1> QED  BY <1>2, <1>3

LEMMA AuthorisedStep ==
  ASSUME TokensOK, RequestsOK, NEW q \in reqs, Authorised(q)
  PROVE  ServerKeeps
<1>1. /\ q.kind \in {"restore", "list"} \union Commands /\ RequestOK(q)
      /\ UNCHANGED <<exists, enrolled, tokens, throttled, muddled, late>>
  BY DEF Authorised, server, RequestsOK, RequestOK, Unaffected
<1>2. TokensOK' /\ Kept
  BY <1>1, SessionsStay DEF TokensOK
<1>3. CASE Strict(q.with)
  <2>1. PICK a: a = tokens[q.with].acct
    OBVIOUS
  <2>2. a \in Accounts /\ a \in enrolled /\ q.with > NoToken /\ tokens[q.with].full
    BY <1>1, <1>3, <2>1, SessionUser DEF Live, Strict
  <2>3. PICK r: r = Granted(q, q.with, a)
    OBVIOUS
  <2>4. r \in [n: {r.n}, kind: {q.kind}, acct: {q.acct}, tok: {q.tok}, with: {q.with},
               shown: {r.shown}, result: {"ok"}, got: {q.with}, user: {UserOf(a)}]
    BY <1>1, <2>3 DEF RequestOK, IsRequest, Granted
  <2>5. UserOf(a) \in Users /\ UserOf(a).acct = a
    BY <2>2, UserFields
  <2>6. IsRequest(r)'
    BY <1>1, <2>4, <2>5 DEF RequestOK, IsRequest, Results
  <2>7. AskedAs(r)'
    <3>1. AskedAs(q)'
      BY <1>1, <1>2, RequestKept DEF RequestOK
    <3> QED  BY <2>4, <3>1 DEF AskedAs
  <2>8. AnsweredAs(r)'
    BY <1>1, <2>1, <2>2, <2>4, <2>5 DEF AnsweredAs, Account, Commands
  <2>9. reqs' = (reqs \ {q}) \union {r}
    BY <1>3, <2>1, <2>3 DEF Authorised, Reply
  <2> QED  BY <1>2, <2>4, <2>6, <2>7, <2>8, <2>9, Replied DEF RequestOK
<1>4. CASE ~Strict(q.with)
  <2>1. PICK result: result = IF Live(q.with) THEN "failed" ELSE "unauthorized"
    OBVIOUS
  <2>2. Reply(q, Refused(q, result)) /\ result \in {"failed", "unauthorized"}
    BY <1>4, <2>1 DEF Authorised, Reply
  <2>3. result = "unauthorized" /\ q.kind \in SessionKinds =>
          ~(q.with > NoToken) \/ ~tokens'[q.with].live
    BY <1>1, <2>1, DeadSession
  <2> QED  BY <1>2, <2>2, <2>3, RefusedStep
<1> QED  BY <1>3, <1>4

LEMMA ServerStepKeeps ==
  ASSUME TokensOK, RequestsOK, ServerStep
  PROVE  ServerKeeps
BY LoginStep, RegisterStep, Login2faStep, VerifyStep, SetupStep, EnableStep, ThrottleStep,
   AuthorisedStep, FailStep, UnreadableStep, RevokeStep DEF ServerStep

LEMMA ServerAlone ==
  ASSUME ServerStep
  PROVE  UNCHANGED <<posted, token, user, screen, pending, file, links, late, forgot, hungOn>>
BY DEF ServerStep, Login, Register, Login2fa, Verify, Setup, Enable, Throttle, Authorised, Fail,
       Unreadable, Revoke, Unaffected, account, history

-----------------------------------------------------------------------------
(* The client. *)

ClientQuiet ==
  /\ UNCHANGED <<exists, enrolled, tokens, throttled>>
  /\ ~muddled' => ~muddled
  /\ late => late'

LEMMA UserQuiet ==
  ASSUME Flags, UserStep
  PROVE  ClientQuiet
<1> USE DEF ClientQuiet, server, history, Flags
<1>1. ASSUME NEW a \in Accounts, LoginSubmit(a) \/ RegisterSubmit(a) PROVE ClientQuiet
  BY <1>1 DEF LoginSubmit, RegisterSubmit
<1>2. CASE ShowRegister \/ TwoFaSubmit \/ VerifySubmit
  BY <1>2 DEF ShowRegister, TwoFaSubmit, VerifySubmit
<1>3. CASE TwoFaSetup \/ TwoFaEnable
  BY <1>3 DEF TwoFaSetup, TwoFaEnable, Muddle
<1>4. ASSUME NEW k \in Commands, Command(k) PROVE ClientQuiet
  BY <1>4 DEF Command
<1>5. CASE VoiceJoin \/ VoiceLeave
  BY <1>5 DEF VoiceJoin, VoiceLeave
<1>6. CASE Logout
  BY <1>6 DEF Logout
<1> QED  BY <1>1, <1>2, <1>3, <1>4, <1>5, <1>6 DEF UserStep

LEMMA AnswerQuiet ==
  ASSUME Flags, ClientStep
  PROVE  ClientQuiet
<1> USE DEF ClientQuiet, server, history, Flags
<1>1. ASSUME NEW q \in reqs, SignedIn(q) \/ VerifyResult(q) PROVE ClientQuiet
  BY <1>1 DEF SignedIn, VerifyResult, EnterAs, Muddle, Overtaken
<1>2. ASSUME NEW q \in reqs, \/ SignInFailed(q) \/ LoginNeeds2fa(q) \/ TwoFaResult(q)
                            \/ SessionRestored(q)
      PROVE  ClientQuiet
  BY <1>2 DEF SignInFailed, LoginNeeds2fa, TwoFaResult, SessionRestored, Overtaken
<1>3. ASSUME NEW q \in reqs, TwoFaSetupResult(q) \/ TwoFaToggleResult(q) PROVE ClientQuiet
  BY <1>3 DEF TwoFaSetupResult, TwoFaToggleResult, Overtaken
<1>4. ASSUME NEW q \in reqs, ConversationsLoaded(q) \/ GuildsLoaded(q) \/ CommandResult(q)
      PROVE  ClientQuiet
  BY <1>4 DEF ConversationsLoaded, GuildsLoaded, CommandResult, Overtaken
<1>5. ASSUME NEW m \in posted, WorkerReady(m) \/ SessionExpired(m) PROVE ClientQuiet
  BY <1>5 DEF WorkerReady, SessionExpired
<1>6. CASE StartWorker \/ StopWorker \/ HandshakeRefused
  BY <1>6 DEF StartWorker, StopWorker, HandshakeRefused
<1> QED  BY <1>1, <1>2, <1>3, <1>4, <1>5, <1>6 DEF ClientStep

LEMMA QuietKeeps ==
  ASSUME TokensOK, ClientQuiet
  PROVE  TokensOK' /\ Kept
BY SessionsStay DEF ClientQuiet, TokensOK

(* An action adds at most requests of the session tok. *)
Follows(tok) ==
  \A p \in reqs': p \in reqs \/ \E k \in SessionKinds: p = RequestOf(k, NoAccount, tok, tok)

LEMMA FollowsKeeps ==
  ASSUME TokensOK, RequestsOK, ClientQuiet, NEW tok \in Blank..Len(tokens),
         tok > NoToken => tokens[tok].full, Follows(tok)
  PROVE  ServerKeeps
<1>1. TokensOK' /\ Kept
  BY QuietKeeps
<1>2. tok \in Blank..Len(tokens') /\ (tok > NoToken => tokens'[tok].full)
  BY DEF ClientQuiet
<1>3. ASSUME NEW p \in reqs' PROVE RequestOK(p)' /\ (p \in reqs \/ p.kind # "restore")
  <2>1. CASE p \in reqs
    BY <1>1, <2>1, RequestKept DEF RequestsOK
  <2>2. CASE p \notin reqs
    <3>1. PICK k \in SessionKinds: p = RequestOf(k, NoAccount, tok, tok)
      BY <2>2 DEF Follows
    <3>2. RequestOK(p)'
      BY <1>1, <1>2, <3>1, FreshRequest
    <3>3. p.kind = k
      BY <3>1, FreshFields
    <3> QED  BY <3>2, <3>3 DEF SessionKinds, ChatKinds, Commands
  <2> QED  BY <2>1, <2>2
<1> QED  BY <1>1, <1>3 DEF ServerKeeps, RequestsOK, RestoresKept

(* A sign-in, a registration or a code for the second factor. *)
LEMMA AuthRequest ==
  ASSUME TokensOK, RequestsOK, ClientQuiet,
         NEW kind \in {"login", "register", "twofa"}, NEW a, NEW with \in Blank..Len(tokens),
         kind = "login" => a \in exists, kind = "register" => a \in Accounts,
         kind = "twofa" /\ with > NoToken /\ ~muddled => Account(with) \in enrolled,
         Call(kind, a, with)
  PROVE  ServerKeeps
<1>1. TokensOK' /\ Kept
  BY QuietKeeps
<1>2. PICK r: r = RequestOf(kind, a, token, with)
  OBVIOUS
<1>3. r \in [n: {r.n}, kind: {kind}, acct: {a}, tok: {token}, with: {with},
             shown: {r.shown}, result: {"none"}, got: {NoToken}, user: {NoUser}]
  BY <1>2, FreshFields
<1>4. kind \in Kinds /\ NoUser \in Users /\ "none" \in Results /\ Len(tokens) \in Nat
  BY DEF Kinds, AuthKinds, Results, Users, NoUser, TokensOK
<1>5. IsRequest(r)'
  BY <1>3, <1>4 DEF IsRequest, NoToken, ClientQuiet
<1>6. AskedAs(r)'
  BY <1>3 DEF AskedAs, SessionKinds, ChatKinds, Commands, ClientQuiet, Account
<1>7. AnsweredAs(r)'
  BY <1>3 DEF AnsweredAs
<1>8. reqs' = reqs \union {r}
  BY <1>2 DEF Call
<1>9. RequestsOK'
  BY <1>1, <1>5, <1>6, <1>7, <1>8, RequestKept DEF RequestsOK, RequestOK
<1>10. RestoresKept
  BY <1>3, <1>8 DEF RestoresKept
<1> QED  BY <1>1, <1>9, <1>10 DEF ServerKeeps

LEMMA UserKeeps ==
  ASSUME TokensOK, HeldOK, RequestsOK, Flags, UserStep
  PROVE  ServerKeeps
<1>1. ClientQuiet
  BY UserQuiet
<1>2. Len(tokens) \in Nat /\ token \in Blank..Len(tokens) /\ pending \in 0..Len(tokens)
      /\ (token > NoToken => tokens[token].full)
      /\ NoToken \in Blank..Len(tokens)
  BY DEF TokensOK, HeldOK, NoToken
<1>3. ASSUME NEW a \in Accounts, LoginSubmit(a) PROVE ServerKeeps
  <2>1. a \in exists /\ Call("login", a, NoToken)
    BY <1>3 DEF LoginSubmit
  <2> QED  BY <1>1, <1>2, <2>1, AuthRequest
<1>4. ASSUME NEW a \in Accounts, RegisterSubmit(a) PROVE ServerKeeps
  <2>1. Call("register", a, NoToken)
    BY <1>4 DEF RegisterSubmit
  <2> QED  BY <1>1, <1>2, <2>1, AuthRequest
<1>5. CASE TwoFaSubmit
  <2>1. PICK p: p = pending
    OBVIOUS
  <2>2. Call("twofa", NoAccount, p)
    BY <1>5, <2>1 DEF TwoFaSubmit
  <2>3. p \in Blank..Len(tokens) /\ (p > NoToken /\ ~muddled => Account(p) \in enrolled)
    BY <1>2, <2>1 DEF HeldOK
  <2> QED  BY <1>1, <2>2, <2>3, AuthRequest
<1>6. PICK tok: tok = token
  OBVIOUS
<1>7. ASSUME \/ VerifySubmit \/ TwoFaSetup \/ TwoFaEnable \/ ShowRegister
             \/ VoiceJoin \/ VoiceLeave \/ Logout \/ \E k \in Commands: Command(k)
      PROVE  Follows(tok)
  <2>1. CASE VerifySubmit
    BY <1>6, <2>1 DEF VerifySubmit, Call, Follows, SessionKinds
  <2>2. CASE TwoFaSetup
    BY <1>6, <2>2 DEF TwoFaSetup, Call, Follows, SessionKinds
  <2>3. CASE TwoFaEnable
    BY <1>6, <2>3 DEF TwoFaEnable, Call, Follows, SessionKinds
  <2>4. ASSUME NEW k \in Commands, Command(k) PROVE Follows(tok)
    BY <1>6, <2>4 DEF Command, Call, Follows, SessionKinds, ChatKinds
  <2>5. CASE ShowRegister \/ VoiceJoin \/ VoiceLeave \/ Logout
    BY <2>5 DEF ShowRegister, VoiceJoin, VoiceLeave, Logout, Follows
  <2> QED  BY <1>7, <2>1, <2>2, <2>3, <2>4, <2>5
<1>8. ASSUME Follows(tok) PROVE ServerKeeps
  BY <1>1, <1>2, <1>6, <1>8, FollowsKeeps
<1> QED  BY <1>3, <1>4, <1>5, <1>7, <1>8 DEF UserStep

(* The sessions that an answer may begin. *)
Begins(q) ==
  /\ q \in reqs /\ q.kind \in {"login", "register", "twofa", "restore"} /\ q.result = "ok"
  /\ token' = q.got /\ user' = q.user

LEMMA BegunSession ==
  ASSUME TokensOK, RequestsOK, NEW q, Begins(q)
  PROVE  /\ q.got \in Blank..Len(tokens) /\ q.got # NoToken
         /\ q.got > NoToken => tokens[q.got].full /\ q.got \in DOMAIN tokens /\ q.user.acct = Account(q.got)
         /\ q.got = Blank => q.user = Nobody /\ q.kind # "restore"
BY DEF Begins, RequestsOK, RequestOK, IsRequest, AnsweredAs, TokensOK

LEMMA EnterFollows ==
  ASSUME NEW q, NEW u, NEW tok, EnterAs(q, u, tok)
  PROVE  Follows(tok)
BY DEF EnterAs, Take, TakeAndCall, Follows, SessionKinds, ChatKinds

LEMMA AnswerKeeps ==
  ASSUME TokensOK, HeldOK, RequestsOK, Flags, ClientStep
  PROVE  ServerKeeps
<1>1. ClientQuiet
  BY AnswerQuiet
<1>2. token \in Blank..Len(tokens) /\ (token > NoToken => tokens[token].full)
  BY DEF HeldOK
<1>3. PICK tok: tok = token
  OBVIOUS
<1>4. ASSUME NEW q \in reqs, SignedIn(q) \/ TwoFaResult(q) \/ (SessionRestored(q) /\ q.result = "ok")
      PROVE  ServerKeeps
  <2>1. Begins(q)
    BY <1>4 DEF Begins, SignedIn, TwoFaResult, SessionRestored
  <2>2. Follows(q.got)
    <3>1. CASE SignedIn(q)
      BY <3>1, EnterFollows DEF SignedIn
    <3>2. CASE TwoFaResult(q)
      BY <3>2 DEF TwoFaResult, TakeAndCall, Follows, SessionKinds, ChatKinds
    <3>3. CASE SessionRestored(q) /\ q.result = "ok"
      BY <3>3 DEF SessionRestored, TakeAndCall, Follows, SessionKinds, ChatKinds
    <3> QED  BY <1>4, <3>1, <3>2, <3>3
  <2> QED  BY <1>1, <2>1, <2>2, BegunSession, FollowsKeeps
<1>5. ASSUME NEW q \in reqs,
             \/ SignInFailed(q) \/ LoginNeeds2fa(q) \/ VerifyResult(q)
             \/ SessionRestored(q) /\ q.result # "ok"
             \/ TwoFaSetupResult(q) \/ TwoFaToggleResult(q)
             \/ ConversationsLoaded(q) \/ GuildsLoaded(q) \/ CommandResult(q)
      PROVE  Follows(tok)
  <2>1. CASE SignInFailed(q) \/ LoginNeeds2fa(q) \/ TwoFaSetupResult(q) \/ GuildsLoaded(q)
    BY <2>1 DEF SignInFailed, LoginNeeds2fa, TwoFaSetupResult, GuildsLoaded, Take, Follows
  <2>2. CASE SessionRestored(q) /\ q.result # "ok"
    BY <2>2 DEF SessionRestored, Take, Follows
  <2>3. CASE VerifyResult(q)
    <3>1. PICK u: u = [q.user EXCEPT !.verified = TRUE]
      OBVIOUS
    <3>2. EnterAs(q, u, tok) \/ Take(q)
      BY <1>3, <2>3, <3>1 DEF VerifyResult
    <3> QED  BY <3>2, EnterFollows DEF Take, Follows
  <2>4. CASE TwoFaToggleResult(q)
    BY <1>3, <2>4 DEF TwoFaToggleResult, Take, TakeAndCall, Follows, SessionKinds, ChatKinds
  <2>5. CASE ConversationsLoaded(q)
    BY <1>3, <2>5 DEF ConversationsLoaded, Take, TakeAndCall, Follows, SessionKinds, ChatKinds
  <2>6. CASE CommandResult(q)
    BY <1>3, <2>6 DEF CommandResult, Follows, SessionKinds, ChatKinds
  <2> QED  BY <1>5, <2>1, <2>2, <2>3, <2>4, <2>5, <2>6
<1>6. ASSUME NEW m \in posted, WorkerReady(m) \/ SessionExpired(m) PROVE Follows(tok)
  BY <1>6 DEF WorkerReady, SessionExpired, Follows
<1>7. CASE StartWorker \/ StopWorker \/ HandshakeRefused
  <2>1. Follows(tok)
    BY <1>7 DEF StartWorker, StopWorker, HandshakeRefused, Follows
  <2> QED  BY <1>1, <1>2, <1>3, <2>1, FollowsKeeps
<1>8. ASSUME Follows(tok) PROVE ServerKeeps
  BY <1>1, <1>2, <1>3, <1>8, FollowsKeeps
<1> QED  BY <1>4, <1>5, <1>6, <1>7, <1>8 DEF ClientStep

-----------------------------------------------------------------------------
(* What a step does to the session in use: it leaves it, ends it, or an answer begins one or
   is about it. *)
Stays ==
  /\ UNCHANGED <<token, user, file, forgot>>
  /\ screen' = screen \/ screen' \notin Inside

Ends ==
  /\ token' = NoToken /\ user' = NoUser /\ screen' = "Login"
  /\ file' = NoToken \/ (UNCHANGED file /\ forgot' = TRUE)

UserAnswer(q) ==
  /\ q \in reqs /\ q.kind \in {"verify", "enable"} /\ q.result = "ok"
  /\ user' = q.user /\ UNCHANGED <<token, file, forgot>>
  /\ Overtaken(q)
  /\ screen' = "Chat" => screen = "Chat" \/ q.user.enrolled

LEMMA EndSessionEnds ==
  ASSUME EndSession
  PROVE  Ends
BY DEF EndSession, ClearSession, Ends

LEMMA ApiErrorEnds ==
  ASSUME NEW q, ApiError(q)
  PROVE  Stays \/ Ends
BY EndSessionEnds DEF ApiError, Stays

LEMMA UserStaysOrEnds ==
  ASSUME UserStep
  PROVE  Stays \/ Ends
<1> USE DEF Stays, Inside, history
<1>1. ASSUME NEW a \in Accounts, LoginSubmit(a) \/ RegisterSubmit(a) PROVE Stays
  BY <1>1 DEF LoginSubmit, RegisterSubmit
<1>2. CASE ShowRegister
  BY <1>2 DEF ShowRegister
<1>3. CASE TwoFaSubmit \/ VerifySubmit \/ TwoFaSetup \/ TwoFaEnable
  BY <1>3 DEF TwoFaSubmit, VerifySubmit, TwoFaSetup, TwoFaEnable
<1>4. ASSUME NEW k \in Commands, Command(k) PROVE Stays
  BY <1>4 DEF Command
<1>5. CASE VoiceJoin \/ VoiceLeave
  BY <1>5 DEF VoiceJoin, VoiceLeave, account
<1>6. CASE Logout
  BY <1>6 DEF Logout, ClearSession, Ends
<1> QED  BY <1>1, <1>2, <1>3, <1>4, <1>5, <1>6 DEF UserStep

LEMMA AnswerStays ==
  ASSUME RequestsOK, ClientStep
  PROVE  \/ Stays \/ Ends
         \/ \E q \in reqs: SignedIn(q) \/ TwoFaResult(q) \/ (SessionRestored(q) /\ q.result = "ok")
         \/ \E q \in reqs: UserAnswer(q)
<1>1. ASSUME NEW q \in reqs, SignInFailed(q) \/ LoginNeeds2fa(q) PROVE Stays
  BY <1>1 DEF SignInFailed, LoginNeeds2fa, Stays, Inside
<1>2. ASSUME NEW q \in reqs, SessionRestored(q), q.result # "ok" PROVE Stays
  BY <1>2 DEF SessionRestored, Stays
<1>3. ASSUME NEW q \in reqs,
             TwoFaSetupResult(q) \/ ConversationsLoaded(q) \/ CommandResult(q)
      PROVE  Stays \/ Ends
  BY <1>3, ApiErrorEnds DEF TwoFaSetupResult, ConversationsLoaded, CommandResult
<1>4. ASSUME NEW q \in reqs, GuildsLoaded(q) PROVE Stays \/ Ends
  BY <1>4, EndSessionEnds DEF GuildsLoaded, Stays
<1>5. ASSUME NEW q \in reqs, TwoFaToggleResult(q) PROVE Stays \/ Ends \/ UserAnswer(q)
  <2>1. CASE q.result = "ok"
    <3>1. q.user.enrolled
      BY <1>5, <2>1 DEF TwoFaToggleResult, RequestsOK, RequestOK, AnsweredAs
    <3> QED  BY <1>5, <2>1, <3>1 DEF TwoFaToggleResult, UserAnswer
  <2>2. CASE q.result # "ok"
    BY <1>5, <2>2, ApiErrorEnds DEF TwoFaToggleResult
  <2> QED  BY <2>1, <2>2
<1>6. ASSUME NEW q \in reqs, VerifyResult(q) PROVE Stays \/ UserAnswer(q)
  <2>1. CASE q.result = "ok"
    BY <1>6, <2>1 DEF VerifyResult, UserAnswer, EnterAs
  <2>2. CASE q.result # "ok"
    BY <1>6, <2>2 DEF VerifyResult, Stays
  <2> QED  BY <2>1, <2>2
<1>7. ASSUME NEW m \in posted, WorkerReady(m) \/ SessionExpired(m) PROVE Stays \/ Ends
  BY <1>7, EndSessionEnds DEF WorkerReady, SessionExpired, Stays, account
<1>8. CASE StartWorker \/ StopWorker \/ HandshakeRefused
  BY <1>8 DEF StartWorker, StopWorker, HandshakeRefused, Stays, account, history
<1> QED  BY <1>1, <1>2, <1>3, <1>4, <1>5, <1>6, <1>7, <1>8 DEF ClientStep

Quiet == TokensOK' /\ Kept /\ RestoresKept

LEMMA ScreenStays ==
  ASSUME TokensOK, HeldOK, ScreenOK, Flags, Flags', Quiet, Stays \/ Ends
  PROVE  ScreenOK'
<1>1. /\ token \in Blank..Len(tokens) /\ DOMAIN tokens = 1..Len(tokens) /\ Len(tokens) \in Nat
      /\ (token > NoToken => tokens'[token].acct = tokens[token].acct)
  BY DEF HeldOK, TokensOK, Quiet, Kept, TokensLast, NoToken
<1>2. CASE Stays
  BY <1>1, <1>2 DEF Stays, ScreenOK, Quiet, Kept, Account, Inside, Flags
<1>3. CASE Ends
  BY <1>3 DEF Ends, ScreenOK, Inside
<1> QED  BY <1>2, <1>3

LEMMA FileStays ==
  ASSUME FileOK, Flags, Flags', Quiet, Stays \/ Ends
  PROVE  FileOK'
<1>1. CASE Stays
  BY <1>1 DEF Stays, FileOK, Quiet, Kept, RestoresKept, Flags
<1>2. CASE Ends
  BY <1>2 DEF Ends, FileOK
<1> QED  BY <1>1, <1>2

(* The answer to a verification, or to the enabling of the second factor. *)
LEMMA UserAnswered ==
  ASSUME TokensOK, HeldOK, RequestsOK, ScreenOK, FileOK, Flags, Flags', Quiet,
         NEW q, UserAnswer(q)
  PROVE  ScreenOK' /\ FileOK'
<1>1. /\ RequestOK(q) /\ q.with = q.tok /\ q.with > NoToken /\ q.user.acct = Account(q.with)
      /\ (q.user.enrolled /\ ~muddled => Account(q.with) \in enrolled)
  BY DEF UserAnswer, RequestsOK, RequestOK, AskedAs, AnsweredAs, SessionKinds
<1>2. ~late' => ~late /\ q.tok = token
  BY DEF UserAnswer, Overtaken, Flags
<1>3. /\ token \in Blank..Len(tokens) /\ DOMAIN tokens = 1..Len(tokens) /\ Len(tokens) \in Nat
      /\ (token > NoToken => tokens'[token].acct = tokens[token].acct)
  BY DEF HeldOK, TokensOK, Quiet, Kept, TokensLast, NoToken
<1>4. ~muddled' => ~muddled /\ enrolled \subseteq enrolled'
  BY DEF Quiet, Kept
<1>5. ScreenOK'
  BY <1>1, <1>2, <1>3, <1>4 DEF UserAnswer, ScreenOK, Account
<1>6. FileOK'
  BY <1>2 DEF UserAnswer, FileOK, Quiet, RestoresKept
<1> QED  BY <1>5, <1>6

LEMMA SignInSteps ==
  ASSUME TokensOK, HeldOK, RequestsOK, FileOK, Flags, Flags', Quiet, ClientQuiet, NEW q \in reqs,
         SignedIn(q) \/ TwoFaResult(q) \/ (SessionRestored(q) /\ q.result = "ok")
  PROVE  HeldOK' /\ ScreenOK' /\ FileOK'
<1>1. Begins(q)
  BY DEF Begins, SignedIn, TwoFaResult, SessionRestored
<1>2. /\ q.got \in Blank..Len(tokens) /\ q.got # NoToken
      /\ q.got > NoToken => tokens[q.got].full /\ q.got \in DOMAIN tokens /\ q.user.acct = Account(q.got)
      /\ q.got = Blank => q.user = Nobody /\ q.kind # "restore"
  BY <1>1, BegunSession
<1>3. token' = q.got /\ user' = q.user
  BY <1>1 DEF Begins
<1>4. pending' = pending /\ (file' \in {file, NoToken} \/ (file' = q.got /\ q.got # Blank))
  <2>1. CASE SignedIn(q) \/ TwoFaResult(q)
    BY <2>1 DEF SignedIn, TwoFaResult, SaveSession
  <2>2. CASE SessionRestored(q)
    BY <2>2 DEF SessionRestored
  <2> QED  BY <2>1, <2>2
<1>5. HeldOK'
  BY <1>2, <1>3, <1>4 DEF HeldOK, ClientQuiet, Account
<1>6. /\ screen' = "Chat" /\ ~muddled' => q.got = Blank \/ Account(q.got) \in enrolled
      /\ q.got = Blank => screen' # "TwoFaSetup"
  <2>1. CASE SignedIn(q)
    <3>1. ~q.user.enrolled
      BY <2>1 DEF SignedIn, RequestsOK, RequestOK, AnsweredAs
    <3> QED  BY <1>2, <2>1, <3>1 DEF SignedIn, EnterAs, Nobody
  <2>2. CASE TwoFaResult(q) \/ SessionRestored(q)
    BY <2>2, <1>1 DEF TwoFaResult, SessionRestored, Begins, RequestsOK, RequestOK, AnsweredAs,
                      ClientQuiet
  <2> QED  BY <2>1, <2>2
<1>7. ScreenOK'
  BY <1>2, <1>3, <1>6 DEF ScreenOK, ClientQuiet, Account
<1>8. FileOK'
  <2>1. CASE SignedIn(q) \/ TwoFaResult(q)
    BY <1>2, <1>3, <2>1 DEF SignedIn, TwoFaResult, SaveSession, FileOK, Flags
  <2>2. CASE SessionRestored(q) /\ q.result = "ok"
    <3>1. q.kind = "restore" /\ q.tok = NoToken /\ q.got = q.with
      BY <2>2 DEF SessionRestored, RequestsOK, RequestOK, AskedAs, AnsweredAs
    <3>2. ~late' => ~late /\ token = NoToken
      BY <2>2, <3>1 DEF SessionRestored, Overtaken, Flags
    <3>3. UNCHANGED <<file, forgot>>
      BY <2>2 DEF SessionRestored
    <3> QED  BY <1>2, <1>3, <3>1, <3>2, <3>3 DEF FileOK
  <2> QED  BY <2>1, <2>2
<1> QED  BY <1>5, <1>7, <1>8

-----------------------------------------------------------------------------
Running == UserStep \/ ServerStep \/ ClientStep

LEMMA StepKeeps ==
  ASSUME TokensOK, HeldOK, RequestsOK, Flags, Running
  PROVE  ServerKeeps
BY UserKeeps, ServerStepKeeps, AnswerKeeps DEF Running

LEMMA FlagsStep ==
  ASSUME Flags, Running
  PROVE  Flags'
<1> USE DEF Flags, history
<1>1. ASSUME NEW a \in Accounts, LoginSubmit(a) \/ RegisterSubmit(a) PROVE Flags'
  BY <1>1 DEF LoginSubmit, RegisterSubmit
<1>2. CASE ShowRegister \/ TwoFaSubmit \/ VerifySubmit
  BY <1>2 DEF ShowRegister, TwoFaSubmit, VerifySubmit
<1>3. CASE TwoFaSetup \/ TwoFaEnable
  BY <1>3 DEF TwoFaSetup, TwoFaEnable, Muddle
<1>4. ASSUME NEW k \in Commands, Command(k) PROVE Flags'
  BY <1>4 DEF Command
<1>5. CASE VoiceJoin \/ VoiceLeave
  BY <1>5 DEF VoiceJoin, VoiceLeave
<1>6. CASE Logout
  BY <1>6 DEF Logout, ClearSession
<1>7. ASSUME NEW q \in reqs, SignedIn(q) PROVE Flags'
  BY <1>7 DEF SignedIn, EnterAs, Muddle, Overtaken, SaveSession
<1>8. ASSUME NEW q \in reqs, VerifyResult(q) PROVE Flags'
  BY <1>8 DEF VerifyResult, EnterAs, Muddle, Overtaken
<1>9. ASSUME NEW q \in reqs, TwoFaResult(q) PROVE Flags'
  BY <1>9 DEF TwoFaResult, SaveSession, Overtaken
<1>10. ASSUME NEW q \in reqs, SignInFailed(q) \/ LoginNeeds2fa(q) \/ SessionRestored(q)
       PROVE  Flags'
  BY <1>10 DEF SignInFailed, LoginNeeds2fa, SessionRestored, Overtaken
<1>11. ASSUME NEW q \in reqs, ApiError(q) PROVE forgot' \in BOOLEAN
  BY <1>11 DEF ApiError, EndSession, ClearSession
<1>12. ASSUME NEW q \in reqs, TwoFaSetupResult(q) PROVE Flags'
  BY <1>11, <1>12 DEF TwoFaSetupResult, Overtaken
<1>13. ASSUME NEW q \in reqs, TwoFaToggleResult(q) PROVE Flags'
  BY <1>11, <1>13 DEF TwoFaToggleResult, Overtaken
<1>14. ASSUME NEW q \in reqs, ConversationsLoaded(q) \/ CommandResult(q) PROVE Flags'
  BY <1>11, <1>14 DEF ConversationsLoaded, CommandResult, Overtaken
<1>15. ASSUME NEW q \in reqs, GuildsLoaded(q) PROVE Flags'
  BY <1>15 DEF GuildsLoaded, EndSession, ClearSession, Overtaken
<1>16. ASSUME NEW m \in posted, WorkerReady(m) \/ SessionExpired(m) PROVE Flags'
  BY <1>16 DEF WorkerReady, SessionExpired, EndSession, ClearSession
<1>17. CASE StartWorker \/ StopWorker \/ HandshakeRefused
  BY <1>17 DEF StartWorker, StopWorker, HandshakeRefused
<1>18. CASE ServerStep
  <2>1. muddled' \in BOOLEAN
    BY <1>18 DEF ServerStep, Login, Register, Login2fa, Verify, Setup, Enable, Throttle,
                 Authorised, Fail, Unreadable, Revoke, Unaffected
  <2> QED  BY <1>18, <2>1, ServerAlone
<1> QED  BY <1>1, <1>2, <1>3, <1>4, <1>5, <1>6, <1>7, <1>8, <1>9, <1>10, <1>12, <1>13, <1>14,
            <1>15, <1>16, <1>17, <1>18 DEF Running, UserStep, ClientStep

LEMMA HeldStays ==
  ASSUME TokensOK, TokensOK', HeldOK, Kept, token' \in {NoToken, token},
         file' \in {NoToken, file}, pending' \in {NoToken, pending}
  PROVE  HeldOK'
<1>1. Len(tokens) \in Nat /\ Len(tokens') \in Nat /\ DOMAIN tokens = 1..Len(tokens)
  BY DEF TokensOK
<1> QED  BY <1>1 DEF HeldOK, Kept, TokensLast, Account, NoToken

(* pending_token changes with the answer to a sign-in alone. *)
LEMMA PendingStays ==
  ASSUME UserStep \/ ClientStep
  PROVE  UNCHANGED pending \/ \E q \in reqs: LoginNeeds2fa(q)
<1> USE DEF account
<1>1. ASSUME NEW a \in Accounts, LoginSubmit(a) \/ RegisterSubmit(a) PROVE UNCHANGED pending
  BY <1>1 DEF LoginSubmit, RegisterSubmit
<1>2. CASE ShowRegister \/ TwoFaSubmit \/ VerifySubmit \/ TwoFaSetup \/ TwoFaEnable
  BY <1>2 DEF ShowRegister, TwoFaSubmit, VerifySubmit, TwoFaSetup, TwoFaEnable
<1>3. ASSUME NEW k \in Commands, Command(k) PROVE UNCHANGED pending
  BY <1>3 DEF Command
<1>4. CASE VoiceJoin \/ VoiceLeave \/ Logout
  BY <1>4 DEF VoiceJoin, VoiceLeave, Logout, ClearSession
<1>5. ASSUME NEW q \in reqs, SignedIn(q) \/ VerifyResult(q) \/ TwoFaResult(q) \/ SignInFailed(q)
      PROVE  UNCHANGED pending
  BY <1>5 DEF SignedIn, VerifyResult, TwoFaResult, SignInFailed
<1>6. ASSUME NEW q \in reqs, SessionRestored(q) PROVE UNCHANGED pending
  BY <1>6 DEF SessionRestored
<1>7. ASSUME NEW q \in reqs, ApiError(q) PROVE UNCHANGED pending
  BY <1>7 DEF ApiError, EndSession, ClearSession
<1>8. ASSUME NEW q \in reqs, TwoFaSetupResult(q) \/ ConversationsLoaded(q) \/ CommandResult(q)
      PROVE  UNCHANGED pending
  BY <1>7, <1>8 DEF TwoFaSetupResult, ConversationsLoaded, CommandResult
<1>9. ASSUME NEW q \in reqs, TwoFaToggleResult(q) PROVE UNCHANGED pending
  BY <1>7, <1>9 DEF TwoFaToggleResult
<1>10. ASSUME NEW q \in reqs, GuildsLoaded(q) PROVE UNCHANGED pending
  BY <1>10 DEF GuildsLoaded, EndSession, ClearSession
<1>11. ASSUME NEW m \in posted, WorkerReady(m) \/ SessionExpired(m) PROVE UNCHANGED pending
  BY <1>11 DEF WorkerReady, SessionExpired, EndSession, ClearSession
<1>12. CASE StartWorker \/ StopWorker \/ HandshakeRefused
  BY <1>12 DEF StartWorker, StopWorker, HandshakeRefused
<1> QED  BY <1>1, <1>2, <1>3, <1>4, <1>5, <1>6, <1>8, <1>9, <1>10, <1>11, <1>12
         DEF UserStep, ClientStep

LEMMA HeldStep ==
  ASSUME TokensOK, HeldOK, RequestsOK, Flags, UserStep \/ ClientStep, Stays \/ Ends
  PROVE  HeldOK'
<1>1. ClientQuiet
  BY UserQuiet, AnswerQuiet
<1>2. TokensOK' /\ Kept
  BY <1>1, QuietKeeps
<1>3. token' \in {NoToken, token} /\ file' \in {NoToken, file}
  BY DEF Stays, Ends
<1>4. CASE UNCHANGED pending
  BY <1>2, <1>3, <1>4, HeldStays
<1>5. ASSUME NEW q \in reqs, LoginNeeds2fa(q) PROVE HeldOK'
  <2>1. /\ pending' = q.got /\ q.got \in 0..Len(tokens)
        /\ (~muddled => Account(q.got) \in enrolled)
    BY <1>5 DEF LoginNeeds2fa, RequestsOK, RequestOK, IsRequest, AnsweredAs
  <2> QED  BY <1>1, <1>3, <2>1 DEF HeldOK, ClientQuiet, Account, TokensOK, NoToken
<1> QED  BY <1>4, <1>5, PendingStays

callVars == <<voice, call, hungOn>>

LEMMA CallStays ==
  ASSUME CallOK, Flags, Flags', UNCHANGED callVars, ~late' => ~late,
         token' = NoToken /\ ~late' => token = NoToken \/ call = NoToken
  PROVE  CallOK'
BY DEF CallOK, callVars, Flags

LEMMA CallEnds ==
  ASSUME CallOK, Flags, Flags', EndSession, UNCHANGED hungOn
  PROVE  CallOK'
BY DEF CallOK, EndSession, ClearSession, Flags, NoToken

LEMMA CallAnswered ==
  ASSUME CallOK, Flags, Flags', ~late' => ~late, NEW q, ApiError(q), UNCHANGED hungOn
  PROVE  CallOK'
<1>1. CASE EndSession
  BY <1>1, CallEnds
<1>2. CASE UNCHANGED <<token, links>>
  BY <1>2, CallStays DEF links, callVars
<1> QED  BY <1>1, <1>2 DEF ApiError

(* The calls that the voice manager in use does not know of are counted in hungOn. *)
LEMMA CallStep ==
  ASSUME TokensOK, HeldOK, RequestsOK, ScreenOK, CallOK, Flags, Flags', UserStep \/ ClientStep
  PROVE  CallOK'
<1> USE DEF links, history, callVars, account
<1>1. ~late' => ~late
  BY UserQuiet, AnswerQuiet DEF ClientQuiet, Flags
<1>2. ASSUME NEW a \in Accounts, LoginSubmit(a) \/ RegisterSubmit(a) PROVE CallOK'
  BY <1>1, <1>2, CallStays DEF LoginSubmit, RegisterSubmit
<1>3. CASE ShowRegister \/ TwoFaSubmit \/ VerifySubmit \/ TwoFaSetup \/ TwoFaEnable
  BY <1>1, <1>3, CallStays DEF ShowRegister, TwoFaSubmit, VerifySubmit, TwoFaSetup, TwoFaEnable
<1>4. ASSUME NEW k \in Commands, Command(k) PROVE CallOK'
  BY <1>1, <1>4, CallStays DEF Command
<1>5. CASE VoiceJoin
  BY <1>1, <1>5 DEF VoiceJoin, CallOK, ScreenOK, Inside, Flags
<1>6. CASE VoiceLeave
  BY <1>1, <1>6 DEF VoiceLeave, CallOK, Flags
<1>7. CASE Logout
  BY <1>1, <1>7 DEF Logout, ClearSession, CallOK, Flags
<1>8. ASSUME NEW q \in reqs, SignedIn(q) \/ TwoFaResult(q) \/ (SessionRestored(q) /\ q.result = "ok")
      PROVE  CallOK'
  <2>1. token' # NoToken
    BY <1>8, BegunSession DEF Begins, SignedIn, TwoFaResult, SessionRestored
  <2>2. UNCHANGED callVars
    BY <1>8 DEF SignedIn, TwoFaResult, SessionRestored
  <2> QED  BY <1>1, <2>1, <2>2, CallStays
<1>9. ASSUME NEW q \in reqs, SignInFailed(q) \/ LoginNeeds2fa(q) \/ VerifyResult(q)
      PROVE  CallOK'
  BY <1>1, <1>9, CallStays DEF SignInFailed, LoginNeeds2fa, VerifyResult
<1>10. ASSUME NEW q \in reqs, SessionRestored(q), q.result # "ok" PROVE CallOK'
  BY <1>1, <1>10, CallStays DEF SessionRestored
<1>11. ASSUME NEW q \in reqs, TwoFaSetupResult(q) \/ ConversationsLoaded(q) \/ CommandResult(q)
       PROVE  CallOK'
  BY <1>1, <1>11, CallAnswered DEF TwoFaSetupResult, ConversationsLoaded, CommandResult
<1>12. ASSUME NEW q \in reqs, TwoFaToggleResult(q) PROVE CallOK'
  <2>1. CASE q.result = "ok"
    BY <1>1, <1>12, <2>1, CallStays DEF TwoFaToggleResult
  <2>2. CASE q.result # "ok"
    BY <1>1, <1>12, <2>2, CallAnswered DEF TwoFaToggleResult
  <2> QED  BY <2>1, <2>2
<1>13. ASSUME NEW q \in reqs, GuildsLoaded(q) PROVE CallOK'
  <2>1. CASE Live(q.with)
    BY <1>1, <1>13, <2>1, CallStays DEF GuildsLoaded
  <2>2. CASE ~Live(q.with)
    BY <1>13, <2>2, CallEnds DEF GuildsLoaded
  <2> QED  BY <2>1, <2>2
<1>14. ASSUME NEW m \in posted, WorkerReady(m) PROVE CallOK'
  BY <1>1, <1>14 DEF WorkerReady, CallOK, Flags, NoToken
<1>15. ASSUME NEW m \in posted, SessionExpired(m) PROVE CallOK'
  BY <1>15, CallEnds DEF SessionExpired
<1>16. CASE StartWorker \/ StopWorker \/ HandshakeRefused
  BY <1>1, <1>16, CallStays DEF StartWorker, StopWorker, HandshakeRefused
<1> QED  BY <1>2, <1>3, <1>4, <1>5, <1>6, <1>7, <1>8, <1>9, <1>10, <1>11, <1>12, <1>13, <1>14,
            <1>15, <1>16 DEF UserStep, ClientStep

LEMMA PostedStays ==
  ASSUME TokensOK, TokensOK', Kept, Flags, Flags', PostedOK, posted' \subseteq posted
  PROVE  PostedOK'
<1>1. DOMAIN tokens = 1..Len(tokens) /\ DOMAIN tokens' = 1..Len(tokens')
      /\ Len(tokens) \in Nat /\ Len(tokens') \in Nat
  BY DEF TokensOK
<1> QED  BY <1>1 DEF PostedOK, Kept, TokensLast, Flags

(* While a chat is shown, the session that loses it is dead. *)
LEMMA PostedStep ==
  ASSUME TokensOK, HeldOK, ScreenOK, PostedOK, Flags, Flags', UserStep \/ ClientStep
  PROVE  PostedOK'
<1>1. ClientQuiet
  BY UserQuiet, AnswerQuiet
<1>2. TokensOK' /\ Kept
  BY <1>1, QuietKeeps
<1>3. Wanted # NoToken => /\ Wanted = token /\ screen = "Chat"
                          /\ Wanted = Blank \/ (Wanted > NoToken /\ Wanted \in DOMAIN tokens /\ tokens[Wanted].full)
  BY DEF Wanted, HeldOK, TokensOK, NoToken
<1>4. CASE StartWorker
  BY <1>3, <1>4 DEF StartWorker, Post, PostedOK, server, history
<1>5. CASE HandshakeRefused
  <2>1. late \/ muddled \/ Wanted = Blank \/ ~tokens[Wanted].live
    BY <1>3, <1>5 DEF HandshakeRefused, Strict, Live, ScreenOK, Account
  <2> QED  BY <1>3, <1>5, <2>1 DEF HandshakeRefused, Post, PostedOK, server, history
<1>6. ASSUME NEW m \in posted, WorkerReady(m) \/ SessionExpired(m) PROVE posted' \subseteq posted
  BY <1>6 DEF WorkerReady, SessionExpired
<1>7. ASSUME NEW a \in Accounts, LoginSubmit(a) \/ RegisterSubmit(a) PROVE UNCHANGED posted
  BY <1>7 DEF LoginSubmit, RegisterSubmit
<1>8. CASE ShowRegister \/ TwoFaSubmit \/ VerifySubmit \/ TwoFaSetup \/ TwoFaEnable
  <2>1. UNCHANGED posted
    BY <1>8 DEF ShowRegister, TwoFaSubmit, VerifySubmit, TwoFaSetup, TwoFaEnable
  <2> QED  BY <1>2, <2>1, PostedStays
<1>9. ASSUME NEW k \in Commands, Command(k) PROVE UNCHANGED posted
  BY <1>9 DEF Command
<1>10. CASE VoiceJoin \/ VoiceLeave \/ Logout \/ StopWorker
  <2>1. UNCHANGED posted
    BY <1>10 DEF VoiceJoin, VoiceLeave, Logout, StopWorker
  <2> QED  BY <1>2, <2>1, PostedStays
<1>11. ASSUME NEW q \in reqs,
              \/ SignedIn(q) \/ TwoFaResult(q) \/ SessionRestored(q) \/ SignInFailed(q)
              \/ LoginNeeds2fa(q) \/ VerifyResult(q)
       PROVE  UNCHANGED posted
  BY <1>11 DEF SignedIn, TwoFaResult, SessionRestored, SignInFailed, LoginNeeds2fa, VerifyResult
<1>12. ASSUME NEW q \in reqs,
              \/ TwoFaSetupResult(q) \/ TwoFaToggleResult(q) \/ ConversationsLoaded(q)
              \/ GuildsLoaded(q) \/ CommandResult(q)
       PROVE  UNCHANGED posted
  BY <1>12 DEF TwoFaSetupResult, TwoFaToggleResult, ConversationsLoaded, GuildsLoaded, CommandResult
<1>13. ASSUME UNCHANGED posted PROVE PostedOK'
  BY <1>2, <1>13, PostedStays
<1>14. ASSUME posted' \subseteq posted PROVE PostedOK'
  BY <1>2, <1>14, PostedStays
<1> QED  BY <1>4, <1>5, <1>6, <1>7, <1>8, <1>9, <1>10, <1>11, <1>12, <1>13, <1>14
         DEF UserStep, ClientStep

LEMMA ServerInv ==
  ASSUME Inv, ServerStep
  PROVE  Inv'
<1>1. UNCHANGED <<posted, token, user, screen, pending, file, links, late, forgot, hungOn>>
  BY ServerAlone
<1>2. TokensOK' /\ Kept /\ RequestsOK' /\ RestoresKept
  BY ServerStepKeeps DEF Inv, ServerKeeps
<1>3. Flags'
  BY FlagsStep DEF Inv, Running
<1>4. Stays
  BY <1>1 DEF Stays
<1>5. HeldOK'
  BY <1>1, <1>2, HeldStays DEF Inv
<1>6. ScreenOK' /\ FileOK'
  BY <1>2, <1>3, <1>4, ScreenStays, FileStays DEF Inv, Quiet
<1>7. CallOK'
  BY <1>1, <1>3, CallStays DEF Inv, links, callVars
<1>8. PostedOK'
  BY <1>1, <1>2, <1>3, PostedStays DEF Inv
<1> QED  BY <1>2, <1>3, <1>5, <1>6, <1>7, <1>8 DEF Inv

LEMMA ClientInv ==
  ASSUME Inv, UserStep \/ ClientStep
  PROVE  Inv'
<1>1. TokensOK' /\ Kept /\ RequestsOK' /\ RestoresKept
  BY UserKeeps, AnswerKeeps DEF Inv, ServerKeeps
<1>2. Flags'
  BY FlagsStep DEF Inv, Running
<1>3. CallOK' /\ PostedOK'
  BY <1>2, CallStep, PostedStep DEF Inv
<1>4. ClientQuiet
  BY UserQuiet, AnswerQuiet DEF Inv
<1>5. HeldOK' /\ ScreenOK' /\ FileOK'
  <2>1. CASE Stays \/ Ends
    BY <1>1, <1>2, <2>1, HeldStep, ScreenStays, FileStays DEF Inv, Quiet
  <2>2. ASSUME NEW q \in reqs,
               SignedIn(q) \/ TwoFaResult(q) \/ (SessionRestored(q) /\ q.result = "ok")
        PROVE  HeldOK' /\ ScreenOK' /\ FileOK'
    BY <1>1, <1>2, <1>4, <2>2, SignInSteps DEF Inv, Quiet
  <2>3. ASSUME NEW q \in reqs, UserAnswer(q), ClientStep
        PROVE  HeldOK' /\ ScreenOK' /\ FileOK'
    <3>1. ScreenOK' /\ FileOK'
      BY <1>1, <1>2, <2>3, UserAnswered DEF Inv, Quiet
    <3>2. UNCHANGED <<token, file>>
      BY <2>3 DEF UserAnswer
    <3>3. CASE UNCHANGED pending
      BY <1>1, <3>1, <3>2, <3>3, HeldStays DEF Inv
    <3>4. ASSUME NEW p \in reqs, LoginNeeds2fa(p) PROVE Stays
      BY <3>4 DEF LoginNeeds2fa, Stays, Inside
    <3> QED  BY <2>1, <2>3, <3>1, <3>3, <3>4, PendingStays
  <2> QED  BY <2>1, <2>2, <2>3, UserStaysOrEnds, AnswerStays DEF Inv
<1> QED  BY <1>1, <1>2, <1>3, <1>5 DEF Inv

(* boot: what is left is the file, and the server. *)
LEMMA BootRequests ==
  ASSUME TokensOK', file' \in 0..Len(tokens'),
         reqs' = IF file' = NoToken THEN {}
                 ELSE {[n |-> 1, kind |-> "restore", acct |-> NoAccount, tok |-> NoToken,
                        with |-> file', shown |-> NoSetup, result |-> "none", got |-> NoToken,
                        user |-> NoUser]}
  PROVE  RequestsOK' /\ (\A q \in reqs': q.with = file')
<1>1. CASE file' = NoToken
  BY <1>1 DEF RequestsOK
<1>2. CASE file' # NoToken
  <2>1. PICK f: f = file'
    OBVIOUS
  <2>2. PICK r: r = [n |-> 1, kind |-> "restore", acct |-> NoAccount, tok |-> NoToken,
                     with |-> f, shown |-> NoSetup, result |-> "none", got |-> NoToken,
                     user |-> NoUser]
    OBVIOUS
  <2>3. f \in 0..Len(tokens') /\ Len(tokens') \in Nat /\ NoUser \in Users
    BY <2>1 DEF TokensOK, Users, NoUser
  <2>4. IsRequest(r)'
    BY <2>2, <2>3 DEF IsRequest, Kinds, Results, NoToken
  <2>5. AskedAs(r)' /\ AnsweredAs(r)'
    BY <2>2 DEF AskedAs, AnsweredAs, SessionKinds, ChatKinds, Commands
  <2>6. reqs' = {r} /\ r.with = file'
    BY <1>2, <2>1, <2>2
  <2> QED  BY <2>4, <2>5, <2>6 DEF RequestsOK, RequestOK
<1> QED  BY <1>1, <1>2

LEMMA RestartInv ==
  ASSUME Inv, Restart
  PROVE  Inv'
<1>1. TokensOK'
  BY DEF Inv, Restart, server, TokensOK, Account
<1>2. Len(tokens) \in Nat
  BY DEF Inv, TokensOK
<1>3. HeldOK'
  BY <1>2 DEF Inv, Restart, server, HeldOK, NoToken
<1>4. file' = file /\ file' \in 0..Len(tokens')
  BY <1>3 DEF Restart, HeldOK
<1>5. RequestsOK' /\ (\A q \in reqs': q.with = file')
  BY <1>1, <1>4, BootRequests DEF Restart
<1>6. ScreenOK' /\ CallOK' /\ PostedOK'
  BY DEF Restart, ScreenOK, Inside, CallOK, PostedOK
<1>7. FileOK'
  BY <1>5 DEF Restart, FileOK
<1>8. Flags'
  BY DEF Inv, Restart, Flags
<1> QED  BY <1>1, <1>3, <1>5, <1>6, <1>7, <1>8 DEF Inv

LEMMA InitInv ==
  ASSUME Init
  PROVE  Inv
<1>1. TokensOK /\ file \in 0..Len(tokens) /\ Len(tokens) \in Nat
  <2>1. CASE tokens = <<>> /\ file = NoToken
    BY <2>1 DEF Init, TokensOK, Account, NoToken, TokenRecords
  <2>2. ASSUME NEW a \in exists, tokens = <<[acct |-> a, full |-> TRUE, live |-> TRUE]>>, file = 1
        PROVE  TokensOK /\ file \in 0..Len(tokens) /\ Len(tokens) \in Nat
    <3>1. PICK t: t = [acct |-> a, full |-> TRUE, live |-> TRUE]
      OBVIOUS
    <3>2. t \in TokenRecords /\ t.acct = a
      BY <2>2, <3>1 DEF Init, TokenRecords
    <3>3. tokens = <<t>>
      BY <2>2, <3>1
    <3>4. tokens \in Seq(TokenRecords) /\ Len(tokens) = 1 /\ DOMAIN tokens = {1} /\ tokens[1] = t
      BY <3>2, <3>3
    <3> QED  BY <2>2, <3>2, <3>4 DEF Init, TokensOK, Account
  <2> QED  BY <2>1, <2>2 DEF Init
<1>2. HeldOK
  BY <1>1 DEF Init, HeldOK, NoToken
<1>3. RequestsOK /\ (\A q \in reqs: q.with = file)
  <2>1. CASE file = NoToken
    BY <2>1 DEF Init, RequestsOK
  <2>2. CASE file # NoToken
    <3>1. PICK r: r = [n |-> 1, kind |-> "restore", acct |-> NoAccount, tok |-> NoToken,
                       with |-> file, shown |-> NoSetup, result |-> "none", got |-> NoToken,
                       user |-> NoUser]
      OBVIOUS
    <3>2. NoUser \in Users
      BY DEF Users, NoUser
    <3>3. IsRequest(r)
      BY <1>1, <3>1, <3>2 DEF IsRequest, Kinds, Results, NoToken
    <3>4. AskedAs(r) /\ AnsweredAs(r)
      BY <3>1 DEF AskedAs, AnsweredAs, SessionKinds, ChatKinds, Commands
    <3>5. reqs = {r} /\ r.with = file
      BY <2>2, <3>1 DEF Init
    <3> QED  BY <3>3, <3>4, <3>5 DEF RequestsOK, RequestOK
  <2> QED  BY <2>1, <2>2
<1>4. ScreenOK /\ CallOK /\ PostedOK /\ Flags
  <2>1. ScreenOK
    BY DEF Init, ScreenOK, Inside
  <2>2. CallOK /\ PostedOK /\ Flags
    BY DEF Init, CallOK, PostedOK, Flags
  <2> QED  BY <2>1, <2>2
<1>5. FileOK
  BY <1>3 DEF Init, FileOK
<1> QED  BY <1>1, <1>2, <1>3, <1>4, <1>5 DEF Inv

LEMMA StutterInv ==
  ASSUME Inv, UNCHANGED vars
  PROVE  Inv'
<1> USE DEF vars, server, account, links, history
<1>1. TokensOK' /\ HeldOK' /\ Flags'
  BY DEF Inv, TokensOK, HeldOK, Flags, Account
<1>2. Kept /\ RestoresKept
  BY DEF Inv, TokensOK, Kept, TokensLast, RestoresKept
<1>3. RequestsOK'
  BY <1>1, <1>2, RequestKept DEF Inv, RequestsOK
<1>4. ScreenOK' /\ FileOK' /\ CallOK' /\ PostedOK'
  BY DEF Inv, ScreenOK, FileOK, CallOK, PostedOK, Account
<1> QED  BY <1>1, <1>3, <1>4 DEF Inv

LEMMA Invariance == Spec => []Inv
<1>1. Inv /\ [Next]_vars => Inv'
  BY ServerInv, ClientInv, RestartInv, StutterInv DEF Next
<1> QED  BY <1>1, InitInv, PTL DEF Spec

(* The user shown is the one whose session it is, and the chat is of one who has a second
   factor (main.rs, LoginResult to SessionExpired), however the answers of one session are
   ordered, lost or refused. *)
THEOREM UserIsOfSession == Spec => []SignedInAsShown
<1>1. Inv => SignedInAsShown
  BY DEF Inv, ScreenOK, SignedInAsShown, Inside, Account
<1> QED  BY <1>1, Invariance, PTL

(* The session file (main.rs, save_session) is of the session in use. *)
THEOREM FileIsOfSession == Spec => []FileIsCurrent
<1>1. Inv => FileIsCurrent
  BY DEF Inv, FileOK, FileIsCurrent
<1> QED  BY <1>1, Invariance, PTL

(* A call (main.rs, VoiceJoin) ends with the session that joined it. *)
THEOREM CallEndsWithSession == Spec => []VoiceOnlyInSession
<1>1. Inv => VoiceOnlyInSession
  BY DEF Inv, CallOK, VoiceOnlyInSession
<1> QED  BY <1>1, Invariance, PTL

-----------------------------------------------------------------------------
(* How sessions end. *)

Ended == token # NoToken /\ token' = NoToken
Rightly == late' \/ muddled \/ ~Strict(token) \/ token \in throttled

LEMMA RefusedRightly ==
  ASSUME Inv, NEW q \in reqs, q.kind \in SessionKinds, ApiError(q), Overtaken(q), Ended
  PROVE  Rightly
<1>1. q.result = "unauthorized"
  BY DEF ApiError, Ended
<1>2. ~late' => q.with = token
  BY DEF Overtaken, Inv, Flags, RequestsOK, RequestOK, AskedAs
<1>3. ~(q.with > NoToken) \/ q.with \in throttled \/ ~tokens[q.with].live
  BY <1>1 DEF Inv, RequestsOK, RequestOK, AnsweredAs
<1> QED  BY <1>2, <1>3 DEF Ended, Rightly, Strict, Live

LEMMA EndsRightly ==
  ASSUME Inv, Next, Ended
  PROVE  Logout \/ Restart \/ Rightly
<1> USE DEF Ended
<1>1. ASSUME NEW a \in Accounts, LoginSubmit(a) \/ RegisterSubmit(a) PROVE FALSE
  BY <1>1 DEF LoginSubmit, RegisterSubmit
<1>2. CASE ShowRegister \/ TwoFaSubmit \/ VerifySubmit \/ TwoFaSetup \/ TwoFaEnable
  BY <1>2 DEF ShowRegister, TwoFaSubmit, VerifySubmit, TwoFaSetup, TwoFaEnable
<1>3. ASSUME NEW k \in Commands, Command(k) PROVE FALSE
  BY <1>3 DEF Command
<1>4. CASE VoiceJoin \/ VoiceLeave \/ StartWorker \/ StopWorker \/ HandshakeRefused
  BY <1>4 DEF VoiceJoin, VoiceLeave, StartWorker, StopWorker, HandshakeRefused, account
<1>5. CASE ServerStep
  BY <1>5, ServerAlone
<1>6. ASSUME NEW q \in reqs,
             SignedIn(q) \/ TwoFaResult(q) \/ (SessionRestored(q) /\ q.result = "ok")
      PROVE  FALSE
  <2>1. Begins(q)
    BY <1>6 DEF Begins, SignedIn, TwoFaResult, SessionRestored
  <2> QED  BY <2>1, BegunSession DEF Begins, Inv
<1>7. ASSUME NEW q \in reqs, SignInFailed(q) \/ LoginNeeds2fa(q) \/ VerifyResult(q) PROVE FALSE
  BY <1>7 DEF SignInFailed, LoginNeeds2fa, VerifyResult
<1>8. ASSUME NEW q \in reqs, SessionRestored(q), q.result # "ok" PROVE FALSE
  BY <1>8 DEF SessionRestored
<1>9. ASSUME NEW q \in reqs, TwoFaSetupResult(q) \/ ConversationsLoaded(q) \/ CommandResult(q)
      PROVE  Rightly
  BY <1>9, RefusedRightly
  DEF TwoFaSetupResult, ConversationsLoaded, CommandResult, SessionKinds, ChatKinds
<1>10. ASSUME NEW q \in reqs, TwoFaToggleResult(q) PROVE Rightly
  BY <1>10, RefusedRightly DEF TwoFaToggleResult, SessionKinds
<1>11. ASSUME NEW q \in reqs, GuildsLoaded(q) PROVE Rightly
  <2>1. ~Live(q.with) /\ q.kind = "guilds" /\ Overtaken(q)
    BY <1>11 DEF GuildsLoaded
  <2>2. ~late' => q.with = token
    BY <2>1 DEF Overtaken, Inv, Flags, RequestsOK, RequestOK, AskedAs, SessionKinds, ChatKinds
  <2> QED  BY <2>1, <2>2 DEF Rightly, Strict
<1>12. ASSUME NEW m \in posted, WorkerReady(m) PROVE FALSE
  BY <1>12 DEF WorkerReady, account
<1>13. ASSUME NEW m \in posted, SessionExpired(m) PROVE Rightly
  <2>1. late \/ muddled \/ m.tok = Blank \/ ~tokens[m.tok].live
    BY <1>13 DEF SessionExpired, Inv, PostedOK
  <2>2. late' = (late \/ m.tok # token)
    BY <1>13 DEF SessionExpired
  <2>3. late' \/ m.tok = token
    BY <2>2 DEF Inv, Flags
  <2> QED  BY <2>1, <2>2, <2>3 DEF Rightly, Strict, Live, Inv, Flags
<1> QED  BY <1>1, <1>2, <1>3, <1>4, <1>5, <1>6, <1>7, <1>8, <1>9, <1>10, <1>11, <1>12, <1>13
         DEF Next, UserStep, ClientStep

(* The client (main.rs, handle_api_error, SessionExpired) ends no session that the server
   still honours, but for late answers, a second factor set up again, and the limit on codes. *)
THEOREM SessionsEndRightly == Spec => OnlyDeadSessionsEnd
<1>1. Inv /\ [Next]_vars =>
        [token # NoToken /\ token' = NoToken =>
           Logout \/ Restart \/ late' \/ muddled \/ ~Strict(token) \/ token \in throttled]_vars
  BY EndsRightly DEF Ended, Rightly
<1> QED  BY <1>1, Invariance, PTL DEF Spec, OnlyDeadSessionsEnd

-----------------------------------------------------------------------------
(* The secret on the screen.  Unless setups overlapped there is at most one request for a
   secret; its answer holds the secret the server stores, and so does the screen once the
   answer has come. *)

Stored(t) == [acct |-> Account(t), n |-> secret[Account(t)]]
SetupRequests == {q \in reqs: q.kind = "setup"}
SecretOK ==
  /\ secret \in [Accounts -> Nat]
  /\ ~muddled =>
       /\ \A p, q \in SetupRequests: p = q
       /\ \A q \in SetupRequests: q.result = "ok" => q.with > NoToken /\ q.shown = Stored(q.with)
       /\ screen = "TwoFaSetup" /\ setup # NoSetup /\ ~late /\ SetupRequests = {} =>
            token > NoToken /\ setup = Stored(token)

(* What most actions do: they ask for no secret, answer none, and do not open the screen. *)
Aside ==
  /\ SetupRequests' = SetupRequests /\ secret' = secret /\ setup' \in {setup, NoSetup}
  /\ screen' = "TwoFaSetup" => UNCHANGED <<screen, token>>

LEMMA StoredStays ==
  ASSUME TokensOK, Kept, secret' = secret, NEW t \in Blank..Len(tokens), t > NoToken
  PROVE  Stored(t)' = Stored(t)
BY DEF Kept, TokensOK, TokensLast, Stored, Account, NoToken

LEMMA AsideKeeps ==
  ASSUME Inv, Kept, SecretOK, Aside
  PROVE  SecretOK'
<1> SUFFICES ASSUME ~muddled'
             PROVE  /\ \A p, q \in SetupRequests': p = q
                    /\ \A q \in SetupRequests': q.result = "ok" => q.with > NoToken /\ q.shown = Stored(q.with)'
                    /\ screen' = "TwoFaSetup" /\ setup' # NoSetup /\ ~late' /\ SetupRequests' = {} =>
                         token' > NoToken /\ setup' = Stored(token)'
  BY DEF SecretOK, Aside
<1>1. ~muddled /\ (late => late')
  BY DEF Kept
<1>2. \A q \in SetupRequests: q.with \in Blank..Len(tokens)
  BY DEF Inv, RequestsOK, RequestOK, IsRequest, SetupRequests
<1>3. ASSUME NEW q \in SetupRequests', q.result = "ok"
      PROVE  q.with > NoToken /\ q.shown = Stored(q.with)'
  <2>1. PICK t: t = q.with
    OBVIOUS
  <2>2. t \in Blank..Len(tokens) /\ t > NoToken /\ q.shown = Stored(t)
    BY <1>1, <1>2, <1>3, <2>1 DEF Aside, SecretOK
  <2> QED  BY <2>1, <2>2, StoredStays DEF Inv, Aside
<1>4. ASSUME screen' = "TwoFaSetup", setup' # NoSetup, ~late', SetupRequests' = {}
      PROVE  token' > NoToken /\ setup' = Stored(token)'
  <2>1. PICK t: t = token
    OBVIOUS
  <2>2. t \in Blank..Len(tokens) /\ t > NoToken /\ setup' = Stored(t) /\ token' = t
    BY <1>1, <1>4, <2>1 DEF Aside, SecretOK, Inv, HeldOK
  <2>3. Stored(t)' = Stored(t)
    BY <2>2, StoredStays DEF Inv, Aside
  <2> QED  BY <2>2, <2>3 DEF Stored, Account
<1> QED  BY <1>1, <1>3, <1>4 DEF Aside, SecretOK

-----------------------------------------------------------------------------
(* The server. *)

LEMMA RepliedAside ==
  ASSUME NEW q \in reqs, NEW r, r.kind = q.kind, q.kind # "setup", Reply(q, r)
  PROVE  SetupRequests' = SetupRequests
BY DEF Reply, SetupRequests

LEMMA ServerAside ==
  ASSUME Inv, NEW q \in reqs,
         \/ Login(q) \/ Register(q) \/ Login2fa(q) \/ Verify(q) \/ Enable(q) \/ Throttle(q) \/ Authorised(q)
         \/ Fail(q) /\ q.kind # "setup"
         \/ Unreadable(q)
  PROVE  Aside
<1>1. PICK r: Reply(q, r) /\ r.kind = q.kind
  <2>1. IsRequest(q)
    BY DEF Inv, RequestsOK, RequestOK
  <2>2. CASE Login(q)
    <3>1. PICK r: /\ \/ r = [Refused(q, "needs2fa") EXCEPT !.got = Len(tokens) + 1]
                    \/ r = Granted(q, Len(tokens) + 1, q.acct)
                  /\ Reply(q, r)
      BY <2>2 DEF Login
    <3>2. r.kind = q.kind
      BY <2>1, <3>1 DEF Refused, Granted, IsRequest
    <3> QED  BY <3>1, <3>2
  <2>3. CASE Register(q)
    <3>1. PICK r: /\ \/ r = Refused(q, "failed")
                    \/ r = [Granted(q, Len(tokens) + 1, q.acct) EXCEPT !.user.verified = ~VerifyEmails]
                  /\ Reply(q, r)
      BY <2>3 DEF Register
    <3>2. r.kind = q.kind
      BY <2>1, <3>1 DEF Refused, Granted, IsRequest
    <3> QED  BY <3>1, <3>2
  <2>4. CASE Login2fa(q)
    <3>1. PICK r: /\ \/ r = Refused(q, "failed")
                    \/ r = Granted(q, q.with, tokens[q.with].acct)
                  /\ Reply(q, r)
      BY <2>4 DEF Login2fa
    <3>2. r.kind = q.kind
      BY <2>1, <3>1 DEF Refused, Granted, IsRequest
    <3> QED  BY <3>1, <3>2
  <2>5. CASE Verify(q)
    <3>1. PICK r: /\ \/ r = Refused(q, "failed")
                    \/ r = [Granted(q, NoToken, tokens[q.with].acct) EXCEPT !.user.verified = TRUE]
                  /\ Reply(q, r)
      BY <2>5 DEF Verify
    <3>2. r.kind = q.kind
      BY <2>1, <3>1 DEF Refused, Granted, IsRequest
    <3> QED  BY <3>1, <3>2
  <2>6. CASE Enable(q)
    <3>1. PICK r: /\ \/ r = Refused(q, "failed")
                    \/ r = Refused(q, "unauthorized")
                    \/ r = [Granted(q, NoToken, tokens[q.with].acct) EXCEPT !.user.enrolled = TRUE]
                  /\ Reply(q, r)
      BY <2>6 DEF Enable
    <3>2. r.kind = q.kind
      BY <2>1, <3>1 DEF Refused, Granted, IsRequest
    <3> QED  BY <3>1, <3>2
  <2>7. CASE Throttle(q)
    <3>1. PICK r: /\ r = Refused(q, "unauthorized")
                  /\ Reply(q, r)
      BY <2>7 DEF Throttle
    <3>2. r.kind = q.kind
      BY <2>1, <3>1 DEF Refused, Granted, IsRequest
    <3> QED  BY <3>1, <3>2
  <2>8. CASE Authorised(q)
    <3>1. PICK r: /\ \/ r = Granted(q, q.with, tokens[q.with].acct)
                    \/ r = Refused(q, "failed")
                    \/ r = Refused(q, "unauthorized")
                  /\ Reply(q, r)
      BY <2>8 DEF Authorised
    <3>2. r.kind = q.kind
      BY <2>1, <3>1 DEF Refused, Granted, IsRequest
    <3> QED  BY <3>1, <3>2
  <2>9. CASE Fail(q)
    <3>1. PICK r: /\ r = [Refused(q, "failed") EXCEPT !.got = NoToken, !.user = NoUser]
                  /\ Reply(q, r)
      BY <2>9 DEF Fail
    <3>2. r.kind = q.kind
      BY <2>1, <3>1 DEF Refused, Granted, IsRequest
    <3> QED  BY <3>1, <3>2
  <2>10. CASE Unreadable(q)
    <3>1. PICK r: /\ r = [Refused(q, "ok") EXCEPT !.got = Blank, !.user = Nobody]
                  /\ Reply(q, r)
      BY <2>10 DEF Unreadable
    <3>2. r.kind = q.kind
      BY <2>1, <3>1 DEF Refused, Granted, IsRequest
    <3> QED  BY <3>1, <3>2
  <2> QED  BY <2>2, <2>3, <2>4, <2>5, <2>6, <2>7, <2>8, <2>9, <2>10
<1>2. q.kind # "setup"
  BY DEF Login, Register, Login2fa, Verify, Enable, Throttle, Authorised, Unreadable, Served, Commands
<1>3. UNCHANGED <<secret, setup, screen, token>>
  BY DEF Login, Register, Login2fa, Verify, Enable, Throttle, Authorised, Fail, Unreadable, Unaffected, server, account
<1> QED  BY <1>1, <1>2, <1>3, RepliedAside DEF Aside

LEMMA RevokeAside == ASSUME NEW t, Revoke(t) PROVE Aside
BY DEF Revoke, Aside, SetupRequests, account

(* The only request for a secret is answered with what is stored. *)
LEMMA SetupSecret ==
  ASSUME Inv, Kept, SecretOK, NEW q \in reqs, Setup(q)
  PROVE  SecretOK'
<1>1. q.kind = "setup" /\ q.result = "none" /\ IsRequest(q) /\ RequestOK(q)
  BY DEF Setup, Served, Inv, RequestsOK, RequestOK
<1>2. UNCHANGED <<tokens, setup, screen, token, late>>
  BY DEF Setup, account
<1>3. PICK r: reqs' = (reqs \ {q}) \union {r} /\ r.kind = "setup"
      /\ \/ r.result = "unauthorized" /\ secret' = secret
         \/ /\ r.with > NoToken /\ r.with = q.with /\ secret' = [secret EXCEPT ![Account(q.with)] = @ + 1]
            /\ r.shown = [acct |-> Account(q.with), n |-> secret[Account(q.with)] + 1]
  <2>1. CASE Live(q.with)
    <3>1. PICK r: /\ r = [Refused(q, "ok") EXCEPT !.shown = [acct |-> Account(q.with), n |-> secret[Account(q.with)] + 1]]
                  /\ Reply(q, r)
      BY <2>1 DEF Setup, Account
    <3>2. r.kind = "setup" /\ r.with = q.with
          /\ r.shown = [acct |-> Account(q.with), n |-> secret[Account(q.with)] + 1]
      BY <1>1, <3>1 DEF Refused, IsRequest
    <3> QED  BY <2>1, <3>1, <3>2 DEF Setup, Reply, Live, Account
  <2>2. CASE ~Live(q.with)
    <3>1. PICK r: r = Refused(q, "unauthorized") /\ Reply(q, r)
      BY <2>2 DEF Setup
    <3>2. r.kind = "setup" /\ r.result = "unauthorized"
      BY <1>1, <3>1 DEF Refused, IsRequest
    <3> QED  BY <2>2, <3>1, <3>2 DEF Setup, Reply
  <2> QED  BY <2>1, <2>2
<1>4. CASE muddled'
  <2>1. secret' \in [Accounts -> Nat]
    <3>1. q.with > NoToken => Account(q.with) \in Accounts
      BY <1>1 DEF Inv, TokensOK, IsRequest, NoToken, Account
    <3> QED  BY <1>3, <3>1 DEF SecretOK
  <2> QED  BY <1>4, <2>1 DEF SecretOK
<1>5. CASE ~muddled'
  <2>1. ~muddled
    BY <1>5 DEF Kept
  <2>2. SetupRequests' = {r}
    BY <1>1, <1>3, <2>1 DEF SecretOK, SetupRequests
  <2>3. PICK w: w = q.with
    OBVIOUS
  <2>4. w \in Blank..Len(tokens) /\ (w > NoToken => Account(w) \in Accounts)
    BY <1>1, <2>3 DEF Inv, TokensOK, IsRequest, NoToken, Account
  <2>5. secret' \in [Accounts -> Nat]
    BY <1>3, <2>3, <2>4 DEF SecretOK
  <2>6. r.result = "ok" => r.with > NoToken /\ r.shown = Stored(r.with)'
    <3>1. ASSUME r.result = "ok" PROVE r.with = w /\ w > NoToken /\ r.shown = Stored(w)'
      <4>1. secret'[Account(w)] = secret[Account(w)] + 1 /\ w > NoToken /\ r.with = w
        BY <1>3, <2>3, <2>4, <3>1 DEF SecretOK
      <4>2. Account(w)' = Account(w)
        BY <1>2 DEF Account
      <4> QED  BY <1>3, <2>3, <3>1, <4>1, <4>2 DEF Stored
    <3> QED  BY <3>1 DEF Stored, Account
  <2> QED  BY <2>2, <2>5, <2>6 DEF SecretOK
<1> QED  BY <1>4, <1>5

LEMMA FailSecret ==
  ASSUME Inv, Kept, SecretOK, NEW q \in reqs, Fail(q), q.kind = "setup"
  PROVE  SecretOK'
<1>1. PICK r: r = [Refused(q, "failed") EXCEPT !.got = NoToken, !.user = NoUser] /\ Reply(q, r)
  BY DEF Fail
<1>2. r.kind = "setup" /\ r.result = "failed"
  BY <1>1 DEF Refused, Inv, RequestsOK, RequestOK, IsRequest
<1>3. UNCHANGED <<secret, tokens, muddled>>
  BY DEF Fail, server, history
<1>4. reqs' = (reqs \ {q}) \union {r}
  BY <1>1 DEF Reply
<1>5. ~muddled => SetupRequests' = {r}
  BY <1>2, <1>4 DEF SecretOK, SetupRequests
<1> QED  BY <1>2, <1>3, <1>5 DEF SecretOK

LEMMA ServerSecret ==
  ASSUME Inv, Kept, SecretOK, ServerStep
  PROVE  SecretOK'
BY ServerAside, RevokeAside, AsideKeeps, SetupSecret, FailSecret DEF ServerStep

-----------------------------------------------------------------------------
(* The client. *)

(* A request for something else, and the answer to one. *)
LEMMA CalledAside ==
  ASSUME NEW kind, kind # "setup", NEW a, NEW with, Call(kind, a, with)
  PROVE  SetupRequests' = SetupRequests
<1>1. RequestOf(kind, a, token, with).kind = kind
  BY FreshFields
<1> QED  BY <1>1 DEF Call, SetupRequests

LEMMA TakenAside ==
  ASSUME NEW q \in reqs, q.kind # "setup",
         \/ reqs' = reqs \ {q}
         \/ \E kind, tok: kind # "setup" /\ TakeAndCall(q, kind, tok)
  PROVE  SetupRequests' = SetupRequests
<1>1. CASE reqs' = reqs \ {q}
  BY <1>1 DEF SetupRequests
<1>2. ASSUME NEW kind, NEW tok, kind # "setup", TakeAndCall(q, kind, tok)
      PROVE  SetupRequests' = SetupRequests
  <2>1. RequestOf(kind, NoAccount, tok, tok).kind = kind
    BY FreshFields
  <2> QED  BY <1>2, <2>1 DEF TakeAndCall, SetupRequests
<1> QED  BY <1>1, <1>2

(* A new request for a secret: it is the only one, or the setups overlap. *)
LEMMA SetupAsked ==
  ASSUME Inv, SecretOK, ~muddled' => ~muddled, secret' = secret,
         NEW tok, NEW old \in SUBSET reqs, \A q \in old: q.kind # "setup",
         reqs' = (reqs \ old) \union {RequestOf("setup", NoAccount, tok, tok)},
         Muddle({"setup", "enable"})
  PROVE  SecretOK'
<1>1. PICK r: r = RequestOf("setup", NoAccount, tok, tok)
  OBVIOUS
<1>2. r.kind = "setup" /\ r.result = "none"
  BY <1>1, FreshFields
<1>3. ~muddled' => SetupRequests' = {r}
  BY <1>1, <1>2 DEF Muddle, SetupRequests
<1> QED  BY <1>2, <1>3 DEF SecretOK

LEMMA UserSecret ==
  ASSUME Inv, Kept, SecretOK, UserStep
  PROVE  SecretOK'
<1> USE DEF server
<1>1. CASE TwoFaSetup
  <2>1. reqs' = (reqs \ {}) \union {RequestOf("setup", NoAccount, token, token)}
        /\ secret' = secret /\ Muddle({"setup", "enable"})
    BY <1>1 DEF TwoFaSetup, Call
  <2> QED  BY <2>1, SetupAsked DEF Kept
<1>2. CASE \E a \in Accounts: LoginSubmit(a) \/ RegisterSubmit(a)
  BY <1>2, CalledAside, AsideKeeps DEF LoginSubmit, RegisterSubmit, Aside
<1>3. CASE TwoFaSubmit \/ VerifySubmit
  BY <1>3, CalledAside, AsideKeeps DEF TwoFaSubmit, VerifySubmit, Aside
<1>4. CASE TwoFaEnable
  BY <1>4, CalledAside, AsideKeeps DEF TwoFaEnable, Aside
<1>5. ASSUME NEW k \in Commands, Command(k) PROVE SecretOK'
  BY <1>5, CalledAside, AsideKeeps DEF Command, Commands, Aside
<1>6. CASE ShowRegister \/ VoiceJoin \/ VoiceLeave
  BY <1>6, AsideKeeps DEF ShowRegister, VoiceJoin, VoiceLeave, Aside, SetupRequests, account
<1>7. CASE Logout
  BY <1>7, AsideKeeps DEF Logout, ClearSession, Aside, SetupRequests
<1> QED  BY <1>1, <1>2, <1>3, <1>4, <1>5, <1>6, <1>7 DEF UserStep

(* An answer that ends the session leaves the screen of the second factor. *)
LEMMA ErrorAside ==
  ASSUME NEW q, ApiError(q) \/ EndSession
  PROVE  screen' = "TwoFaSetup" => UNCHANGED <<screen, token>>
BY DEF ApiError, EndSession, ClearSession

LEMMA EnterSecret ==
  ASSUME Inv, Kept, SecretOK, NEW q \in reqs, q.kind # "setup", NEW u, NEW tok, EnterAs(q, u, tok),
         UNCHANGED <<secret, setup>>
  PROVE  SecretOK'
<1>1. CASE screen' = "Chat" /\ TakeAndCall(q, "list", tok)
  BY <1>1, TakenAside, AsideKeeps DEF Aside
<1>2. CASE screen' = "Verify" /\ Take(q)
  BY <1>2, TakenAside, AsideKeeps DEF Aside, Take
<1>3. CASE TakeAndCall(q, "setup", tok) /\ Muddle({"setup", "enable"})
  <2>1. {q} \in SUBSET reqs /\ reqs' = (reqs \ {q}) \union {RequestOf("setup", NoAccount, tok, tok)}
    BY <1>3 DEF TakeAndCall
  <2> QED  BY <1>3, <2>1, SetupAsked DEF Kept
<1> QED  BY <1>1, <1>2, <1>3 DEF EnterAs

(* The secret comes to the screen, or does not. *)
LEMMA ShownSecret ==
  ASSUME Inv, Kept, SecretOK, NEW q \in reqs, TwoFaSetupResult(q)
  PROVE  SecretOK'
<1>1. /\ q.kind = "setup" /\ reqs' = reqs \ {q} /\ UNCHANGED <<secret, tokens>>
      /\ late' = (late \/ q.tok # token)
  BY DEF TwoFaSetupResult, Take, Overtaken, server
<1>2. ~muddled' => ~muddled
  BY DEF Kept
<1>3. ~muddled => SetupRequests' = {}
  BY <1>1 DEF SecretOK, SetupRequests
<1>4. CASE q.result = "ok"
  <2>1. setup' = q.shown /\ token' = token
    BY <1>4 DEF TwoFaSetupResult, ApiError
  <2>2. ~muddled => q.with > NoToken /\ q.shown = Stored(q.with)
    BY <1>1, <1>4 DEF SecretOK, SetupRequests
  <2>3. q.with = q.tok
    BY <1>1 DEF Inv, RequestsOK, RequestOK, AskedAs, SessionKinds
  <2>4. ~muddled /\ ~late' => token' > NoToken /\ setup' = Stored(token)'
    BY <1>1, <2>1, <2>2, <2>3 DEF Stored, Account
  <2> QED  BY <1>1, <1>2, <1>3, <2>4 DEF SecretOK
<1>5. CASE q.result # "ok"
  <2>1. setup' = setup /\ (~muddled' => setup = NoSetup)
    BY <1>5 DEF TwoFaSetupResult, Inv, Flags
  <2> QED  BY <1>1, <1>2, <1>3, <2>1 DEF SecretOK
<1> QED  BY <1>4, <1>5

LEMMA AnswerSecret ==
  ASSUME Inv, Kept, SecretOK, NEW q \in reqs,
         \/ SignedIn(q) \/ SignInFailed(q) \/ LoginNeeds2fa(q) \/ TwoFaResult(q) \/ VerifyResult(q)
         \/ SessionRestored(q) \/ TwoFaToggleResult(q) \/ ConversationsLoaded(q) \/ GuildsLoaded(q)
         \/ CommandResult(q)
  PROVE  SecretOK'
<1> USE DEF server
<1>1. CASE SignedIn(q)
  BY <1>1, EnterSecret DEF SignedIn
<1>2. CASE VerifyResult(q)
  <2>1. CASE Take(q) /\ UNCHANGED screen
    BY <1>2, <2>1, TakenAside, AsideKeeps DEF VerifyResult, Aside, Take
  <2>2. CASE EnterAs(q, [q.user EXCEPT !.verified = TRUE], token)
    BY <1>2, <2>2, EnterSecret DEF VerifyResult
  <2> QED  BY <1>2, <2>1, <2>2 DEF VerifyResult
<1>3. CASE SignInFailed(q)
  BY <1>3, TakenAside, AsideKeeps DEF SignInFailed, Aside, Take
<1>4. CASE LoginNeeds2fa(q)
  BY <1>4, TakenAside, AsideKeeps DEF LoginNeeds2fa, Aside, Take
<1>5. CASE TwoFaResult(q)
  BY <1>5, TakenAside, AsideKeeps DEF TwoFaResult, Aside
<1>6. CASE SessionRestored(q)
  BY <1>6, TakenAside, AsideKeeps DEF SessionRestored, Aside, Take
<1>7. CASE TwoFaToggleResult(q)
  <2>1. SetupRequests' = SetupRequests
    BY <1>7, TakenAside DEF TwoFaToggleResult, Take
  <2>2. screen' = "TwoFaSetup" => UNCHANGED <<screen, token>>
    BY <1>7, ErrorAside DEF TwoFaToggleResult
  <2> QED  BY <1>7, <2>1, <2>2, AsideKeeps DEF TwoFaToggleResult, Aside
<1>8. CASE ConversationsLoaded(q)
  <2>1. SetupRequests' = SetupRequests
    BY <1>8, TakenAside DEF ConversationsLoaded, Take
  <2> QED  BY <1>8, <2>1, ErrorAside, AsideKeeps DEF ConversationsLoaded, Aside
<1>9. CASE GuildsLoaded(q)
  <2>1. SetupRequests' = SetupRequests
    BY <1>9, TakenAside DEF GuildsLoaded
  <2>2. screen' = "TwoFaSetup" => UNCHANGED <<screen, token>>
    BY <1>9, ErrorAside DEF GuildsLoaded
  <2> QED  BY <1>9, <2>1, <2>2, AsideKeeps DEF GuildsLoaded, Aside
<1>10. CASE CommandResult(q)
  <2>1. SetupRequests' = SetupRequests
    <3>1. \A k: RequestOf(k, NoAccount, token, token).kind = k
      BY FreshFields
    <3>2. reqs' = (reqs \ {q}) \union
                    (IF q.result = "ok" THEN {RequestOf(k, NoAccount, token, token): k \in {"guilds", "list"}} ELSE {})
          /\ q.kind # "setup"
      BY <1>10 DEF CommandResult, Commands
    <3> QED  BY <3>1, <3>2 DEF SetupRequests
  <2> QED  BY <1>10, <2>1, ErrorAside, AsideKeeps DEF CommandResult, Aside
<1> QED  BY <1>1, <1>2, <1>3, <1>4, <1>5, <1>6, <1>7, <1>8, <1>9, <1>10

LEMMA ClientSecret ==
  ASSUME Inv, Kept, SecretOK, ClientStep
  PROVE  SecretOK'
<1>1. ASSUME NEW q \in reqs, TwoFaSetupResult(q) PROVE SecretOK'
  BY <1>1, ShownSecret
<1>2. ASSUME NEW m \in posted, WorkerReady(m) PROVE SecretOK'
  BY <1>2, AsideKeeps DEF WorkerReady, Aside, SetupRequests, server, account
<1>3. ASSUME NEW m \in posted, SessionExpired(m) PROVE SecretOK'
  BY <1>3, ErrorAside, AsideKeeps DEF SessionExpired, Aside, SetupRequests, server
<1>4. CASE StartWorker \/ StopWorker \/ HandshakeRefused
  BY <1>4, AsideKeeps DEF StartWorker, StopWorker, HandshakeRefused, Aside, SetupRequests, server, account
<1> QED  BY <1>1, <1>2, <1>3, <1>4, AnswerSecret DEF ClientStep

LEMMA SecretKept == Inv /\ SecretOK /\ [Next]_vars => SecretOK'
<1> SUFFICES ASSUME Inv, SecretOK, [Next]_vars PROVE SecretOK'
  OBVIOUS
<1>1. CASE ServerStep
  BY <1>1, ServerStepKeeps, ServerSecret DEF Inv, ServerKeeps
<1>2. CASE UserStep
  BY <1>2, UserKeeps, UserSecret DEF Inv, ServerKeeps
<1>3. CASE ClientStep
  BY <1>3, AnswerKeeps, ClientSecret DEF Inv, ServerKeeps
<1>4. CASE Restart
  <2>1. \A q \in reqs': q.kind # "setup"
    BY <1>4 DEF Restart
  <2>2. secret' = secret /\ setup' = NoSetup
    BY <1>4 DEF Restart, server
  <2> QED  BY <2>1, <2>2 DEF SecretOK, SetupRequests
<1>5. CASE UNCHANGED vars
  BY <1>5 DEF vars, server, account, history, SecretOK, SetupRequests, Stored, Account
<1> QED  BY <1>1, <1>2, <1>3, <1>4, <1>5 DEF Next

(* two_fa_setup and two_fa_enable: the secret on the screen (main.rs, TwoFaSetupResult) is
   the one that the server stores and will check the code against, for any accounts and any
   order of answers, unless setups overlapped or one failed over another. *)
THEOREM ShownIsStored == Spec => []SecretIsStored
<1>1. Init => SecretOK
  <2> SUFFICES ASSUME Init PROVE SecretOK
    OBVIOUS
  <2>1. secret \in [Accounts -> Nat]
    BY DEF Init
  <2>2. \A q \in reqs: q.kind # "setup"
    BY DEF Init
  <2> QED  BY <2>1, <2>2 DEF Init, SecretOK, SetupRequests
<1>2. SecretOK => SecretIsStored
  BY DEF SecretOK, SecretIsStored, SetupRequests, Stored, Account
<1> QED  BY <1>1, <1>2, InitInv, Invariance, SecretKept, PTL DEF Spec
=============================================================================
