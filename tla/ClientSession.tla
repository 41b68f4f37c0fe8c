---------------------------- MODULE ClientSession ----------------------------
(***************************************************************************)
(* How the desktop client signs in and out (crates/feditexter-iced/src/    *)
(* main.rs) against auth_handlers.rs: the screens of login, registration,  *)
(* second factor and verification, the session file, the websocket worker  *)
(* that runs while a session is in the chat, and the end of a session that *)
(* the server no longer knows.  Every answer, and every message of the     *)
(* worker, is applied when it comes, to whatever the client shows by then. *)
(* What a handler posts to itself (Task::done) is handled with it.         *)
(*                                                                         *)
(* The sessions of other devices and the overlapping of requests at the    *)
(* server are the subject of Sessions.                                     *)
(***************************************************************************)
EXTENDS Integers, Sequences, FiniteSets, FiniteSetsExt

CONSTANTS
  Accounts,      \* the accounts
  VerifyEmails,  \* the server's verify_emails
  MaxSteps       \* bound: what the user does, revocations and losses

ASSUME SessionAssumption == VerifyEmails \in BOOLEAN /\ MaxSteps \in Nat

VARIABLES
  exists, verified, enrolled,  \* accounts; email_verified; totp_enabled
  secret,     \* secret[a]: number of the totp_secret of a, 0 if none
  tokens,     \* the sessions ever created, in that order
  reqs,       \* requests and answers on their way
  posted,     \* messages of the worker, not handled yet
  token,      \* index of the token in use, or NoToken
  user,       \* the user shown: account and flags
  screen,
  pending,    \* pending_token
  busy,       \* auth_busy
  setup,      \* twofa_setup, the secret on the screen
  setupBusy,  \* twofa_busy
  guildBusy,  \* guild_busy
  file,       \* the token in ~/.feditexter_session, or NoToken
  worker,     \* the token of the running ws_worker, or NoToken
  voice,      \* the worker that the voice manager belongs to
  call,       \* the voice manager that is in a channel, or NoToken
  steps,      \* bound only
  late,       \* history: an answer of an earlier session was taken
  forgot,     \* history: the file of another session was left where it was
  muddled,    \* history: a setup overlapped another or the enabling, failed,
              \* or was of an account that had its second factor
  hungOn,     \* history: a call was left behind
  throttled   \* history: tokens refused with 401 for asking too often

server  == <<exists, verified, enrolled, secret, tokens>>
account == <<token, user, screen, pending, busy, setup, setupBusy, guildBusy>>
links   == <<worker, voice, call>>
history == <<late, forgot, muddled, hungOn, throttled>>
vars == <<server, reqs, posted, account, file, links, steps, history>>

NoToken == 0
Blank   == -1   \* Some(""), of a body that could not be read
NoAccount == "none"
Nobody  == [acct |-> "nobody", verified |-> FALSE, enrolled |-> FALSE]  \* User::default
NoUser  == [acct |-> NoAccount, verified |-> FALSE, enrolled |-> FALSE]
NoSetup == [acct |-> NoAccount, n |-> 0]
Users   == [acct: Accounts \union {NoAccount, Nobody.acct}, verified: BOOLEAN, enrolled: BOOLEAN]
Setups  == [acct: Accounts \union {NoAccount}, n: Nat]
Screens == {"Login", "Register", "TwoFa", "Verify", "TwoFaSetup", "Chat"}
AuthKinds == {"login", "register", "twofa", "verify"}
Commands == {"guild", "member"}
ChatKinds == {"list", "guilds"} \union Commands
Kinds == AuthKinds \union ChatKinds \union {"setup", "enable", "restore"}
Results == {"none", "ok", "needs2fa", "failed", "unauthorized"}

(* tok: the client's token when it asked; with: the token it sent.         *)
Requests == [n: Nat, kind: Kinds, acct: Accounts \union {NoAccount}, tok: Int,
             with: Int, shown: Setups, result: Results, got: Int, user: Users]
Messages == [kind: {"ready", "expired"}, tok: Int]

TypeOK ==
  /\ exists \subseteq Accounts /\ verified \subseteq exists /\ enrolled \subseteq exists
  /\ secret \in [Accounts -> Nat]
  /\ tokens \in Seq([acct: Accounts, full: BOOLEAN, live: BOOLEAN])
  /\ reqs \subseteq Requests /\ posted \subseteq Messages
  /\ token \in Blank..Len(tokens) /\ user \in Users /\ screen \in Screens
  /\ pending \in 0..Len(tokens) /\ busy \in BOOLEAN
  /\ setup \in Setups /\ {setupBusy, guildBusy} \subseteq BOOLEAN
  /\ file \in 0..Len(tokens)
  /\ {worker, voice, call} \subseteq Blank..Len(tokens)
  /\ steps \in 0..MaxSteps
  /\ {late, forgot, muddled, hungOn} \subseteq BOOLEAN /\ throttled \subseteq Int

(* A session file may be left from an earlier run of the client.           *)
Init ==
  /\ exists \in SUBSET Accounts
  /\ verified \in SUBSET exists /\ enrolled \in SUBSET verified
  /\ secret = [a \in Accounts |-> IF a \in enrolled THEN 1 ELSE 0]
  /\ \/ tokens = <<>> /\ file = NoToken
     \/ \E a \in exists: tokens = <<[acct |-> a, full |-> TRUE, live |-> TRUE]>> /\ file = 1
  /\ token = NoToken /\ user = NoUser /\ screen = "Login" /\ pending = NoToken
  /\ busy = FALSE /\ setup = NoSetup /\ setupBusy = FALSE /\ guildBusy = FALSE
  /\ reqs = IF file = NoToken THEN {}
            ELSE {[n |-> 1, kind |-> "restore", acct |-> NoAccount, tok |-> NoToken,
                   with |-> file, shown |-> NoSetup, result |-> "none", got |-> NoToken,
                   user |-> NoUser]}
  /\ posted = {} /\ worker = NoToken /\ voice = NoToken /\ call = NoToken
  /\ steps = 0
  /\ late = FALSE /\ forgot = FALSE /\ muddled = FALSE /\ hungOn = FALSE /\ throttled = {}

-----------------------------------------------------------------------------
(* Requests and messages. *)

(* n tells requests of one kind apart. *)
RequestOf(kind, acct, tok, with) ==
  [n |-> Min((1..(Cardinality(reqs) + 1)) \ {q.n: q \in {r \in reqs: r.kind = kind}}),
   kind |-> kind, acct |-> acct, tok |-> tok, with |-> with,
   shown |-> IF kind = "enable" THEN setup ELSE NoSetup, result |-> "none",
   got |-> NoToken, user |-> NoUser]

Bounded == steps < MaxSteps /\ steps' = steps + 1
Call(kind, acct, with) ==
  Bounded /\ reqs' = reqs \union {RequestOf(kind, acct, token, with)}

Take(q) == q.result # "none" /\ reqs' = reqs \ {q} /\ UNCHANGED steps

(* The answer leads to one more request, with the token now in use. *)
TakeAndCall(q, kind, tok) ==
  /\ q.result # "none" /\ UNCHANGED steps
  /\ reqs' = (reqs \ {q}) \union {RequestOf(kind, NoAccount, tok, tok)}

Post(kind, tok) == posted' = posted \union {[kind |-> kind, tok |-> tok]}
Asked(q, kind) == q \in reqs /\ q.kind = kind

(* The answer was asked for by another session than the one it meets.      *)
Overtaken(q) == late' = (late \/ q.tok # token)

Live(t) == t > NoToken /\ tokens[t].live /\ tokens[t].full
Strict(t) == Live(t) /\ tokens[t].acct \in enrolled
UserOf(a) == [acct |-> a, verified |-> a \in verified, enrolled |-> a \in enrolled]

-----------------------------------------------------------------------------
(* The user at the screens before the chat.  Enter submits again while a   *)
(* request is on its way; the button does not.                             *)

LoginSubmit(a) ==
  /\ screen = "Login" /\ a \in exists
  /\ Call("login", a, NoToken) /\ busy' = TRUE
  /\ UNCHANGED <<server, posted, token, user, screen, pending, guildBusy, setup, setupBusy, file, links, history>>

RegisterSubmit(a) ==
  /\ screen = "Register"
  /\ Call("register", a, NoToken) /\ busy' = TRUE
  /\ UNCHANGED <<server, posted, token, user, screen, pending, guildBusy, setup, setupBusy, file, links, history>>

ShowRegister ==
  /\ screen \in {"Login", "Register"}
  /\ screen' = IF screen = "Login" THEN "Register" ELSE "Login"
  /\ UNCHANGED <<server, reqs, posted, token, user, pending, busy, guildBusy, setup, setupBusy, file, links,
                 steps, history>>

TwoFaSubmit ==
  /\ screen = "TwoFa"
  /\ Call("twofa", NoAccount, pending) /\ busy' = TRUE
  /\ UNCHANGED <<server, posted, token, user, screen, pending, guildBusy, setup, setupBusy, file, links, history>>

VerifySubmit ==
  /\ screen = "Verify"
  /\ Call("verify", NoAccount, token) /\ busy' = TRUE
  /\ UNCHANGED <<server, posted, token, user, screen, pending, guildBusy, setup, setupBusy, file, links, history>>

(* The screen of the second factor, or the settings of one who lacks it.   *)
AtSetup == screen = "TwoFaSetup" \/ (screen = "Chat" /\ ~user.enrolled)
Muddle(kinds) == muddled' = (muddled \/ \E q \in reqs: q.kind \in kinds)

TwoFaSetup ==
  /\ AtSetup /\ setup = NoSetup /\ ~setupBusy
  /\ Call("setup", NoAccount, token) /\ setupBusy' = TRUE
  /\ Muddle({"setup", "enable"})
  /\ UNCHANGED <<server, posted, token, user, screen, pending, busy, guildBusy, setup, file, links,
                 late, forgot, hungOn, throttled>>

TwoFaEnable ==
  /\ AtSetup /\ setup # NoSetup
  /\ Call("enable", NoAccount, token) /\ setupBusy' = TRUE
  /\ Muddle({"setup"})
  /\ UNCHANGED <<server, posted, token, user, screen, pending, busy, guildBusy, setup, file, links,
                 late, forgot, hungOn, throttled>>

-----------------------------------------------------------------------------
(* The server. *)

Reply(q, r) == reqs' = (reqs \ {q}) \union {r}
Served(q, kind) == q \in reqs /\ q.kind = kind /\ q.result = "none"
Granted(q, t, a) == [q EXCEPT !.result = "ok", !.got = t, !.user = UserOf(a)]
Refused(q, result) == [q EXCEPT !.result = result]
Unaffected == UNCHANGED <<posted, account, file, links, steps, late, forgot, muddled, hungOn>>

(* create_session: the device has one session per account. *)
CreateSession(a) ==
  tokens' = Append([t \in DOMAIN tokens |->
                      IF tokens[t].acct = a /\ tokens[t].full
                      THEN [tokens[t] EXCEPT !.live = FALSE] ELSE tokens[t]],
                   [acct |-> a, full |-> TRUE, live |-> TRUE])

(* create_pending_session: and one attempt at the second factor. *)
CreatePending(a) ==
  tokens' = Append([t \in DOMAIN tokens |->
                      IF tokens[t].acct = a /\ ~tokens[t].full
                      THEN [tokens[t] EXCEPT !.live = FALSE] ELSE tokens[t]],
                   [acct |-> a, full |-> FALSE, live |-> TRUE])

Login(q) ==
  /\ Served(q, "login")
  /\ IF q.acct \in enrolled
     THEN /\ CreatePending(q.acct)
          /\ Reply(q, [Refused(q, "needs2fa") EXCEPT !.got = Len(tokens) + 1])
     ELSE CreateSession(q.acct) /\ Reply(q, Granted(q, Len(tokens) + 1, q.acct))
  /\ Unaffected /\ UNCHANGED <<exists, verified, enrolled, secret, throttled>>

Register(q) ==
  /\ Served(q, "register")
  /\ IF q.acct \in exists
     THEN Reply(q, Refused(q, "failed")) /\ UNCHANGED <<exists, verified, tokens>>
     ELSE /\ exists' = exists \union {q.acct}
          /\ verified' = IF VerifyEmails THEN verified ELSE verified \union {q.acct}
          /\ CreateSession(q.acct)
          /\ Reply(q, [Granted(q, Len(tokens) + 1, q.acct) EXCEPT !.user.verified = ~VerifyEmails])
  /\ Unaffected /\ UNCHANGED <<enrolled, secret, throttled>>

(* login_2fa: the pending session becomes a full one, and the only one of  *)
(* the account on this device.                                             *)
Login2fa(q) ==
  /\ Served(q, "twofa")
  /\ IF q.with > NoToken /\ tokens[q.with].live /\ ~tokens[q.with].full
     THEN LET a == tokens[q.with].acct IN
            /\ tokens' = [t \in DOMAIN tokens |->
                 IF t = q.with THEN [tokens[t] EXCEPT !.full = TRUE]
                 ELSE IF tokens[t].acct = a /\ tokens[t].full
                      THEN [tokens[t] EXCEPT !.live = FALSE] ELSE tokens[t]]
            /\ Reply(q, Granted(q, q.with, a))
     ELSE Reply(q, Refused(q, "failed")) /\ UNCHANGED tokens
  /\ Unaffected /\ UNCHANGED <<exists, verified, enrolled, secret, throttled>>

(* verify: the code stays valid, so a second time succeeds as well.        *)
Verify(q) ==
  /\ Served(q, "verify")
  /\ IF Live(q.with)
     THEN LET a == tokens[q.with].acct IN
            /\ verified' = verified \union {a}
            /\ Reply(q, [Granted(q, NoToken, a) EXCEPT !.user.verified = TRUE])
     ELSE Reply(q, Refused(q, "failed")) /\ UNCHANGED verified
  /\ Unaffected /\ UNCHANGED <<exists, enrolled, secret, tokens, throttled>>

(* Faulty variant: the secret is stored when it is enabled. *)
SetupUnstored(q) ==
  /\ Served(q, "setup")
  /\ IF Live(q.with)
     THEN LET a == tokens[q.with].acct IN
            /\ UNCHANGED secret
            /\ enrolled' = enrolled \ {a}
            /\ muddled' = (muddled \/ a \in enrolled)
            /\ Reply(q, [Refused(q, "ok") EXCEPT !.shown = [acct |-> a, n |-> secret[a] + 1]])
     ELSE Reply(q, Refused(q, "unauthorized")) /\ UNCHANGED <<secret, enrolled, muddled>>
  /\ UNCHANGED <<exists, verified, tokens, posted, account, file, links, steps, late, forgot,
                 hungOn, throttled>>

(* two_fa_setup: a new secret, and the old one no longer counts. *)
Setup(q) ==
  /\ Served(q, "setup")
  /\ IF Live(q.with)
     THEN LET a == tokens[q.with].acct IN
            /\ secret' = [secret EXCEPT ![a] = @ + 1]
            /\ enrolled' = enrolled \ {a}
            /\ muddled' = (muddled \/ a \in enrolled)
            /\ Reply(q, [Refused(q, "ok") EXCEPT !.shown = [acct |-> a, n |-> secret[a] + 1]])
     ELSE Reply(q, Refused(q, "unauthorized")) /\ UNCHANGED <<secret, enrolled, muddled>>
  /\ UNCHANGED <<exists, verified, tokens, posted, account, file, links, steps, late, forgot,
                 hungOn, throttled>>

(* two_fa_enable: the code is of the secret that was on the screen. *)
Enable(q) ==
  /\ Served(q, "enable")
  /\ IF Live(q.with)
     THEN LET a == tokens[q.with].acct IN
            IF q.shown = [acct |-> a, n |-> secret[a]]
            THEN /\ enrolled' = enrolled \union {a}
                 /\ Reply(q, [Granted(q, NoToken, a) EXCEPT !.user.enrolled = TRUE])
            ELSE Reply(q, Refused(q, "failed")) /\ UNCHANGED enrolled
     ELSE Reply(q, Refused(q, "unauthorized")) /\ UNCHANGED enrolled
  /\ Unaffected /\ UNCHANGED <<exists, verified, secret, tokens, throttled>>

(* rate_limit: too many codes in a minute are refused with 401, as if the  *)
(* session were none.                                                      *)
Throttle(q) ==
  /\ Served(q, "enable")
  /\ Bounded /\ Reply(q, Refused(q, "unauthorized"))
  /\ throttled' = throttled \union {q.with}
  /\ UNCHANGED <<server, posted, account, file, links, late, forgot, muddled, hungOn>>

(* me, and every request of the chat: who lacks the second factor is       *)
(* refused with 403, which the client takes for any other error.           *)
Authorised(q) ==
  /\ q \in reqs /\ q.kind \in {"restore", "list"} \union Commands /\ q.result = "none"
  /\ Reply(q, IF Strict(q.with) THEN Granted(q, q.with, tokens[q.with].acct)
              ELSE Refused(q, IF Live(q.with) THEN "failed" ELSE "unauthorized"))
  /\ Unaffected /\ UNCHANGED <<server, throttled>>

(* Another device revokes a session, or it expires. *)
Revoke(t) ==
  /\ Bounded /\ tokens[t].live
  /\ tokens' = [tokens EXCEPT ![t].live = FALSE]
  /\ UNCHANGED <<exists, verified, enrolled, secret, reqs, posted, account, file, links, history>>

(* A wrong password or code, too many attempts, a request or answer lost.  *)
Fail(q) ==
  /\ q.result \in {"none", "ok"} /\ q.kind # "guilds"
  /\ Bounded /\ Reply(q, [Refused(q, "failed") EXCEPT !.got = NoToken, !.user = NoUser])
  /\ UNCHANGED <<server, posted, account, file, links, history>>

(* The session is begun and the code is taken, but the body of the answer  *)
(* breaks off: an empty token and User::default stand for it.              *)
Unreadable(q) ==
  /\ q.kind \in {"login", "register", "twofa"} /\ q.result \in {"ok", "needs2fa"}
  /\ Bounded /\ Reply(q, [Refused(q, "ok") EXCEPT !.got = Blank, !.user = Nobody])
  /\ UNCHANGED <<server, posted, account, file, links, history>>

-----------------------------------------------------------------------------
(* Answers and messages, as the client applies them. *)

(* Without "Remember me", or with no token, the file stays as it is; so it *)
(* does, or it is cut short, when the write fails.                         *)
SaveSession(t) ==
  \/ t # Blank /\ file' \in {t, NoToken} /\ forgot' = FALSE
  \/ UNCHANGED file /\ forgot' = (forgot \/ file # NoToken)

(* Faulty variant: asks for the address alone. *)
EnterAsVerified(q, u, tok) ==
  \/ /\ u.verified
     /\ screen' = "Chat" /\ TakeAndCall(q, "list", tok) /\ UNCHANGED <<setupBusy, muddled>>
  \/ /\ ~u.verified
     /\ screen' = "Verify" /\ Take(q) /\ UNCHANGED <<setupBusy, muddled>>
  \/ /\ FALSE
     /\ screen' = "TwoFaSetup" /\ TakeAndCall(q, "setup", tok)
     /\ setupBusy' = TRUE /\ Muddle({"setup", "enable"})

(* What a user may see next: the chat needs a verified address and a       *)
(* second factor, which is set up at once where it lacks.                  *)
EnterAs(q, u, tok) ==
  \/ /\ u.verified /\ u.enrolled
     /\ screen' = "Chat" /\ TakeAndCall(q, "list", tok) /\ UNCHANGED <<setupBusy, muddled>>
  \/ /\ ~u.verified
     /\ screen' = "Verify" /\ Take(q) /\ UNCHANGED <<setupBusy, muddled>>
  \/ /\ u.verified /\ ~u.enrolled
     /\ screen' = "TwoFaSetup" /\ TakeAndCall(q, "setup", tok)
     /\ setupBusy' = TRUE /\ Muddle({"setup", "enable"})

(* LoginResult and RegisterResult. *)
SignedIn(q) ==
  /\ q.kind \in {"login", "register"} /\ q.result = "ok"
  /\ busy' = FALSE /\ token' = q.got /\ user' = q.user
  /\ SaveSession(q.got) /\ EnterAs(q, q.user, q.got) /\ Overtaken(q)
  /\ UNCHANGED <<server, posted, pending, guildBusy, setup, links, hungOn, throttled>>

SignInFailed(q) ==
  /\ q.kind \in {"login", "register", "twofa"} /\ q.result = "failed" /\ Take(q)
  /\ busy' = FALSE /\ Overtaken(q)
  /\ UNCHANGED <<server, posted, token, user, screen, pending, guildBusy, setup, setupBusy, file, links,
                 forgot, muddled, hungOn, throttled>>

(* auth_busy stays set: the button of the next screen never shows. *)
LoginNeeds2fa(q) ==
  /\ q.kind = "login" /\ q.result = "needs2fa" /\ Take(q)
  /\ pending' = q.got /\ screen' = "TwoFa" /\ Overtaken(q)
  /\ UNCHANGED <<server, posted, token, user, busy, guildBusy, setup, setupBusy, file, links,
                 forgot, muddled, hungOn, throttled>>

(* Faulty variant: the session is not saved. *)
TwoFaResultUnsaved(q) ==
  /\ q.kind = "twofa" /\ q.result = "ok"
  /\ busy' = FALSE /\ token' = q.got /\ user' = q.user /\ screen' = "Chat"
  /\ TakeAndCall(q, "list", q.got) /\ Overtaken(q)
  /\ UNCHANGED <<server, posted, pending, guildBusy, setup, setupBusy, file, links, forgot, muddled, hungOn, throttled>>

TwoFaResult(q) ==
  /\ q.kind = "twofa" /\ q.result = "ok"
  /\ busy' = FALSE /\ token' = q.got /\ user' = q.user /\ screen' = "Chat"
  /\ SaveSession(q.got) /\ TakeAndCall(q, "list", q.got) /\ Overtaken(q)
  /\ UNCHANGED <<server, posted, pending, guildBusy, setup, setupBusy, links, muddled, hungOn, throttled>>

VerifyResult(q) ==
  /\ q.kind = "verify" /\ Overtaken(q)
  /\ \/ /\ q.result = "ok" /\ busy' = FALSE /\ user' = q.user
        /\ EnterAs(q, [q.user EXCEPT !.verified = TRUE], token)
     \/ /\ q.result = "failed" /\ Take(q)
        /\ UNCHANGED <<busy, user, screen, setupBusy, muddled>>
  /\ UNCHANGED <<server, posted, token, pending, guildBusy, setup, file, links, forgot, hungOn, throttled>>

SessionRestored(q) ==
  /\ q.kind = "restore" /\ Overtaken(q)
  /\ IF q.result = "ok"
     THEN /\ token' = q.got /\ user' = q.user /\ screen' = "Chat"
          /\ TakeAndCall(q, "list", q.got)
     ELSE Take(q) /\ UNCHANGED <<token, user, screen>>
  /\ UNCHANGED <<server, posted, pending, busy, guildBusy, setup, setupBusy, file, links,
                 forgot, muddled, hungOn, throttled>>

(* SessionExpired.  Logout does the same, but for the call.  That the file *)
(* cannot be removed goes unnoticed.                                       *)
ClearSession ==
  /\ token' = NoToken /\ user' = NoUser /\ screen' = "Login"
  /\ busy' = FALSE
  /\ \/ file' = NoToken /\ forgot' = FALSE
     \/ file # NoToken /\ UNCHANGED file /\ forgot' = TRUE
  /\ UNCHANGED <<pending, worker, voice>>

(* Faulty variant: as Logout does it. *)
EndSessionInCall == ClearSession /\ UNCHANGED call

EndSession == ClearSession /\ call' = IF call = voice THEN NoToken ELSE call

(* Faulty variant: any refusal ends the session. *)
ApiErrorAny(q) ==
  IF q.result # "ok" THEN EndSession
  ELSE UNCHANGED <<token, user, screen, pending, busy, file, forgot, links>>

(* handle_api_error: 401 ends the session, any other error is only shown. *)
ApiError(q) ==
  IF q.result = "unauthorized" THEN EndSession
  ELSE UNCHANGED <<token, user, screen, pending, busy, file, forgot, links>>

TwoFaSetupResult(q) ==
  /\ q.kind = "setup" /\ Take(q) /\ setupBusy' = FALSE /\ Overtaken(q) /\ ApiError(q)
  /\ IF q.result = "ok" THEN setup' = q.shown /\ UNCHANGED muddled
     ELSE UNCHANGED setup /\ muddled' = (muddled \/ setup # NoSetup)
  /\ UNCHANGED <<server, posted, guildBusy, hungOn, throttled>>

(* In the settings, one stays there. *)
TwoFaToggleResult(q) ==
  /\ q.kind = "enable" /\ setupBusy' = FALSE /\ Overtaken(q)
  /\ IF q.result = "ok"
     THEN /\ setup' = NoSetup /\ user' = q.user
          /\ IF screen = "TwoFaSetup" THEN screen' = "Chat" /\ TakeAndCall(q, "list", token)
             ELSE Take(q) /\ UNCHANGED screen
          /\ UNCHANGED <<token, pending, busy, file, forgot, links>>
     ELSE Take(q) /\ ApiError(q) /\ UNCHANGED setup
  /\ UNCHANGED <<server, posted, guildBusy, muddled, hungOn, throttled>>

(* The conversations bring the servers with them. *)
ConversationsLoaded(q) ==
  /\ q.kind = "list" /\ ApiError(q) /\ Overtaken(q)
  /\ IF q.result = "ok" THEN TakeAndCall(q, "guilds", token) ELSE Take(q)
  /\ UNCHANGED <<server, posted, guildBusy, setup, setupBusy, muddled, hungOn, throttled>>

(* Nothing follows from this answer but the end of a dead session, so it   *)
(* needs no step of the server.                                            *)
GuildsLoaded(q) ==
  /\ q.kind = "guilds" /\ Overtaken(q)
  /\ reqs' = reqs \ {q}
  /\ IF Live(q.with) THEN UNCHANGED <<token, user, screen, pending, busy, file, forgot, links>>
     ELSE EndSession
  /\ UNCHANGED <<server, posted, guildBusy, setup, setupBusy, steps, muddled, hungOn, throttled>>

(* What a command changes is loaded anew, with whatever token there is by  *)
(* then, or none.  Lists other than the conversations lead to nothing more *)
(* and stand under "guilds".                                               *)
CommandResult(q) ==
  /\ q.kind \in Commands /\ q.result # "none" /\ ApiError(q) /\ Overtaken(q)
  /\ guildBusy' = (guildBusy /\ q.kind # "guild")
  /\ reqs' = (reqs \ {q}) \union
       (IF q.result = "ok" THEN {RequestOf(k, NoAccount, token, token): k \in {"guilds", "list"}} ELSE {})
  /\ UNCHANGED <<server, posted, setup, setupBusy, steps, muddled, hungOn, throttled>>

-----------------------------------------------------------------------------
(* In the chat. *)

(* Those on servers and channels show a throbber meanwhile, those on       *)
(* members do not.                                                         *)
Command(kind) ==
  /\ screen = "Chat"
  /\ Call(kind, NoAccount, token)
  /\ guildBusy' = (guildBusy \/ kind = "guild")
  /\ UNCHANGED <<server, posted, token, user, screen, pending, busy, setup, setupBusy, file, links, history>>

(* subscription: the worker of the token runs while the chat is shown. *)
Wanted == IF screen = "Chat" THEN token ELSE NoToken

StartWorker ==
  /\ Wanted # NoToken /\ worker # Wanted
  /\ worker' = Wanted /\ Post("ready", Wanted)
  /\ UNCHANGED <<server, reqs, account, file, voice, call, steps, history>>

StopWorker ==
  /\ Wanted = NoToken /\ worker # NoToken
  /\ worker' = NoToken
  /\ UNCHANGED <<server, reqs, posted, account, file, voice, call, steps, history>>

(* ws_worker: connecting again, it is told that the session is dead. *)
HandshakeRefused ==
  /\ worker # NoToken /\ worker = Wanted /\ ~Strict(worker)
  /\ Post("expired", worker)
  /\ UNCHANGED <<server, reqs, account, file, links, steps, history>>

(* WsSenderReady, P2pReady, VoiceReady. *)
WorkerReady(m) ==
  /\ m \in posted /\ m.kind = "ready" /\ posted' = posted \ {m}
  /\ voice' = m.tok
  /\ late' = (late \/ m.tok # token)
  /\ hungOn' = (hungOn \/ call \notin {NoToken, m.tok})
  /\ UNCHANGED <<server, reqs, account, file, worker, call, steps, forgot, muddled, throttled>>

VoiceJoin ==
  /\ screen = "Chat" /\ voice # NoToken /\ user # NoUser
  /\ call' = voice
  /\ UNCHANGED <<server, reqs, posted, account, file, worker, voice, steps, history>>

VoiceLeave ==
  /\ voice # NoToken
  /\ call' = IF call = voice THEN NoToken ELSE call
  /\ UNCHANGED <<server, reqs, posted, account, file, worker, voice, steps, history>>

(* Logout asks nothing of the server, and does not leave the call. *)
Logout ==
  /\ screen = "Chat" /\ Bounded /\ ClearSession
  /\ hungOn' = (hungOn \/ call # NoToken)
  /\ UNCHANGED <<server, reqs, posted, guildBusy, setup, setupBusy, call, late, muddled, throttled>>

SessionExpired(m) ==
  /\ m \in posted /\ m.kind = "expired" /\ posted' = posted \ {m}
  /\ EndSession
  /\ late' = (late \/ m.tok # token)
  /\ UNCHANGED <<server, reqs, guildBusy, setup, setupBusy, steps, muddled, hungOn, throttled>>

(* The client ends or crashes, and starts again: boot. *)
Restart ==
  /\ Bounded
  /\ token' = NoToken /\ user' = NoUser /\ screen' = "Login" /\ pending' = NoToken
  /\ busy' = FALSE /\ setup' = NoSetup /\ setupBusy' = FALSE /\ guildBusy' = FALSE
  /\ posted' = {} /\ worker' = NoToken /\ voice' = NoToken /\ call' = NoToken
  /\ reqs' = IF file = NoToken THEN {}
             ELSE {[n |-> 1, kind |-> "restore", acct |-> NoAccount, tok |-> NoToken,
                    with |-> file, shown |-> NoSetup, result |-> "none", got |-> NoToken,
                    user |-> NoUser]}
  /\ late' = FALSE /\ forgot' = FALSE /\ muddled' = FALSE /\ hungOn' = FALSE
  /\ UNCHANGED <<server, file, throttled>>

-----------------------------------------------------------------------------
UserStep ==
  \/ \E a \in Accounts: LoginSubmit(a) \/ RegisterSubmit(a)
  \/ ShowRegister \/ TwoFaSubmit \/ VerifySubmit \/ TwoFaSetup \/ TwoFaEnable
  \/ \E k \in Commands: Command(k)
  \/ VoiceJoin \/ VoiceLeave \/ Logout

ServerStep ==
  \/ \E q \in reqs: Login(q) \/ Register(q) \/ Login2fa(q) \/ Verify(q) \/ Setup(q)
       \/ Enable(q) \/ Throttle(q) \/ Authorised(q) \/ Fail(q) \/ Unreadable(q)
  \/ \E t \in DOMAIN tokens: Revoke(t)

ClientStep ==
  \/ \E q \in reqs: SignedIn(q) \/ SignInFailed(q) \/ LoginNeeds2fa(q) \/ TwoFaResult(q)
       \/ VerifyResult(q) \/ SessionRestored(q) \/ TwoFaSetupResult(q)
       \/ TwoFaToggleResult(q) \/ ConversationsLoaded(q) \/ GuildsLoaded(q) \/ CommandResult(q)
  \/ \E m \in posted: WorkerReady(m) \/ SessionExpired(m)
  \/ StartWorker \/ StopWorker \/ HandshakeRefused

Next == UserStep \/ ServerStep \/ ClientStep \/ Restart

Spec == Init /\ [][Next]_vars

-----------------------------------------------------------------------------
(* Unless an answer of an earlier session comes late, the user shown is    *)
(* the one whose session it is, or none where the answer that began it     *)
(* could not be read; and "2FA is mandatory": the chat is shown only to    *)
(* who has enabled a second factor, unless that was set up twice at a time *)
(* or again, or to one who has no session the server would honour.         *)
SignedInAsShown ==
  ~late =>
    /\ token > NoToken => user.acct = tokens[token].acct
    /\ token = NoToken => user = NoUser
    /\ token = Blank => user = Nobody
    /\ ~muddled /\ screen = "Chat" => token = Blank \/ tokens[token].acct \in enrolled

(* The client ends a session only if the server no longer honours it, but  *)
(* for an answer that comes late, a second factor set up again, and the    *)
(* limit on codes, which answers 401 to a session that lives.              *)
OnlyDeadSessionsEnd ==
  [][token # NoToken /\ token' = NoToken =>
       Logout \/ Restart \/ late' \/ muddled \/ ~Strict(token) \/ token \in throttled]_vars

(* The file holds the session in use, unless that of another was left: one *)
(* begun without "Remember me", or whose answer could not be read, beside  *)
(* a file; a file that could not be written, or removed.                   *)
FileIsCurrent == ~late /\ ~forgot /\ token # NoToken /\ file # NoToken => file = token

(* The secret on the screen is the one the server will check the code      *)
(* against, unless setups overlapped or one failed over another.           *)
SecretIsStored ==
  (/\ screen = "TwoFaSetup" /\ setup # NoSetup /\ ~late /\ ~muddled /\ ~setupBusy
   /\ \A q \in reqs: q.kind # "setup") =>
    setup = [acct |-> tokens[token].acct, n |-> secret[tokens[token].acct]]

(* No call outlives the session that joined it, but for a sign-out during  *)
(* the call.                                                               *)
VoiceOnlyInSession == ~hungOn /\ ~late /\ token = NoToken => call = NoToken
=============================================================================
