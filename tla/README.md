# FediTexter: a verification development

TLA+ models of FediTexter, a federated chat system (a Rust server on axum, sqlx
and MySQL, and a desktop client on iced), checked with TLC and proved with TLAPS.
Every definition is translated from the source; `PROJECT.json` maps each one to its
lines. Paths below are relative to `src/crates/feditexter-server/src/` (server) and
`src/crates/feditexter-iced/src/` (client) unless they start with `migrations/`.

Contents: 1 inventory · 2 modules and how they correspond to the code · 3 runs and
bounds · 4 fairness · 5 what is proved · 6 what does not hold · 7 what is only
model-checked · 8 what is not modelled · 9 plan

## 1. Inventory

### How the system works

A client calls a REST handler with a bearer token. The handler is an async function
on a multi-threaded runtime; it runs SQL statements on a shared connection pool,
publishes events on an in-process broadcast channel (the *hub*), and may spawn tasks
that post to other instances. WebSocket connections subscribe to the hub and share
two locked maps with each other (who is online, who is in which voice channel).
Another instance posts to the federation inbox of this one.

The desktop client has one thread that handles messages: what the user does, the
answers of requests, what a websocket worker pushes, and what voice and file transfer
report. Each request runs as a task of its own, so several are on their way at a time
and are answered in any order. Voice and files go from client to client over WebRTC;
the signals that set the connections up go through the server.

Three facts shape the models. **Only a few handlers open a transaction, and none locks
what it has checked**: what a handler reads in one statement may be stale in the next,
and a handler may stop between two statements (a statement fails, or the client goes
away and axum drops the future) with what it has written left in place. **The hub is
published to after the write, outside any lock**: the order of the events is not the
order of the writes. **The client applies an answer to whatever it shows by then**: few
answers name the request, the session, the conversation or the connection they are of.

### Components

| Component | State | Operations | What is hard | What makes it correct | Modelled |
|---|---|---|---|---|---|
| Guild administration (`api/guilds.rs`, `delete_conversation`) | guild row, members, channels and their members, roles, grants, bans, invites | 20 writing handlers | check in one statement, write in a later one; kick, ban, join in several statements without a transaction | owner is a member; bans hold; channels follow membership; every effect was authorised | `Guilds`, `GuildAuthority` |
| Sessions and second factor (`auth.rs`, `api/auth_handlers.rs`) | session rows bound to device and address, TOTP secret and switch | login, login_2fa, 2FA set-up and enabling, logout, revoke, the check before every other handler | a session deleted or rebound under a running handler; pending logins | no session skips the second factor; stolen and deleted sessions stay dead; one session per device | `Sessions` |
| Registration, verification, profile (`api/auth_handlers.rs`, `mail.rs`) | users, their flags | register, verify, resend, update | – | a code verifies the account it was sent to | partly, `ClientSession`, `Settings` |
| Realtime hub and websocket (`api/ws.rs`, `chat.rs`, `db.rs`) | presence set, occupancy map, per-connection channel and list of conversations | connect, voice_join, voice_leave, signals, push, disconnect | several connections of a user; two lock sections per join; events after the unlock; lagging receivers | presence and occupancy equal the open connections; the mesh of a channel has no hole | partly, `VoicePresence`, `VoicePeers`, `ChatView` |
| Messages (`api/chat_handlers.rs`) | message rows, read marks, members | send, edit, delete, list, mark read, create and delete conversation | original body read and written in two statements; published text read later than written | the first body survives; what clients show is what the table holds | partly, `Federation`, `ChatView` |
| Federation (`federation.rs`, `api/federation_handlers.rs`) | mirrors, direct conversations, copies | a posting task per operation; the inbox | posts of different tasks in any order, lost, or half handled; two posts creating the same row | copies agree with the messages; every message reaches each recipient or fails for that one alone | partly, `Federation` |
| Moderation and privacy (`api/moderation.rs`) | blocks, mutes, overrides | block, mute, override, profile | a profile read by five statements | a profile is shown as permitted | partly, `Settings` |
| Stickers (`api/stickers.rs`) | packs | create, add, delete, list | a list read by one statement per pack, and more for a search; a row looked up and then deleted | lists show the rows | partly, `Settings` |
| Client: session (`main.rs`) | token, user, screen, session file, websocket worker | sign in, second factor, verify, set up, restore, sign out, expiry | late answers; commands answered after a sign-out; a session that ends on its own | the user shown is the one signed in; only dead sessions end | partly, `ClientSession` |
| Client: chat (`main.rs`) | selected conversation, message list, unread counts | load, push, edit, delete, send, reconnect | answers older than events already shown; nothing reloaded after a reconnect | the screen is of the selected conversation and converges to the table | partly, `ChatView` |
| Client: settings (`main.rs`) | profile shown, switches, lists | toggle, set, remove, load, search | a switch flipped before the answer; answers that overtake each other | what is shown at rest is what is kept | partly, `Settings` |
| Client: file transfer (`p2p.rs`) | pending fetches, peers, files | fetch, offer, answer, chunks, done, timeout | timers of earlier attempts; candidates before their peer; truncated files | a completed file is the file; a fetch ends | `FileTransfer`, `FileDelivery` |
| Client: voice (`voice.rs`) | one peer connection per occupant | join, leave, occupant lists, signals, failures | events of a channel already left; callbacks of an earlier connection | one connection per pair, none outside the channel | partly, `VoicePeers` |
| Voice administration, bot, link previews, codecs and media, dashboard, stubs, installation | – | – | I/O, layout, or one actor | – | no (section 8) |

`PROJECT.json` lists the same components with their sources and status, and the
hazards of each at the line where they bite.

### Interactions

- Handlers and handlers: through the tables, one statement at a time (`Guilds`,
  `Sessions`, `Federation`; `ReadRow`, `ReadBlocked`, … in `Settings`).
- Guilds and voice: `voice_join` reads the guild's members; a kick leaves the
  occupancy map alone (`ChangeMembership` in `VoicePresence`).
- Handlers and clients: through the hub (`home`, `remote` in `Federation`,
  `announced`, `heard` in `VoicePresence`, `feed` and `push` in `ChatView`) and through
  answers (`reqs` in `ChatView`, `ClientSession`, `Settings`).
- Instance and instance: one post per recipient from a spawned task (`Federation`).
- Client and client: signals through the server, then a WebRTC connection
  (`FileTransfer`, `VoicePeers`).
- Session, websocket and voice of one client: the worker and the call belong to a
  session (`ClientSession`).

## 2. Modules

| Module | Models | Run through | Proofs |
|---|---|---|---|
| `Guilds` | the twenty handlers that write guild tables, one statement a step | `MCGuilds` | `GuildsProofs` |
| `GuildFaults` | `Guilds` with a history: was a handler cut short, has somebody dropped out of a channel | `MCGuilds` | `GuildsProofs` |
| `GuildAuthority` | `Guilds` with a history: what has held since each request began | `MCGuildAuthority` | `GuildsProofs` |
| `Sessions` | sessions and second factor of one account at the server | `MCSessions` | `SessionsProofs` |
| `SessionFaults` | `Sessions` with a history: did requests overlap, was one cut short or without a device | `MCSessions` | `SessionsProofs` |
| `VoicePresence` | presence, voice channels and signals of the websocket, every lock section | `MCVoicePresence` | `VoicePresenceProofs` |
| `VoiceDevices` | `VoicePresence` with a history: who was connected twice at once | `MCVoicePresence` | `VoicePresenceProofs` |
| `Federation` | messages of an author, their copies on a second instance, and what the clients of both show | `MCFederation` | `FederationProofs` |
| `FileTransfer` | one file, from the client of its sender to those of the recipients | `MCFileTransfer` | `ClientProofs` |
| `FileDelivery` | abstract: what a recipient can rely on about that file | as a property of `FileTransfer` | in `ClientProofs` |
| `VoicePeers` | the peer connections between the occupants of a voice channel: clients, signals, server | `MCVoicePeers` | `VoicePeersProofs` |
| `ChatView` | what one client shows of its conversations, with the handlers and the websocket behind it | `MCChatView` | `ChatViewProofs` |
| `ClientSession` | how one client signs in and out, with its session file, worker and call | `MCClientSession` | `ClientSessionProofs` |
| `Settings` | what one client shows of profiles, switches and lists, with the handlers behind it | `MCSettings` | `ClientProofs` |

**Conventions.** The state of a server handler is a record with a program counter `pc`
(or `stage`) naming its next statement; the other fields are the arguments and locals
it still needs. An action is one SQL statement, one committed transaction, one lock
section, one event published, or one message handled by the client. In the client
modules a request is a record that travels: "sent", then through the statements of its
handler, then "ok" or "failed" until the client takes the answer; requests are taken in
any order. `Abandon` (server modules), `Fail`, `Lose` (client modules) end a request or
drop a message anywhere.

*Histories.* Where a property holds except in a situation the code does not handle, the
exception is a history variable that records exactly that situation (`past`, `doubled`,
`raced`, `hasty`,
`overlapped`, `dropped`, `refused`, `unheard`, `stale`, `mixed`, `late`, `muddled`,
`missed`, `disturbed`, …); section 6 says what goes wrong in each. No guard of these
modules reads them.

*Scenarios.* `MCGuilds`, `MCSessions` and `MCVoicePresence` add a constant-valued variable
that picks one of several environments (ranks or channels; one request at a time, two at a
time, clients without a device header; one connection per user, several). A scenario
bounds what is called and nothing else: the properties are those of `GuildFaults`,
`SessionFaults` and `VoiceDevices`, whose histories say when they hold, and the theorems
are about those specifications.

*Faulty variants.* Operators commented "Faulty variant" are not part of any
specification: each is a plausible mistake in the definition it stands before, kept to
show that some property notices it.

**Guilds.** One guild: every statement is restricted to one guild id. `owner`,
`members`, `chan`, `access`, `roles`, `grants`, `bans`, `invites` are the tables of
migrations 0003, 0016 and 0020. `FirstStage` and `AfterAuthority` give the order of a
handler's statements, `OwnerCheck` the conditions on `guilds.owner_id`,
`IsAdminOwner`/`IsAdminRole` the two statements of `is_admin`. The two transactions a
concurrent request can see half of (create_channel and the first grant of the admin
role: rows inserted and not committed) have two steps; the others have one, because
their first statement locks the guild row or they write rows nobody else knows.
Initial states are: no guild, or a guild older than migration 0020, which has no admin
role yet. Names and colours are left out.

**GuildAuthority** adds `seen[r]`: the facts (caller owns the guild, target is a member,
invite is live, ...) that have held at some moment since request `r` began. A handler
cannot promise that a check still holds when it writes; it can promise that it held at
some moment of the request, and `EffectsAuthorised` says that for all twenty.

**Sessions.** One account: every statement is restricted to one user. A session row is
unused, pending its second factor, full or gone, and has a device, an address and an
expiry. Every authenticated handler starts with the steps of `load_auth_user`
(`SelectSession`, `Kill`, `BindDevice`, `BindIp`, `LoadUser`); "use" stands for all
handlers with no further effect on sessions. Secrets are numbered in the order they are
generated; a code is the number of the secret it was computed from, 0 for a wrong one.
`Expire` may run at any time.

**VoicePresence.** The steps of `ws_loop`, `voice_join`, `voice_leave` and
`route_signal` between two awaits or lock sections. The hub delivers to every receiver
in the order sent, so `announced` and `heard` hold the last event about each user:
what a client that has caught up believes.

**Federation.** An operation is one process from the call (`CallSend`, `CallEdit`,
`CallDelete`) through its handler, the task the handler spawns, and the inbox of the
remote instance for one recipient after the other. The task first lists its recipients
(`ListRecipients`); when that SELECT fails the code takes an empty list and posts to
nobody (`RecipientsUnknown`, which marks the message `disturbed`). Requests the inbox
refuses for their signature are not told from posts that are lost. One remote instance
is enough: the copies on different instances share nothing, and the task posts to
recipients one after the other whatever instance they are on.

**FileTransfer.** Connections are numbered in the order the sender creates them, and both
clients file them under (file, user), as `p2p.rs` does: an attempt replaces the entry of
the one before. `sTask`, `rTask` are the tasks of the two sides, `sent`, `got` the frames
(header, chunks, done) on the data channel, `toSender`, `toReceiver` the signals under
way, `timers` the watchdogs of earlier fetches that still sleep. `part`, `final` and
`content` are the disk: a temporary file remembers which connection created it, so two
transfers that opened the same path write into one file. `Done` includes a disk that
fails to sync the file, and may then lose some of its chunks, or to rename it; the code
goes on all the same (`refused`). Both clients may restart and lose their memory but not
their disk. **FileDelivery** knows of all that only what is under the final name (`copy`),
what the client shows (`held`), whether the user asked again too early (`raced`) and
whether the disk refused a file (`refused`). The refinement mapping takes `copy` from
`final` and `content`; the others are the variables of the same name.

**VoicePeers.** The clients of all users, one event at a time: `Join`, `Leave`, the
occupant list, presence events, offers and answers, and the tasks that build a
connection (spawned, built, registered) and the callbacks that find the entry by user. A
task may fail at each of its steps (`BuildFails`, `DescribeFails`) and end with the
entry left as it was; the server may fail to look up whom a signal is for
(`RouteFails`), and may refuse a join without a word (`RefuseJoin`); a presence event is
not passed on by a socket whose snapshot of guilds is old or that lags behind
(`unheard`), and sockets close (`Disconnect`). The server is one step a message, except
that a join reads the occupants under the lock and announces them later; `VoicePresence`
has every lock. Candidates are part of descriptions.

**ChatView.** One client, the handlers it calls, and the pushing side of its websocket
with its snapshot of conversations (`feed`) and its lagging receiver (`Disconnect`). A
message is a row with a version that an edit raises. Other users send, edit, delete and
open conversations meanwhile. A list that is answered with success and cannot be read is
applied as an empty one (`MessagesBroken`, `ConversationsBroken`), and an edit that leaves
the text as it is is answered and not published (`KeepMessage`).

**ClientSession.** One client on a device, several accounts. `tokens` are the sessions
the server has created, `token` the one in use, `file` the one in
`~/.feditexter_session`, `worker` and `call` those that the websocket worker and the voice
manager belong to. Requests carry the token they were sent with, answers are applied
whatever the client shows by then, and messages a handler posts to itself
(`Task::done`) are handled with it. A success whose body cannot be read gives an empty
token (`Blank`) and the default user (`Nobody`): `Unreadable`. Writing the session file
may fail or be cut short and removing it may fail. `Revoke` is another device that revokes
a session, `Throttle` the limit on codes.

**Settings.** The profile in the modal with its marks, the own visibility, and three
lists (privacy overrides, devices, sticker packs). `profile_value` reads the row, the
block, the mute and the override in statements of their own; others change their
visibility in between (`OtherHides`), and other devices of the user the lists
(`OtherDevice`). The list of packs is read by one or, with a search, two statements for
the packs (`ListPacks`, `ListByStickers`) and one for the stickers of each (`ReadPack`);
a search is a word that is in the names of some packs (`ByName`) and in those of
stickers of some (`BySticker`). A handler that changes a list looks the row up in one
statement and changes it in the next (`CheckRow`, `ChangeRow`). A request remembers, as
history, whether what it has read is still so (`old`), and how the profile was to be
seen at the times it was read (`was`, `changes`).

## 3. Runs and bounds

| Run | Bounds | Properties | Shows |
|---|---|---|---|
| `guilds` | 3 users, 2 channels, 2 roles, 1 invite, one request at a time, which may stop anywhere; two scenarios: every handler but create_channel, or the eleven that move members or channels | OwnerIsMember, OneAdminRole, BannedStayOutUnlessTorn, ChannelsFollowMembersUnlessTorn, OnlyEmptyConversationsDropped | after any sequence of calls the owner is a member and there is one admin role, even when handlers are cut short; as long as none is, nobody banned is a member and the channels have the members of the guild |
| `guild_authority` | 2 users, 2 concurrent requests, the seven handlers that change who may do what, faults | EffectsAuthorised | every effect was authorised during its request |
| `sessions` | three scenarios: one request at a time (3 sessions, 2 devices, 2 secrets); two at a time (2 sessions, 1 secret); one at a time that may fail, of clients with or without device header and address (2 sessions, 2 addresses) | SecondFactorProved, EnabledSecretVerifiedSerially, OneOfAKindPerDeviceSerially, StolenSessionsRevokedUnlessTorn, OneDevicePerSessionSerially, DeletedStaysDeleted | the login, the second factor and the binding of sessions, in sequence and under races |
| `sessions_expired` | 2 sessions, 2 devices, one request at a time | ExpiredPendingRejected | **violated**: see 6 |
| `voice_presence` | 3 users, 2 channels, 3 connections; one connection per user with kicks, or two users with several connections and one channel | MeshComplete, NoGhosts, ExactOnOneDevice | no hole in the mesh and nothing left behind, with several devices; what the server holds and has announced equals the connections, with one |
| `federation` | 2 messages, 2 recipients, 2 texts, 3 operations of which two at a time (the third only while there is one message), faults | OriginalKept, ClientsAreCurrent, OneDirectConversation, FailuresAreIsolated, CopiesAgree | edits and deletions in any order, lost or cut short, or posted to nobody; the fan-out to recipients that share rows |
| `federation_wrong_row` | 1 message, 2 recipients, 2 operations, no faults | RemoteIsCurrent | **violated**: see 6 |
| `file_transfer` | 1 recipient, 1 chunk (3 frames), 2 connections, 2 fetches, 1 restart of either side, during the first attempt and as the last fault; fairness | PendingIsWatched, NoCandidateWaits, Delivers, AttemptsEnd | a retry beside its first attempt, lost signals, broken channels, failing disks and restarts: what is shown as held is whole, and a fetch ends; the refinement of `FileDelivery` |
| `voice_peers` | 2 users, 3 joins, 4 connections, 1 fault | MeshComplete, OneOfferer, NoOrphan, MembersExact | joins, leaves and a return, with late events and callbacks, or a step that fails: everyone is connected to everyone and nobody else |
| `chat_view` | 2 conversations, 2 messages, 4 steps of the user, of others, or losses and unreadable answers | ScreenIsSelected, CaughtUp, ReadIsSeen, ReadOnlyAdvances | answers and pushed events in any order: the screen is of the selected conversation and ends up as the table |
| `client_session` | 2 accounts, mails verified, 3 steps of the user, revocations, losses, unreadable answers or restarts | SignedInAsShown, FileIsCurrent, SecretIsStored, VoiceOnlyInSession, OnlyDeadSessionsEnd | answers of earlier sessions, expiry and restarts: user, file, secret and call belong to the session in use |
| `settings` | 2 other users, 1 other device, 1 pack, 2 words to search for, 3 presses, changes by others, or losses | ShownAsPermitted, SwitchesAsKept, ListsAsKept | profiles read while they change, switches and lists answered in any order |

Why the bounds are enough to be interesting. Guilds: three users are an owner, somebody
acting and somebody acted on; a second role id lets an admin role be created twice; a
second channel id lets create_channel copy the members beside #general, and after it was
deleted; sequences of calls are unbounded although ids run out (then an INSERT fails, as
the comments at `FreshChannels`, `InsertSession` and `TwoFaSetup` say). Sessions: two
devices are an owner and a thief; three sessions an old one, a pending one and its
replacement. Voice presence: three connections are two devices of one user and another
user. Federation: three operations are a send, an edit and a deletion that overtake each
other, or two edits; two recipients share the rows one post writes. File transfer: every
history exception and every outcome needs at most two connections, one fetch beside
another; one chunk can already be missing, doubled or torn, and a second recipient
shares only the sender's memory, which it never changes for others except on failure;
what follows a restart is one further attempt, and faults after a restart are left to
the theorems. Voice peers: three joins are two users and one who comes back while the
rest is under way. Chat, session and settings: a step begins a request, and each request
goes through up to five steps of its own; three or four of them are a request, one that
overtakes it, and a change by somebody else. The run `client_session` stops at states
that are `late` and have no step left: every property excepts such states and only a
restart leads out of them. The theorems of section 5 hold without any of these bounds.

Symmetry is used on sets of model values that no definition names, and not in the run
with liveness properties. Each property of a passing run is broken by a faulty variant
under the run's own bounds. The type invariants are proved where section 5 says so and
are therefore in no run; TLC has checked those of all modules.

Deadlock is unchecked in the runs where users may stop: those of `Federation`, and of the
client modules (nobody need fetch, join, type or press again). It is checked in the
others.

## 4. Fairness

Only `FileTransfer` has liveness properties. `Fairness` is weak fairness of `Progress`:
a sleeping watchdog fires (`Timeout`, tokio's timer), a running task sends or takes the
frame that is there (`SendFrame`, `Header`, `Chunk`, `Done`), notices that its channel is
closed (`SeeClose`), and the client handles its events (`HandleComplete`). tokio runs a
task that is ready, and iced handles the messages of a subscription. One condition is
enough for all of these because each such step uses up a timer, a frame, a task or an
event, so none can keep the others from happening for ever. Nothing is assumed of
signals (the server drops them when the other side is not connected), of connections
being made or broken, of restarts, or of users, who may never fetch again. Under it
`AttemptsEnd` holds: "waiting" ends unless two attempts met, and "downloading" always
ends, with the file, as failed, or asked for again.

## 5. What is proved

All theorems are for every value of the constants that satisfies the modules'
assumptions: model values differ, bounds are natural numbers, switches are Booleans, and
the recipients in `Federation` are finitely many (a post goes to one after the other).
The theorems of `Guilds` that need requests one at a time, or a handler left out, say so
as a hypothesis of their own: `Serial` is "there is one request slot", and section 6
shows what happens without.

| Theorem | Says | Argument |
|---|---|---|
| `GuildsProofs!TypeCorrect` | `Spec => []TypeOK` | inductive as it stands: `WellFormed` ties each request's arguments to its handler |
| `GuildsProofs!OnlyAuthorisedEffects` | `HSpec => []EffectsAuthorised` | `HInv`: the history contains what holds now (`Facts`), and `Progress` says for each stage which checks it lies behind |
| `GuildsProofs!OwnerStaysMember` | if `Serial` or without transfer_owner: `Spec => []OwnerIsMember` | `OwnerInv`: no request that removes a member has the owner in hand (`Shielded`), and one about to transfer has a member (`HeirIsMember`) |
| `GuildsProofs!AdminRoleStaysOne` | if `Serial` or without grants of the admin role: `Spec => []OneAdminRole` | `RoleInv`: a request about to insert an admin role found none, and there still is none (`InsertedWhenNone`) |
| `GuildsProofs!NewGuildHasOneAdminRole` | a guild created by this version has exactly one admin role, whatever runs concurrently | `NewGuildInv`: the role is inserted in the transaction that creates the guild, and no handler deletes it (`RoleSpared`) |
| `GuildsProofs!EmptyConversationsDropped` | if `Serial` or without join_guild: `Spec => OnlyEmptyConversationsDropped` | `EmptyInv`: what a request counted as empty stays empty until it deletes (`Emptied`) |
| `GuildsProofs!BannedStayOutWhenWhole` | if `Serial` or without join_guild: `FSpec => []BannedStayOutUnlessTorn` | `BanInv`: a banned member is being expelled by a request under way (`BansHold`), and who joins is not banned (`JoinerNotBanned`) |
| `GuildsProofs!ChannelsFollowMembers` | if `Serial`: `FSpec => []ChannelsFollowMembersUnlessTorn` | `FollowInv`: access and membership differ only by what the request under way is still to write |
| `SessionsProofs!TypeCorrect`, `SecondFactorHolds` | `Spec => []TypeOK`, `Spec => []SecondFactorProved` | `Safe`: a request at the promotion has proved its code, and ids are not reused, so a session created as pending can only become full there |
| `SessionsProofs!DeletedForGood` | `Spec => DeletedStaysDeleted` | the same invariant: every statement that writes a session row first asks whether it exists |
| `SessionsProofs!EnabledSecretHolds` | `FSpec => []EnabledSecretVerifiedSerially` | `AloneInv`: as long as no call overlapped another, one request runs; `SecretInv`: one about to enable has verified the secret in force |
| `SessionsProofs!OneDeviceHolds` | `FSpec => []OneDevicePerSessionSerially` | `BoundInv`: whom a session has served is whom it is bound to, and a request behind the check of the device is of that device (`Established`) |
| `SessionsProofs!OneOfAKindHolds` | `FSpec => []OneOfAKindPerDeviceSerially` | `KindInv`: a request about to insert or promote a session has deleted those of its kind and device (`Cleared`) |
| `SessionsProofs!StolenRevoked` | `FSpec => []StolenSessionsRevokedUnlessTorn`, any number of requests at a time | `StolenInv`: a stolen session that exists has a request about to delete it (`Revoking`) |
| `VoicePresenceProofs!TypeCorrect` | `Spec => []TypeOK` | `Typed` adds that a connection at a stage has the locals the stage uses |
| `VoicePresenceProofs!MeshHasNoHoles` | `Spec => []MeshComplete` | `MeshInv`: of two occupants one was told of the other or has a connection about to be told (`Meeting`); the second of two racing `Insert`s sees the first |
| `VoicePresenceProofs!NothingLeftBehind` | `Spec => []NoGhosts` | `GhostInv`: whoever is online, announced or in a channel has a connection that vouches for it and will undo it (`KeepsOnline`, `KeepsAnnounced`, `Occupies`) |
| `VoicePresenceProofs!OneDeviceIsExact` | `DSpec => []ExactOnOneDevice`, whatever users with several connections do | `DeviceInv`: the one connection of a user says at each stage what the maps and the events hold about them (`FitsPresence`, `FitsVoice`); the steps of others leave those alone (`Frame`) |
| `VoicePeersProofs!MembersAreExact` | `Spec => []MembersExact` | `ListInv`: the member list of a client, once the last news of a user on its way to it is applied, says of that user what the server says (`Believes`), as long as no join was `refused` and no news `unheard` |
| `VoicePeersProofs!OneSideOffers` | `Spec => []OneOfferer` | `OfferInv`: the offer of one user to another is in one place, on a list, with a task, on its way or in the table, and while it is in one of them the other user does not offer (`ChainOK`) |
| `VoicePeersProofs!NothingOrphaned` | `Spec => []NoOrphan` | `LinkInv`: an open connection is in the table of who opened it or with the task that built it (`FoundOK`), and only of who is in the channel (`KnownOK`) |
| `VoicePeersProofs!MeshCloses` | `Spec => []MeshComplete` | `MeshOK`: of two users in the channel one is about to offer or has offered, and the offer, or the answer to it, is on its way or was taken (`Met`), as long as no join was `refused` and no step towards a connection failed (`dropped`); when nothing is on its way it was taken |
| `FederationProofs!TypeCorrect`, `FirstBodySurvives` | `Spec => []TypeOK`, `Spec => []OriginalKept` | `IInv`: a row that was never edited still has its first body (`RowOK`), an operation carries the first body or none (`Going`), and only one operation ever inserts a message (`Alone`) |
| `FederationProofs!FailuresStayWithTheirPost` | `Spec => []FailuresAreIsolated` | `IsolatedInv`: a recipient without a copy had its post fail, or the message is `disturbed`, or an operation is still to reach them (`Coming`) |
| `FederationProofs!ConversationIsOne` | `Spec => []OneDirectConversation` | `DirectInv`: until two posts for a recipient met, one at most is between looking for their conversation and creating it |
| `FederationProofs!CopiesEqualTheMessage`, `ClientsShowTheMessage` | `Spec => []CopiesAgree`, `Spec => []ClientsAreCurrent` | `CalmInv`: of a message whose operations did not overlap or fail, and whose tasks could list the recipients, rows and screens differ only by what the one operation under way is still to do (`About`); a deletion has at least as many posts left as there are live copies, so that whichever row each picks, none is left over |
| `ClientProofs!TransferDelivers` | `Spec => Delivers`: the transfer implements `FileDelivery` | a recipient that never raced has one attempt at a time (`OneAttempt`), so an offer under way is of a live attempt (`OffersOK`), the file a task writes is its own (`OwnFiles`) and holds as many chunks as frames were taken (`WholeFiles`), unless the disk refused one (`Sound`); each step then maps to `Store`, `Refuse`, `Show`, `Restart`, `Race`, `Clash` or a stutter |
| `ClientProofs!FetchesAreWatched`, `CandidatesAreAdded` | `Spec => []PendingIsWatched`, `Spec => []NoCandidateWaits` | inductive with the types of the variables they name |
| `ClientSessionProofs!UserIsOfSession` | `Spec => []SignedInAsShown` | a request says for whom it was asked and what the server read for it (`AskedAs`, `AnsweredAs`), and the screens keep who is signed in and enrolled (`Kept`); with an empty token the user is the default one |
| `ClientSessionProofs!FileIsOfSession`, `CallEndsWithSession` | `Spec => []FileIsCurrent`, `Spec => []VoiceOnlyInSession` | the same invariant |
| `ClientSessionProofs!ShownIsStored` | `Spec => []SecretIsStored` | `SecretOK`: unless set-ups overlapped there is one request for a secret at most, its answer holds the secret the server stores, and so does the screen after it |
| `ClientSessionProofs!SessionsEndRightly` | `Spec => OnlyDeadSessionsEnd` | an answer 401 was given to a token that is dead by then and stays dead, or was throttled |
| `ClientProofs!ProfilesAsPermitted` | `SettingsSpec => []ShownAsPermitted` | `ProfileRead`: after the row is read, the visibility in hand was to be seen at one of the times recorded, as long as others changed it once at most |
| `ClientProofs!SwitchesRest`, `ListsRest` | `SettingsSpec => []SwitchesAsKept`, `SettingsSpec => []ListsAsKept` | `MarksRead`, `MineRead`, `ListRead`: an answer not marked old says what the rows say, and of packs those read so far are among the rows to be shown and cover them with those still to be read (`Covers`); `MarksKept`, `MineKept`, `ListsKept`: what is shown is as kept, or a request is on its way whose answer puts it right |
| `ChatViewProofs!ScreenIsOfSelected` | `Spec => []ScreenIsSelected` | `ShownOK`: no id is twice in a list the server made, an answer to a send adds only what is not there (`ViewsOK`), and the screen and the edit change with the selection |
| `ChatViewProofs!ScreenCatchesUp` | `Spec => []CaughtUp` | `Following`: the screen, and a list on its way to it, is the server's but for messages that are still to be pushed (`Arriving`), and edits and deletions that are (`Coming`); an event of the conversation that is taken either comes to the screen or makes every list under way old (`taken`, `since`) |
| `ChatViewProofs!ReadIsOfSeen`, `ReadNeverGoesBack` | `Spec => []ReadIsSeen`, `Spec => ReadOnlyAdvances` | `ReadOK`, `ListOK`: a list has all rows of its conversation below its last id, so once it is shown all of those were seen, and later inserts have larger ids |

The invariants were first checked with TLC on the instances of section 3. The bounds of
the models are constants: the theorems hold for any `MaxOps`, `MaxSecret`, `MaxConns`,
`MaxSteps` and, but for the recipients, any sets, finite or not.

`Ordered` in `ChatView` chooses an increasing enumeration of a set of numbers (the ORDER BY
of `list_messages`, the order kept by `Vec::retain`). That there is one for every finite
set (`OrderedFacts`) is proved from the well-foundedness of strict inclusion, by a least
counterexample; everything else about lists of messages follows from it.

`ClientProofs` extends both `FileTransfer` and `Settings`; hence `Settings` names its
initial states, steps and specification `SettingsInit`, `SettingsNext` and
`SettingsSpec`. The two share no variable and no theorem relates them.
`VoicePeersProofs` treats a kind of messages as a set of messages, and says of a queue
that it has none of them, one at most, or which comes last (`Lacks`, `One`, `LastIn`):
what a client will do depends on no more. The steps that only take something away
(`CalmWithLess`) and those that leave a pair of users alone (`MeshOfPairs`) are dealt
with once; what remains of each action is the pair it is about.

## 6. What does not hold

Two statements of the source are refuted by runs, a third by a configuration:

- **A pending login does not expire** (`sessions_expired`). `login_2fa` answers "invalid
  or expired pending token" (`auth_handlers.rs:228`) and the pending session "was created
  with a 10-minute expiry" (`:263`), but the query (`:222`) compares the token and
  `is_2fa_pending` only.
- **An edit is published for one recipient only** (`federation_wrong_row`). The inbox
  updates the copies of all recipients and then re-reads "the updated row"
  (`federation_handlers.rs:158`): one of them. With two recipients on one instance the
  other one's client may keep the old text until it reloads.
- **A file is reported complete that is not there.** "The transfer finished; `path` is the
  finalized file on disk" (`p2p.rs:54`), but `run_receiver` ignores the results of
  `sync_all` and `rename` (`p2p.rs:482-485`) before it emits `Complete`. The property is
  `CompleteIsOnDisk` in `FileTransfer`; TLC finds the counterexample with `Spec`, one
  recipient, one connection, one fetch and no restart. `Delivers` excepts recipients whose
  disk failed that way (`refused`).

### Server

The following hold only under a condition, or not at all. The condition is a hypothesis
of the theorem about the property (`Serial`: one request slot) or recorded by the history
of `GuildFaults`, `SessionFaults` or `VoiceDevices`. Each property has its definition in
`Guilds`, `Sessions` or `VoicePresence`, and TLC finds the counterexample when that module
is run with its own `Init` and `Next` under the configuration given.

| Property | Where | What happens | Configuration |
|---|---|---|---|
| AdminsAreMembers ("Owner, or a member granted the guild's admin role", `guilds.rs:96`) | `guilds.rs:109` | a kick leaves the grants, and `is_admin` does not look at the members | `Ops = {"create_guild", "create_invite", "join_guild", "grant_admin", "kick_member"}`, one request |
| MembersSeeEveryChannel ("membership in a guild grants access to every channel it owns", `migrations/0016_guilds.sql:2`) | `chat_handlers.rs:455` | `delete_conversation` works on guild channels (`past = "left"` in `GuildFaults`) | the same with `"delete_conversation"` |
| OwnerIsMember with two requests | `guilds.rs:684` | the target of transfer_owner leaves after the membership check | `transfer_owner`, `leave_guild`, two requests |
| BannedStayOut with two requests | `guilds.rs:568` | a ban between the ban check and the INSERT of a join | `ban_member`, `join_guild`, two requests |
| ChannelsOnlyForMembers with two requests, or with faults | `guilds.rs:427`, `:735` | the members copied into a new channel are read before a kick ends; a kick is cut short | `create_channel`, `kick_member`, two channels, two requests |
| OneAdminRole with two requests | `guilds.rs:124` | two first grants in an old guild both find no admin role | `grant_admin`, two roles, two requests |
| OnlyEmptyConversationsDropped with two requests | `chat_handlers.rs:463` | somebody joins between the count and the DELETE | `delete_conversation`, `join_guild`, two requests |
| OneOfAKindPerDevice with two requests | `auth_handlers.rs:702`, `:383` | two logins delete before either inserts | `login`, one device, two requests |
| OneDevicePerSession with two requests | `auth.rs:221` | two devices read a session unbound and both bind it | `login`, `logout`, `Headers = {d1, d2, None}`, one session, two requests |
| EnabledSecretVerified with two requests | `auth_handlers.rs:354` | a set-up replaces the secret between its check and the enabling | `login`, `two_fa_setup`, `two_fa_enable`, `MaxSecret = 2`, two requests |
| StolenSessionsRevoked with faults | `auth.rs:211` | the DELETE of a stolen session fails and is only logged | `Faults = TRUE`, one request |
| PresenceExact with two devices | `ws.rs:234` | the first connection to end takes the user offline for both | `MultiDevice = TRUE`, one user, two connections |
| OneChannel with two devices | `ws.rs:281` | two joins evict before either inserts | the same with two channels |
| LeavesAreHeard ("announce it to the channel's other members", `ws.rs:335`) | `ws.rs:320` | the join of one device is announced after the leave of the other | the same with one channel |
| EntersAsMember ("the channel must be a voice channel of a guild the caller belongs to", `ws.rs:249`) | `ws.rs:266` | a kick after the membership check of voice_join | `Kicks = TRUE`, one user, one connection |
| VoiceSignalsStayInChannel (`ws.rs:388`) | `ws.rs:392` | the peer leaves while the signal's sender is looked up | two users, one channel, two connections |

A session created without a device header is bound on first use, also to a device that
has a session already: `OneOfAKindPerDeviceSerially` leaves such calls out (`"bare"` in
`past`). In `Federation`, operations that overlap on one message (`disturbed`) may leave
an older text at home or in the copies; an edit or a deletion that overtakes its post is
lost; a task whose SELECT of the recipients fails takes an empty list
(`unwrap_or_default`, `federation.rs:208`, `:233`, `:257`), so that the message, edit or
deletion reaches nobody and nothing is logged (`disturbed` as well); two posts at once
for a recipient (`crowded`) create two conversations; a message that is only an
attachment reaches no remote recipient (`federation_handlers.rs:197`). `migrations/0012`
describes `original_body` as the body before the most recent edit, while the code keeps
the very first one, as its comment says (`chat_handlers.rs:566`); the model follows the
code. `update_me` with too long a bio has saved the display name before it answers 400.

### Client

Each of these is the exception a history variable stands for, or a state the properties
leave out.

- **File transfer.** `raced`: when a recipient fetches again while an attempt is under way,
  both may write into the temporary file that is then renamed, and a torn file is shown as
  complete (against `p2p.rs:54`); "waiting" may then stay for ever. "connecting" stays
  for ever when the channel closes before the header or the file cannot be created.
  `fail_file` closes the connections of all recipients of the file (`p2p.rs:351`).
  `refused`: see above.
- **Voice.** `hasty` (a user comes back before all was settled): the callback of an old
  connection removes the entry of the new one (`voice.rs:541`, `:718`); an entry left
  behind by a leave during `establish_peer` makes `ensure_peer_offer` skip the user for
  good; `on_offer` uses a stale connection and does not ask for the channel.
  `overlapped` (others come or go during a join): the list of occupants, read before, is
  applied after the event and leaves a ghost in the member list; the connections are not
  affected (`MeshComplete` holds of overlapping joins too). `dropped`: a connection
  that reports Disconnected is hung up, though it might recover, and nobody offers again
  (`voice.rs:371`); `establish_peer` and `on_offer` end at the first step that fails, and
  leave what they have registered, without a retry (`voice.rs:444-450`, `:467-476`); the
  server drops a signal whose target it fails to look up (`ws.rs:399-411`). `refused`:
  voice_join answers nothing when a query fails or finds no row (`ws.rs:253-276`), and the
  client takes itself to be in the channel. `unheard`: presence events pass the snapshot of
  guilds a socket takes every five seconds (`ws.rs:154`), and a receiver that lags skips
  events; a member list then stays wrong.
- **Chat.** `stale`: `MessagesLoaded` replaces events pushed since it was read, an answer to
  a send puts a message back that was deleted meanwhile, and nothing is loaded again
  after a reconnect or for a conversation opened in the last five seconds; a list whose body
  cannot be read is taken to be empty (`main.rs:3856`, `:4362`); an edit that leaves the
  text is answered and not published (`chat_handlers.rs:553`), and its answer, when late,
  shows an older text. `mixed`:
  `NewConvCreated` selects another conversation over the messages, unread counts and edit
  of the previous one; `DeleteConversationResult` deselects whatever is selected.
  `loading` ends with the answer of another conversation. A search result is applied to a
  newer query, against the comment at `main.rs:3594`.
- **Session.** `late`: an answer of an earlier session sets token, user and screen of
  the next one, and a command answered with 401 after a sign-out ends a new session and
  removes its file. A success whose body cannot be read signs the default user in with
  an empty token (`main.rs:1786`, `:1880`, `:1928`). `muddled`: set-ups that overlap
  show a secret the server has replaced; a repeated verification brings the set-up
  screen back, and `two_fa_setup` switches the second factor off. `forgot`: signing in
  without "Remember me" leaves the file of another session, and the failure of writing
  or removing the file is ignored (`main.rs:3727`, `:3757`). `hungOn`: `Logout` neither
  calls the server's logout nor leaves the voice call. `throttled`: the limit on codes
  answers 401, which ends a live session. Not in any property: `auth_busy` stays set
  after `LoginNeeds2fa` and after a refused verification; the lists of devices, packs
  and overrides and the second factor's secret survive a sign-out; a revoked session
  keeps receiving over its open websocket.
- **Settings.** `missed`: the visibility toggled on the screen is not taken back when
  the request fails (`main.rs:2357`); the answer to a mark replaces the profile shown by
  then; an older answer overwrites a newer list or search; the packs of one list are
  read by several statements and may be of different times (`stickers.rs:56-76`,
  `:85-145`); the list loaded after a pack was created never reaches the screen, because
  `Task::then` replaces its message. `changes`: a profile whose owner changes both the
  default and the override while it is read (`moderation.rs:79`, `:93`) may be shown as
  it never was to be seen.

## 7. What is only model-checked

- Liveness, which is out of reach of the provers: `AttemptsEnd` of `FileTransfer`.
- Type correctness of the client modules as a property of its own. The invariants of their
  proofs contain the types they need.

## 8. What is not modelled, and why

- Handlers that only read, the views and the layout of the client: no state.
- Bot: two loops with a SELECT, a message and an UPDATE per period and no other actor. A
  crash before the UPDATE repeats the message.
- Link previews, codecs, audio, playback, the dashboard, the start of the server,
  installation: I/O and FFI. Stub crates have no behaviour.
- Voice administration: one handler that only reads.
- Invitations, avatars, typing indicators, the discovery of other servers, the windows of
  the rate limiter: left out of the modules that model their neighbours.
- Cryptography: tokens and TOTP codes are opaque, a request with a bad signature or
  password is one that changes nothing.
- The text of messages, names, colours, attachments: members of a small set.
- Several guilds, authors, files and remote instances: statements are restricted to one of
  each, and nothing relates two.

## 9. Plan

1. The server of `VoicePeers` replaced by `VoicePresence` (three users and every lock are
   beyond TLC together, and within reach of the proofs of both).
2. `ChatView` composed with `Federation`, so that a client's screen is compared with the
   copies of a remote instance.
3. The rate limiter as a pure function over attempts; invitations; the discovery of
   servers in `Federation`.
