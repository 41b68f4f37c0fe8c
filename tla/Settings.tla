------------------------------- MODULE Settings --------------------------------
(***************************************************************************)
(* What the desktop client shows of rows kept at the server: the profile   *)
(* of another user with the marks set on it, the user's own visibility,    *)
(* and the lists of privacy overrides, of devices and of sticker packs     *)
(* (crates/feditexter-iced/src/main.rs, with moderation.rs, stickers.rs    *)
(* and auth_handlers.rs of the server).                                    *)
(*                                                                         *)
(* Every press is a request of its own, several can be on their way, and   *)
(* an answer replaces what is shown by what the server read, whenever it   *)
(* comes.  A profile is read by five statements, the sticker packs by two  *)
(* or three and one for each pack, and a row is looked up before it is     *)
(* deleted: between two statements others may change the rows.             *)
(***************************************************************************)
EXTENDS Naturals, FiniteSets, FiniteSetsExt

CONSTANTS
  Others,    \* the other users
  Devices,   \* devices of the user, beside this one
  Packs,     \* names of sticker packs, each used once
  Searches,  \* words to search for
  ByName,    \* the packs whose name holds a word
  BySticker, \* those that hold it in the names of their stickers
  MaxSteps   \* bound: presses, changes by others and losses

ASSUME SettingsAssumption ==
  /\ MaxSteps \in Nat
  /\ Others \intersect Devices = {} /\ Packs \intersect (Others \union Devices) = {}
  /\ ByName \in [Searches -> SUBSET Packs] /\ BySticker \in [Searches -> SUBSET Packs]
  /\ "none" \notin Searches

VARIABLES
  visible,    \* profile_visible of the others
  override,   \* their privacy override for this user: "on", "off" or "none"
  blocks,     \* whom this user blocks
  mutes,      \* whom this user mutes
  mine,       \* profile_visible of this user
  rows,       \* rows[l]: the table behind list l, pairs of a key and a value
  reqs,       \* requests and answers on their way
  profile,    \* profile: the one in the modal
  mineShown,  \* user.profile_visible
  lists,      \* privacy_overrides, sessions and sticker_packs
  busy,       \* privacy_busy, sessions_busy
  search,     \* sticker_search
  steps,      \* bound only
  missed      \* history: what was not loaded, or may differ as an answer was lost,
              \* was overtaken, or was that of another search

server  == <<visible, override, blocks, mutes, mine, rows>>
client  == <<profile, mineShown, lists, busy, search>>
settingsVars == <<server, reqs, client, steps, missed>>

None    == "none"
Lists   == {"privacy", "devices", "stickers"}
Shown   == Lists \union {"profile", "mine"}
Keys    == [privacy |-> Others, devices |-> Devices, stickers |-> Packs]
Values  == {"on", "off"}
Tables  == [Lists -> SUBSET ((Others \union Devices \union Packs) \X Values)]
Profiles == [of: Others \union {None}, blocked: BOOLEAN, muted: BOOLEAN, visible: BOOLEAN]
NoProfile == [of |-> None, blocked |-> FALSE, muted |-> FALSE, visible |-> FALSE]
Marks   == {"block", "unblock", "mute", "unmute"}
Stages  == {"sent", "changed", "row", "blocked", "muted", "owned", "names", "packs", "ok", "failed"}

(* A pack of which only the id is known, or the row.                       *)
Pending == {"named", "found"}

(* shows: what the answer will replace; act: what it changes first; of:    *)
(* the user or row it names, or the search.  History: old, the rows may    *)
(* have changed since they were read; was, if the profile was to be seen,  *)
(* at the times since its row was read; changes, how often others changed  *)
(* that in the meantime.                                                   *)
Requests ==
  [n: Nat, shows: Shown, act: Marks \union Values \union {None, "load", "create"},
   of: Others \union Devices \union Packs \union Searches \union {None}, stage: Stages,
   chained: BOOLEAN, got: Profiles,
   table: SUBSET ((Others \union Devices \union Packs) \X (Values \union Pending)),
   old: BOOLEAN, was: SUBSET BOOLEAN, changes: 0..2]

SettingsTypeOK ==
  /\ visible \in [Others -> BOOLEAN] /\ override \in [Others -> Values \union {None}]
  /\ blocks \subseteq Others /\ mutes \subseteq Others /\ mine \in BOOLEAN
  /\ rows \in Tables /\ lists \in Tables
  /\ \A l \in Lists: \A x \in rows[l], y \in rows[l]: x[1] = y[1] => x = y
  /\ reqs \subseteq Requests
  /\ profile \in Profiles /\ mineShown \in BOOLEAN
  /\ busy \subseteq {"privacy", "devices"} /\ search \in Searches \union {None}
  /\ steps \in 0..MaxSteps /\ missed \subseteq Shown

(* Profiles are visible at first; overrides and packs may be from earlier  *)
(* days.                                                                   *)
SettingsInit ==
  /\ visible = [o \in Others |-> TRUE] /\ override \in [Others -> Values \union {None}]
  /\ blocks = {} /\ mutes = {} /\ mine = TRUE
  /\ \E P \in {{}, Others \X {"off"}}, S \in {{}, Packs \X {"on"}}:
       rows = [privacy |-> P, devices |-> Devices \X {"on"}, stickers |-> S]
  /\ reqs = {} /\ profile = NoProfile /\ mineShown = TRUE
  /\ lists = [l \in Lists |-> {}] /\ busy = {} /\ search = None
  /\ steps = 0 /\ missed = Lists

-----------------------------------------------------------------------------
(* Requests. *)

Request(shows, act, of, chained) ==
  [n |-> Min((1..(Cardinality(reqs) + 1)) \ {q.n: q \in reqs}),
   shows |-> shows, act |-> act, of |-> of, stage |-> "sent", chained |-> chained,
   got |-> NoProfile, table |-> {}, old |-> FALSE, was |-> {}, changes |-> 0]

Bounded == steps < MaxSteps /\ steps' = steps + 1
Call(shows, act, of, chained) ==
  Bounded /\ reqs' = reqs \union {Request(shows, act, of, chained)}

Load(l) == Request(l, "load", IF l = "stickers" THEN search ELSE None, FALSE)

(* What other users see of this one is read by them; what this user sees.  *)
Seen(o) == IF override[o] = None THEN visible[o] ELSE override[o] = "on"

Entry(l, x) == {e \in rows[l]: e[1] = x}

(* The rows that a search finds; a chained load is not asked for them.     *)
NameFound(s, e) == s = None \/ e[1] \in ByName[s]
Found(s, e) == NameFound(s, e) \/ (e[2] = "on" /\ e[1] \in BySticker[s])
Term(q) == IF q.chained THEN None ELSE q.of

-----------------------------------------------------------------------------
(* The user. *)

(* The list of overrides is loaded behind the profile if it is empty.      *)
ShowProfile(o) ==
  LET chained == "privacy" \notin busy /\ lists["privacy"] = {} IN
    /\ Call("profile", "load", o, chained)
    /\ busy' = IF chained THEN busy \union {"privacy"} ELSE busy
    /\ UNCHANGED <<server, profile, mineShown, lists, search, missed>>

(* The direction is taken from the profile on the screen. *)
ToggleBlock ==
  /\ profile.of # None
  /\ Call("profile", IF profile.blocked THEN "unblock" ELSE "block", profile.of, FALSE)
  /\ UNCHANGED <<server, client, missed>>

ToggleMute ==
  /\ profile.of # None
  /\ Call("profile", IF profile.muted THEN "unmute" ELSE "mute", profile.of, FALSE)
  /\ UNCHANGED <<server, client, missed>>

(* Shown at once; a failure does not take it back. *)
PrivacyDefaultToggled ==
  /\ mineShown' = ~mineShown
  /\ Call("mine", IF mineShown THEN "off" ELSE "on", None, FALSE)
  /\ UNCHANGED <<server, profile, lists, busy, search, missed>>

SaveSettings ==
  /\ Call("mine", IF mineShown THEN "on" ELSE "off", None, FALSE)
  /\ UNCHANGED <<server, client, missed>>

(* The settings, opened; or their tab of devices, while that list is empty. *)
OpenList(l) ==
  /\ l \in {"privacy", "devices"} \ busy
  /\ l = "devices" => lists[l] = {}
  /\ Call(l, "load", None, FALSE) /\ busy' = busy \union {l}
  /\ UNCHANGED <<server, profile, mineShown, lists, search, missed>>

(* The menu of stickers, opened while empty. *)
ToggleStickerMenu ==
  /\ lists["stickers"] = {}
  /\ Call("stickers", "load", search, FALSE)
  /\ UNCHANGED <<server, client, missed>>

StickerSearchChanged(s) ==
  /\ s # search /\ search' = s
  /\ Call("stickers", "load", s, FALSE)
  /\ missed' = missed \union {"stickers"}
  /\ UNCHANGED <<server, profile, mineShown, lists, busy>>

(* An override for the profile on the screen or for one in the list. *)
PrivacyOverrideSet(o, v) ==
  /\ o = profile.of \/ o \in {e[1]: e \in lists["privacy"]}
  /\ Call("privacy", v, o, FALSE)
  /\ UNCHANGED <<server, client, missed>>

PrivacyOverrideRemove(o) ==
  /\ o \in {e[1]: e \in lists["privacy"]}
  /\ Call("privacy", None, o, FALSE)
  /\ UNCHANGED <<server, client, missed>>

RevokeSession(d) ==
  /\ d \in {e[1]: e \in lists["devices"]}
  /\ Call("devices", None, d, FALSE)
  /\ UNCHANGED <<server, client, missed>>

CreateStickerPack(p) ==
  /\ Entry("stickers", p) = {} /\ \A q \in reqs: q.of # p
  /\ Call("stickers", "create", p, FALSE)
  /\ UNCHANGED <<server, client, missed>>

(* Images are uploaded to a pack of the list. *)
PickStickerImages(p) ==
  /\ p \in {e[1]: e \in lists["stickers"]}
  /\ Call("stickers", "on", p, FALSE)
  /\ UNCHANGED <<server, client, missed>>

DeleteStickerPack(p) ==
  /\ p \in {e[1]: e \in lists["stickers"]}
  /\ Call("stickers", None, p, FALSE)
  /\ UNCHANGED <<server, client, missed>>

-----------------------------------------------------------------------------
(* The server.  The user's other devices write to the same rows. *)

Reply(q, r) == reqs' = (reqs \ {q}) \union {r}
Step(q, stage) == [q EXCEPT !.stage = stage]
At(q, shows, stage) == q \in reqs /\ q.shows = shows /\ q.stage = stage
Unaffected == UNCHANGED <<client, steps, missed>>

(* q comes to r; what others have read by then of what q changes is old.   *)
ReplyOver(q, r, Old(_)) ==
  reqs' = {[x EXCEPT !.old = @ \/ Old(x)]: x \in reqs \ {q}} \union {r}

(* block_user, unblock_user, mute_user, unmute_user. *)
ModerateUser(q) ==
  /\ At(q, "profile", "sent") /\ q.act \in Marks
  /\ blocks' = CASE q.act = "block" -> blocks \union {q.of} [] q.act = "unblock" -> blocks \ {q.of}
                 [] OTHER -> blocks
  /\ mutes' = CASE q.act = "mute" -> mutes \union {q.of} [] q.act = "unmute" -> mutes \ {q.of}
                [] OTHER -> mutes
  /\ ReplyOver(q, Step(q, "changed"),
       LAMBDA x: x.shows = "profile" /\ x.of = q.of /\
                 x.stage \in {"muted", "ok"} \union (IF q.act \in {"block", "unblock"} THEN {"blocked"} ELSE {}))
  /\ Unaffected /\ UNCHANGED <<visible, override, mine, rows>>

(* profile_value: the row, the marks, and then the override. *)
ReadRow(q) ==
  /\ At(q, "profile", IF q.act \in Marks THEN "changed" ELSE "sent")
  /\ Reply(q, [Step(q, "row") EXCEPT !.got.of = q.of, !.got.visible = visible[q.of],
                                     !.was = {Seen(q.of)}])
  /\ Unaffected /\ UNCHANGED server

ReadBlocked(q) ==
  /\ At(q, "profile", "row")
  /\ Reply(q, [Step(q, "blocked") EXCEPT !.got.blocked = q.of \in blocks])
  /\ Unaffected /\ UNCHANGED server

(* Faulty variant: the query of the blocks, copied. *)
ReadMutedCopied(q) ==
  /\ At(q, "profile", "blocked")
  /\ Reply(q, [Step(q, "muted") EXCEPT !.got.muted = q.of \in blocks])
  /\ Unaffected /\ UNCHANGED server

ReadMuted(q) ==
  /\ At(q, "profile", "blocked")
  /\ Reply(q, [Step(q, "muted") EXCEPT !.got.muted = q.of \in mutes])
  /\ Unaffected /\ UNCHANGED server

(* Faulty variant: an override only hides. *)
ReadOverrideHiding(q) ==
  /\ At(q, "profile", "muted")
  /\ Reply(q, [Step(q, "ok") EXCEPT !.got.visible = @ /\ override[q.of] # "off"])
  /\ Unaffected /\ UNCHANGED server

ReadOverride(q) ==
  /\ At(q, "profile", "muted")
  /\ Reply(q, [Step(q, "ok") EXCEPT !.got.visible =
                 IF override[q.of] = None THEN @ ELSE override[q.of] = "on"])
  /\ Unaffected /\ UNCHANGED server

(* update_me: the row is written, and read back. *)
UpdateMe(q) ==
  /\ At(q, "mine", "sent")
  /\ mine' = (q.act = "on")
  /\ ReplyOver(q, Step(q, "changed"), LAMBDA x: x.shows = "mine" /\ x.stage = "ok")
  /\ Unaffected /\ UNCHANGED <<visible, override, blocks, mutes, rows>>

ReadMe(q) ==
  /\ At(q, "mine", "changed")
  /\ Reply(q, [Step(q, "ok") EXCEPT !.got.visible = mine])
  /\ Unaffected /\ UNCHANGED server

Put(l, x, v) ==
  rows' = [rows EXCEPT ![l] = (@ \ Entry(l, x)) \union (IF v = None THEN {} ELSE {<<x, v>>})]

ReadOf(x, l) == x.shows = l /\ x.act = "load" /\ x.stage \in {"names", "packs", "ok"}

Unchecked(q) == q.shows = "privacy" \/ q.act = "create"

(* revoke_session, add_sticker and delete_sticker_pack: is it the user's?  *)
CheckRow(q) ==
  /\ q \in reqs /\ q.shows \in Lists /\ q.act # "load" /\ q.stage = "sent" /\ ~Unchecked(q)
  /\ Reply(q, Step(q, IF Entry(q.shows, q.of) = {} THEN "failed" ELSE "owned"))
  /\ Unaffected /\ UNCHANGED server

(* The write of these, and set_privacy_override, remove_privacy_override   *)
(* and create_sticker_pack.  A sticker needs its pack (a foreign key);     *)
(* deleting what is gone succeeds.                                         *)
ChangeRow(q) ==
  /\ q \in reqs /\ q.shows \in Lists /\ q.act # "load"
  /\ q.stage = IF Unchecked(q) THEN "sent" ELSE "owned"
  /\ IF q.shows = "stickers" /\ q.act = "on" /\ Entry(q.shows, q.of) = {}
     THEN Reply(q, Step(q, "failed")) /\ UNCHANGED rows
     ELSE /\ Put(q.shows, q.of, IF q.act = "create" THEN "off" ELSE q.act)
          /\ ReplyOver(q, Step(q, "ok"), LAMBDA x: ReadOf(x, q.shows))
  /\ Unaffected /\ UNCHANGED <<visible, override, blocks, mutes, mine>>

(* list_privacy and list_sessions. *)
ReadList(q) ==
  /\ q \in reqs /\ q.shows \in {"privacy", "devices"} /\ q.act = "load" /\ q.stage = "sent"
  /\ Reply(q, [Step(q, "ok") EXCEPT !.table = rows[q.shows]])
  /\ Unaffected /\ UNCHANGED server

(* list_sticker_packs: the packs, by name if there is a search; then those *)
(* that have such stickers, which are looked up by their id; and then the  *)
(* stickers of each pack (pack_json).                                      *)
Packing(q, stage) == At(q, "stickers", stage) /\ q.act = "load"
As(value, E) == {<<e[1], value>>: e \in E}

ListPacks(q) ==
  /\ Packing(q, "sent")
  /\ Reply(q, [Step(q, IF Term(q) = None THEN "packs" ELSE "names") EXCEPT !.table =
                 As("found", {e \in rows["stickers"]: NameFound(Term(q), e)})])
  /\ Unaffected /\ UNCHANGED server

ListByStickers(q) ==
  /\ Packing(q, "names")
  /\ Reply(q, [Step(q, "packs") EXCEPT !.table = @ \union
                 As("named", {e \in rows["stickers"]: Found(Term(q), e) /\ \A x \in q.table: x[1] # e[1]})])
  /\ Unaffected /\ UNCHANGED server

FindPack(q, x) ==
  /\ Packing(q, "packs") /\ x \in q.table /\ x[2] = "named"
  /\ Reply(q, [q EXCEPT !.table = (@ \ {x}) \union As("found", Entry("stickers", x[1]))])
  /\ Unaffected /\ UNCHANGED server

(* A pack deleted by now has no stickers, and is listed.                   *)
ReadPack(q, x) ==
  /\ Packing(q, "packs") /\ x \in q.table /\ x[2] = "found" /\ \A y \in q.table: y[2] # "named"
  /\ Reply(q, [q EXCEPT !.table = (@ \ {x}) \union
                 (IF Entry("stickers", x[1]) = {} THEN {<<x[1], "off">>} ELSE Entry("stickers", x[1]))])
  /\ Unaffected /\ UNCHANGED server

PacksRead(q) ==
  /\ Packing(q, "packs") /\ \A x \in q.table: x[2] \notin Pending
  /\ Reply(q, Step(q, "ok"))
  /\ Unaffected /\ UNCHANGED server

(* Another device of the user, or the owner of a pack. *)
OtherDevice(l, x, v) ==
  /\ Bounded /\ Put(l, x, v) /\ rows' # rows
  /\ reqs' = {[q EXCEPT !.old = @ \/ ReadOf(q, l)]: q \in reqs}
  /\ missed' = missed \union {l}
  /\ UNCHANGED <<visible, override, blocks, mutes, mine, client>>

(* The other user sets the default or the override for this one. *)
OtherHides(o, show, v) ==
  /\ Bounded
  /\ \/ visible' = [visible EXCEPT ![o] = show] /\ UNCHANGED override
     \/ override' = [override EXCEPT ![o] = v] /\ UNCHANGED visible
  /\ <<visible', override'>> # <<visible, override>>
  /\ reqs' = {IF q.shows = "profile" /\ q.of = o /\ q.stage \in {"row", "blocked", "muted"}
              THEN [q EXCEPT !.was = @ \union {Seen(o)'}, !.changes = Min({2, @ + 1})] ELSE q: q \in reqs}
  /\ UNCHANGED <<blocks, mutes, mine, rows, client, missed>>

(* A request or an answer is lost. *)
Fail(q) ==
  /\ q.stage # "failed"
  /\ Bounded /\ Reply(q, [Step(q, "failed") EXCEPT !.got = NoProfile, !.table = {}])
  /\ missed' = missed \union {q.shows}
  /\ UNCHANGED <<server, client>>

-----------------------------------------------------------------------------
(* Answers. *)

Answered(q, shows) == q \in reqs /\ q.shows = shows /\ q.stage \in {"ok", "failed"}
Take(q, more) == reqs' = (reqs \ {q}) \union more /\ UNCHANGED steps
Renewed(shows, stale) == missed' = IF stale THEN missed \union {shows} ELSE missed \ {shows}

(* ProfileLoaded and ModerationResult: the profile in the modal gives way, *)
(* whoever it is of.                                                       *)
ProfileLoaded(q) ==
  /\ Answered(q, "profile")
  /\ Take(q, IF q.chained THEN {[Load("privacy") EXCEPT !.n = q.n]} ELSE {})
  /\ IF q.stage = "ok" THEN profile' = q.got /\ Renewed("profile", q.old)
     ELSE UNCHANGED <<profile, missed>>
  /\ UNCHANGED <<server, mineShown, lists, busy, search>>

SettingsResult(q) ==
  /\ Answered(q, "mine") /\ Take(q, {})
  /\ IF q.stage = "ok" THEN mineShown' = q.got.visible /\ Renewed("mine", q.old)
     ELSE UNCHANGED <<mineShown, missed>>
  /\ UNCHANGED <<server, profile, lists, busy, search>>

(* PrivacyOverridesLoaded, SessionsLoaded, StickersLoaded. *)
ListLoaded(q, l) ==
  /\ Answered(q, l) /\ q.act = "load" /\ ~q.chained
  /\ Take(q, {}) /\ busy' = busy \ {l}
  /\ IF q.stage = "ok"
     THEN /\ lists' = [lists EXCEPT ![l] = q.table]
          /\ Renewed(l, q.old \/ (l = "stickers" /\ q.of # search))
     ELSE UNCHANGED <<lists, missed>>
  /\ UNCHANGED <<server, profile, mineShown, search>>

(* The list loaded after a pack is created goes to Task::then, which asks  *)
(* for the images of the pack and drops it.                                *)
ListDropped(q) ==
  /\ Answered(q, "stickers") /\ q.chained
  /\ \/ Take(q, {})
     \/ Take(q, {[Request("stickers", "on", q.of, FALSE) EXCEPT !.n = q.n]})
  /\ missed' = missed \union {"stickers"}
  /\ UNCHANGED <<server, client>>

(* Faulty variant: the list of devices is not loaded again. *)
ChangeResultShown(q, l) ==
  /\ Answered(q, l) /\ q.act # "load"
  /\ Take(q, IF q.stage = "failed" \/ l = "devices" THEN {}
             ELSE IF q.act = "create"
                  THEN {[Load(l) EXCEPT !.n = q.n, !.of = q.of, !.chained = TRUE]}
                  ELSE {[Load(l) EXCEPT !.n = q.n]})
  /\ UNCHANGED <<server, client, missed>>

(* PrivacyOverrideUpdated, SessionRevoked, StickerPackCreated,             *)
(* StickerAction: the list is loaded again.                                *)
ChangeResult(q, l) ==
  /\ Answered(q, l) /\ q.act # "load"
  /\ Take(q, IF q.stage = "failed" THEN {}
             ELSE IF q.act = "create"
                  THEN {[Load(l) EXCEPT !.n = q.n, !.of = q.of, !.chained = TRUE]}
                  ELSE {[Load(l) EXCEPT !.n = q.n]})
  /\ UNCHANGED <<server, client, missed>>

-----------------------------------------------------------------------------
User ==
  \/ \E o \in Others: \/ ShowProfile(o) \/ PrivacyOverrideRemove(o)
                      \/ \E v \in Values: PrivacyOverrideSet(o, v)
  \/ ToggleBlock \/ ToggleMute \/ PrivacyDefaultToggled \/ SaveSettings
  \/ \E l \in Lists: OpenList(l)
  \/ ToggleStickerMenu
  \/ \E s \in Searches \union {None}: StickerSearchChanged(s)
  \/ \E d \in Devices: RevokeSession(d)
  \/ \E p \in Packs: CreateStickerPack(p) \/ PickStickerImages(p) \/ DeleteStickerPack(p)

Server ==
  \/ \E q \in reqs: \/ ModerateUser(q) \/ ReadRow(q) \/ ReadBlocked(q) \/ ReadMuted(q) \/ ReadOverride(q)
                    \/ UpdateMe(q) \/ ReadMe(q) \/ CheckRow(q) \/ ChangeRow(q) \/ Fail(q)
                    \/ ReadList(q) \/ ListPacks(q) \/ ListByStickers(q) \/ PacksRead(q)
                    \/ \E x \in q.table: FindPack(q, x) \/ ReadPack(q, x)
  \/ \E l \in Lists: \E x \in Keys[l], v \in Values \union {None}: OtherDevice(l, x, v)
  \/ \E o \in Others, show \in BOOLEAN, v \in Values \union {None}: OtherHides(o, show, v)

Client ==
  \/ \E q \in reqs: \/ ProfileLoaded(q) \/ SettingsResult(q) \/ ListDropped(q)
                    \/ \E l \in Lists: ListLoaded(q, l) \/ ChangeResult(q, l)

SettingsNext == User \/ Server \/ Client

SettingsSpec == SettingsInit /\ [][SettingsNext]_settingsVars

-----------------------------------------------------------------------------
(* "When the target hides their profile from this viewer, only a           *)
(* bare-bones record is returned": a profile is answered as it was to be   *)
(* seen at some time while it was read, unless it was changed twice then.  *)
ShownAsPermitted ==
  \A q \in reqs: q.shows = "profile" /\ q.stage = "ok" /\ q.changes < 2 => q.got.visible \in q.was

(* When no request on it is on its way, a switch is shown as the server    *)
(* keeps it, unless an answer was lost or overtaken: the marks in the      *)
(* modal, and the own visibility.                                          *)
SwitchesAsKept ==
  /\ profile.of # None /\ "profile" \notin missed /\ (\A q \in reqs: q.shows # "profile") =>
       profile.blocked = (profile.of \in blocks) /\ profile.muted = (profile.of \in mutes)
  /\ "mine" \notin missed /\ (\A q \in reqs: q.shows # "mine") => mineShown = mine

(* A list, once loaded, shows the rows of the server when no request on it *)
(* is on its way, unless an answer was lost, overtaken, or was that of an  *)
(* earlier search, or others changed the rows.                             *)
ListsAsKept ==
  \A l \in Lists \ missed: (\A q \in reqs: q.shows # l) =>
    lists[l] = {e \in rows[l]: Found(IF l = "stickers" THEN search ELSE None, e)}
===============================================================================
