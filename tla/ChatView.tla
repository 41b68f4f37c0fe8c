------------------------------ MODULE ChatView ------------------------------
(***************************************************************************)
(* What one client shows of its conversations: the loading, sending,       *)
(* editing, deleting, selecting and opening of crates/feditexter-iced/     *)
(* src/main.rs, the handlers of chat_handlers.rs they call, and the push   *)
(* of messages over the websocket (ws.rs).  Answers travel on connections  *)
(* of their own: they arrive in any order among themselves and among the   *)
(* pushed events, and the client applies each as it comes.                 *)
(*                                                                         *)
(* A message is a row of the log, with a version that an edit raises; the  *)
(* overlapping of two edits of one message is the subject of Federation.   *)
(***************************************************************************)
EXTENDS Naturals, Sequences, FiniteSets, SequencesExt

CONSTANTS
  Convs,      \* the conversations
  MaxMsgs,    \* bound: messages
  MaxSteps    \* bound: requests of the user and of others, and losses

NoConv == "none"

ASSUME ViewAssumption ==
  MaxMsgs \in Nat /\ MaxSteps \in Nat /\ NoConv \notin Convs

VARIABLES
  log,        \* the message rows, in the order of their ids
  member,     \* the conversations the user is a member of
  readUpTo,   \* readUpTo[c]: last_read_message_id
  connected,  \* the websocket is open
  feed,       \* the conversations its server side forwards
  push,       \* events on their way to the client
  reqs,       \* requests and answers on their way
  convs,      \* the client's list of conversations
  selected,   \* selected_conversation
  shown,      \* the messages on the screen
  unread,     \* unread[c]: messages pushed since c was last selected
  loading,    \* loading_messages
  editing,    \* editing_message_id, or NoMsg
  steps,      \* bound only
  taken,      \* history: taken[c]: events of c delivered or missed
  seen,       \* history: ids that were on the screen
  stale,      \* history: the screen missed or misplaced an event, or could not be read
  mixed       \* history: another conversation was opened over this one

server  == <<log, member, readUpTo>>
socket  == <<connected, feed, push>>
view    == <<convs, selected, shown, unread, loading, editing>>
history == <<taken, seen, stale, mixed>>
vars == <<server, socket, reqs, view, steps, history>>

Ids   == 1..MaxMsgs
NoMsg == 0
Kinds == {"load", "read", "send", "edit", "delete", "list", "open", "drop"}
Rows  == [conv: Convs, ver: 0..1, deleted: BOOLEAN, own: BOOLEAN]
Views == [id: Ids, ver: 0..1]
Events == [op: {"send", "edit", "delete"}, id: Ids, ver: 0..1]
Numbers == 1..(2 * MaxSteps)
Requests ==
  [n: Numbers, own: BOOLEAN, kind: Kinds, conv: Convs \union {NoConv},
   id: Ids \union {NoMsg}, stage: {"sent", "stored", "answered"},
   body: Seq(Views), list: SUBSET Convs, ok: BOOLEAN, since: Nat]

TypeOK ==
  /\ log \in Seq(Rows) /\ Len(log) <= MaxMsgs
  /\ member \subseteq Convs /\ readUpTo \in [Convs -> 0..MaxMsgs]
  /\ connected \in BOOLEAN /\ feed \subseteq Convs /\ push \in Seq(Events)
  /\ reqs \subseteq Requests
  /\ convs \subseteq Convs /\ selected \in Convs \union {NoConv}
  /\ shown \in Seq(Views) /\ unread \in [Convs -> Nat]
  /\ loading \in BOOLEAN /\ editing \in Ids \union {NoMsg}
  /\ steps \in 0..MaxSteps
  /\ taken \in [Convs -> Nat] /\ seen \subseteq Ids
  /\ stale \in BOOLEAN /\ mixed \in BOOLEAN

Init ==
  /\ log = <<>> /\ readUpTo = [c \in Convs |-> 0]
  /\ \E c \in Convs: member = {c} /\ feed = {c} /\ convs = {c}
  /\ connected = TRUE /\ push = <<>> /\ reqs = {}
  /\ selected = NoConv /\ shown = <<>> /\ unread = [c \in Convs |-> 0]
  /\ loading = FALSE /\ editing = NoMsg
  /\ steps = 0
  /\ taken = [c \in Convs |-> 0] /\ seen = {} /\ stale = FALSE /\ mixed = FALSE

-----------------------------------------------------------------------------
(* Requests. *)

(* n tells requests of one kind about one conversation apart. *)
RequestOf(own, kind, c, i) ==
  [n |-> Min({k \in Numbers: \A q \in reqs:
                [n |-> k, own |-> own, kind |-> kind, conv |-> c] #
                [n |-> q.n, own |-> q.own, kind |-> q.kind, conv |-> q.conv]}),
   own |-> own, kind |-> kind, conv |-> c, id |-> i, stage |-> "sent",
   body |-> <<>>, list |-> {}, ok |-> TRUE, since |-> 0]
Request(kind, c, i) == RequestOf(TRUE, kind, c, i)

Bounded == steps < MaxSteps /\ steps' = steps + 1

(* The client makes one request. *)
Call(kind, c, i) ==
  /\ Bounded
  /\ reqs' = reqs \union {Request(kind, c, i)}

(* An answer is taken; it may lead to one more request, which needs no     *)
(* bound: its cause has one.                                               *)
Take(q) == reqs' = reqs \ {q} /\ UNCHANGED steps
TakeAndCall(q, kind, c, i) ==
  reqs' = (reqs \ {q}) \union {Request(kind, c, i)} /\ UNCHANGED steps

Pending(q, kind) == q \in reqs /\ q.own /\ q.stage = "answered" /\ q.kind = kind
ShownIds == {shown[i].id: i \in DOMAIN shown}
ViewOf(i) == [id |-> i, ver |-> log[i].ver]
(* The members of a set of numbers, in order. *)
Ordered(S) ==
  CHOOSE s \in [1..Cardinality(S) -> S]: \A j, k \in DOMAIN s: j < k => s[j] < s[k]
RowsOf(c) == Ordered({i \in DOMAIN log: log[i].conv = c /\ ~log[i].deleted})

-----------------------------------------------------------------------------
(* The user. *)

SelectConversation(c) ==
  /\ c \in convs
  /\ Call("load", c, NoMsg)
  /\ selected' = c /\ shown' = <<>> /\ editing' = NoMsg
  /\ unread' = [unread EXCEPT ![c] = 0]
  /\ loading' = TRUE
  /\ stale' = FALSE /\ mixed' = FALSE
  /\ UNCHANGED <<server, socket, convs, taken, seen>>

(* SelectGuild and SetLeftTab leave the edit in progress. *)
Deselect ==
  /\ selected # NoConv
  /\ selected' = NoConv /\ shown' = <<>>
  /\ UNCHANGED <<server, socket, reqs, convs, unread, loading, editing, steps, history>>

(* A sticker is sent during an edit, too. *)
SendMessage ==
  /\ selected # NoConv
  /\ Call("send", selected, NoMsg)
  /\ UNCHANGED <<server, socket, view, history>>

StartEdit(i) ==
  /\ i \in ShownIds /\ log[i].own /\ editing = NoMsg
  /\ editing' = i
  /\ UNCHANGED <<server, socket, reqs, convs, selected, shown, unread, loading, steps, history>>

CancelEdit ==
  /\ editing # NoMsg /\ editing' = NoMsg
  /\ UNCHANGED <<server, socket, reqs, convs, selected, shown, unread, loading, steps, history>>

ConfirmEdit ==
  /\ editing # NoMsg /\ selected # NoConv
  /\ Call("edit", selected, editing)
  /\ editing' = NoMsg
  /\ UNCHANGED <<server, socket, convs, selected, shown, unread, loading, history>>

DeleteMessage(i) ==
  /\ i \in ShownIds /\ log[i].own /\ selected # NoConv
  /\ Call("delete", selected, i)
  /\ UNCHANGED <<server, socket, view, history>>

NewConvCreate(c) ==
  /\ Call("open", c, NoMsg)
  /\ UNCHANGED <<server, socket, view, history>>

DeleteConversation(c) ==
  /\ c \in convs
  /\ Call("drop", c, NoMsg)
  /\ UNCHANGED <<server, socket, view, history>>

(* Other clients write to the conversations; what they edit or delete has  *)
(* been published before.                                                  *)
OtherCalls(kind, c, i) ==
  /\ Bounded
  /\ \/ kind = "send" /\ i = NoMsg
     \/ /\ kind \in {"edit", "delete"} /\ i \in DOMAIN log /\ log[i].conv = c /\ ~log[i].own
        /\ ~\E q \in reqs: q.stage = "stored" /\ q.id = i
  /\ reqs' = reqs \union {RequestOf(FALSE, kind, c, i)}
  /\ UNCHANGED <<server, socket, view, history>>

OtherOpens(c) ==
  /\ Bounded /\ c \notin member
  /\ member' = member \union {c}
  /\ UNCHANGED <<log, readUpTo, socket, reqs, view, history>>

-----------------------------------------------------------------------------
(* The server. *)

Step(q, r) == reqs' = (reqs \ {q}) \union {r}
Answer(q) == [q EXCEPT !.stage = "answered"]
Refuse(q) == [q EXCEPT !.stage = "answered", !.ok = FALSE]
Allowed(q) == ~q.own \/ q.conv \in member

(* list_messages: the rows as they are now, unless not a member. *)
ListMessages(q) ==
  /\ q.stage = "sent" /\ q.kind = "load"
  /\ LET rows == RowsOf(q.conv)
         body == [k \in DOMAIN rows |-> ViewOf(rows[k])] IN
       Step(q, IF Allowed(q)
               THEN [Answer(q) EXCEPT !.body = body, !.since = taken[q.conv]] ELSE Refuse(q))
  /\ UNCHANGED <<server, socket, view, steps, history>>

(* Faulty variant: marks all there is in the conversation as read. *)
MarkReadAll(q) ==
  /\ q.stage = "sent" /\ q.kind = "read"
  /\ readUpTo' = IF Allowed(q) THEN [readUpTo EXCEPT ![q.conv] = Len(log)] ELSE readUpTo
  /\ reqs' = reqs \ {q}
  /\ UNCHANGED <<log, member, socket, view, steps, history>>

(* Faulty variant: a plain assignment. *)
MarkReadAssigned(q) ==
  /\ q.stage = "sent" /\ q.kind = "read"
  /\ readUpTo' = IF Allowed(q) THEN [readUpTo EXCEPT ![q.conv] = q.id] ELSE readUpTo
  /\ reqs' = reqs \ {q}
  /\ UNCHANGED <<log, member, socket, view, steps, history>>

(* mark_read never goes back; nobody looks at its answer. *)
MarkRead(q) ==
  /\ q.stage = "sent" /\ q.kind = "read"
  /\ readUpTo' = IF Allowed(q) /\ q.id > readUpTo[q.conv]
                 THEN [readUpTo EXCEPT ![q.conv] = q.id] ELSE readUpTo
  /\ reqs' = reqs \ {q}
  /\ UNCHANGED <<log, member, socket, view, steps, history>>

(* send_message, edit_message and delete_message write the row first. *)
StoreMessage(q) ==
  /\ q.stage = "sent" /\ q.kind = "send"
  /\ IF Allowed(q)
     THEN /\ Len(log) < MaxMsgs
          /\ log' = Append(log, [conv |-> q.conv, ver |-> 0, deleted |-> FALSE, own |-> q.own])
          /\ Step(q, [q EXCEPT !.stage = "stored", !.id = Len(log) + 1])
     ELSE UNCHANGED log /\ Step(q, Refuse(q))
  /\ UNCHANGED <<member, readUpTo, socket, view, steps, history>>

ChangeMessage(q) ==
  /\ q.stage = "sent" /\ q.kind \in {"edit", "delete"}
  /\ IF Allowed(q) /\ log[q.id].conv = q.conv
     THEN /\ log' = IF q.kind = "edit" THEN [log EXCEPT ![q.id].ver = 1]
                    ELSE [log EXCEPT ![q.id].deleted = TRUE]
          /\ Step(q, [q EXCEPT !.stage = "stored"])
     ELSE UNCHANGED log /\ Step(q, Refuse(q))
  /\ UNCHANGED <<member, readUpTo, socket, view, steps, history>>

(* An edit that leaves the text as it is writes and publishes nothing.     *)
KeepMessage(q) ==
  /\ q.stage = "sent" /\ q.kind = "edit"
  /\ Allowed(q) /\ log[q.id].conv = q.conv
  /\ IF q.own THEN Step(q, [Answer(q) EXCEPT !.body = <<ViewOf(q.id)>>]) ELSE reqs' = reqs \ {q}
  /\ UNCHANGED <<server, socket, view, steps, history>>

(* ... and publish it then, to whoever is connected and has the            *)
(* conversation in its feed.  The answer leaves after that.                *)
Publish(q) ==
  /\ q.stage = "stored"
  /\ LET c == log[q.id].conv IN
       IF connected /\ c \in feed
       THEN /\ push' = Append(push, [op |-> q.kind, id |-> q.id, ver |-> log[q.id].ver])
            /\ UNCHANGED <<taken, stale>>
       ELSE /\ taken' = [taken EXCEPT ![c] = @ + 1]
            /\ stale' = (stale \/ selected = c)
            /\ UNCHANGED push
  /\ IF q.own THEN Step(q, [Answer(q) EXCEPT !.body = <<ViewOf(q.id)>>]) ELSE reqs' = reqs \ {q}
  /\ UNCHANGED <<server, connected, feed, view, steps, seen, mixed>>

(* What was written cannot be read back: it is not published, and the      *)
(* request fails.                                                          *)
Untold(q) ==
  /\ q.stage = "stored" /\ q.kind # "delete"
  /\ Bounded
  /\ LET c == log[q.id].conv IN
       /\ taken' = [taken EXCEPT ![c] = @ + 1]
       /\ stale' = (stale \/ selected = c)
  /\ IF q.own THEN Step(q, Refuse(q)) ELSE reqs' = reqs \ {q}
  /\ UNCHANGED <<server, socket, view, seen, mixed>>

(* list_conversations, create_conversation and delete_conversation answer  *)
(* with what they left.                                                    *)
Conversations(q, kind, after) ==
  /\ q.stage = "sent" /\ q.kind = kind
  /\ member' = after
  /\ Step(q, [Answer(q) EXCEPT !.list = after])
  /\ UNCHANGED <<log, readUpTo, socket, view, steps, history>>

ListConversations(q) == Conversations(q, "list", member)
CreateConversation(q) == Conversations(q, "open", member \union {q.conv})

RemoveConversation(q) ==
  \/ q.conv \in member /\ Conversations(q, "drop", member \ {q.conv})
  \/ /\ q.stage = "sent" /\ q.kind = "drop" /\ q.conv \notin member
     /\ Step(q, Refuse(q))
     /\ UNCHANGED <<server, socket, view, steps, history>>

(* ws_loop reads the memberships again every five seconds. *)
RefreshFeed ==
  /\ connected /\ feed' = member
  /\ UNCHANGED <<server, connected, push, reqs, view, steps, history>>

Count(c) == Cardinality({k \in DOMAIN push: log[push[k].id].conv = c})

(* The socket breaks, or its receiver fell too far behind the hub: events  *)
(* on their way are gone.  The client connects again and reloads nothing.  *)
Disconnect ==
  /\ Bounded /\ connected
  /\ connected' = FALSE /\ push' = <<>>
  /\ taken' = [c \in Convs |-> taken[c] + Count(c)]
  /\ stale' = (stale \/ (selected # NoConv /\ Count(selected) > 0))
  /\ UNCHANGED <<server, feed, reqs, view, seen, mixed>>

Reconnect ==
  /\ ~connected /\ connected' = TRUE /\ feed' = member
  /\ UNCHANGED <<server, push, reqs, view, steps, history>>

(* A request, or its answer, is lost. *)
Lose(q) ==
  /\ q.own /\ q.stage # "stored" /\ q.ok
  /\ Bounded
  /\ Step(q, Refuse(q))
  /\ UNCHANGED <<server, socket, view, history>>

-----------------------------------------------------------------------------
(* Answers. *)

Without(s, i) ==
  LET left == Ordered({k \in DOMAIN s: s[k].id # i}) IN [k \in DOMAIN left |-> s[left[k]]]
Replaced(s, m) == [k \in DOMAIN s |-> IF s[k].id = m.id THEN m ELSE s[k]]
IdsOf(s) == {s[k].id: k \in DOMAIN s}

(* No such event of the message is on its way any more. *)
Passed(op, i) ==
  /\ \A k \in DOMAIN push: push[k].id = i => push[k].op # op
  /\ \A q \in reqs: ~(q.stage = "stored" /\ q.kind = op /\ q.id = i)

(* Faulty variant: whatever is selected by now. *)
MessagesLoadedAnywhere(q) ==
  /\ Pending(q, "load") /\ Take(q)
  /\ loading' = FALSE
  /\ shown' = IF q.ok THEN q.body ELSE shown
  /\ seen' = seen \union IdsOf(shown')
  /\ UNCHANGED <<server, socket, convs, selected, unread, editing, taken, stale, mixed>>

(* MessagesLoaded replaces the list, and what it shows is marked as read.  *)
(* `loading' ends with the answer of any conversation.                     *)
MessagesLoaded(q) ==
  /\ Pending(q, "load")
  /\ loading' = FALSE
  /\ IF selected = q.conv /\ q.ok
     THEN /\ shown' = q.body
          /\ seen' = seen \union IdsOf(q.body)
          /\ stale' = (q.since # taken[q.conv])
          /\ mixed' = (mixed /\ editing # NoMsg)
          /\ IF q.body = <<>> THEN Take(q)
             ELSE TakeAndCall(q, "read", q.conv, q.body[Len(q.body)].id)
     ELSE Take(q) /\ UNCHANGED <<shown, seen, mixed>> /\ stale' = (stale \/ selected = q.conv)
  /\ UNCHANGED <<server, socket, convs, selected, unread, editing, taken>>

(* load_messages: a list that breaks off or cannot be read is an empty one. *)
MessagesBroken(q) ==
  /\ Pending(q, "load") /\ q.ok /\ selected = q.conv
  /\ Bounded
  /\ reqs' = reqs \ {q}
  /\ loading' = FALSE /\ shown' = <<>>
  /\ stale' = TRUE /\ mixed' = (mixed /\ editing # NoMsg)
  /\ UNCHANGED <<server, socket, convs, selected, unread, editing, taken, seen>>

(* A message is added unless it is there: its push may have been first.    *)
(* If it has been deleted since, it comes back.                            *)
MessageSent(q) ==
  /\ Pending(q, "send") /\ Take(q)
  /\ IF q.ok /\ selected = q.conv /\ q.id \notin ShownIds
     THEN /\ shown' = shown \o q.body
          /\ seen' = seen \union IdsOf(q.body)
          /\ stale' = (stale \/ q.id \in seen)
     ELSE UNCHANGED <<shown, seen, stale>>
  /\ UNCHANGED <<server, socket, convs, selected, unread, loading, editing, taken, mixed>>

(* The answer to an edit that kept the text may put the text back that     *)
(* another edit has replaced meanwhile.                                    *)
EditResult(q) ==
  /\ Pending(q, "edit") /\ Take(q)
  /\ shown' = IF q.ok THEN Replaced(shown, q.body[1]) ELSE shown
  /\ stale' = (stale \/ (q.ok /\ q.body[1].ver # log[q.id].ver /\ Passed("edit", q.id)))
  /\ UNCHANGED <<server, socket, convs, selected, unread, loading, editing, taken, seen, mixed>>

DeleteResult(q) ==
  /\ Pending(q, "delete") /\ Take(q)
  /\ shown' = IF q.ok THEN Without(shown, q.id) ELSE shown
  /\ UNCHANGED <<server, socket, convs, selected, unread, loading, editing, history>>

ConversationsLoaded(q) ==
  /\ Pending(q, "list") /\ Take(q)
  /\ convs' = IF q.ok THEN q.list ELSE convs
  /\ UNCHANGED <<server, socket, selected, shown, unread, loading, editing, history>>

(* load_conversations: likewise. *)
ConversationsBroken(q) ==
  /\ Pending(q, "list") /\ q.ok
  /\ Bounded
  /\ reqs' = reqs \ {q}
  /\ convs' = {}
  /\ UNCHANGED <<server, socket, selected, shown, unread, loading, editing, history>>

(* The new conversation is selected; what the screen shows, counts as      *)
(* unread and edits stays what it was.                                     *)
NewConvCreated(q) ==
  /\ Pending(q, "open")
  /\ IF q.ok
     THEN /\ TakeAndCall(q, "list", NoConv, NoMsg)
          /\ selected' = q.conv
          /\ mixed' = (mixed \/ selected # q.conv)
          /\ stale' = TRUE
     ELSE Take(q) /\ UNCHANGED <<selected, mixed, stale>>
  /\ UNCHANGED <<server, socket, convs, shown, unread, loading, editing, taken, seen>>

(* Whatever is selected by now leaves the list, until it is loaded again. *)
DeleteConversationResult(q) ==
  /\ Pending(q, "drop")
  /\ IF q.ok
     THEN /\ TakeAndCall(q, "list", NoConv, NoMsg)
          /\ convs' = convs \ {selected}
          /\ selected' = NoConv /\ shown' = <<>>
     ELSE Take(q) /\ UNCHANGED <<convs, selected, shown>>
  /\ UNCHANGED <<server, socket, unread, loading, editing, history>>

-----------------------------------------------------------------------------
(* Pushed events. *)

(* Faulty variant: an edit is not applied. *)
OnPushNoEdit ==
  /\ push # <<>>
  /\ LET e == Head(push)
         c == log[e.id].conv IN
       /\ push' = Tail(push)
       /\ taken' = [taken EXCEPT ![c] = @ + 1]
       /\ shown' = CASE e.op = "send" /\ selected = c /\ e.id \notin ShownIds ->
                          Append(shown, [id |-> e.id, ver |-> e.ver])
                    [] e.op = "delete" /\ selected = c -> Without(shown, e.id)
                    [] OTHER -> shown
       /\ seen' = IF selected = c THEN seen \union {e.id} ELSE seen
  /\ UNCHANGED <<server, connected, feed, reqs, steps, convs, selected, unread, loading,
                 editing, stale, mixed>>

(* Its deletion has been published, and before it itself was.              *)
Gone(i) == log[i].deleted /\ Passed("delete", i)

OnPush ==
  /\ push # <<>>
  /\ LET e == Head(push)
         c == log[e.id].conv IN
       /\ push' = Tail(push)
       /\ taken' = [taken EXCEPT ![c] = @ + 1]
       /\ stale' = (stale \/ (e.op = "send" /\ selected = c /\ Gone(e.id)))
       /\ \/ /\ e.op = "send" /\ selected = c
             /\ shown' = IF e.id \in ShownIds THEN shown
                         ELSE Append(shown, [id |-> e.id, ver |-> e.ver])
             /\ seen' = seen \union {e.id}
             /\ UNCHANGED <<reqs, steps, unread>>
          \/ /\ e.op = "send" /\ selected # c
             /\ unread' = [unread EXCEPT ![c] = @ + 1]
             /\ reqs' = IF c \in convs THEN reqs
                        ELSE reqs \union {Request("list", NoConv, NoMsg)}
             /\ UNCHANGED steps
             /\ UNCHANGED <<shown, seen>>
          \/ /\ e.op = "edit"
             /\ shown' = Replaced(shown, [id |-> e.id, ver |-> e.ver])
             /\ UNCHANGED <<reqs, steps, unread, seen>>
          \/ /\ e.op = "delete"
             /\ shown' = IF selected = c THEN Without(shown, e.id) ELSE shown
             /\ UNCHANGED <<reqs, steps, unread, seen>>
  /\ UNCHANGED <<server, connected, feed, convs, selected, loading, editing, mixed>>

-----------------------------------------------------------------------------
UserStep ==
  \/ \E c \in Convs: SelectConversation(c) \/ NewConvCreate(c) \/ DeleteConversation(c)
  \/ Deselect \/ SendMessage \/ CancelEdit \/ ConfirmEdit
  \/ \E i \in Ids: StartEdit(i) \/ DeleteMessage(i)

OtherStep ==
  \E c \in Convs:
    \/ OtherOpens(c)
    \/ \E k \in {"send", "edit", "delete"}, i \in Ids \union {NoMsg}: OtherCalls(k, c, i)

ServerStep(q) ==
  ListMessages(q) \/ MarkRead(q) \/ StoreMessage(q) \/ ChangeMessage(q) \/ KeepMessage(q)
  \/ Publish(q) \/ Untold(q)
  \/ ListConversations(q) \/ CreateConversation(q) \/ RemoveConversation(q)

AnswerStep(q) ==
  MessagesLoaded(q) \/ MessagesBroken(q) \/ MessageSent(q) \/ EditResult(q) \/ DeleteResult(q)
  \/ ConversationsLoaded(q) \/ ConversationsBroken(q) \/ NewConvCreated(q)
  \/ DeleteConversationResult(q)

Next ==
  \/ UserStep \/ OtherStep
  \/ \E q \in reqs: ServerStep(q) \/ Lose(q) \/ AnswerStep(q)
  \/ RefreshFeed \/ Disconnect \/ Reconnect \/ OnPush

Spec == Init /\ [][Next]_vars

-----------------------------------------------------------------------------
(* What is on the screen, and being edited, is of the selected             *)
(* conversation, however late an answer comes, until another conversation  *)
(* is opened over it; and although push and answer tell of the same        *)
(* message, it is shown once.                                              *)
ScreenIsSelected ==
  /\ Cardinality(ShownIds) = Len(shown)
  /\ ~mixed => /\ \A i \in ShownIds: log[i].conv = selected
               /\ editing # NoMsg /\ selected # NoConv => log[editing].conv = selected

(* Once all has arrived, the screen shows what the server holds, unless an *)
(* event was missed or overtook the list it was missing in, the list could *)
(* not be read, or the answer to an edit that kept the text came too late. *)
CaughtUp ==
  (/\ push = <<>> /\ ~stale /\ selected # NoConv
   /\ \A q \in reqs: q.conv # selected) =>
    {shown[k]: k \in DOMAIN shown} = {ViewOf(i): i \in Range(RowsOf(selected))}

(* A message is marked as read only after it has been on the screen. *)
ReadIsSeen ==
  \A i \in DOMAIN log: i <= readUpTo[log[i].conv] => i \in seen \/ log[i].deleted

(* Requests that overtake each other do not make read messages unread. *)
ReadOnlyAdvances == [][\A c \in Convs: readUpTo'[c] >= readUpTo[c]]_vars
=============================================================================
