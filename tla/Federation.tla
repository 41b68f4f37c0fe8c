----------------------------- MODULE Federation -----------------------------
(***************************************************************************)
(* Messages of one author, and their copies on another instance:           *)
(* src/crates/feditexter-server/src/api/chat_handlers.rs (send_message,    *)
(* edit_message, delete_message), federation.rs (deliver_*outbound,        *)
(* get_or_create_mirror) and api/federation_handlers.rs (inbox).           *)
(*                                                                         *)
(* The author and the conversation live on the home server.  Some members  *)
(* of the conversation are users of one remote server, each of which gets  *)
(* a copy of every message in a direct conversation with the mirror of the *)
(* author.  A handler publishes its change to the home clients and spawns  *)
(* a task that lists the recipients and posts to the inbox of each, one    *)
(* after the other: nothing orders the tasks, and nothing is sent twice.   *)
(*                                                                         *)
(* An operation is modelled as one process from the call to the end of its *)
(* task.  Every SQL statement is a step.                                   *)
(***************************************************************************)
EXTENDS Naturals, FiniteSets

CONSTANTS
    Msgs,        \* ids of messages on the home server
    Recipients,  \* members of the conversation on the remote server
    Bodies,      \* texts of messages
    NoText,      \* the body of a message that is only an attachment
    MaxOps,      \* bound on the operations the author calls
    Faults,      \* may a handler stop, and a delivery fail, anywhere?
    None

ASSUME ConstantsAssumption ==
    /\ None \notin Msgs \cup Recipients \cup Bodies \cup {NoText}
    /\ NoText \notin Bodies
    /\ IsFiniteSet(Recipients)
    /\ MaxOps \in Nat
    /\ Faults \in BOOLEAN

VARIABLES
    msg,        \* the rows of `messages' on the home server
    home,       \* home[m]: what the clients of the home server show of m
    op,         \* the operations: a handler, then the task it has spawned
    mirror,     \* does the remote server have the mirror user of the author?
    directs,    \* directs[u]: direct conversations of the mirror and u
    copy,       \* copy[m][u]: the row of m in the conversation of u
    remote,     \* remote[m][u]: what the clients of u show of m
    (* history *)
    first,      \* first[m]: the body m was sent with
    disturbed,  \* messages with two operations at once, or one cut short: a
                \* handler that stopped, a task that could not list the recipients
    crowded,    \* recipients for whom the inbox has handled two posts at once
    failed      \* <<m, u>>: a post about m for u was refused or lost

history == <<first, disturbed, crowded, failed>>
homeVars == <<msg, home>>
remoteVars == <<mirror, directs, copy, remote>>
vars == <<homeVars, op, remoteVars, history>>

Ops == 1..MaxOps
Texts == Bodies \cup {NoText}
Rows == [there : BOOLEAN, body : Texts \cup {None}, original : Texts \cup {None}, deleted : BOOLEAN]
NoRow == [there |-> FALSE, body |-> None, original |-> None, deleted |-> FALSE]

Handler == {"insert", "editCheck", "update", "deleteCheck", "mark", "reread", "publish"}
Inbox == {"mirror", "newMirror", "direct", "newDirect", "insertCopy", "rereadCopy", "publishCopy",
          "updateCopies", "rereadEdit", "publishEdit", "find", "markCopy", "publishDelete"}

\* `to' is the recipient of the current post, `todo' the ones still to be posted
\* to; `row' is the copy the inbox has selected and `read' the body it has read.
Operations == [pc : {"idle", "recipients", "next", "done"} \cup Handler \cup Inbox,
               kind : {"message", "message_edit", "message_delete", None}, msg : Msgs \cup {None},
               body : Texts \cup {None}, original : Texts \cup {None},
               todo : SUBSET Recipients, to : Recipients \cup {None}, row : Recipients \cup {None},
               read : Texts \cup {None}]
Idle == [pc |-> "idle", kind |-> None, msg |-> None, body |-> None, original |-> None,
         todo |-> {}, to |-> None, row |-> None, read |-> None]

TypeOK ==
    /\ msg \in [Msgs -> Rows] /\ copy \in [Msgs -> [Recipients -> Rows]]
    /\ \A m \in Msgs : /\ msg[m].there => msg[m].body \in Texts
                       /\ \A u \in Recipients : copy[m][u].there => copy[m][u].body \in Bodies
    /\ home \in [Msgs -> Texts \cup {None}]
    /\ remote \in [Msgs -> [Recipients -> Texts \cup {None}]]
    /\ op \in [Ops -> Operations]
    /\ mirror \in BOOLEAN /\ directs \in [Recipients -> Nat]
    /\ first \in [Msgs -> Texts \cup {None}]
    /\ disturbed \subseteq Msgs /\ crowded \subseteq Recipients
    /\ failed \subseteq Msgs \X Recipients

Init ==
    /\ msg = [m \in Msgs |-> NoRow] /\ home = [m \in Msgs |-> None]
    /\ op = [i \in Ops |-> Idle]
    /\ mirror = FALSE /\ directs = [u \in Recipients |-> 0]
    /\ copy = [m \in Msgs |-> [u \in Recipients |-> NoRow]]
    /\ remote = [m \in Msgs |-> [u \in Recipients |-> None]]
    /\ first = [m \in Msgs |-> None]
    /\ disturbed = {} /\ crowded = {} /\ failed = {}

-----------------------------------------------------------------------------
At(i, stage) == op[i].pc = stage
Goto(i, stage) == op' = [op EXCEPT ![i].pc = stage]
End(i) == op' = [op EXCEPT ![i] = [Idle EXCEPT !.pc = "done"]]
Running(i) == op[i].pc \notin {"idle", "done"}

\* A message is pushed to a client that does not show it yet, an edit replaces a
\* message it shows (main.rs, WsHubEvent); the update of what it shows:
Pushed(shown, body) == IF shown = None THEN body ELSE shown
Replaced(shown, body) == IF shown = None THEN None ELSE body

\* Operations are started in the order of their numbers; MaxOps bounds them.
Start(i, kind, m, body, stage) ==
    /\ At(i, "idle") /\ \A j \in 1..(i - 1) : ~At(j, "idle")
    /\ op' = [op EXCEPT ![i] = [Idle EXCEPT !.pc = stage, !.kind = kind, !.msg = m, !.body = body]]
    /\ disturbed' = IF \E j \in Ops : Running(j) /\ op[j].msg = m THEN disturbed \cup {m} ELSE disturbed
    /\ UNCHANGED <<homeVars, remoteVars, first, crowded, failed>>

\* Clients edit and delete messages they have got an id of.
CallSend(i) ==
    \E m \in Msgs, b \in Texts :
        /\ ~msg[m].there /\ \A j \in Ops : op[j].msg # m
        /\ Start(i, "message", m, b, "insert")
CallEdit(i) ==
    \E m \in Msgs, b \in Bodies : msg[m].there /\ Start(i, "message_edit", m, b, "editCheck")
CallDelete(i) ==
    \E m \in Msgs : msg[m].there /\ Start(i, "message_delete", m, None, "deleteCheck")

-----------------------------------------------------------------------------
(* send_message, edit_message, delete_message.                              *)

InsertMessage(i) ==
    /\ At(i, "insert")
    /\ LET m == op[i].msg IN
       /\ msg' = [msg EXCEPT ![m] = [NoRow EXCEPT !.there = TRUE, !.body = op[i].body]]
       /\ first' = [first EXCEPT ![m] = op[i].body]
    /\ Goto(i, "reread")
    /\ UNCHANGED <<home, remoteVars, disturbed, crowded, failed>>

\* Faulty variant: the body before this edit becomes the original.
EditCheckPrevious(i) ==
    /\ At(i, "editCheck")
    /\ LET row == msg[op[i].msg] IN
       IF row.body = op[i].body
       THEN End(i)
       ELSE op' = [op EXCEPT ![i].pc = "update", ![i].original = row.body]
    /\ UNCHANGED <<homeVars, remoteVars, history>>

\* The same body is not written again; `original' is what the handler will write
\* as original_body.
EditCheck(i) ==
    /\ At(i, "editCheck")
    /\ LET row == msg[op[i].msg] IN
       IF row.body = op[i].body
       THEN End(i)
       ELSE op' = [op EXCEPT ![i].pc = "update",
                             ![i].original = IF row.original = None THEN row.body ELSE row.original]
    /\ UNCHANGED <<homeVars, remoteVars, history>>

UpdateMessage(i) ==
    /\ At(i, "update")
    /\ msg' = [msg EXCEPT ![op[i].msg].body = op[i].body, ![op[i].msg].original = op[i].original]
    /\ Goto(i, "reread")
    /\ UNCHANGED <<home, remoteVars, history>>

\* The row as it is published and federated.
Reread(i) ==
    /\ At(i, "reread")
    /\ LET row == msg[op[i].msg] IN
       op' = [op EXCEPT ![i].pc = "publish", ![i].body = row.body, ![i].original = row.original]
    /\ UNCHANGED <<homeVars, remoteVars, history>>

\* delete_message looks for the row, deleted or not.
DeleteCheck(i) ==
    /\ At(i, "deleteCheck")
    /\ IF msg[op[i].msg].there THEN Goto(i, "mark") ELSE End(i)
    /\ UNCHANGED <<homeVars, remoteVars, history>>
Mark(i) ==
    /\ At(i, "mark")
    /\ msg' = [msg EXCEPT ![op[i].msg].deleted = TRUE]
    /\ Goto(i, "publish")
    /\ UNCHANGED <<home, remoteVars, history>>

\* publish_message*, then deliver_*outbound spawns the task.
Publish(i) ==
    /\ At(i, "publish")
    /\ LET m == op[i].msg IN
       home' = [home EXCEPT ![m] = CASE op[i].kind = "message" -> Pushed(@, op[i].body)
                                     [] op[i].kind = "message_edit" -> Replaced(@, op[i].body)
                                     [] op[i].kind = "message_delete" -> None]
    /\ Goto(i, "recipients")
    /\ UNCHANGED <<msg, remoteVars, history>>

-----------------------------------------------------------------------------
(* The task: one post after the other, in the order the database lists the  *)
(* recipients; a post that fails is logged and the next one is made.        *)

ListRecipients(i) ==
    /\ At(i, "recipients")
    /\ op' = [op EXCEPT ![i].pc = "next", ![i].todo = Recipients]
    /\ UNCHANGED <<homeVars, remoteVars, history>>

\* unwrap_or_default: when the SELECT fails there is nobody to post to, and nothing
\* is logged.
RecipientsUnknown(i) ==
    /\ Faults
    /\ At(i, "recipients")
    /\ End(i)
    /\ disturbed' = disturbed \cup {op[i].msg}
    /\ UNCHANGED <<homeVars, remoteVars, first, crowded, failed>>

Post(i) ==
    /\ At(i, "next")
    /\ \E u \in op[i].todo :
        /\ op' = [op EXCEPT ![i].pc = "mirror", ![i].to = u, ![i].todo = @ \ {u}]
        /\ crowded' = IF \E j \in Ops : op[j].to = u THEN crowded \cup {u} ELSE crowded
    /\ UNCHANGED <<homeVars, remoteVars, first, disturbed, failed>>
EndTask(i) ==
    /\ At(i, "next") /\ op[i].todo = {}
    /\ End(i)
    /\ UNCHANGED <<homeVars, remoteVars, history>>

\* How a post ends, with a success or with an error.
Answered(i) == op' = [op EXCEPT ![i].pc = "next", ![i].to = None, ![i].row = None, ![i].read = None]

\* Faulty variant: the task stops at the first error.
FailedPostStops(i) ==
    /\ End(i)
    /\ failed' = failed \cup {<<op[i].msg, op[i].to>>}

FailedPost(i) ==
    /\ Answered(i)
    /\ failed' = failed \cup {<<op[i].msg, op[i].to>>}

-----------------------------------------------------------------------------
(* inbox: the mirror of the author, then the event.                         *)

\* An empty body is refused: messages that are only attachments stay at home.
AfterMirror(i) ==
    CASE op[i].kind = "message_edit" -> Goto(i, "updateCopies") /\ UNCHANGED failed
      [] op[i].kind = "message_delete" -> Goto(i, "find") /\ UNCHANGED failed
      [] op[i].kind = "message" /\ op[i].body # NoText -> Goto(i, "direct") /\ UNCHANGED failed
      [] OTHER -> FailedPost(i)

SelectMirror(i) ==
    /\ At(i, "mirror")
    /\ IF mirror THEN AfterMirror(i) ELSE Goto(i, "newMirror") /\ UNCHANGED failed
    /\ UNCHANGED <<homeVars, remoteVars, first, disturbed, crowded>>

\* (server_id, remote_id) is unique: the second of two INSERTs fails.
InsertMirror(i) ==
    /\ At(i, "newMirror")
    /\ mirror' = TRUE
    /\ IF mirror THEN FailedPost(i) ELSE AfterMirror(i)
    /\ UNCHANGED <<homeVars, directs, copy, remote, first, disturbed, crowded>>

\* Faulty variant: the conversation is never found.
SelectDirectBlind(i) ==
    /\ At(i, "direct")
    /\ Goto(i, "newDirect")
    /\ UNCHANGED <<homeVars, remoteVars, history>>

\* ensure_direct_conversation: SELECT, and if there is none a transaction.
SelectDirect(i) ==
    /\ At(i, "direct")
    /\ Goto(i, IF directs[op[i].to] > 0 THEN "insertCopy" ELSE "newDirect")
    /\ UNCHANGED <<homeVars, remoteVars, history>>

CreateDirect(i) ==
    /\ At(i, "newDirect")
    /\ directs' = [directs EXCEPT ![op[i].to] = @ + 1]
    /\ Goto(i, "insertCopy")
    /\ UNCHANGED <<homeVars, mirror, copy, remote, history>>

InsertCopy(i) ==
    /\ At(i, "insertCopy")
    /\ copy' = [copy EXCEPT ![op[i].msg][op[i].to] = [NoRow EXCEPT !.there = TRUE, !.body = op[i].body]]
    /\ Goto(i, "rereadCopy")
    /\ UNCHANGED <<homeVars, mirror, directs, remote, history>>
RereadCopy(i) ==
    /\ At(i, "rereadCopy")
    /\ LET u == op[i].to IN
       op' = [op EXCEPT ![i].pc = "publishCopy", ![i].row = u, ![i].read = copy[op[i].msg][u].body]
    /\ UNCHANGED <<homeVars, remoteVars, history>>
PublishCopy(i) ==
    /\ At(i, "publishCopy")
    /\ remote' = [remote EXCEPT ![op[i].msg][op[i].row] = Pushed(@, op[i].read)]
    /\ Answered(i)
    /\ UNCHANGED <<homeVars, mirror, directs, copy, history>>

\* UPDATE ... WHERE remote_message_id = ? AND sender_id = ?: the copies of every
\* recipient.  The SELECT that follows has the same condition and takes one of
\* the rows; without one it fails.
Copies(m) == {u \in Recipients : copy[m][u].there}

UpdateCopies(i) ==
    /\ At(i, "updateCopies")
    /\ LET m == op[i].msg IN
       copy' = [copy EXCEPT ![m] = [u \in Recipients |->
                    IF u \in Copies(m)
                    THEN [copy[m][u] EXCEPT !.body = op[i].body, !.original = op[i].original]
                    ELSE copy[m][u]]]
    /\ Goto(i, "rereadEdit")
    /\ UNCHANGED <<homeVars, mirror, directs, remote, history>>

RereadEdit(i) ==
    /\ At(i, "rereadEdit")
    /\ LET m == op[i].msg IN
       IF Copies(m) = {} THEN FailedPost(i)
       ELSE /\ \E u \in Copies(m) :
                 op' = [op EXCEPT ![i].pc = "publishEdit", ![i].row = u, ![i].read = copy[m][u].body]
            /\ UNCHANGED failed
    /\ UNCHANGED <<homeVars, remoteVars, first, disturbed, crowded>>
PublishEdit(i) ==
    /\ At(i, "publishEdit")
    /\ remote' = [remote EXCEPT ![op[i].msg][op[i].row] = Replaced(@, op[i].read)]
    /\ Answered(i)
    /\ UNCHANGED <<homeVars, mirror, directs, copy, history>>

\* Faulty variant: deleted_at IS NULL is missing.
FindAny(i) ==
    /\ At(i, "find")
    /\ LET m == op[i].msg IN
       IF Copies(m) = {} THEN Answered(i)
       ELSE \E u \in Copies(m) : op' = [op EXCEPT ![i].pc = "markCopy", ![i].row = u]
    /\ UNCHANGED <<homeVars, remoteVars, history>>

\* One of the copies that are not deleted yet, or none: then the post succeeds.
Find(i) ==
    /\ At(i, "find")
    /\ LET m == op[i].msg
           live == {u \in Copies(m) : ~copy[m][u].deleted}
       IN IF live = {} THEN Answered(i)
          ELSE \E u \in live : op' = [op EXCEPT ![i].pc = "markCopy", ![i].row = u]
    /\ UNCHANGED <<homeVars, remoteVars, history>>

\* Faulty variant: the deletion is not published.
MarkCopySilently(i) ==
    /\ At(i, "markCopy")
    /\ copy' = [copy EXCEPT ![op[i].msg][op[i].row].deleted = TRUE]
    /\ Answered(i)
    /\ UNCHANGED <<homeVars, mirror, directs, remote, history>>

MarkCopy(i) ==
    /\ At(i, "markCopy")
    /\ copy' = [copy EXCEPT ![op[i].msg][op[i].row].deleted = TRUE]
    /\ Goto(i, "publishDelete")
    /\ UNCHANGED <<homeVars, mirror, directs, remote, history>>
PublishDelete(i) ==
    /\ At(i, "publishDelete")
    /\ remote' = [remote EXCEPT ![op[i].msg][op[i].row] = None]
    /\ Answered(i)
    /\ UNCHANGED <<homeVars, mirror, directs, copy, history>>

-----------------------------------------------------------------------------
\* A statement of the handler fails, or the author's client goes away.
Abandon(i) ==
    /\ Faults
    /\ op[i].pc \in Handler
    /\ End(i)
    /\ disturbed' = disturbed \cup {op[i].msg}
    /\ UNCHANGED <<homeVars, remoteVars, first, crowded, failed>>

\* The post does not arrive, or times out, or a statement of the inbox fails:
\* what it has written stays, what it had to do is not done.
Lose(i) ==
    /\ Faults
    /\ op[i].pc \in Inbox
    /\ FailedPost(i)
    /\ UNCHANGED <<homeVars, remoteVars, first, disturbed, crowded>>

Call(i) == CallSend(i) \/ CallEdit(i) \/ CallDelete(i)
HandlerStep(i) ==
    \/ InsertMessage(i) \/ EditCheck(i) \/ UpdateMessage(i) \/ Reread(i)
    \/ DeleteCheck(i) \/ Mark(i) \/ Publish(i)
TaskStep(i) == ListRecipients(i) \/ RecipientsUnknown(i) \/ Post(i) \/ EndTask(i)
InboxStep(i) ==
    \/ SelectMirror(i) \/ InsertMirror(i) \/ SelectDirect(i) \/ CreateDirect(i)
    \/ InsertCopy(i) \/ RereadCopy(i) \/ PublishCopy(i)
    \/ UpdateCopies(i) \/ RereadEdit(i) \/ PublishEdit(i)
    \/ Find(i) \/ MarkCopy(i) \/ PublishDelete(i)
Step(i) == HandlerStep(i) \/ TaskStep(i) \/ InboxStep(i)

Next == \E i \in Ops : Call(i) \/ Step(i) \/ Abandon(i) \/ Lose(i)

Spec == Init /\ [][Next]_vars

-----------------------------------------------------------------------------
(* Properties.                                                              *)

Settled(m) == \A i \in Ops : op[i].msg = m => ~Running(i)
Undisturbed(m) == Settled(m) /\ m \notin disturbed /\ \A u \in Recipients : <<m, u>> \notin failed

\* edit_message: "Preserve the very first original body so repeated edits don't
\* overwrite it" (chat_handlers.rs:566), here and on the remote server, whatever
\* edits run at once, arrive late or out of order, or are cut short.
OriginalKept ==
    \A m \in Msgs : /\ msg[m].original \in {None, first[m]}
                    /\ \A u \in Recipients : copy[m][u].original \in {None, first[m]}

\* "Used to cross-reference edits/deletes (which arrive with the remote id, not the
\* local one)", chat.rs:30: when the operations on a message did not overlap, none was
\* cut short (in its handler, or where its task lists the recipients) and no post about
\* it failed, the copy of every recipient equals the message, although an
\* edit updates all copies at once, a delete finds an arbitrary one, and the posts of
\* other messages run in between.
CopiesAgree ==
    \A m \in Msgs : Undisturbed(m) /\ msg[m].there =>
        \A u \in Recipients : copy[m][u] = msg[m]

\* ensure_direct_conversation: the copies of a recipient are in one conversation,
\* unless two posts for the recipient were handled at once.
OneDirectConversation == \A u \in Recipients \ crowded : directs[u] <= 1

\* inbox: "Re-read the updated row so we can publish the correct local id"
\* (federation_handlers.rs:158): the clients of every recipient show its copy.
RemoteIsCurrent ==
    \A m \in Msgs : Undisturbed(m) =>
        \A u \in Recipients : copy[m][u].there =>
            remote[m][u] = IF copy[m][u].deleted THEN None ELSE copy[m][u].body

\* What the home clients show is what the table holds, although it is published
\* after the statement that wrote it and from a later one that read it; and nobody's
\* client shows a deleted message, although each post finds an arbitrary copy.
ClientsAreCurrent ==
    \A m \in Msgs : Undisturbed(m) /\ msg[m].there =>
        /\ home[m] = IF msg[m].deleted THEN None ELSE msg[m].body
        /\ msg[m].deleted => \A u \in Recipients : remote[m][u] = None

\* deliver_outbound logs a failed post and goes on with the next recipient
\* (federation.rs:210-214): the failure of a post does not keep the message from the
\* others.  Only a task that cannot list the recipients keeps it from all of them.
FailuresAreIsolated ==
    \A m \in Msgs, u \in Recipients : Settled(m) /\ m \notin disturbed /\ msg[m].there =>
        copy[m][u].there \/ <<m, u>> \in failed
=============================================================================
