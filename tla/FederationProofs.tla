-------------------------- MODULE FederationProofs --------------------------
(***************************************************************************)
(* Theorems about Federation, for any number of messages, recipients and   *)
(* operations, with statements that fail and posts that are lost.          *)
(***************************************************************************)
EXTENDS Federation, FiniteSetTheorems, TLAPS

\* What a step of an operation relies on at each stage.  `original' is what an edit
\* will write, here or on the remote server.
Kinds == {"message", "message_edit", "message_delete"}
MessageStages == {"direct", "newDirect", "insertCopy", "rereadCopy", "publishCopy"}
EditStages == {"updateCopies", "rereadEdit", "publishEdit"}
DeleteStages == {"deleteCheck", "mark", "find", "markCopy", "publishDelete"}

Going(q) ==
    q.pc \notin {"idle", "done"} =>
        /\ q.msg \in Msgs /\ q.kind \in Kinds
        /\ q.original \in {None, first[q.msg]}
        /\ q.kind = "message" => q.body \in Texts
        /\ q.kind = "message_edit" => q.body \in Bodies
Stage(q) ==
    /\ q.pc = "insert" => q.kind = "message" /\ ~msg[q.msg].there
    /\ q.pc \notin {"idle", "done", "insert"} => msg[q.msg].there
    /\ q.pc \in {"editCheck", "update"} \cup EditStages => q.kind = "message_edit"
    /\ q.pc = "update" => q.original \in Texts
    /\ q.pc = "reread" => \/ q.kind = "message"
                          \/ q.kind = "message_edit" /\ msg[q.msg].original # None
    /\ q.pc \in DeleteStages => q.kind = "message_delete"
    /\ q.pc \in MessageStages => q.kind = "message" /\ q.body \in Bodies
    /\ q.pc \in Inbox => q.to \in Recipients
    /\ q.pc \in {"publishCopy", "publishEdit", "markCopy", "publishDelete"} => q.row \in Recipients
OpOK(q) == Going(q) /\ Stage(q)
OpsOK == op \in [Ops -> Operations] /\ \A i \in Ops : OpOK(op[i])

\* Only one operation inserts a message, and nothing else is about it until then.
Alone == \A i, j \in Ops : i # j /\ op[i].pc = "insert" => op[j].msg # op[i].msg

\* A row that has not been edited has the body it was sent with.
RowOK(m) ==
    /\ ~msg[m].there => msg[m].original = None /\ first[m] = None
    /\ msg[m].there => msg[m].body \in Texts /\ first[m] \in Texts
    /\ msg[m].original \in {None, first[m]}
    /\ msg[m].there /\ msg[m].original = None => msg[m].body = first[m]
    /\ msg[m].original # None => msg[m].body \in Bodies
RowsOK == /\ msg \in [Msgs -> Rows] /\ first \in [Msgs -> Texts \cup {None}]
          /\ \A m \in Msgs : RowOK(m)

CopyOK(m, u) == /\ copy[m][u].original \in {None, first[m]}
                /\ copy[m][u].there => copy[m][u].body \in Bodies
CopiesOK == /\ copy \in [Msgs -> [Recipients -> Rows]]
            /\ \A m \in Msgs, u \in Recipients : CopyOK(m, u)

RestOK ==
    /\ home \in [Msgs -> Texts \cup {None}]
    /\ remote \in [Msgs -> [Recipients -> Texts \cup {None}]]
    /\ mirror \in BOOLEAN /\ directs \in [Recipients -> Nat]
    /\ disturbed \subseteq Msgs /\ crowded \subseteq Recipients
    /\ failed \subseteq Msgs \X Recipients

IInv == OpsOK /\ Alone /\ RowsOK /\ CopiesOK /\ RestOK

-----------------------------------------------------------------------------
(* Steps of one operation.                                                  *)

LEMMA OpStep ==
    ASSUME OpsOK, Alone, UNCHANGED <<msg, first>>, NEW i \in Ops, NEW q \in Operations,
           op' = [op EXCEPT ![i] = q], OpOK(q), q.pc # "insert", q.msg \in {op[i].msg, None}
    PROVE  OpsOK' /\ Alone'
  <1>1. op' \in [Ops -> Operations]
    BY DEF OpsOK
  <1>2. \A j \in Ops : op'[j] = IF j = i THEN q ELSE op[j]
    BY DEF OpsOK
  <1>3. \A j \in Ops : OpOK(op[j])'
    BY <1>2 DEF OpsOK, OpOK, Going, Stage
  <1>4. \A j \in Ops : op[j].pc = "insert" => op[j].msg \in Msgs
    BY DEF OpsOK, OpOK, Going
  <1>5. Alone'
    BY <1>2, <1>4, ConstantsAssumption DEF Alone
  <1> QED
    BY <1>1, <1>3, <1>5 DEF OpsOK

LEMMA RowsKept ==
    ASSUME RowsOK, CopiesOK, UNCHANGED <<msg, copy, first>> PROVE RowsOK' /\ CopiesOK'
  BY DEF RowsOK, RowOK, CopiesOK, CopyOK

\* The operation goes on to another stage.
LEMMA GotoStep ==
    ASSUME OpsOK, Alone, UNCHANGED <<msg, first>>, NEW i \in Ops, NEW stage \in Handler \cup Inbox,
           Goto(i, stage), stage # "insert", Running(i),
           Stage([op[i] EXCEPT !.pc = stage])
    PROVE  OpsOK' /\ Alone'
  <1> DEFINE q == [op[i] EXCEPT !.pc = stage]
  <1>1. op[i] \in Operations /\ OpOK(op[i])
    BY DEF OpsOK
  <1>2. /\ q \in Operations /\ q.pc = stage /\ q.msg = op[i].msg
        /\ q.kind = op[i].kind /\ q.original = op[i].original /\ q.body = op[i].body
    BY <1>1 DEF Operations
  <1>3. OpOK(q)
    BY <1>1, <1>2 DEF OpOK, Going, Running
  <1>4. op' = [op EXCEPT ![i] = q]
    BY DEF Goto
  <1> HIDE DEF q
  <1> QED
    BY <1>2, <1>3, <1>4, OpStep

LEMMA EndStep ==
    ASSUME OpsOK, Alone, UNCHANGED <<msg, first>>, NEW i \in Ops, End(i)
    PROVE  OpsOK' /\ Alone'
  <1> DEFINE q == [Idle EXCEPT !.pc = "done"]
  <1>1. q \in Operations /\ q.pc = "done" /\ q.msg = None
    BY DEF Idle, Operations
  <1>2. OpOK(q)
    BY <1>1 DEF OpOK, Going, Stage, EditStages, MessageStages, DeleteStages, Inbox
  <1>3. op' = [op EXCEPT ![i] = q]
    BY DEF End
  <1> HIDE DEF q
  <1> QED
    BY <1>1, <1>2, <1>3, OpStep

LEMMA AnsweredStep ==
    ASSUME OpsOK, Alone, UNCHANGED <<msg, first>>, NEW i \in Ops, Answered(i),
           op[i].pc \in Inbox
    PROVE  OpsOK' /\ Alone'
  <1> DEFINE q == [op[i] EXCEPT !.pc = "next", !.to = None, !.row = None, !.read = None]
  <1>1. op[i] \in Operations /\ OpOK(op[i]) /\ op[i].pc \notin {"idle", "done", "insert"}
    BY DEF OpsOK, Inbox
  <1>2. /\ q \in Operations /\ q.pc = "next" /\ q.msg = op[i].msg
        /\ q.kind = op[i].kind /\ q.original = op[i].original /\ q.body = op[i].body
    BY <1>1 DEF Operations
  <1> HIDE DEF q
  <1>3. Going(q)
    BY <1>1, <1>2 DEF OpOK, Going
  <1>4. Stage(q)
    BY <1>1, <1>2 DEF OpOK, Stage, EditStages, MessageStages, DeleteStages, Inbox
  <1>5. op' = [op EXCEPT ![i] = q]
    BY DEF Answered, q
  <1> QED
    BY <1>2, <1>3, <1>4, <1>5, OpStep DEF OpOK

LEMMA FailedPostStep ==
    ASSUME IInv, UNCHANGED <<msg, first>>, NEW i \in Ops, FailedPost(i), op[i].pc \in Inbox
    PROVE  OpsOK' /\ Alone' /\ failed' \subseteq Msgs \X Recipients
  <1>1. op[i].msg \in Msgs /\ op[i].to \in Recipients
    BY DEF IInv, OpsOK, OpOK, Going, Stage, Inbox
  <1>2. failed' \subseteq Msgs \X Recipients
    BY <1>1 DEF FailedPost, IInv, RestOK
  <1> QED
    BY <1>2, AnsweredStep DEF FailedPost, IInv

LEMMA RestKept ==
    ASSUME RestOK, UNCHANGED <<home, remote, mirror, directs, disturbed, crowded, failed>>
    PROVE  RestOK'
  BY DEF RestOK

LEMMA Reached ==
    ASSUME IInv, NEW i \in Ops
    PROVE  op[i] \in Operations /\ Going(op[i]) /\ Stage(op[i])
  BY DEF IInv, OpsOK, OpOK

-----------------------------------------------------------------------------
(* Every action keeps the invariant.                                        *)

LEMMA StartKeeps ==
    ASSUME IInv, NEW i \in Ops, NEW kind \in Kinds, NEW m \in Msgs, NEW body \in Texts \cup {None},
           NEW stage \in {"insert", "editCheck", "deleteCheck"},
           Start(i, kind, m, body, stage),
           kind = "message" => body \in Texts, kind = "message_edit" => body \in Bodies,
           \/ stage = "insert" /\ kind = "message" /\ ~msg[m].there /\ \A j \in Ops : op[j].msg # m
           \/ stage = "editCheck" /\ kind = "message_edit" /\ msg[m].there
           \/ stage = "deleteCheck" /\ kind = "message_delete" /\ msg[m].there
    PROVE  IInv'
  <1> DEFINE q == [Idle EXCEPT !.pc = stage, !.kind = kind, !.msg = m, !.body = body]
  <1>1. /\ q \in Operations /\ q.pc = stage /\ q.msg = m
        /\ q.kind = kind /\ q.original = None /\ q.body = body
    BY DEF Idle, Operations, Kinds, Handler
  <1>2. op' = [op EXCEPT ![i] = q]
    BY DEF Start
  <1> HIDE DEF q
  <1>3. UNCHANGED <<msg, home, mirror, directs, copy, remote, first, crowded, failed>>
    BY DEF Start, homeVars, remoteVars
  <1>4. Going(q)
    BY <1>1 DEF Going
  <1>5. Stage(q)
    BY <1>1 DEF Stage, EditStages, MessageStages, DeleteStages, Inbox
  <1>6. op' \in [Ops -> Operations] /\ \A j \in Ops : op'[j] = IF j = i THEN q ELSE op[j]
    BY <1>1, <1>2 DEF IInv, OpsOK
  <1>7. OpsOK'
    BY <1>3, <1>4, <1>5, <1>6 DEF IInv, OpsOK, OpOK, Going, Stage
  <1>8. Alone'
    <2>1. \A j \in Ops : op[j].pc = "insert" => ~msg[op[j].msg].there
      BY Reached DEF Stage
    <2> QED
      BY <1>1, <1>6, <2>1 DEF IInv, Alone
  <1>9. disturbed' \subseteq Msgs
    BY DEF Start, IInv, RestOK
  <1> QED
    BY <1>3, <1>7, <1>8, <1>9, RowsKept DEF IInv, RestOK

LEMMA CallKeeps == ASSUME IInv, NEW i \in Ops, Call(i) PROVE IInv'
  <1>1. CASE CallSend(i)
    BY <1>1, StartKeeps DEF CallSend, Kinds, Texts
  <1>2. CASE CallEdit(i)
    BY <1>2, StartKeeps DEF CallEdit, Kinds, Texts
  <1>3. CASE CallDelete(i)
    BY <1>3, StartKeeps DEF CallDelete, Kinds
  <1> QED
    BY <1>1, <1>2, <1>3 DEF Call

LEMMA InsertMessageKeeps == ASSUME IInv, NEW i \in Ops, InsertMessage(i) PROVE IInv'
  <1>0. PICK m \in Msgs : m = op[i].msg
    BY Reached DEF InsertMessage, At, Going
  <1> DEFINE row == [NoRow EXCEPT !.there = TRUE, !.body = op[i].body]
             q == [op[i] EXCEPT !.pc = "reread"]
  <1>1. /\ op[i].pc = "insert" /\ op[i].msg = m /\ op[i].kind = "message" /\ op[i].body \in Texts
        /\ ~msg[m].there /\ op[i].original \in {None, first[m]} /\ op[i] \in Operations
    BY <1>0, Reached DEF InsertMessage, At, Going, Stage
  <1>2. first[m] = None
    BY <1>1 DEF IInv, RowsOK, RowOK
  <1>3. /\ row \in Rows /\ row.there /\ row.body = op[i].body /\ row.original = None
    BY <1>1 DEF Rows, NoRow
  <1>4. /\ msg' = [msg EXCEPT ![m] = row] /\ first' = [first EXCEPT ![m] = op[i].body]
        /\ op' = [op EXCEPT ![i] = q]
        /\ UNCHANGED <<home, mirror, directs, copy, remote, disturbed, crowded, failed>>
    BY <1>1 DEF InsertMessage, Goto, remoteVars
  <1>5. /\ q \in Operations /\ q.pc = "reread" /\ q.msg = m /\ q.kind = "message"
        /\ q.body = op[i].body /\ q.original = op[i].original
    BY <1>1 DEF Operations, Handler
  <1> HIDE DEF row, q
  <1>6. /\ msg' \in [Msgs -> Rows] /\ first' \in [Msgs -> Texts \cup {None}]
        /\ msg'[m] = row /\ first'[m] = op[i].body
        /\ \A n \in Msgs \ {m} : msg'[n] = msg[n] /\ first'[n] = first[n]
    BY <1>1, <1>3, <1>4 DEF IInv, RowsOK
  <1>7. op' \in [Ops -> Operations] /\ \A j \in Ops : op'[j] = IF j = i THEN q ELSE op[j]
    BY <1>4, <1>5 DEF IInv, OpsOK
  <1>8. RowsOK'
    <2>1. RowOK(m)'
      BY <1>1, <1>3, <1>6 DEF RowOK
    <2>2. \A n \in Msgs \ {m} : RowOK(n)'
      BY <1>6 DEF IInv, RowsOK, RowOK
    <2> QED
      BY <1>6, <2>1, <2>2 DEF RowsOK
  <1>9. CopiesOK'
    <2>1. ASSUME NEW n \in Msgs, NEW u \in Recipients PROVE CopyOK(n, u)'
      BY <1>2, <1>4, <1>6 DEF IInv, CopiesOK, CopyOK
    <2> QED
      BY <1>4, <2>1 DEF IInv, CopiesOK
  <1>10. \A j \in Ops \ {i} : op[j].msg # m
    BY <1>1 DEF IInv, Alone
  <1>11. OpsOK'
    <2>1. OpOK(op[i])'
      BY <1>1, <1>2, <1>3, <1>5, <1>6, <1>7
         DEF OpOK, Going, Stage, Kinds, EditStages, MessageStages, DeleteStages, Inbox
    <2>2. ASSUME NEW j \in Ops \ {i} PROVE OpOK(op[j])'
      BY <1>6, <1>7, <1>10, Reached DEF OpOK, Going, Stage, Handler, Inbox
    <2> QED
      BY <1>7, <2>1, <2>2 DEF OpsOK
  <1>12. Alone'
    BY <1>5, <1>7, <1>10 DEF IInv, Alone
  <1> QED
    BY <1>4, <1>8, <1>9, <1>11, <1>12, RestKept DEF IInv

LEMMA EditCheckKeeps == ASSUME IInv, NEW i \in Ops, EditCheck(i) PROVE IInv'
  <1> DEFINE row == msg[op[i].msg]
             original == IF row.original = None THEN row.body ELSE row.original
             q == [op[i] EXCEPT !.pc = "update", !.original = original]
  <1>1. /\ op[i].pc = "editCheck" /\ op[i].msg \in Msgs /\ op[i].kind = "message_edit"
        /\ op[i].body \in Bodies /\ row.there /\ op[i] \in Operations
    BY Reached DEF EditCheck, At, Going, Stage
  <1>2. original = first[op[i].msg] /\ original \in Texts
    BY <1>1 DEF IInv, RowsOK, RowOK
  <1>3. UNCHANGED <<msg, home, mirror, directs, copy, remote, first, disturbed, crowded, failed>>
    BY DEF EditCheck, homeVars, remoteVars, history
  <1>4. CASE row.body = op[i].body
    BY <1>3, <1>4, EndStep, RowsKept, RestKept DEF EditCheck, IInv
  <1>5. CASE row.body # op[i].body
    <2>1. /\ q \in Operations /\ q.pc = "update" /\ q.msg = op[i].msg
          /\ q.kind = "message_edit" /\ q.body = op[i].body /\ q.original = original
      BY <1>1, <1>2 DEF Operations, Handler
    <2>2. op' = [op EXCEPT ![i] = q]
      BY <1>5 DEF EditCheck
    <2> HIDE DEF q, original
    <2>3. OpOK(q)
      BY <1>1, <1>2, <2>1
         DEF OpOK, Going, Stage, Kinds, EditStages, MessageStages, DeleteStages, Inbox
    <2> QED
      BY <1>3, <2>1, <2>2, <2>3, OpStep, RowsKept, RestKept DEF IInv
  <1> QED
    BY <1>4, <1>5

LEMMA UpdateMessageKeeps == ASSUME IInv, NEW i \in Ops, UpdateMessage(i) PROVE IInv'
  <1>0. PICK m \in Msgs : m = op[i].msg
    BY Reached DEF UpdateMessage, At, Going
  <1> DEFINE row == [msg[m] EXCEPT !.body = op[i].body, !.original = op[i].original]
             q == [op[i] EXCEPT !.pc = "reread"]
  <1>1. /\ op[i].pc = "update" /\ op[i].msg = m /\ op[i].kind = "message_edit"
        /\ op[i].body \in Bodies /\ msg[m].there /\ op[i].original = first[m]
        /\ op[i].original \in Texts /\ op[i] \in Operations
    <2>1. op[i].pc = "update"
      BY DEF UpdateMessage, At
    <2> QED
      BY <1>0, <2>1, Reached, ConstantsAssumption DEF Going, Stage, Texts
  <1>2. /\ row \in Rows /\ row.there /\ row.there = msg[m].there
        /\ row.body = op[i].body /\ row.original = op[i].original
    BY <1>1 DEF Rows, IInv, RowsOK, Texts
  <1>3. /\ msg' = [msg EXCEPT ![m] = row] /\ op' = [op EXCEPT ![i] = q]
        /\ UNCHANGED <<home, mirror, directs, copy, remote, first, disturbed, crowded, failed>>
    BY <1>1 DEF UpdateMessage, Goto, remoteVars, history
  <1>4. /\ q \in Operations /\ q.pc = "reread" /\ q.msg = m /\ q.kind = "message_edit"
        /\ q.body = op[i].body /\ q.original = op[i].original
    BY <1>1 DEF Operations, Handler
  <1> HIDE DEF row, q
  <1>5. /\ msg' \in [Msgs -> Rows] /\ msg'[m] = row
        /\ \A n \in Msgs \ {m} : msg'[n] = msg[n]
    BY <1>1, <1>2, <1>3 DEF IInv, RowsOK
  <1>6. op' \in [Ops -> Operations] /\ \A j \in Ops : op'[j] = IF j = i THEN q ELSE op[j]
    BY <1>3, <1>4 DEF IInv, OpsOK
  <1>7. RowsOK'
    <2>1. RowOK(m)'
      BY <1>1, <1>2, <1>3, <1>5, ConstantsAssumption DEF RowOK, Texts, IInv, RowsOK
    <2>2. \A n \in Msgs \ {m} : RowOK(n)'
      BY <1>3, <1>5 DEF IInv, RowsOK, RowOK
    <2> QED
      BY <1>3, <1>5, <2>1, <2>2 DEF IInv, RowsOK
  <1>8. CopiesOK'
    BY <1>3 DEF IInv, CopiesOK, CopyOK
  <1>9. OpsOK'
    <2>1. OpOK(op[i])'
      BY <1>1, <1>2, <1>3, <1>4, <1>5, <1>6, ConstantsAssumption
         DEF OpOK, Going, Stage, Kinds, EditStages, MessageStages, DeleteStages, Inbox, Texts
    <2>2. ASSUME NEW j \in Ops \ {i} PROVE OpOK(op[j])'
      <3>1. op'[j] = op[j] /\ first' = first
        BY <1>3, <1>6
      <3>2. \A n \in Msgs : msg'[n].there = msg[n].there
        BY <1>1, <1>2, <1>5
      <3>3. \A n \in Msgs : msg[n].original # None => msg'[n].original # None
        BY <1>1, <1>2, <1>5, ConstantsAssumption DEF Texts
      <3> QED
        BY <3>1, <3>2, <3>3, Reached DEF OpOK, Going, Stage
    <2> QED
      BY <1>6, <2>1, <2>2 DEF OpsOK
  <1>10. Alone'
    BY <1>1, <1>4, <1>6 DEF IInv, Alone
  <1> QED
    BY <1>3, <1>7, <1>8, <1>9, <1>10, RestKept DEF IInv

LEMMA RereadKeeps == ASSUME IInv, NEW i \in Ops, Reread(i) PROVE IInv'
  <1> DEFINE row == msg[op[i].msg]
             q == [op[i] EXCEPT !.pc = "publish", !.body = row.body, !.original = row.original]
  <1>1. /\ op[i].pc = "reread" /\ op[i].msg \in Msgs /\ row.there /\ op[i] \in Operations
        /\ op[i].kind = "message" \/ (op[i].kind = "message_edit" /\ row.original # None)
    BY Reached DEF Reread, At, Going, Stage
  <1>2. /\ row.body \in Texts /\ row.original \in {None, first[op[i].msg]}
        /\ row.original \in Texts \cup {None}
        /\ row.original # None => row.body \in Bodies
    BY <1>1 DEF IInv, RowsOK, RowOK
  <1>3. /\ q \in Operations /\ q.pc = "publish" /\ q.msg = op[i].msg
        /\ q.kind = op[i].kind /\ q.body = row.body /\ q.original = row.original
    BY <1>1, <1>2 DEF Operations, Handler
  <1>4. /\ op' = [op EXCEPT ![i] = q]
        /\ UNCHANGED <<msg, home, mirror, directs, copy, remote, first, disturbed, crowded, failed>>
    BY DEF Reread, homeVars, remoteVars, history
  <1> HIDE DEF q
  <1>5. OpOK(q)
    BY <1>1, <1>2, <1>3
       DEF OpOK, Going, Stage, Kinds, EditStages, MessageStages, DeleteStages, Inbox
  <1> QED
    BY <1>3, <1>4, <1>5, OpStep, RowsKept, RestKept DEF IInv

LEMMA DeleteCheckKeeps == ASSUME IInv, NEW i \in Ops, DeleteCheck(i) PROVE IInv'
  <1>1. UNCHANGED <<msg, home, mirror, directs, copy, remote, first, disturbed, crowded, failed>>
    BY DEF DeleteCheck, homeVars, remoteVars, history
  <1>2. CASE End(i)
    BY <1>1, <1>2, EndStep, RowsKept, RestKept DEF IInv
  <1>3. CASE Goto(i, "mark")
    <2>1. op[i].pc = "deleteCheck" /\ Running(i)
      BY DEF DeleteCheck, At, Running
    <2>2. Stage([op[i] EXCEPT !.pc = "mark"])
      BY <2>1, Reached DEF Operations, Stage, EditStages, MessageStages, DeleteStages, Inbox
    <2> QED
      BY <1>1, <1>3, <2>1, <2>2, GotoStep, RowsKept, RestKept DEF IInv, Handler
  <1> QED
    BY <1>2, <1>3 DEF DeleteCheck

LEMMA MarkKeeps == ASSUME IInv, NEW i \in Ops, Mark(i) PROVE IInv'
  <1>0. PICK m \in Msgs : m = op[i].msg
    BY Reached DEF Mark, At, Going
  <1> DEFINE row == [msg[m] EXCEPT !.deleted = TRUE]
             q == [op[i] EXCEPT !.pc = "publish"]
  <1>1. /\ op[i].pc = "mark" /\ op[i].kind = "message_delete" /\ op[i] \in Operations
        /\ OpOK(op[i])
    BY Reached DEF Mark, At, Stage, DeleteStages, OpOK
  <1>2. /\ row \in Rows /\ row.there = msg[m].there /\ row.body = msg[m].body
        /\ row.original = msg[m].original
    BY DEF Rows, IInv, RowsOK
  <1>3. /\ msg' = [msg EXCEPT ![m] = row] /\ op' = [op EXCEPT ![i] = q]
        /\ UNCHANGED <<home, mirror, directs, copy, remote, first, disturbed, crowded, failed>>
    BY <1>0 DEF Mark, Goto, remoteVars, history
  <1>4. /\ q \in Operations /\ q.pc = "publish" /\ q.msg = op[i].msg
        /\ q.kind = "message_delete" /\ q.body = op[i].body /\ q.original = op[i].original
    BY <1>1 DEF Operations, Handler
  <1> HIDE DEF row, q
  <1>5. /\ msg' \in [Msgs -> Rows]
        /\ \A n \in Msgs : /\ msg'[n].there = msg[n].there /\ msg'[n].body = msg[n].body
                           /\ msg'[n].original = msg[n].original
    BY <1>2, <1>3 DEF IInv, RowsOK
  <1>6. op' \in [Ops -> Operations] /\ \A j \in Ops : op'[j] = IF j = i THEN q ELSE op[j]
    BY <1>3, <1>4 DEF IInv, OpsOK
  <1>7. RowsOK' /\ CopiesOK'
    BY <1>3, <1>5 DEF IInv, RowsOK, RowOK, CopiesOK, CopyOK
  <1>8. OpsOK'
    <2>1. OpOK(op[i])'
      BY <1>1, <1>3, <1>4, <1>5, <1>6
         DEF OpOK, Going, Stage, EditStages, MessageStages, DeleteStages, Inbox
    <2>2. ASSUME NEW j \in Ops \ {i} PROVE OpOK(op[j])'
      BY <1>3, <1>5, <1>6, Reached DEF OpOK, Going, Stage
    <2> QED
      BY <1>6, <2>1, <2>2 DEF OpsOK
  <1>9. Alone'
    BY <1>4, <1>6 DEF IInv, Alone
  <1> QED
    BY <1>3, <1>7, <1>8, <1>9, RestKept DEF IInv

LEMMA PublishKeeps == ASSUME IInv, NEW i \in Ops, Publish(i) PROVE IInv'
  <1> DEFINE q == [op[i] EXCEPT !.pc = "recipients"]
  <1>1. /\ op[i].pc = "publish" /\ op[i].msg \in Msgs /\ op[i] \in Operations /\ OpOK(op[i])
        /\ op[i].kind \in Kinds
        /\ op[i].kind # "message_delete" => op[i].body \in Texts
    BY Reached DEF Publish, At, Going, OpOK, Kinds, Texts
  <1>2. /\ q \in Operations /\ q.pc = "recipients" /\ q.msg = op[i].msg
        /\ q.kind = op[i].kind /\ q.body = op[i].body /\ q.original = op[i].original
    BY <1>1 DEF Operations
  <1>3. /\ op' = [op EXCEPT ![i] = q]
        /\ UNCHANGED <<msg, mirror, directs, copy, remote, first, disturbed, crowded, failed>>
    BY DEF Publish, Goto, remoteVars, history
  <1> HIDE DEF q
  <1>4. OpOK(q)
    BY <1>1, <1>2 DEF OpOK, Going, Stage, EditStages, MessageStages, DeleteStages, Inbox
  <1>5. home' \in [Msgs -> Texts \cup {None}]
    <2>1. PICK shown \in Texts \cup {None} : home' = [home EXCEPT ![op[i].msg] = shown]
      <3>1. home[op[i].msg] \in Texts \cup {None}
        BY <1>1 DEF IInv, RestOK
      <3> QED
        BY <1>1, <3>1 DEF Publish, Pushed, Replaced, Kinds
    <2> QED
      BY <2>1 DEF IInv, RestOK
  <1> QED
    BY <1>2, <1>3, <1>4, <1>5, OpStep, RowsKept DEF IInv, RestOK

LEMMA ListRecipientsKeeps == ASSUME IInv, NEW i \in Ops, ListRecipients(i) PROVE IInv'
  <1> DEFINE q == [op[i] EXCEPT !.pc = "next", !.todo = Recipients]
  <1>1. op[i].pc = "recipients" /\ op[i] \in Operations /\ OpOK(op[i])
    BY Reached DEF ListRecipients, At, OpOK
  <1>2. /\ q \in Operations /\ q.pc = "next" /\ q.msg = op[i].msg
        /\ q.kind = op[i].kind /\ q.body = op[i].body /\ q.original = op[i].original
    BY <1>1 DEF Operations
  <1>3. /\ op' = [op EXCEPT ![i] = q]
        /\ UNCHANGED <<msg, home, mirror, directs, copy, remote, first, disturbed, crowded, failed>>
    BY DEF ListRecipients, homeVars, remoteVars, history
  <1> HIDE DEF q
  <1>4. OpOK(q)
    BY <1>1, <1>2 DEF OpOK, Going, Stage, EditStages, MessageStages, DeleteStages, Inbox
  <1> QED
    BY <1>2, <1>3, <1>4, OpStep, RowsKept, RestKept DEF IInv

LEMMA RecipientsUnknownKeeps == ASSUME IInv, NEW i \in Ops, RecipientsUnknown(i) PROVE IInv'
  <1>1. /\ End(i) /\ disturbed' = disturbed \cup {op[i].msg}
        /\ UNCHANGED <<msg, home, mirror, directs, copy, remote, first, crowded, failed>>
    BY DEF RecipientsUnknown, homeVars, remoteVars
  <1>2. op[i].msg \in Msgs
    BY Reached DEF RecipientsUnknown, At, Going
  <1> QED
    BY <1>1, <1>2, EndStep, RowsKept DEF IInv, RestOK

LEMMA PostKeeps == ASSUME IInv, NEW i \in Ops, Post(i) PROVE IInv'
  <1>1. PICK u \in op[i].todo :
            /\ op' = [op EXCEPT ![i].pc = "mirror", ![i].to = u, ![i].todo = @ \ {u}]
            /\ crowded' = IF \E j \in Ops : op[j].to = u THEN crowded \cup {u} ELSE crowded
    BY DEF Post
  <1> DEFINE q == [op[i] EXCEPT !.pc = "mirror", !.to = u, !.todo = @ \ {u}]
  <1>2. op[i].pc = "next" /\ op[i] \in Operations /\ OpOK(op[i])
    BY Reached DEF Post, At, OpOK
  <1>3. u \in Recipients
    BY <1>2 DEF Operations
  <1>4. /\ q \in Operations /\ q.pc = "mirror" /\ q.msg = op[i].msg /\ q.to = u
        /\ q.kind = op[i].kind /\ q.body = op[i].body /\ q.original = op[i].original
    BY <1>2, <1>3 DEF Operations, Inbox
  <1>5. /\ op' = [op EXCEPT ![i] = q]
        /\ UNCHANGED <<msg, home, mirror, directs, copy, remote, first, disturbed, failed>>
    BY <1>1 DEF Post, homeVars, remoteVars
  <1> HIDE DEF q
  <1>6. OpOK(q)
    BY <1>2, <1>3, <1>4 DEF OpOK, Going, Stage, EditStages, MessageStages, DeleteStages
  <1>7. crowded' \subseteq Recipients
    BY <1>1, <1>3 DEF IInv, RestOK
  <1> QED
    BY <1>4, <1>5, <1>6, <1>7, OpStep, RowsKept DEF IInv, RestOK

LEMMA EndTaskKeeps == ASSUME IInv, NEW i \in Ops, EndTask(i) PROVE IInv'
  BY EndStep, RowsKept, RestKept DEF EndTask, IInv, homeVars, remoteVars, history

LEMMA AbandonKeeps == ASSUME IInv, NEW i \in Ops, Abandon(i) PROVE IInv'
  <1>1. /\ End(i) /\ disturbed' = disturbed \cup {op[i].msg}
        /\ UNCHANGED <<msg, home, mirror, directs, copy, remote, first, crowded, failed>>
    BY DEF Abandon, homeVars, remoteVars
  <1>2. op[i].msg \in Msgs
    BY Reached DEF Abandon, Handler, Going
  <1> QED
    BY <1>1, <1>2, EndStep, RowsKept DEF IInv, RestOK

LEMMA LoseKeeps == ASSUME IInv, NEW i \in Ops, Lose(i) PROVE IInv'
  <1>1. /\ FailedPost(i) /\ op[i].pc \in Inbox
        /\ UNCHANGED <<msg, home, mirror, directs, copy, remote, first, disturbed, crowded>>
    BY DEF Lose, homeVars, remoteVars
  <1> QED
    BY <1>1, FailedPostStep, RowsKept DEF IInv, RestOK

-----------------------------------------------------------------------------
(* The inbox.                                                               *)

\* A post is handled further, with the fields it has.
LEMMA InboxGoto ==
    ASSUME IInv, UNCHANGED <<msg, first>>, NEW i \in Ops, NEW stage \in Inbox,
           op[i].pc \in Inbox, Goto(i, stage),
           stage \in MessageStages => op[i].kind = "message" /\ op[i].body \in Bodies,
           stage \in EditStages => op[i].kind = "message_edit",
           stage \in DeleteStages => op[i].kind = "message_delete",
           stage \in {"publishCopy", "publishEdit", "markCopy", "publishDelete"}
               => op[i].row \in Recipients
    PROVE  OpsOK' /\ Alone'
  <1> DEFINE q == [op[i] EXCEPT !.pc = stage]
  <1>1. op[i] \in Operations /\ Stage(op[i])
    BY Reached
  <1>2. /\ q.pc = stage /\ q.msg = op[i].msg /\ q.kind = op[i].kind /\ q.body = op[i].body
        /\ q.original = op[i].original /\ q.to = op[i].to /\ q.row = op[i].row
    BY <1>1 DEF Operations
  <1> HIDE DEF q
  <1>3. Stage(q)
    BY <1>1, <1>2 DEF Stage, EditStages, MessageStages, DeleteStages, Inbox
  <1>4. stage # "insert" /\ Running(i)
    BY DEF Inbox, Running
  <1> QED
    BY <1>3, <1>4, GotoStep DEF q, IInv

LEMMA AfterMirrorStep ==
    ASSUME IInv, UNCHANGED <<msg, first>>, NEW i \in Ops, AfterMirror(i), op[i].pc \in Inbox
    PROVE  OpsOK' /\ Alone' /\ failed' \subseteq Msgs \X Recipients
  <1>1. op[i].kind = "message" /\ op[i].body # NoText => op[i].body \in Bodies
    BY Reached DEF Going, Inbox, Texts
  <1>2. CASE FailedPost(i)
    BY <1>2, FailedPostStep
  <1>3. CASE op[i].kind = "message_edit" /\ Goto(i, "updateCopies") /\ UNCHANGED failed
    BY <1>3, InboxGoto DEF Inbox, MessageStages, EditStages, DeleteStages, IInv, RestOK
  <1>4. CASE op[i].kind = "message_delete" /\ Goto(i, "find") /\ UNCHANGED failed
    BY <1>4, InboxGoto DEF Inbox, MessageStages, EditStages, DeleteStages, IInv, RestOK
  <1>5. CASE op[i].kind = "message" /\ op[i].body # NoText /\ Goto(i, "direct") /\ UNCHANGED failed
    BY <1>1, <1>5, InboxGoto DEF Inbox, MessageStages, EditStages, DeleteStages, IInv, RestOK
  <1> QED
    BY <1>2, <1>3, <1>4, <1>5 DEF AfterMirror

LEMMA SelectMirrorKeeps == ASSUME IInv, NEW i \in Ops, SelectMirror(i) PROVE IInv'
  <1>1. /\ op[i].pc = "mirror" /\ op[i].pc \in Inbox
        /\ UNCHANGED <<msg, home, mirror, directs, copy, remote, first, disturbed, crowded>>
    BY DEF SelectMirror, At, Inbox, homeVars, remoteVars
  <1>2. OpsOK' /\ Alone' /\ failed' \subseteq Msgs \X Recipients
    <2>1. CASE mirror
      BY <1>1, <2>1, AfterMirrorStep DEF SelectMirror
    <2>2. CASE ~mirror
      BY <1>1, <2>2, InboxGoto
         DEF SelectMirror, Inbox, MessageStages, EditStages, DeleteStages, IInv, RestOK
    <2> QED
      BY <2>1, <2>2 DEF IInv, RestOK
  <1> QED
    BY <1>1, <1>2, RowsKept DEF IInv, RestOK

LEMMA InsertMirrorKeeps == ASSUME IInv, NEW i \in Ops, InsertMirror(i) PROVE IInv'
  <1>1. /\ op[i].pc \in Inbox /\ mirror' = TRUE
        /\ UNCHANGED <<msg, home, directs, copy, remote, first, disturbed, crowded>>
    BY DEF InsertMirror, At, Inbox, homeVars
  <1>2. OpsOK' /\ Alone' /\ failed' \subseteq Msgs \X Recipients
    BY <1>1, AfterMirrorStep, FailedPostStep DEF InsertMirror
  <1> QED
    BY <1>1, <1>2, RowsKept DEF IInv, RestOK

LEMMA SelectDirectKeeps == ASSUME IInv, NEW i \in Ops, SelectDirect(i) PROVE IInv'
  <1>1. /\ op[i].pc = "direct" /\ op[i].pc \in Inbox
        /\ UNCHANGED <<msg, home, mirror, directs, copy, remote, first, disturbed, crowded, failed>>
    BY DEF SelectDirect, At, Inbox, homeVars, remoteVars, history
  <1>2. op[i].kind = "message" /\ op[i].body \in Bodies
    BY <1>1, Reached DEF Stage, MessageStages
  <1>3. OpsOK' /\ Alone'
    BY <1>1, <1>2, InboxGoto DEF SelectDirect, Inbox, MessageStages, EditStages, DeleteStages
  <1> QED
    BY <1>1, <1>3, RowsKept, RestKept DEF IInv

LEMMA CreateDirectKeeps == ASSUME IInv, NEW i \in Ops, CreateDirect(i) PROVE IInv'
  <1>1. /\ op[i].pc = "newDirect" /\ op[i].pc \in Inbox /\ Goto(i, "insertCopy")
        /\ UNCHANGED <<msg, home, mirror, copy, remote, first, disturbed, crowded, failed>>
    BY DEF CreateDirect, At, Inbox, homeVars, history
  <1>2. op[i].kind = "message" /\ op[i].body \in Bodies
    BY <1>1, Reached DEF Stage, MessageStages
  <1>3. OpsOK' /\ Alone'
    BY <1>1, <1>2, InboxGoto DEF Inbox, MessageStages, EditStages, DeleteStages
  <1>4. directs' \in [Recipients -> Nat]
    <2>1. op[i].to \in Recipients
      BY <1>1, Reached DEF Stage
    <2>2. directs \in [Recipients -> Nat] /\ directs[op[i].to] + 1 \in Nat
      BY <2>1 DEF IInv, RestOK
    <2> QED
      BY <2>1, <2>2 DEF CreateDirect
  <1> QED
    BY <1>1, <1>3, <1>4, RowsKept DEF IInv, RestOK

\* The inbox has written to the row of one recipient.
LEMMA CopyStep ==
    ASSUME CopiesOK, UNCHANGED first, NEW m \in Msgs, NEW u \in Recipients, NEW row \in Rows,
           copy' = [copy EXCEPT ![m][u] = row],
           row.original \in {None, first[m]}, row.there => row.body \in Bodies
    PROVE  CopiesOK'
  <1>1. copy' \in [Msgs -> [Recipients -> Rows]]
    BY DEF CopiesOK
  <1>2. ASSUME NEW n \in Msgs, NEW v \in Recipients PROVE CopyOK(n, v)'
    <2>1. copy'[n][v] = IF n = m /\ v = u THEN row ELSE copy[n][v]
      BY DEF CopiesOK
    <2> QED
      BY <2>1 DEF CopiesOK, CopyOK
  <1> QED
    BY <1>1, <1>2 DEF CopiesOK

LEMMA RowsAloneKept == ASSUME RowsOK, UNCHANGED <<msg, first>> PROVE RowsOK'
  BY DEF RowsOK, RowOK

LEMMA InsertCopyKeeps == ASSUME IInv, NEW i \in Ops, InsertCopy(i) PROVE IInv'
  <1> DEFINE row == [NoRow EXCEPT !.there = TRUE, !.body = op[i].body]
  <1>1. /\ op[i].pc = "insertCopy" /\ op[i].pc \in Inbox /\ Goto(i, "rereadCopy")
        /\ copy' = [copy EXCEPT ![op[i].msg][op[i].to] = row]
        /\ UNCHANGED <<msg, home, mirror, directs, remote, first, disturbed, crowded, failed>>
    BY DEF InsertCopy, At, Inbox, homeVars, history
  <1>2. /\ op[i].kind = "message" /\ op[i].body \in Bodies
        /\ op[i].msg \in Msgs /\ op[i].to \in Recipients
    BY <1>1, Reached DEF Stage, Going, MessageStages
  <1>3. OpsOK' /\ Alone'
    BY <1>1, <1>2, InboxGoto DEF Inbox, MessageStages, EditStages, DeleteStages
  <1>4. /\ row \in Rows /\ row.body = op[i].body /\ row.original = None
    BY <1>2 DEF NoRow, Rows, Texts
  <1> HIDE DEF row
  <1>5. CopiesOK'
    BY <1>1, <1>2, <1>4, CopyStep DEF IInv
  <1> QED
    BY <1>1, <1>3, <1>5, RowsAloneKept, RestKept DEF IInv

LEMMA RereadCopyKeeps == ASSUME IInv, NEW i \in Ops, RereadCopy(i) PROVE IInv'
  <1> DEFINE read == copy[op[i].msg][op[i].to].body
             q == [op[i] EXCEPT !.pc = "publishCopy", !.row = op[i].to, !.read = read]
  <1>1. /\ op[i].pc = "rereadCopy" /\ op[i].msg \in Msgs /\ op[i].to \in Recipients
        /\ op[i] \in Operations /\ OpOK(op[i])
    BY Reached DEF RereadCopy, At, Going, Stage, Inbox, OpOK
  <1>2. read \in Texts \cup {None}
    BY <1>1 DEF IInv, CopiesOK, Rows
  <1>3. /\ q \in Operations /\ q.pc = "publishCopy" /\ q.msg = op[i].msg /\ q.kind = op[i].kind
        /\ q.body = op[i].body /\ q.original = op[i].original /\ q.to = op[i].to
        /\ q.row = op[i].to
    BY <1>1, <1>2 DEF Operations, Inbox
  <1>4. /\ op' = [op EXCEPT ![i] = q]
        /\ UNCHANGED <<msg, home, mirror, directs, copy, remote, first, disturbed, crowded, failed>>
    BY DEF RereadCopy, homeVars, remoteVars, history
  <1> HIDE DEF q
  <1>5. OpOK(q)
    BY <1>1, <1>3 DEF OpOK, Going, Stage, Inbox, MessageStages, EditStages, DeleteStages
  <1> QED
    BY <1>3, <1>4, <1>5, OpStep, RowsKept, RestKept DEF IInv

\* The end of a post that has pushed to the clients of one recipient, or to nobody.
LEMMA PublishStep ==
    ASSUME IInv, NEW i \in Ops, op[i].pc \in Inbox, Answered(i),
           NEW shown \in Texts \cup {None}, NEW u \in Recipients,
           remote' = [remote EXCEPT ![op[i].msg][u] = shown],
           UNCHANGED <<msg, home, mirror, directs, copy, first, disturbed, crowded, failed>>
    PROVE  IInv'
  <1>1. op[i].msg \in Msgs
    BY Reached DEF Going, Inbox
  <1>2. remote' \in [Msgs -> [Recipients -> Texts \cup {None}]]
    BY <1>1 DEF IInv, RestOK
  <1> QED
    BY <1>2, AnsweredStep, RowsKept DEF IInv, RestOK

LEMMA PublishKept ==
    ASSUME IInv, NEW i \in Ops, PublishCopy(i) \/ PublishEdit(i) \/ PublishDelete(i)
    PROVE  IInv'
  <1>1. /\ op[i].pc \in Inbox /\ Answered(i) /\ op[i].msg \in Msgs /\ op[i].row \in Recipients
        /\ op[i].read \in Texts \cup {None}
        /\ UNCHANGED <<msg, home, mirror, directs, copy, first, disturbed, crowded, failed>>
    BY Reached DEF PublishCopy, PublishEdit, PublishDelete, At, Inbox, Going, Stage, Operations,
                   homeVars, history
  <1>2. remote[op[i].msg][op[i].row] \in Texts \cup {None}
    BY <1>1 DEF IInv, RestOK
  <1>3. PICK shown \in Texts \cup {None} :
            remote' = [remote EXCEPT ![op[i].msg][op[i].row] = shown]
    BY <1>1, <1>2 DEF PublishCopy, PublishEdit, PublishDelete, Pushed, Replaced
  <1> QED
    BY <1>1, <1>3, PublishStep

LEMMA UpdateCopiesKeeps == ASSUME IInv, NEW i \in Ops, UpdateCopies(i) PROVE IInv'
  <1>0. PICK m \in Msgs : m = op[i].msg
    BY Reached DEF UpdateCopies, At, Going
  <1>1. /\ op[i].pc = "updateCopies" /\ op[i].pc \in Inbox /\ Goto(i, "rereadEdit")
        /\ UNCHANGED <<msg, home, mirror, directs, remote, first, disturbed, crowded, failed>>
    BY DEF UpdateCopies, At, Inbox, homeVars, history
  <1>2. /\ op[i].kind = "message_edit" /\ op[i].body \in Bodies
        /\ op[i].original \in {None, first[m]} /\ op[i].original \in Texts \cup {None}
    BY <1>0, <1>1, Reached DEF Stage, Going, EditStages, Operations
  <1>3. OpsOK' /\ Alone'
    BY <1>1, <1>2, InboxGoto DEF Inbox, MessageStages, EditStages, DeleteStages
  <1> DEFINE new(u) == [copy[m][u] EXCEPT !.body = op[i].body, !.original = op[i].original]
             rows == [u \in Recipients |-> IF u \in Copies(m) THEN new(u) ELSE copy[m][u]]
  <1>4. copy' = [copy EXCEPT ![m] = rows]
    BY <1>0 DEF UpdateCopies
  <1>5. ASSUME NEW u \in Recipients
        PROVE  /\ rows[u] \in Rows /\ rows[u].original \in {None, first[m]}
               /\ rows[u].there => rows[u].body \in Bodies
    <2>1. /\ copy[m][u] \in Rows /\ copy[m][u].original \in {None, first[m]}
          /\ copy[m][u].there => copy[m][u].body \in Bodies
      BY DEF IInv, CopiesOK, CopyOK
    <2>2. /\ new(u) \in Rows /\ new(u).original = op[i].original /\ new(u).body = op[i].body
      BY <1>2, <2>1 DEF Rows, Texts
    <2>3. rows[u] = new(u) \/ rows[u] = copy[m][u]
      OBVIOUS
    <2> HIDE DEF new, rows
    <2> QED
      BY <1>2, <2>1, <2>2, <2>3
  <1>6. rows = [u \in Recipients |-> rows[u]]
    OBVIOUS
  <1> HIDE DEF new, rows
  <1>7. copy' \in [Msgs -> [Recipients -> Rows]]
    <2>1. rows \in [Recipients -> Rows]
      BY <1>5, <1>6
    <2> QED
      BY <1>4, <2>1 DEF IInv, CopiesOK
  <1>8. ASSUME NEW n \in Msgs, NEW u \in Recipients PROVE CopyOK(n, u)'
    <2>1. copy'[n][u] = IF n = m THEN rows[u] ELSE copy[n][u]
      BY <1>4 DEF IInv, CopiesOK
    <2> QED
      BY <1>1, <1>5, <2>1 DEF IInv, CopiesOK, CopyOK
  <1>9. CopiesOK'
    BY <1>7, <1>8 DEF CopiesOK
  <1> QED
    BY <1>1, <1>3, <1>9, RowsAloneKept, RestKept DEF IInv

\* The inbox has selected the row of a recipient.
LEMMA SelectRow ==
    ASSUME IInv, NEW i \in Ops, op[i].pc \in Inbox, NEW u \in Recipients,
           NEW read \in Texts \cup {None},
           NEW stage \in {"publishEdit", "markCopy"},
           op' = [op EXCEPT ![i] = [op[i] EXCEPT !.pc = stage, !.row = u, !.read = read]],
           stage = "publishEdit" => op[i].kind = "message_edit",
           stage = "markCopy" => op[i].kind = "message_delete",
           UNCHANGED <<msg, home, mirror, directs, copy, remote, first, disturbed, crowded, failed>>
    PROVE  IInv'
  <1> DEFINE q == [op[i] EXCEPT !.pc = stage, !.row = u, !.read = read]
  <1>1. op[i] \in Operations /\ OpOK(op[i])
    BY Reached DEF OpOK
  <1>2. /\ q \in Operations /\ q.pc = stage /\ q.msg = op[i].msg /\ q.kind = op[i].kind
        /\ q.body = op[i].body /\ q.original = op[i].original /\ q.to = op[i].to /\ q.row = u
    BY <1>1 DEF Operations, Inbox
  <1>3. op' = [op EXCEPT ![i] = q]
    OBVIOUS
  <1> HIDE DEF q
  <1>4. OpOK(q)
    BY <1>1, <1>2 DEF OpOK, Going, Stage, Inbox, MessageStages, EditStages, DeleteStages
  <1> QED
    BY <1>2, <1>3, <1>4, OpStep, RowsKept, RestKept DEF IInv

LEMMA RereadEditKeeps == ASSUME IInv, NEW i \in Ops, RereadEdit(i) PROVE IInv'
  <1>1. /\ op[i].pc = "rereadEdit" /\ op[i].pc \in Inbox /\ op[i].msg \in Msgs
        /\ op[i].kind = "message_edit" /\ op[i] \in Operations
        /\ UNCHANGED <<msg, home, mirror, directs, copy, remote, first, disturbed, crowded>>
    BY Reached DEF RereadEdit, At, Inbox, Going, Stage, EditStages, homeVars, remoteVars
  <1>2. CASE Copies(op[i].msg) = {}
    <2>1. FailedPost(i)
      BY <1>2 DEF RereadEdit
    <2> QED
      BY <1>1, <2>1, FailedPostStep, RowsKept DEF IInv, RestOK
  <1>3. CASE Copies(op[i].msg) # {}
    <2>1. PICK u \in Copies(op[i].msg) :
              op' = [op EXCEPT ![i].pc = "publishEdit", ![i].row = u,
                               ![i].read = copy[op[i].msg][u].body]
      BY <1>3 DEF RereadEdit
    <2>2. u \in Recipients /\ copy[op[i].msg][u].body \in Texts \cup {None}
      BY <1>1 DEF Copies, IInv, CopiesOK, Rows
    <2>3. UNCHANGED failed
      BY <1>3 DEF RereadEdit
    <2> QED
      BY <1>1, <2>1, <2>2, <2>3, SelectRow
  <1> QED
    BY <1>2, <1>3

LEMMA FindKeeps == ASSUME IInv, NEW i \in Ops, Find(i) PROVE IInv'
  <1>1. /\ op[i].pc = "find" /\ op[i].pc \in Inbox /\ op[i].kind = "message_delete"
        /\ op[i] \in Operations
        /\ UNCHANGED <<msg, home, mirror, directs, copy, remote, first, disturbed, crowded, failed>>
    BY Reached DEF Find, At, Inbox, Stage, DeleteStages, homeVars, remoteVars, history
  <1>2. CASE Answered(i)
    BY <1>1, <1>2, AnsweredStep, RowsKept, RestKept DEF IInv
  <1>3. CASE \E u \in Copies(op[i].msg) : op' = [op EXCEPT ![i].pc = "markCopy", ![i].row = u]
    <2>1. PICK u \in Copies(op[i].msg) : op' = [op EXCEPT ![i].pc = "markCopy", ![i].row = u]
      BY <1>3
    <2>2. u \in Recipients /\ op[i].read \in Texts \cup {None}
      BY <1>1 DEF Copies, Operations
    <2>3. [op[i] EXCEPT !.pc = "markCopy", !.row = u]
              = [op[i] EXCEPT !.pc = "markCopy", !.row = u, !.read = op[i].read]
      BY <1>1 DEF Operations
    <2>4. op' = [op EXCEPT ![i] = [op[i] EXCEPT !.pc = "markCopy", !.row = u]]
      BY <2>1
    <2>5. op' = [op EXCEPT ![i] = [op[i] EXCEPT !.pc = "markCopy", !.row = u, !.read = op[i].read]]
      BY <2>3, <2>4
    <2> QED
      BY <1>1, <2>2, <2>5, SelectRow
  <1> QED
    BY <1>2, <1>3 DEF Find

LEMMA MarkCopyKeeps == ASSUME IInv, NEW i \in Ops, MarkCopy(i) PROVE IInv'
  <1> DEFINE row == [copy[op[i].msg][op[i].row] EXCEPT !.deleted = TRUE]
  <1>1. /\ op[i].pc = "markCopy" /\ op[i].pc \in Inbox /\ Goto(i, "publishDelete")
        /\ op[i].msg \in Msgs /\ op[i].row \in Recipients /\ op[i].kind = "message_delete"
        /\ UNCHANGED <<msg, home, mirror, directs, remote, first, disturbed, crowded, failed>>
    BY Reached DEF MarkCopy, At, Inbox, Going, Stage, DeleteStages, homeVars, history
  <1>2. copy[op[i].msg][op[i].row] \in Rows /\ CopyOK(op[i].msg, op[i].row)
    BY <1>1 DEF IInv, CopiesOK
  <1>3. copy' = [copy EXCEPT ![op[i].msg][op[i].row] = row]
    BY DEF MarkCopy
  <1>4. /\ row \in Rows /\ row.original \in {None, first[op[i].msg]}
        /\ row.there => row.body \in Bodies
    BY <1>2 DEF Rows, CopyOK
  <1> HIDE DEF row
  <1>5. CopiesOK'
    BY <1>1, <1>3, <1>4, CopyStep DEF IInv
  <1>6. OpsOK' /\ Alone'
    BY <1>1, InboxGoto DEF Inbox, MessageStages, EditStages, DeleteStages
  <1> QED
    BY <1>1, <1>5, <1>6, RowsAloneKept, RestKept DEF IInv

-----------------------------------------------------------------------------
(* The theorems.                                                            *)

LEMMA InitHolds == Init => IInv
  <1> SUFFICES ASSUME Init PROVE IInv
    OBVIOUS
  <1>1. Idle \in Operations /\ Idle.pc = "idle" /\ NoRow \in Rows /\ NoRow.there = FALSE
        /\ NoRow.original = None
    BY DEF Idle, Operations, NoRow, Rows
  <1>2. OpsOK /\ Alone
    BY <1>1 DEF Init, OpsOK, OpOK, Going, Stage, Alone, Inbox, MessageStages, EditStages, DeleteStages
  <1>3. RowsOK
    BY <1>1 DEF Init, RowsOK, RowOK
  <1>4. CopiesOK
    BY <1>1 DEF Init, CopiesOK, CopyOK
  <1>5. RestOK
    BY DEF Init, RestOK
  <1> QED
    BY <1>2, <1>3, <1>4, <1>5 DEF IInv

LEMMA NextKeeps == IInv /\ [Next]_vars => IInv'
  <1> SUFFICES ASSUME IInv, [Next]_vars PROVE IInv'
    OBVIOUS
  <1>1. CASE UNCHANGED vars
    BY <1>1 DEF vars, homeVars, remoteVars, history, IInv, OpsOK, OpOK, Going, Stage, Alone,
                RowsOK, RowOK, CopiesOK, CopyOK, RestOK
  <1>2. ASSUME NEW i \in Ops, Call(i) \/ Abandon(i) \/ Lose(i) PROVE IInv'
    BY <1>2, CallKeeps, AbandonKeeps, LoseKeeps
  <1>3. ASSUME NEW i \in Ops, HandlerStep(i) PROVE IInv'
    BY <1>3, InsertMessageKeeps, EditCheckKeeps, UpdateMessageKeeps, RereadKeeps,
       DeleteCheckKeeps, MarkKeeps, PublishKeeps DEF HandlerStep
  <1>4. ASSUME NEW i \in Ops, TaskStep(i) PROVE IInv'
    BY <1>4, ListRecipientsKeeps, RecipientsUnknownKeeps, PostKeeps, EndTaskKeeps DEF TaskStep
  <1>5. ASSUME NEW i \in Ops, InboxStep(i) PROVE IInv'
    BY <1>5, SelectMirrorKeeps, InsertMirrorKeeps, SelectDirectKeeps, CreateDirectKeeps,
       InsertCopyKeeps, RereadCopyKeeps, UpdateCopiesKeeps, RereadEditKeeps, FindKeeps,
       MarkCopyKeeps, PublishKept DEF InboxStep
  <1>6. CASE Next
    BY <1>2, <1>3, <1>4, <1>5, <1>6 DEF Next, Step
  <1> QED
    BY <1>1, <1>6

\* The tables of both servers, the operations and the clients keep their types; in
\* particular no copy of a message on the remote server has an empty body.
THEOREM TypeCorrect == Spec => []TypeOK
  <1>1. IInv => TypeOK
    BY DEF IInv, OpsOK, RowsOK, RowOK, CopiesOK, CopyOK, RestOK, TypeOK
  <1> QED
    BY <1>1, InitHolds, NextKeeps, PTL DEF Spec

\* The first body of a message survives every edit, on both servers, for any number of
\* messages, recipients and operations, whatever overlaps, fails or is lost.
THEOREM FirstBodySurvives == Spec => []OriginalKept
  <1>1. IInv => OriginalKept
    BY DEF IInv, RowsOK, RowOK, CopiesOK, CopyOK, OriginalKept
  <1> QED
    BY <1>1, InitHolds, NextKeeps, PTL DEF Spec

-----------------------------------------------------------------------------
(* What a step leaves alone.                                                *)

\* An operation that is not running is about no message.
Ended == \A i \in Ops : ~Running(i) => op[i].msg = None

\* A step of an operation concerns its own message and its own post.
OnlyAbout(i) ==
    /\ \A j \in Ops \ {i} : op'[j] = op[j]
    /\ \/ op'[i].msg = op[i].msg /\ op'[i].kind = op[i].kind /\ op'[i].pc \notin {"idle", "done"}
       \/ op'[i].msg = None /\ op'[i].pc = "done" /\ op'[i].todo = {} /\ op'[i].to = None
    /\ \A m \in Msgs : m # op[i].msg =>
         msg'[m] = msg[m] /\ home'[m] = home[m] /\ copy'[m] = copy[m] /\ remote'[m] = remote[m]
    /\ \A m \in Msgs : m # op[i].msg => \A u \in Recipients : <<m, u>> \in failed' => <<m, u>> \in failed
    /\ disturbed \subseteq disturbed' /\ failed \subseteq failed' /\ crowded \subseteq crowded'

LEMMA GotoFields ==
    ASSUME IInv, NEW i \in Ops, NEW stage \in Handler \cup Inbox, Goto(i, stage)
    PROVE  /\ \A j \in Ops \ {i} : op'[j] = op[j]
           /\ op'[i].pc = stage /\ op'[i].msg = op[i].msg /\ op'[i].kind = op[i].kind
           /\ op'[i].body = op[i].body /\ op'[i].original = op[i].original
           /\ op'[i].todo = op[i].todo /\ op'[i].to = op[i].to /\ op'[i].row = op[i].row
           /\ op'[i].pc \notin {"idle", "done"}
  BY Reached DEF IInv, OpsOK, Operations, Goto, Handler, Inbox

LEMMA EndFields ==
    ASSUME IInv, NEW i \in Ops, End(i)
    PROVE  /\ \A j \in Ops \ {i} : op'[j] = op[j]
           /\ op'[i].pc = "done" /\ op'[i].msg = None /\ op'[i].todo = {} /\ op'[i].to = None
  BY DEF IInv, OpsOK, End, Idle

LEMMA AnsweredFields ==
    ASSUME IInv, NEW i \in Ops, Answered(i)
    PROVE  /\ \A j \in Ops \ {i} : op'[j] = op[j]
           /\ op'[i].pc = "next" /\ op'[i].msg = op[i].msg /\ op'[i].kind = op[i].kind
           /\ op'[i].body = op[i].body /\ op'[i].original = op[i].original
           /\ op'[i].todo = op[i].todo /\ op'[i].to = None
  BY Reached DEF IInv, OpsOK, Operations, Answered

LEMMA FailedFields ==
    ASSUME IInv, NEW i \in Ops, FailedPost(i), op[i].pc \in Inbox
    PROVE  /\ op[i].msg \in Msgs /\ op[i].to \in Recipients
           /\ failed \subseteq failed' /\ <<op[i].msg, op[i].to>> \in failed'
           /\ \A m \in Msgs : m # op[i].msg => \A u \in Recipients : <<m, u>> \in failed' => <<m, u>> \in failed
  BY Reached DEF FailedPost, Going, Stage, Inbox

LEMMA HandlerIsLocal == ASSUME IInv, NEW i \in Ops, HandlerStep(i) PROVE OnlyAbout(i)
  <1> op \in [Ops -> Operations] /\ op[i] \in Operations
    BY DEF IInv, OpsOK
  <1> msg \in [Msgs -> Rows]
    BY DEF IInv, RowsOK
  <1> home \in [Msgs -> Texts \cup {None}]
    BY DEF IInv, RestOK
  <1> USE DEF OnlyAbout, homeVars, remoteVars, history
  <1>1. CASE InsertMessage(i)
    BY <1>1, GotoFields DEF InsertMessage, Handler
  <1>2. CASE EditCheck(i)
    <2>1. CASE End(i)
      BY <1>2, <2>1, EndFields DEF EditCheck
    <2>2. CASE op' = [op EXCEPT ![i].pc = "update",
                      ![i].original = IF msg[op[i].msg].original = None
                                      THEN msg[op[i].msg].body ELSE msg[op[i].msg].original]
      BY <1>2, <2>2 DEF EditCheck, Operations
    <2> QED
      BY <1>2, <2>1, <2>2 DEF EditCheck
  <1>3. CASE UpdateMessage(i)
    BY <1>3, GotoFields DEF UpdateMessage, Handler
  <1>4. CASE Reread(i)
    BY <1>4 DEF Reread, Operations
  <1>5. CASE DeleteCheck(i)
    BY <1>5, GotoFields, EndFields DEF DeleteCheck, Handler
  <1>6. CASE Mark(i)
    BY <1>6, GotoFields DEF Mark, Handler
  <1>7. CASE Publish(i)
    <2>1. \A j \in Ops \ {i} : op'[j] = op[j]
      BY <1>7 DEF Publish, Goto
    <2>2. op'[i].msg = op[i].msg /\ op'[i].kind = op[i].kind /\ op'[i].pc = "recipients"
      BY <1>7 DEF Publish, Goto, Operations
    <2>3. \A m \in Msgs : m # op[i].msg => home'[m] = home[m]
      BY <1>7 DEF Publish
    <2> QED
      BY <1>7, <2>1, <2>2, <2>3 DEF Publish
  <1> QED
    BY <1>1, <1>2, <1>3, <1>4, <1>5, <1>6, <1>7 DEF HandlerStep

LEMMA TaskIsLocal == ASSUME IInv, NEW i \in Ops, TaskStep(i) PROVE OnlyAbout(i)
  <1> op \in [Ops -> Operations] /\ op[i] \in Operations
    BY DEF IInv, OpsOK
  <1>1. CASE Post(i)
    BY <1>1 DEF Post, OnlyAbout, homeVars, remoteVars, Operations
  <1>2. CASE EndTask(i)
    BY <1>2, EndFields DEF EndTask, OnlyAbout, homeVars, remoteVars, history
  <1>3. CASE ListRecipients(i)
    BY <1>3 DEF ListRecipients, OnlyAbout, homeVars, remoteVars, history, Operations
  <1>4. CASE RecipientsUnknown(i)
    BY <1>4, EndFields DEF RecipientsUnknown, OnlyAbout, homeVars, remoteVars
  <1> QED
    BY <1>1, <1>2, <1>3, <1>4 DEF TaskStep

\* After the mirror of the author, the event of the post.
LEMMA AfterMirrorCases ==
    ASSUME IInv, NEW i \in Ops, AfterMirror(i), op[i].pc \in Inbox
    PROVE  \/ op[i].kind = "message_edit" /\ Goto(i, "updateCopies") /\ UNCHANGED failed
           \/ op[i].kind = "message_delete" /\ Goto(i, "find") /\ UNCHANGED failed
           \/ op[i].kind = "message" /\ op[i].body # NoText /\ Goto(i, "direct") /\ UNCHANGED failed
           \/ op[i].kind = "message" /\ FailedPost(i)
  <1>1. op[i].kind \in Kinds
    BY Reached DEF Going, Inbox
  <1>2. CASE op[i].kind = "message_edit"
    BY <1>2 DEF AfterMirror
  <1>3. CASE op[i].kind = "message_delete"
    BY <1>3 DEF AfterMirror
  <1>4. CASE op[i].kind = "message" /\ op[i].body # NoText
    BY <1>4 DEF AfterMirror
  <1>5. CASE op[i].kind = "message" /\ op[i].body = NoText
    BY <1>5 DEF AfterMirror
  <1> QED
    BY <1>1, <1>2, <1>3, <1>4, <1>5 DEF Kinds

LEMMA InboxIsLocal == ASSUME IInv, NEW i \in Ops, InboxStep(i) PROVE OnlyAbout(i)
  <1> op \in [Ops -> Operations] /\ op[i] \in Operations
    BY DEF IInv, OpsOK
  <1> copy \in [Msgs -> [Recipients -> Rows]]
    BY DEF IInv, CopiesOK
  <1> remote \in [Msgs -> [Recipients -> Texts \cup {None}]]
    BY DEF IInv, RestOK
  <1> USE DEF OnlyAbout, homeVars, remoteVars, history
  <1>1. CASE SelectMirror(i)
    BY <1>1, AfterMirrorCases, GotoFields, AnsweredFields, FailedFields
       DEF SelectMirror, At, Inbox, FailedPost
  <1>2. CASE InsertMirror(i)
    BY <1>2, AfterMirrorCases, GotoFields, AnsweredFields, FailedFields
       DEF InsertMirror, At, Inbox, FailedPost
  <1>3. CASE SelectDirect(i)
    BY <1>3, GotoFields DEF SelectDirect, Inbox
  <1>4. CASE CreateDirect(i)
    BY <1>4, GotoFields DEF CreateDirect, Inbox
  <1>5. CASE InsertCopy(i)
    BY <1>5, GotoFields DEF InsertCopy, Inbox
  <1>6. CASE RereadCopy(i)
    BY <1>6 DEF RereadCopy, Operations
  <1>7. CASE PublishCopy(i)
    BY <1>7, AnsweredFields DEF PublishCopy
  <1>8. CASE UpdateCopies(i)
    BY <1>8, GotoFields DEF UpdateCopies, Inbox
  <1>9. CASE RereadEdit(i)
    <2>1. CASE FailedPost(i)
      BY <1>9, <2>1, AnsweredFields, FailedFields DEF RereadEdit, At, Inbox, FailedPost
    <2>2. CASE Copies(op[i].msg) # {}
      <3>1. /\ UNCHANGED <<msg, home, mirror, directs, copy, remote, first, disturbed, crowded, failed>>
            /\ \E u \in Copies(op[i].msg) :
                 op' = [op EXCEPT ![i].pc = "publishEdit", ![i].row = u, ![i].read = copy[op[i].msg][u].body]
        BY <1>9, <2>2 DEF RereadEdit
      <3>2. PICK u \in Copies(op[i].msg) :
              op' = [op EXCEPT ![i].pc = "publishEdit", ![i].row = u, ![i].read = copy[op[i].msg][u].body]
        BY <3>1
      <3>3. op'[i].msg = op[i].msg /\ op'[i].kind = op[i].kind /\ op'[i].pc = "publishEdit"
        BY <3>2 DEF Operations
      <3> QED
        BY <3>1, <3>2, <3>3
    <2> QED
      BY <1>9, <2>1, <2>2 DEF RereadEdit
  <1>10. CASE PublishEdit(i)
    BY <1>10, AnsweredFields DEF PublishEdit
  <1>11. CASE Find(i)
    <2>1. CASE Answered(i)
      BY <1>11, <2>1, AnsweredFields DEF Find
    <2>2. ASSUME NEW u \in Copies(op[i].msg), op' = [op EXCEPT ![i].pc = "markCopy", ![i].row = u]
          PROVE  OnlyAbout(i)
      <3>1. op'[i].msg = op[i].msg /\ op'[i].kind = op[i].kind /\ op'[i].pc = "markCopy"
        BY <2>2 DEF Operations
      <3> QED
        BY <1>11, <2>2, <3>1 DEF Find
    <2> QED
      BY <1>11, <2>1, <2>2 DEF Find
  <1>12. CASE MarkCopy(i)
    BY <1>12, GotoFields DEF MarkCopy, Inbox
  <1>13. CASE PublishDelete(i)
    BY <1>13, AnsweredFields DEF PublishDelete
  <1> QED
    BY <1>1, <1>2, <1>3, <1>4, <1>5, <1>6, <1>7, <1>8, <1>9, <1>10, <1>11, <1>12, <1>13 DEF InboxStep

LEMMA FaultIsLocal == ASSUME IInv, NEW i \in Ops, Abandon(i) \/ Lose(i) PROVE OnlyAbout(i)
  BY EndFields, AnsweredFields, FailedFields
     DEF Abandon, Lose, FailedPost, OnlyAbout, homeVars, remoteVars

LEMMA StepIsLocal ==
    ASSUME IInv, NEW i \in Ops, Step(i) \/ Abandon(i) \/ Lose(i)
    PROVE  OnlyAbout(i) /\ Running(i) /\ op[i].msg \in Msgs
  <1>1. OnlyAbout(i)
    BY HandlerIsLocal, TaskIsLocal, InboxIsLocal, FaultIsLocal DEF Step
  <1>2. Running(i)
    BY DEF Step, HandlerStep, TaskStep, InboxStep, Abandon, Lose, Running, At, Handler, Inbox,
           InsertMessage, EditCheck, UpdateMessage, Reread, DeleteCheck, Mark, Publish, Post, EndTask,
           ListRecipients, RecipientsUnknown,
           SelectMirror, InsertMirror, SelectDirect, CreateDirect, InsertCopy, RereadCopy, PublishCopy,
           UpdateCopies, RereadEdit, PublishEdit, Find, MarkCopy, PublishDelete
  <1> QED
    BY <1>1, <1>2, Reached DEF Going, Running

\* A call makes an idle operation run, about one message, and writes no table.
Started(i, m) ==
    /\ \A j \in Ops \ {i} : op'[j] = op[j]
    /\ At(i, "idle") /\ op'[i].msg = m /\ op'[i].todo = {} /\ op'[i].to = None
    /\ op'[i].pc \in {"insert", "editCheck", "deleteCheck"}
    /\ UNCHANGED <<msg, home, mirror, directs, copy, remote, first, crowded, failed>>
    /\ disturbed \subseteq disturbed'
    /\ m \in disturbed' \/ \A j \in Ops : Running(j) => op[j].msg # m

LEMMA CallIsLocal ==
    ASSUME IInv, NEW i \in Ops, Call(i)
    PROVE  \E m \in Msgs :
             /\ Started(i, m)
             /\ \/ op'[i].pc = "insert" /\ op'[i].kind = "message" /\ ~msg[m].there
                \/ op'[i].pc = "editCheck" /\ op'[i].kind = "message_edit" /\ msg[m].there
                \/ op'[i].pc = "deleteCheck" /\ op'[i].kind = "message_delete" /\ msg[m].there
  <1> op \in [Ops -> Operations]
    BY DEF IInv, OpsOK
  <1> USE DEF Start, Started, Idle, homeVars, remoteVars
  <1>1. CASE CallSend(i)
    BY <1>1 DEF CallSend
  <1>2. CASE CallEdit(i)
    BY <1>2 DEF CallEdit
  <1>3. CASE CallDelete(i)
    BY <1>3 DEF CallDelete
  <1> QED
    BY <1>1, <1>2, <1>3 DEF Call

LEMMA EndedKept == IInv /\ Ended /\ [Next]_vars => Ended'
  <1> SUFFICES ASSUME IInv, Ended, [Next]_vars PROVE Ended'
    OBVIOUS
  <1>1. ASSUME NEW i \in Ops, Call(i) PROVE Ended'
    BY <1>1, CallIsLocal DEF Ended, Started, Running
  <1>2. ASSUME NEW i \in Ops, Step(i) \/ Abandon(i) \/ Lose(i) PROVE Ended'
    BY <1>2, StepIsLocal DEF Ended, OnlyAbout, Running
  <1>3. CASE UNCHANGED vars
    BY <1>3 DEF vars, Ended, Running
  <1> QED
    BY <1>1, <1>2, <1>3 DEF Next

-----------------------------------------------------------------------------
(* The steps that write several fields of their operation.                  *)

SameEvent(i) ==
    /\ op'[i].msg = op[i].msg /\ op'[i].kind = op[i].kind
    /\ op'[i].body = op[i].body /\ op'[i].original = op[i].original

LEMMA EditCheckFields ==
    ASSUME IInv, NEW i \in Ops, EditCheck(i)
    PROVE  \/ End(i)
           \/ /\ op'[i].pc = "update" /\ op'[i].msg = op[i].msg /\ op'[i].kind = op[i].kind
              /\ op'[i].body = op[i].body /\ op'[i].todo = op[i].todo /\ op'[i].to = op[i].to
  <1> op \in [Ops -> Operations] /\ op[i] \in Operations
    BY DEF IInv, OpsOK
  <1>1. CASE op' = [op EXCEPT ![i].pc = "update",
                    ![i].original = IF msg[op[i].msg].original = None
                                    THEN msg[op[i].msg].body ELSE msg[op[i].msg].original]
    BY <1>1 DEF Operations
  <1> QED
    BY <1>1 DEF EditCheck

LEMMA RereadFields ==
    ASSUME IInv, NEW i \in Ops, Reread(i)
    PROVE  /\ op'[i].pc = "publish" /\ op'[i].msg = op[i].msg /\ op'[i].kind = op[i].kind
           /\ op'[i].body = msg[op[i].msg].body /\ op'[i].original = msg[op[i].msg].original
           /\ op'[i].todo = op[i].todo /\ op'[i].to = op[i].to
  BY DEF IInv, OpsOK, Reread, Operations

LEMMA PublishFields ==
    ASSUME IInv, NEW i \in Ops, Publish(i)
    PROVE  SameEvent(i) /\ op'[i].pc = "recipients" /\ op'[i].todo = op[i].todo /\ op'[i].to = op[i].to
  BY DEF IInv, OpsOK, Publish, Goto, Operations, SameEvent

LEMMA ListRecipientsFields ==
    ASSUME IInv, NEW i \in Ops, ListRecipients(i)
    PROVE  SameEvent(i) /\ op'[i].pc = "next" /\ op'[i].todo = Recipients /\ op'[i].to = op[i].to
  BY DEF IInv, OpsOK, ListRecipients, Operations, SameEvent

LEMMA PostFields ==
    ASSUME IInv, NEW i \in Ops, Post(i)
    PROVE  \E u \in op[i].todo :
             /\ SameEvent(i) /\ op'[i].pc = "mirror" /\ op'[i].todo = op[i].todo \ {u} /\ op'[i].to = u
             /\ crowded' = IF \E j \in Ops : op[j].to = u THEN crowded \cup {u} ELSE crowded
  BY DEF IInv, OpsOK, Post, Operations, SameEvent

LEMMA RereadCopyFields ==
    ASSUME IInv, NEW i \in Ops, RereadCopy(i)
    PROVE  SameEvent(i) /\ op'[i].pc = "publishCopy" /\ op'[i].todo = op[i].todo /\ op'[i].to = op[i].to
  BY DEF IInv, OpsOK, RereadCopy, Operations, SameEvent

LEMMA RereadEditFields ==
    ASSUME IInv, NEW i \in Ops, RereadEdit(i)
    PROVE  \/ FailedPost(i)
           \/ SameEvent(i) /\ op'[i].pc = "publishEdit" /\ op'[i].todo = op[i].todo /\ op'[i].to = op[i].to
  <1> op \in [Ops -> Operations] /\ op[i] \in Operations
    BY DEF IInv, OpsOK
  <1>1. ASSUME NEW u \in Copies(op[i].msg), NEW b,
               op' = [op EXCEPT ![i].pc = "publishEdit", ![i].row = u, ![i].read = b]
        PROVE  SameEvent(i) /\ op'[i].pc = "publishEdit" /\ op'[i].todo = op[i].todo /\ op'[i].to = op[i].to
    BY <1>1 DEF Operations, SameEvent
  <1> QED
    BY <1>1 DEF RereadEdit

LEMMA FindFields ==
    ASSUME IInv, NEW i \in Ops, Find(i)
    PROVE  \/ Answered(i) /\ \A u \in Copies(op[i].msg) : copy[op[i].msg][u].deleted
           \/ /\ SameEvent(i) /\ op'[i].pc = "markCopy" /\ op'[i].todo = op[i].todo /\ op'[i].to = op[i].to
              /\ op'[i].row \in Copies(op[i].msg) /\ ~copy[op[i].msg][op'[i].row].deleted
  <1> op \in [Ops -> Operations] /\ op[i] \in Operations
    BY DEF IInv, OpsOK
  <1>1. ASSUME NEW u \in Recipients, op' = [op EXCEPT ![i].pc = "markCopy", ![i].row = u]
        PROVE  SameEvent(i) /\ op'[i].pc = "markCopy" /\ op'[i].todo = op[i].todo /\ op'[i].to = op[i].to
               /\ op'[i].row = u
    BY <1>1 DEF Operations, SameEvent
  <1> QED
    BY <1>1 DEF Find, Copies

-----------------------------------------------------------------------------
(* A post that fails fails for its recipient alone.                         *)

\* The operation that has sent the message has the post to u before it.
ToCopy == {"mirror", "newMirror", "direct", "newDirect", "insertCopy"}
Coming(q, m, u) ==
    /\ q.kind = "message" /\ q.msg = m
    /\ q.pc \in {"reread", "publish", "recipients"} \/ u \in q.todo \/ (q.pc \in ToCopy /\ q.to = u)
Reaches(m, u) ==
    \/ copy[m][u].there
    \/ <<m, u>> \in failed
    \/ \E i \in Ops : Coming(op[i], m, u)

IsolatedInv ==
    \A m \in Msgs, u \in Recipients : msg[m].there /\ m \notin disturbed => Reaches(m, u)

LEMMA InsertedCopy ==
    ASSUME IInv, NEW i \in Ops, InsertCopy(i)
    PROVE  \A m \in Msgs, u \in Recipients :
             copy'[m][u] = IF m = op[i].msg /\ u = op[i].to
                           THEN [NoRow EXCEPT !.there = TRUE, !.body = op[i].body]
                           ELSE copy[m][u]
  BY DEF InsertCopy, IInv, CopiesOK

LEMMA UpdatedCopies ==
    ASSUME IInv, NEW i \in Ops, UpdateCopies(i)
    PROVE  \A m \in Msgs, u \in Recipients :
             copy'[m][u] = IF m = op[i].msg /\ copy[m][u].there
                           THEN [copy[m][u] EXCEPT !.body = op[i].body, !.original = op[i].original]
                           ELSE copy[m][u]
  BY DEF UpdateCopies, IInv, CopiesOK, Copies

LEMMA MarkedCopy ==
    ASSUME IInv, NEW i \in Ops, MarkCopy(i)
    PROVE  \A m \in Msgs, u \in Recipients :
             copy'[m][u] = IF m = op[i].msg /\ u = op[i].row
                           THEN [copy[m][u] EXCEPT !.deleted = TRUE]
                           ELSE copy[m][u]
  BY DEF MarkCopy, IInv, CopiesOK

\* A copy that is there stays there.
LEMMA CopiesStay ==
    ASSUME IInv, NEW i \in Ops, Step(i) \/ Abandon(i) \/ Lose(i), NEW m \in Msgs, NEW u \in Recipients,
           copy[m][u].there
    PROVE  copy'[m][u].there
  <1>0. copy[m][u] \in Rows
    BY DEF IInv, CopiesOK
  <1>1. CASE InsertCopy(i)
    BY <1>1, InsertedCopy DEF NoRow
  <1>2. CASE UpdateCopies(i)
    <2>1. copy'[m][u] \in {[copy[m][u] EXCEPT !.body = op[i].body, !.original = op[i].original], copy[m][u]}
      BY <1>2, UpdatedCopies
    <2>2. [copy[m][u] EXCEPT !.body = op[i].body, !.original = op[i].original].there = copy[m][u].there
      BY <1>0 DEF Rows
    <2> QED
      BY <2>1, <2>2
  <1>3. CASE MarkCopy(i)
    <2>1. copy'[m][u] \in {[copy[m][u] EXCEPT !.deleted = TRUE], copy[m][u]}
      BY <1>3, MarkedCopy
    <2>2. [copy[m][u] EXCEPT !.deleted = TRUE].there = copy[m][u].there
      BY <1>0 DEF Rows
    <2> QED
      BY <2>1, <2>2
  <1>4. CASE copy' = copy
    BY <1>4
  <1> QED
    BY <1>1, <1>2, <1>3, <1>4
       DEF Step, HandlerStep, TaskStep, InboxStep, Abandon, Lose, homeVars, remoteVars,
           InsertMessage, EditCheck, UpdateMessage, Reread, DeleteCheck, Mark, Publish, Post, EndTask,
           ListRecipients, RecipientsUnknown, history,
           SelectMirror, InsertMirror, SelectDirect, CreateDirect, RereadCopy, PublishCopy,
           RereadEdit, PublishEdit, Find, PublishDelete

\* What the step of the sender itself does to the post.
LEMMA PostGoesOn ==
    ASSUME IInv, NEW i \in Ops, Step(i) \/ Abandon(i) \/ Lose(i), NEW u \in Recipients,
           NEW m \in Msgs, op[i].msg = m, Coming(op[i], m, u)
    PROVE  m \in disturbed' \/ copy'[m][u].there \/ <<m, u>> \in failed' \/ Coming(op'[i], m, u)
  <1> USE DEF Coming, ToCopy, At
  <1>0. op[i].kind = "message" /\ op[i].pc \notin {"editCheck", "update", "deleteCheck", "mark"}
        /\ op[i].pc \notin EditStages \cup {"find", "markCopy", "publishDelete"}
    BY Reached DEF Stage, DeleteStages, EditStages
  <1>1. CASE InsertMessage(i)
    BY <1>1, GotoFields DEF InsertMessage, Handler
  <1>2. CASE Reread(i)
    BY <1>2, RereadFields DEF Reread
  <1>3. CASE Publish(i)
    BY <1>3, PublishFields DEF SameEvent
  <1>4. CASE Post(i)
    BY <1>4, PostFields DEF SameEvent, Post
  <1>5. CASE EndTask(i)
    BY <1>5 DEF EndTask
  <1>6. CASE SelectMirror(i)
    BY <1>0, <1>6, AfterMirrorCases, GotoFields, AnsweredFields, FailedFields
       DEF SelectMirror, Inbox, FailedPost
  <1>7. CASE InsertMirror(i)
    BY <1>0, <1>7, AfterMirrorCases, GotoFields, AnsweredFields, FailedFields
       DEF InsertMirror, Inbox, FailedPost
  <1>8. CASE SelectDirect(i)
    BY <1>8, GotoFields DEF SelectDirect, Inbox
  <1>9. CASE CreateDirect(i)
    BY <1>9, GotoFields DEF CreateDirect, Inbox
  <1>10. CASE InsertCopy(i)
    <2>1. CASE op[i].to = u
      BY <1>10, <2>1 DEF InsertCopy, NoRow, IInv, CopiesOK
    <2>2. CASE op[i].to # u
      BY <1>10, <2>2, GotoFields DEF InsertCopy, Inbox
    <2> QED
      BY <2>1, <2>2
  <1>11. CASE RereadCopy(i)
    BY <1>11, RereadCopyFields DEF RereadCopy, SameEvent
  <1>12. CASE PublishCopy(i)
    BY <1>12, AnsweredFields DEF PublishCopy
  <1>13. CASE Abandon(i)
    BY <1>13 DEF Abandon
  <1>14. CASE Lose(i)
    BY <1>14, AnsweredFields, FailedFields DEF Lose, FailedPost, Inbox
  <1>15. CASE ListRecipients(i)
    BY <1>15, ListRecipientsFields DEF SameEvent
  <1>16. CASE RecipientsUnknown(i)
    BY <1>16 DEF RecipientsUnknown
  <1>17. CASE EditCheck(i) \/ UpdateMessage(i) \/ DeleteCheck(i) \/ Mark(i)
              \/ UpdateCopies(i) \/ RereadEdit(i) \/ PublishEdit(i) \/ Find(i) \/ MarkCopy(i) \/ PublishDelete(i)
    BY <1>0, <1>17
       DEF EditCheck, UpdateMessage, DeleteCheck, Mark, UpdateCopies, RereadEdit, PublishEdit, Find,
           MarkCopy, PublishDelete, EditStages
  <1> QED
    BY <1>1, <1>2, <1>3, <1>4, <1>5, <1>6, <1>7, <1>8, <1>9, <1>10, <1>11, <1>12, <1>13, <1>14, <1>15,
       <1>16, <1>17 DEF Step, HandlerStep, TaskStep, InboxStep

LEMMA IsolatedStep ==
    ASSUME IInv, IsolatedInv, NEW i \in Ops, Step(i) \/ Abandon(i) \/ Lose(i)
    PROVE  IsolatedInv'
  <1> SUFFICES ASSUME NEW m \in Msgs, NEW u \in Recipients, msg'[m].there, m \notin disturbed'
               PROVE  Reaches(m, u)'
    BY DEF IsolatedInv
  <1>1. OnlyAbout(i)
    BY StepIsLocal
  <1>2. CASE msg[m].there
    <2>1. Reaches(m, u)
      BY <1>1, <1>2 DEF IsolatedInv, OnlyAbout
    <2>2. CASE copy[m][u].there \/ <<m, u>> \in failed
      BY <1>1, <2>2, CopiesStay DEF Reaches, OnlyAbout
    <2>3. ASSUME NEW j \in Ops, Coming(op[j], m, u) PROVE Reaches(m, u)'
      <3>1. CASE j = i
        BY <2>3, <3>1, PostGoesOn DEF Reaches, Coming
      <3>2. CASE j # i
        BY <1>1, <2>3, <3>2 DEF Reaches, OnlyAbout
      <3> QED
        BY <3>1, <3>2
    <2> QED
      BY <2>1, <2>2, <2>3 DEF Reaches
  <1>3. CASE ~msg[m].there
    <2>1. op[i].msg = m
      BY <1>1, <1>3 DEF OnlyAbout
    <2>2. op[i].pc = "insert"
      <3>1. op[i].pc \in {"insert", "idle", "done"}
        BY <1>3, <2>1, Reached DEF Stage
      <3> QED
        BY <3>1, StepIsLocal DEF Running
    <2>3. CASE InsertMessage(i)
      BY <2>1, <2>3, GotoFields, Reached DEF InsertMessage, Handler, Reaches, Coming, At, Stage
    <2>4. CASE Abandon(i)
      BY <2>1, <2>4 DEF Abandon
    <2> QED
      BY <2>2, <2>3, <2>4
         DEF Step, HandlerStep, TaskStep, InboxStep, Lose, At, Inbox,
             EditCheck, UpdateMessage, Reread, DeleteCheck, Mark, Publish, Post, EndTask,
             ListRecipients, RecipientsUnknown,
             SelectMirror, InsertMirror, SelectDirect, CreateDirect, InsertCopy, RereadCopy, PublishCopy,
             UpdateCopies, RereadEdit, PublishEdit, Find, MarkCopy, PublishDelete
  <1> QED
    BY <1>2, <1>3

\* deliver_outbound goes on after a failed post: once the operations on a message have
\* come to rest, every recipient has the copy or is one whose own post has failed, for any
\* number of recipients and whatever else runs at once.
THEOREM FailuresStayWithTheirPost == Spec => []FailuresAreIsolated
  <1>1. Init => Ended /\ IsolatedInv
    BY DEF Init, Ended, Idle, NoRow, Running, IsolatedInv
  <1>2. IInv /\ Ended /\ IsolatedInv /\ [Next]_vars => IsolatedInv'
    <2> SUFFICES ASSUME IInv, Ended, IsolatedInv, [Next]_vars PROVE IsolatedInv'
      OBVIOUS
    <2>1. ASSUME NEW i \in Ops, Call(i) PROVE IsolatedInv'
      <3> SUFFICES ASSUME NEW m \in Msgs, NEW u \in Recipients, msg'[m].there, m \notin disturbed'
                   PROVE  Reaches(m, u)'
        BY DEF IsolatedInv
      <3>1. PICK n \in Msgs : Started(i, n)
        BY <2>1, CallIsLocal
      <3>2. op[i].msg = None
        BY <3>1 DEF Started, Ended, Running, At
      <3>3. Reaches(m, u)
        BY <3>1 DEF Started, IsolatedInv
      <3> QED
        BY <3>1, <3>2, <3>3, ConstantsAssumption DEF Reaches, Coming, Started
    <2>2. CASE UNCHANGED vars
      BY <2>2 DEF vars, homeVars, remoteVars, history, IsolatedInv, Reaches
    <2> QED
      BY <2>1, <2>2, IsolatedStep DEF Next
  <1>3. IInv /\ Ended /\ IsolatedInv => FailuresAreIsolated
    <2> SUFFICES ASSUME IInv, Ended, IsolatedInv, NEW m \in Msgs, NEW u \in Recipients,
                        Settled(m), m \notin disturbed, msg[m].there
                 PROVE  copy[m][u].there \/ <<m, u>> \in failed
      BY DEF FailuresAreIsolated
    <2>1. \A i \in Ops : op[i].msg # m
      BY ConstantsAssumption DEF Settled, Ended
    <2> QED
      BY <2>1 DEF IsolatedInv, Reaches, Coming
  <1> QED
    BY <1>1, <1>2, <1>3, InitHolds, NextKeeps, EndedKept, PTL DEF Spec

-----------------------------------------------------------------------------
(* The conversation of the author's mirror and a recipient.                 *)

DirectOK(u) ==
    /\ \A i, j \in Ops : i # j /\ op[i].to = u => op[j].to # u
    /\ directs[u] <= 1
    /\ \A i \in Ops : op[i].to = u /\ op[i].pc = "newDirect" => directs[u] = 0
DirectInv == \A u \in Recipients \ crowded : DirectOK(u)

\* Which steps choose a recipient, look for a conversation, or create one.
LEMMA ToFate ==
    ASSUME IInv, NEW i \in Ops, Step(i) \/ Abandon(i) \/ Lose(i)
    PROVE  /\ \/ op'[i].to = op[i].to
              \/ op'[i].to = None
              \/ Post(i)
           /\ op'[i].pc = "newDirect" => SelectDirect(i)
           /\ directs' = directs \/ CreateDirect(i)
  <1> DEFINE Kept == (op'[i].to = op[i].to \/ op'[i].to = None) /\ op'[i].pc # "newDirect" /\ directs' = directs
  <1> USE DEF homeVars, remoteVars
  <1>1. CASE InsertMessage(i) \/ UpdateMessage(i) \/ Mark(i)
    BY <1>1, GotoFields DEF InsertMessage, UpdateMessage, Mark, Handler
  <1>2. CASE EditCheck(i) \/ DeleteCheck(i) \/ EndTask(i) \/ Abandon(i) \/ RecipientsUnknown(i)
    BY <1>2, EditCheckFields, GotoFields, EndFields
       DEF EditCheck, DeleteCheck, EndTask, Abandon, RecipientsUnknown, Handler
  <1>3. CASE Reread(i) \/ Publish(i) \/ ListRecipients(i)
    BY <1>3, RereadFields, PublishFields, ListRecipientsFields DEF Reread, Publish, ListRecipients
  <1>4. CASE Post(i)
    BY <1>4, PostFields DEF Post
  <1>5. CASE SelectMirror(i) \/ InsertMirror(i)
    BY <1>5, AfterMirrorCases, GotoFields, AnsweredFields DEF SelectMirror, InsertMirror, FailedPost, At, Inbox
  <1>6. CASE SelectDirect(i) \/ CreateDirect(i)
    BY <1>6, GotoFields DEF SelectDirect, CreateDirect, Inbox
  <1>7. CASE RereadCopy(i) \/ RereadEdit(i) \/ Find(i)
    BY <1>7, RereadCopyFields, RereadEditFields, FindFields, AnsweredFields
       DEF RereadCopy, RereadEdit, Find, FailedPost
  <1>8. CASE PublishCopy(i) \/ PublishEdit(i) \/ PublishDelete(i) \/ Lose(i)
    BY <1>8, AnsweredFields DEF PublishCopy, PublishEdit, PublishDelete, Lose, FailedPost
  <1>9. CASE InsertCopy(i) \/ UpdateCopies(i) \/ MarkCopy(i)
    <2>1. PICK stage \in {"rereadCopy", "rereadEdit", "publishDelete"} : Goto(i, stage)
      BY <1>9 DEF InsertCopy, UpdateCopies, MarkCopy
    <2>2. directs' = directs
      BY <1>9 DEF InsertCopy, UpdateCopies, MarkCopy
    <2> QED
      BY <2>1, <2>2, GotoFields DEF Inbox
  <1> QED
    BY <1>1, <1>2, <1>3, <1>4, <1>5, <1>6, <1>7, <1>8, <1>9 DEF Step, HandlerStep, TaskStep, InboxStep

LEMMA DirectStep ==
    ASSUME IInv, DirectInv, NEW i \in Ops, Step(i) \/ Abandon(i) \/ Lose(i)
    PROVE  DirectInv'
  <1> SUFFICES ASSUME NEW u \in Recipients \ crowded' PROVE DirectOK(u)'
    BY DEF DirectInv
  <1>1. OnlyAbout(i) /\ u # None
    BY StepIsLocal, ConstantsAssumption
  <1>2. DirectOK(u)
    BY <1>1 DEF OnlyAbout, DirectInv
  <1>3. \A j, k \in Ops : j # k /\ op'[j].to = u => op'[k].to # u
    <2>1. CASE op'[i].to = op[i].to \/ op'[i].to = None
      BY <1>1, <1>2, <2>1 DEF OnlyAbout, DirectOK
    <2>2. CASE Post(i)
      BY <1>1, <1>2, <2>2, PostFields DEF OnlyAbout, DirectOK
    <2> QED
      BY <2>1, <2>2, ToFate
  <1>4. directs'[u] <= 1 /\ \A j \in Ops : op'[j].to = u /\ op'[j].pc = "newDirect" => directs'[u] = 0
    <2>1. CASE CreateDirect(i)
      <3>1. op'[i].pc = "insertCopy" /\ op'[i].to = op[i].to
        BY <2>1, GotoFields DEF CreateDirect, Inbox
      <3>2. CASE op[i].to = u
        <4>1. directs[u] = 0 /\ directs'[u] = 1
          BY <1>2, <2>1, <3>2 DEF CreateDirect, DirectOK, At, IInv, RestOK
        <4> QED
          BY <1>3, <3>1, <3>2, <4>1
      <3>3. CASE op[i].to # u
        BY <1>1, <1>2, <2>1, <3>1, <3>3 DEF CreateDirect, DirectOK, OnlyAbout, IInv, RestOK
      <3> QED
        BY <3>2, <3>3
    <2>2. CASE SelectDirect(i)
      <3>1. op'[i].to = op[i].to /\ (op'[i].pc = "newDirect" => ~(directs[op[i].to] > 0))
        BY <2>2, GotoFields DEF SelectDirect, Inbox
      <3> QED
        BY <1>1, <1>2, <2>2, <3>1 DEF SelectDirect, DirectOK, OnlyAbout, remoteVars, IInv, RestOK
    <2>3. CASE directs' = directs /\ op'[i].pc # "newDirect"
      BY <1>1, <1>2, <2>3 DEF DirectOK, OnlyAbout
    <2> QED
      BY <2>1, <2>2, <2>3, ToFate
  <1> QED
    BY <1>3, <1>4 DEF DirectOK

\* ensure_direct_conversation: the mirror and a recipient have one conversation, until
\* the inbox has handled two posts for the recipient at once, for any number of messages
\* and recipients.
THEOREM ConversationIsOne == Spec => []OneDirectConversation
  <1>1. Init => DirectInv
    <2> SUFFICES ASSUME Init PROVE DirectInv
      OBVIOUS
    <2>1. \A i \in Ops : op[i].to = None
      BY DEF Init, Idle
    <2> QED
      BY <2>1, ConstantsAssumption DEF Init, DirectInv, DirectOK
  <1>2. IInv /\ DirectInv /\ [Next]_vars => DirectInv'
    <2> SUFFICES ASSUME IInv, DirectInv, [Next]_vars PROVE DirectInv'
      OBVIOUS
    <2>1. ASSUME NEW i \in Ops, Call(i) PROVE DirectInv'
      <3>1. PICK n \in Msgs : Started(i, n)
        BY <2>1, CallIsLocal
      <3> QED
        BY <3>1, ConstantsAssumption DEF Started, DirectInv, DirectOK
    <2>2. CASE UNCHANGED vars
      BY <2>2 DEF vars, remoteVars, history, DirectInv, DirectOK
    <2> QED
      BY <2>1, <2>2, DirectStep DEF Next
  <1>3. DirectInv => OneDirectConversation
    BY DEF DirectInv, DirectOK, OneDirectConversation
  <1> QED
    BY <1>1, <1>2, <1>3, InitHolds, NextKeeps, PTL DEF Spec

-----------------------------------------------------------------------------
(* A message nothing has disturbed: what holds of its copies, and of what   *)
(* the clients show, at every stage of the one operation about it.          *)

Calm(m) == m \notin disturbed /\ \A u \in Recipients : <<m, u>> \notin failed
InTask == {"recipients", "next"} \cup Inbox

Shown(m) == IF msg[m].deleted THEN None ELSE msg[m].body
Synced(m) == home[m] = Shown(m) /\ \A u \in Recipients : copy[m][u] = msg[m]

\* The copies still to be made are those of the posts that have not come so far.
Fresh(m) == msg[m].there /\ msg[m].original = None /\ ~msg[m].deleted
Copied(q, m, u) ==
    copy[m][u] = msg[m] \/ q.pc = "recipients" \/ u \in q.todo \/ (q.pc \in ToCopy /\ q.to = u)
Sending(q, m) ==
    /\ \A u \in Recipients : ~copy[m][u].deleted
    /\ q.pc # "insert" => Fresh(m)
    /\ q.pc \in {"reread", "publish"} => home[m] = None
    /\ q.pc \in {"publish"} \cup InTask => q.body = msg[m].body
    /\ q.pc \in InTask => home[m] = Shown(m) /\ \A u \in Recipients : Copied(q, m, u)

\* The first post of an edit updates the copies of all recipients.
SameFate(m) == \A u \in Recipients : copy[m][u].there /\ copy[m][u].deleted = msg[m].deleted
Updated(q, m) ==
    \/ \A u \in Recipients : copy[m][u] = msg[m]
    \/ q.pc \in {"recipients", "mirror", "newMirror", "updateCopies"}
    \/ q.pc = "next" /\ q.todo = Recipients
Editing(q, m) ==
    /\ q.pc \in {"editCheck", "update"} => Synced(m)
    /\ SameFate(m)
    /\ q.pc \in {"reread", "publish"} => (home[m] = None <=> msg[m].deleted)
    /\ q.pc \in {"publish"} \cup InTask => q.body = msg[m].body /\ q.original = msg[m].original
    /\ q.pc \in InTask => home[m] = Shown(m) /\ Updated(q, m)

\* Every post of a delete finds another copy that is left, so there are no more of
\* those than of posts to come.
SameText(m) == \A u \in Recipients :
    /\ copy[m][u].there = msg[m].there
    /\ copy[m][u].body = msg[m].body
    /\ copy[m][u].original = msg[m].original
Live(m) == {u \in Recipients : ~copy[m][u].deleted}
PostsLeft(q) ==
    IF q.pc = "recipients" THEN Cardinality(Recipients)
    ELSE Cardinality(q.todo) + (IF q.pc \in {"mirror", "newMirror", "find", "markCopy"} THEN 1 ELSE 0)
Deleting(q, m) ==
    /\ q.pc \in {"deleteCheck", "mark"} => Synced(m)
    /\ SameText(m)
    /\ q.pc \in {"publish"} \cup InTask => msg[m].deleted
    /\ q.pc \in InTask => home[m] = None /\ Cardinality(Live(m)) <= PostsLeft(q)
    /\ q.pc = "markCopy" => q.row \in Live(m)

About(q, m) ==
    /\ q.kind = "message" => Sending(q, m)
    /\ q.kind = "message_edit" => Editing(q, m)
    /\ q.kind = "message_delete" => Deleting(q, m)

\* No client shows a copy that is deleted, but for the one being published.
Silent(m) == \A u \in Recipients : copy[m][u].deleted =>
    \/ remote[m][u] = None
    \/ \E i \in Ops : op[i].msg = m /\ op[i].pc = "publishDelete" /\ op[i].row = u

CalmOK(m) ==
    /\ \A i, j \in Ops : i # j /\ op[i].msg = m => op[j].msg # m
    /\ ~msg[m].there => home[m] = None /\ \A u \in Recipients : ~copy[m][u].deleted
    /\ Silent(m)
    /\ msg[m].there /\ (\A i \in Ops : op[i].msg # m) => Synced(m)
    /\ \A i \in Ops : op[i].msg = m => About(op[i], m)
CalmInv == \A m \in Msgs : Calm(m) => CalmOK(m)

LEMMA EqualRows ==
    ASSUME NEW a \in Rows, NEW b \in Rows, a.there = b.there, a.body = b.body,
           a.original = b.original, a.deleted = b.deleted
    PROVE  a = b
  BY DEF Rows

\* The message of another operation.
LEMMA CalmElsewhere ==
    ASSUME NEW m \in Msgs, CalmOK(m), NEW i \in Ops, op[i].msg # m, op'[i].msg # m,
           \A j \in Ops \ {i} : op'[j] = op[j],
           msg'[m] = msg[m], home'[m] = home[m], copy'[m] = copy[m], remote'[m] = remote[m]
    PROVE  CalmOK(m)'
  <1>1. \A j \in Ops : op'[j].msg = m => j # i
    OBVIOUS
  <1>2. Shown(m)' = Shown(m) /\ (Synced(m) => Synced(m)') /\ (Fresh(m) <=> Fresh(m)') /\ Live(m)' = Live(m)
    BY DEF Shown, Synced, Fresh, Live
  <1>3. (SameFate(m) => SameFate(m)') /\ (SameText(m) => SameText(m)')
    BY DEF SameFate, SameText
  <1>4. ASSUME NEW j \in Ops, op'[j].msg = m PROVE About(op[j], m)'
    <2>1. op'[j] = op[j] /\ About(op[j], m)
      BY <1>1, <1>4 DEF CalmOK
    <2>2. Sending(op[j], m) => Sending(op[j], m)'
      BY <1>2, <2>1 DEF Sending, Copied
    <2>3. Editing(op[j], m) => Editing(op[j], m)'
      BY <1>2, <1>3, <2>1 DEF Editing, Updated
    <2>4. Deleting(op[j], m) => Deleting(op[j], m)'
      BY <1>2, <1>3, <2>1 DEF Deleting, PostsLeft
    <2> QED
      BY <2>1, <2>2, <2>3, <2>4 DEF About
  <1>5. Silent(m)'
    BY <1>1 DEF CalmOK, Silent
  <1>6. \A j, k \in Ops : j # k /\ op'[j].msg = m => op'[k].msg # m
    BY <1>1 DEF CalmOK
  <1>7. (\A j \in Ops : op'[j].msg # m) => \A j \in Ops : op[j].msg # m
    BY <1>1
  <1> QED
    BY <1>2, <1>4, <1>5, <1>6, <1>7 DEF CalmOK

\* The message of the operation itself: what one step needs to know and to show.
Own(i, m) == IInv /\ CalmOK(m) /\ op[i].msg = m
Hidden(m) == \A u \in Recipients : copy'[m][u].deleted => remote'[m][u] = None

LEMMA OwnFacts ==
    ASSUME NEW i \in Ops, NEW m \in Msgs, Own(i, m)
    PROVE  /\ op \in [Ops -> Operations] /\ op[i] \in Operations /\ op[i].kind \in Kinds \cup {None}
           /\ msg[m] \in Rows /\ (\A u \in Recipients : copy[m][u] \in Rows) /\ About(op[i], m)
           /\ \A j \in Ops \ {i} : op[j].msg # m
  BY DEF Own, CalmOK, IInv, OpsOK, Operations, RowsOK, CopiesOK, Kinds

LEMMA OwnGoesOn ==
    ASSUME NEW i \in Ops, NEW m \in Msgs, Own(i, m), \A j \in Ops \ {i} : op'[j] = op[j],
           op'[i].msg = m, About(op[i], m)', Silent(m)', msg'[m].there
    PROVE  CalmOK(m)'
  BY OwnFacts DEF CalmOK

LEMMA OwnEnds ==
    ASSUME NEW i \in Ops, NEW m \in Msgs, Own(i, m), \A j \in Ops \ {i} : op'[j] = op[j],
           op'[i].msg = None, Synced(m)', Silent(m)', msg'[m].there
    PROVE  CalmOK(m)'
  <1>1. \A j \in Ops : op'[j].msg # m
    BY OwnFacts, ConstantsAssumption
  <1> QED
    BY <1>1 DEF CalmOK

\* A step that writes no copy and tells no client of a recipient.
LEMMA StaysSilent ==
    ASSUME NEW i \in Ops, NEW m \in Msgs, Own(i, m), op[i].pc # "publishDelete",
           copy' = copy, remote' = remote
    PROVE  Silent(m)'
  BY OwnFacts DEF Own, CalmOK, Silent

-----------------------------------------------------------------------------
(* The handlers and the task.                                               *)

LEMMA InsertCalm ==
    ASSUME NEW i \in Ops, NEW m \in Msgs, Own(i, m), InsertMessage(i) PROVE CalmOK(m)'
  <1> DEFINE row == [NoRow EXCEPT !.there = TRUE, !.body = op[i].body]
  <1>1. op[i].pc = "insert" /\ op[i].kind = "message" /\ ~msg[m].there
    BY Reached DEF InsertMessage, At, Stage, Own
  <1>2. row.there /\ row.original = None /\ ~row.deleted
    BY DEF NoRow
  <1>3. msg'[m] = row /\ home' = home /\ copy' = copy /\ remote' = remote
    BY DEF InsertMessage, Own, IInv, RowsOK, remoteVars
  <1>4. /\ \A j \in Ops \ {i} : op'[j] = op[j]
        /\ op'[i].pc = "reread" /\ op'[i].msg = m /\ op'[i].kind = "message"
    BY <1>1, GotoFields DEF InsertMessage, Handler, Own
  <1> HIDE DEF row
  <1>5. About(op[i], m)'
    <2>1. home[m] = None /\ \A u \in Recipients : ~copy[m][u].deleted
      BY <1>1 DEF Own, CalmOK
    <2> QED
      BY <1>2, <1>3, <1>4, <2>1 DEF About, Sending, Fresh, InTask, Inbox
  <1> QED
    BY <1>1, <1>2, <1>3, <1>4, <1>5, StaysSilent, OwnGoesOn

LEMMA EditCheckCalm ==
    ASSUME NEW i \in Ops, NEW m \in Msgs, Own(i, m), EditCheck(i) PROVE CalmOK(m)'
  <1>1. op[i].pc = "editCheck" /\ op[i].kind = "message_edit" /\ msg[m].there
    BY Reached DEF EditCheck, At, Stage, Own
  <1>2. UNCHANGED <<msg, home, copy, remote>>
    BY DEF EditCheck, homeVars, remoteVars
  <1>3. Synced(m) /\ SameFate(m)
    BY <1>1, OwnFacts DEF About, Editing
  <1>4. Synced(m)' /\ SameFate(m)'
    BY <1>2, <1>3 DEF Synced, SameFate, Shown
  <1>5. Silent(m)'
    BY <1>1, <1>2, StaysSilent
  <1>6. CASE End(i)
    BY <1>1, <1>2, <1>4, <1>5, <1>6, EndFields, OwnEnds DEF Own
  <1>7. CASE ~End(i)
    <2>1. /\ \A j \in Ops \ {i} : op'[j] = op[j]
          /\ op'[i].pc = "update" /\ op'[i].msg = m /\ op'[i].kind = "message_edit"
      BY <1>1, <1>7, EditCheckFields, HandlerIsLocal DEF Own, OnlyAbout, HandlerStep
    <2>2. About(op[i], m)'
      BY <1>4, <2>1 DEF About, Editing, InTask, Inbox
    <2> QED
      BY <1>1, <1>2, <1>5, <2>1, <2>2, OwnGoesOn
  <1> QED
    BY <1>6, <1>7

LEMMA UpdateCalm ==
    ASSUME NEW i \in Ops, NEW m \in Msgs, Own(i, m), UpdateMessage(i) PROVE CalmOK(m)'
  <1>1. op[i].pc = "update" /\ op[i].kind = "message_edit" /\ msg[m].there
    BY Reached DEF UpdateMessage, At, Stage, Own
  <1>2. msg'[m].there = msg[m].there /\ msg'[m].deleted = msg[m].deleted
        /\ UNCHANGED <<home, copy, remote>>
    <2>1. msg'[m] = [msg[m] EXCEPT !.body = op[i].body, !.original = op[i].original]
      BY DEF UpdateMessage, Own, IInv, RowsOK
    <2>2. /\ [msg[m] EXCEPT !.body = op[i].body, !.original = op[i].original].there = msg[m].there
          /\ [msg[m] EXCEPT !.body = op[i].body, !.original = op[i].original].deleted = msg[m].deleted
      BY OwnFacts DEF Rows
    <2>3. UNCHANGED <<home, copy, remote>>
      BY DEF UpdateMessage, remoteVars
    <2> QED
      BY <2>1, <2>2, <2>3
  <1>3. Synced(m) /\ SameFate(m)
    BY <1>1, OwnFacts DEF About, Editing
  <1>4. home[m] = None <=> msg[m].deleted
    <2>1. msg[m].body \in Texts
      BY <1>1 DEF Own, IInv, RowsOK, RowOK
    <2> QED
      BY <1>3, <2>1, ConstantsAssumption DEF Synced, Shown, Texts
  <1>5. /\ \A j \in Ops \ {i} : op'[j] = op[j]
        /\ op'[i].pc = "reread" /\ op'[i].msg = m /\ op'[i].kind = "message_edit"
    BY <1>1, GotoFields DEF UpdateMessage, Handler, Own
  <1>6. About(op[i], m)'
    BY <1>2, <1>3, <1>4, <1>5 DEF About, Editing, SameFate, InTask, Inbox
  <1> QED
    BY <1>1, <1>2, <1>5, <1>6, StaysSilent, OwnGoesOn

LEMMA RereadCalm ==
    ASSUME NEW i \in Ops, NEW m \in Msgs, Own(i, m), Reread(i) PROVE CalmOK(m)'
  <1>1. op[i].pc = "reread" /\ op[i].kind \in {"message", "message_edit"} /\ msg[m].there
    BY Reached DEF Reread, At, Stage, Own
  <1>2. UNCHANGED <<msg, home, copy, remote>>
    BY DEF Reread, homeVars, remoteVars
  <1>3. /\ \A j \in Ops \ {i} : op'[j] = op[j]
        /\ op'[i].pc = "publish" /\ op'[i].msg = m /\ op'[i].kind = op[i].kind
        /\ op'[i].body = msg[m].body /\ op'[i].original = msg[m].original
    BY <1>1, RereadFields, HandlerIsLocal DEF Own, OnlyAbout, HandlerStep
  <1>4. About(op[i], m)'
    <2>1. CASE op[i].kind = "message"
      BY <1>1, <1>2, <1>3, <2>1, OwnFacts DEF About, Sending, Fresh, InTask, Inbox
    <2>2. CASE op[i].kind = "message_edit"
      BY <1>1, <1>2, <1>3, <2>2, OwnFacts DEF About, Editing, SameFate, InTask, Inbox
    <2> QED
      BY <1>1, <2>1, <2>2
  <1> QED
    BY <1>1, <1>2, <1>3, <1>4, StaysSilent, OwnGoesOn

LEMMA DeleteCheckCalm ==
    ASSUME NEW i \in Ops, NEW m \in Msgs, Own(i, m), DeleteCheck(i) PROVE CalmOK(m)'
  <1>1. op[i].pc = "deleteCheck" /\ op[i].kind = "message_delete" /\ msg[m].there
    BY Reached DEF DeleteCheck, At, Stage, DeleteStages, Own
  <1>2. UNCHANGED <<msg, home, copy, remote>>
    BY DEF DeleteCheck, homeVars, remoteVars
  <1>3. /\ \A j \in Ops \ {i} : op'[j] = op[j]
        /\ op'[i].pc = "mark" /\ op'[i].msg = m /\ op'[i].kind = "message_delete"
    BY <1>1, GotoFields DEF DeleteCheck, Handler, Own
  <1>4. About(op[i], m)'
    BY <1>1, <1>2, <1>3, OwnFacts DEF About, Deleting, Synced, Shown, SameText, InTask, Inbox
  <1> QED
    BY <1>1, <1>2, <1>3, <1>4, StaysSilent, OwnGoesOn

LEMMA MarkCalm ==
    ASSUME NEW i \in Ops, NEW m \in Msgs, Own(i, m), Mark(i) PROVE CalmOK(m)'
  <1>1. op[i].pc = "mark" /\ op[i].kind = "message_delete" /\ msg[m].there
    BY Reached DEF Mark, At, Stage, DeleteStages, Own
  <1>2. /\ msg'[m].there = msg[m].there /\ msg'[m].body = msg[m].body
        /\ msg'[m].original = msg[m].original /\ msg'[m].deleted
        /\ UNCHANGED <<home, copy, remote>>
    <2>1. msg'[m] = [msg[m] EXCEPT !.deleted = TRUE]
      BY DEF Mark, Own, IInv, RowsOK
    <2> QED
      BY <2>1, OwnFacts DEF Mark, Rows, remoteVars
  <1>3. /\ \A j \in Ops \ {i} : op'[j] = op[j]
        /\ op'[i].pc = "publish" /\ op'[i].msg = m /\ op'[i].kind = "message_delete"
    BY <1>1, GotoFields DEF Mark, Handler, Own
  <1>4. About(op[i], m)'
    BY <1>1, <1>2, <1>3, OwnFacts DEF About, Deleting, SameText, InTask, Inbox
  <1> QED
    BY <1>1, <1>2, <1>3, <1>4, StaysSilent, OwnGoesOn

LEMMA PublishCalm ==
    ASSUME NEW i \in Ops, NEW m \in Msgs, Own(i, m), Publish(i) PROVE CalmOK(m)'
  <1>1. op[i].pc = "publish" /\ op[i].kind \in Kinds /\ msg[m].there
    BY Reached DEF Publish, At, Stage, Going, Own
  <1>2. UNCHANGED <<msg, copy, remote>>
    BY DEF Publish, remoteVars
  <1>3. /\ \A j \in Ops \ {i} : op'[j] = op[j]
        /\ op'[i].pc = "recipients" /\ op'[i].msg = m /\ op'[i].kind = op[i].kind
        /\ op'[i].body = op[i].body /\ op'[i].original = op[i].original
    BY <1>1, PublishFields, HandlerIsLocal DEF Own, OnlyAbout, HandlerStep, SameEvent
  <1>4. home'[m] = CASE op[i].kind = "message" -> Pushed(home[m], op[i].body)
                     [] op[i].kind = "message_edit" -> Replaced(home[m], op[i].body)
                     [] op[i].kind = "message_delete" -> None
    BY DEF Publish, Own, IInv, RestOK
  <1>5. About(op[i], m)'
    <2>1. CASE op[i].kind = "message"
      <3>1. home'[m] = op[i].body
        BY <1>1, <1>4, <2>1, OwnFacts DEF About, Sending, Pushed
      <3> QED
        BY <1>1, <1>2, <1>3, <2>1, <3>1, OwnFacts DEF About, Sending, Fresh, Shown, Copied, InTask
    <2>2. CASE op[i].kind = "message_edit"
      <3>1. home'[m] = Shown(m)
        BY <1>1, <1>4, <2>2, OwnFacts DEF About, Editing, Replaced, Shown
      <3> QED
        BY <1>1, <1>2, <1>3, <2>2, <3>1, OwnFacts DEF About, Editing, SameFate, Shown, Updated
    <2>3. CASE op[i].kind = "message_delete"
      <3>1. home'[m] = None
        BY <1>1, <1>4, <2>3
      <3>2. /\ Live(m) \subseteq Recipients /\ Live(m)' = Live(m)
            /\ Cardinality(Live(m)) <= Cardinality(Recipients) /\ Cardinality(Recipients) \in Nat
        BY <1>2, FS_Subset, FS_CardinalityType, ConstantsAssumption DEF Live
      <3>3. PostsLeft(op[i])' = Cardinality(Recipients)
        BY <1>3, <3>2 DEF PostsLeft
      <3> QED
        BY <1>1, <1>2, <1>3, <2>3, <3>1, <3>2, <3>3, OwnFacts DEF About, Deleting, SameText
    <2> QED
      BY <1>1, <2>1, <2>2, <2>3 DEF Kinds
  <1> QED
    BY <1>1, <1>2, <1>3, <1>5, StaysSilent, OwnGoesOn

LEMMA TodoFinite ==
    ASSUME IInv, NEW i \in Ops
    PROVE  op[i].todo \subseteq Recipients /\ IsFiniteSet(op[i].todo) /\ Cardinality(op[i].todo) \in Nat
  <1>1. op[i].todo \subseteq Recipients
    BY Reached DEF Operations
  <1> QED
    BY <1>1, FS_Subset, FS_CardinalityType, ConstantsAssumption

LEMMA LiveFinite ==
    ASSUME NEW m \in Msgs
    PROVE  Live(m) \subseteq Recipients /\ IsFiniteSet(Live(m)) /\ Cardinality(Live(m)) \in Nat
  BY FS_Subset, FS_CardinalityType, ConstantsAssumption DEF Live

LEMMA ListRecipientsCalm ==
    ASSUME NEW i \in Ops, NEW m \in Msgs, Own(i, m), ListRecipients(i) PROVE CalmOK(m)'
  <1>1. op[i].pc = "recipients" /\ op[i].kind \in Kinds /\ msg[m].there
    BY Reached DEF ListRecipients, At, Stage, Going, Own
  <1>2. UNCHANGED <<msg, home, copy, remote>>
    BY DEF ListRecipients, homeVars, remoteVars
  <1>3. SameEvent(i) /\ op'[i].pc = "next" /\ op'[i].todo = Recipients
    BY ListRecipientsFields DEF Own
  <1>4. \A j \in Ops \ {i} : op'[j] = op[j]
    BY TaskIsLocal DEF Own, OnlyAbout, TaskStep
  <1>5. About(op[i], m)'
    <2>1. CASE op[i].kind = "message"
      BY <1>1, <1>2, <1>3, <2>1, OwnFacts
         DEF Own, About, Sending, SameEvent, Fresh, Shown, Copied, InTask
    <2>2. CASE op[i].kind = "message_edit"
      BY <1>1, <1>2, <1>3, <2>2, OwnFacts
         DEF Own, About, Editing, SameEvent, SameFate, Shown, Updated, InTask
    <2>3. CASE op[i].kind = "message_delete"
      <3>1. Cardinality(Recipients) \in Nat
        BY FS_CardinalityType, ConstantsAssumption
      <3>2. PostsLeft(op[i])' = PostsLeft(op[i]) /\ Live(m)' = Live(m)
        BY <1>1, <1>2, <1>3, <3>1 DEF PostsLeft, Live
      <3> QED
        BY <1>1, <1>2, <1>3, <2>3, <3>2, OwnFacts DEF Own, About, Deleting, SameEvent, SameText, InTask
    <2> QED
      BY <1>1, <2>1, <2>2, <2>3 DEF Kinds
  <1> QED
    BY <1>1, <1>2, <1>3, <1>4, <1>5, StaysSilent, OwnGoesOn DEF SameEvent, Own

LEMMA PostCalm ==
    ASSUME NEW i \in Ops, NEW m \in Msgs, Own(i, m), Post(i) PROVE CalmOK(m)'
  <1>1. op[i].pc = "next" /\ op[i].kind \in Kinds /\ msg[m].there
    BY Reached DEF Post, At, Stage, Going, Own
  <1>2. UNCHANGED <<msg, home, copy, remote>>
    BY DEF Post, homeVars, remoteVars
  <1>3. PICK u \in op[i].todo :
          /\ SameEvent(i) /\ op'[i].pc = "mirror" /\ op'[i].todo = op[i].todo \ {u} /\ op'[i].to = u
    BY PostFields DEF Own
  <1>4. \A j \in Ops \ {i} : op'[j] = op[j]
    BY TaskIsLocal DEF Own, OnlyAbout, TaskStep
  <1>5. About(op[i], m)'
    <2>1. CASE op[i].kind = "message"
      BY <1>1, <1>2, <1>3, <2>1, OwnFacts
         DEF Own, About, Sending, SameEvent, Fresh, Shown, Copied, ToCopy, InTask, Inbox
    <2>2. CASE op[i].kind = "message_edit"
      BY <1>1, <1>2, <1>3, <2>2, OwnFacts
         DEF Own, About, Editing, SameEvent, SameFate, Shown, Updated, InTask, Inbox
    <2>3. CASE op[i].kind = "message_delete"
      <3>1. Cardinality(op[i].todo \ {u}) = Cardinality(op[i].todo) - 1
        BY TodoFinite, FS_RemoveElement DEF Own
      <3>2. PostsLeft(op[i])' = PostsLeft(op[i])
        BY <1>1, <1>3, <3>1, TodoFinite DEF PostsLeft, Own
      <3>3. Live(m)' = Live(m)
        BY <1>2 DEF Live
      <3> QED
        BY <1>1, <1>2, <1>3, <2>3, <3>2, <3>3, OwnFacts
           DEF Own, About, Deleting, SameEvent, SameText, InTask, Inbox
    <2> QED
      BY <1>1, <2>1, <2>2, <2>3 DEF Kinds
  <1> QED
    BY <1>1, <1>2, <1>3, <1>4, <1>5, StaysSilent, OwnGoesOn DEF SameEvent, Own

\* When the task ends there is nothing left to be posted: the copies are the message.
LEMMA EndTaskCalm ==
    ASSUME NEW i \in Ops, NEW m \in Msgs, Own(i, m), EndTask(i) PROVE CalmOK(m)'
  <1>1. op[i].pc = "next" /\ op[i].kind \in Kinds /\ msg[m].there /\ op[i].todo = {}
    BY Reached DEF EndTask, At, Stage, Going, Own
  <1>2. UNCHANGED <<msg, home, copy, remote>>
    BY DEF EndTask, homeVars, remoteVars
  <1>3. (\A j \in Ops \ {i} : op'[j] = op[j]) /\ op'[i].msg = None
    BY EndFields DEF EndTask, Own
  <1>4. Synced(m)
    <2>1. CASE op[i].kind = "message"
      BY <1>1, <2>1, OwnFacts DEF About, Sending, Copied, ToCopy, InTask, Synced
    <2>2. CASE op[i].kind = "message_edit"
      BY <1>1, <2>2, OwnFacts DEF About, Editing, Updated, InTask, Synced
    <2>3. CASE op[i].kind = "message_delete"
      <3>1. Deleting(op[i], m)
        BY <2>3, OwnFacts DEF About
      <3>2. PostsLeft(op[i]) = 0
        BY <1>1, FS_EmptySet DEF PostsLeft
      <3>3. Live(m) = {}
        BY <1>1, <3>1, <3>2, LiveFinite, FS_EmptySet DEF Deleting, InTask
      <3>4. msg[m].deleted /\ home[m] = None
        BY <1>1, <3>1 DEF Deleting, InTask
      <3>5. ASSUME NEW u \in Recipients PROVE copy[m][u] = msg[m]
        <4>1. copy[m][u].deleted = TRUE /\ msg[m].deleted = TRUE
          BY <3>3, <3>4, OwnFacts DEF Live, Rows
        <4> QED
          BY <3>1, <4>1, OwnFacts, EqualRows DEF Deleting, SameText
      <3> QED
        BY <3>4, <3>5 DEF Synced, Shown
    <2> QED
      BY <1>1, <2>1, <2>2, <2>3 DEF Kinds
  <1>5. Synced(m)'
    BY <1>2, <1>4 DEF Synced, Shown
  <1> QED
    BY <1>1, <1>2, <1>3, <1>5, StaysSilent, OwnEnds

-----------------------------------------------------------------------------
(* The inbox.                                                               *)

\* An operation that goes on keeps the field facts of a plain Goto.
LEMMA InboxGoes ==
    ASSUME NEW i \in Ops, NEW m \in Msgs, Own(i, m), NEW stage \in Inbox, Goto(i, stage)
    PROVE  /\ \A j \in Ops \ {i} : op'[j] = op[j]
           /\ op'[i].msg = m /\ op'[i].pc = stage /\ SameEvent(i)
           /\ op'[i].todo = op[i].todo /\ op'[i].to = op[i].to /\ op'[i].row = op[i].row
  BY GotoFields DEF Own, SameEvent

LEMMA InboxAnswers ==
    ASSUME NEW i \in Ops, NEW m \in Msgs, Own(i, m), Answered(i)
    PROVE  /\ \A j \in Ops \ {i} : op'[j] = op[j]
           /\ op'[i].msg = m /\ op'[i].pc = "next" /\ SameEvent(i) /\ op'[i].todo = op[i].todo
  BY AnsweredFields DEF Own, SameEvent

LEMMA FailedIsNotCalm ==
    ASSUME NEW i \in Ops, NEW m \in Msgs, Own(i, m), FailedPost(i), op[i].pc \in Inbox
    PROVE  ~Calm(m)'
  BY FailedFields DEF Own, Calm

\* The event after the mirror, and the mirror itself.
LEMMA MirrorCalm ==
    ASSUME NEW i \in Ops, NEW m \in Msgs, Own(i, m), SelectMirror(i) \/ InsertMirror(i), Calm(m)'
    PROVE  CalmOK(m)'
  <1>1. /\ op[i].pc \in {"mirror", "newMirror"} /\ op[i].kind \in Kinds /\ msg[m].there
        /\ op[i].pc \in Inbox
    BY Reached DEF SelectMirror, InsertMirror, At, Stage, Going, Own, Inbox
  <1>2. UNCHANGED <<msg, home, copy, remote>>
    BY DEF SelectMirror, InsertMirror, homeVars, remoteVars
  <1>3. \/ Goto(i, "newMirror")
        \/ op[i].kind = "message_edit" /\ Goto(i, "updateCopies")
        \/ op[i].kind = "message_delete" /\ Goto(i, "find")
        \/ op[i].kind = "message" /\ Goto(i, "direct")
    BY <1>1, FailedIsNotCalm, AfterMirrorCases DEF SelectMirror, InsertMirror, Own
  <1>4. PICK stage \in {"newMirror", "updateCopies", "find", "direct"} :
          /\ Goto(i, stage)
          /\ op[i].kind = "message" => stage \in {"newMirror", "direct"}
          /\ op[i].kind = "message_edit" => stage \in {"newMirror", "updateCopies"}
          /\ op[i].kind = "message_delete" => stage \in {"newMirror", "find"}
    BY <1>1, <1>3
  <1>5. stage \in Inbox
    BY DEF Inbox
  <1>6. /\ \A j \in Ops \ {i} : op'[j] = op[j]
        /\ op'[i].msg = m /\ op'[i].pc = stage /\ SameEvent(i)
        /\ op'[i].todo = op[i].todo /\ op'[i].to = op[i].to
    BY <1>4, <1>5, InboxGoes
  <1>7. About(op[i], m)'
    <2>1. CASE op[i].kind = "message"
      BY <1>1, <1>2, <1>4, <1>5, <1>6, <2>1, OwnFacts
         DEF About, Sending, SameEvent, Fresh, Shown, Copied, ToCopy, InTask
    <2>2. CASE op[i].kind = "message_edit"
      BY <1>1, <1>2, <1>4, <1>5, <1>6, <2>2, OwnFacts
         DEF About, Editing, SameEvent, SameFate, Shown, Updated, InTask
    <2>3. CASE op[i].kind = "message_delete"
      <3>1. PostsLeft(op[i])' = PostsLeft(op[i]) /\ Live(m)' = Live(m)
        BY <1>1, <1>2, <1>4, <1>6, <2>3 DEF PostsLeft, Live
      <3> QED
        BY <1>1, <1>2, <1>4, <1>5, <1>6, <2>3, <3>1, OwnFacts
           DEF About, Deleting, SameEvent, SameText, InTask
    <2> QED
      BY <1>1, <2>1, <2>2, <2>3 DEF Kinds
  <1> QED
    BY <1>1, <1>2, <1>6, <1>7, StaysSilent, OwnGoesOn

LEMMA DirectCalm ==
    ASSUME NEW i \in Ops, NEW m \in Msgs, Own(i, m), SelectDirect(i) \/ CreateDirect(i)
    PROVE  CalmOK(m)'
  <1>1. op[i].pc \in {"direct", "newDirect"} /\ op[i].kind = "message" /\ msg[m].there
    BY Reached DEF SelectDirect, CreateDirect, At, Stage, MessageStages, Own
  <1>2. UNCHANGED <<msg, home, copy, remote>>
    BY DEF SelectDirect, CreateDirect, homeVars, remoteVars
  <1>3. PICK stage \in {"newDirect", "insertCopy"} : Goto(i, stage)
    BY DEF SelectDirect, CreateDirect
  <1>4. stage \in Inbox
    BY DEF Inbox
  <1>5. /\ \A j \in Ops \ {i} : op'[j] = op[j]
        /\ op'[i].msg = m /\ op'[i].pc = stage /\ SameEvent(i)
        /\ op'[i].todo = op[i].todo /\ op'[i].to = op[i].to
    BY <1>3, <1>4, InboxGoes
  <1>6. About(op[i], m)'
    BY <1>1, <1>2, <1>4, <1>5, OwnFacts
       DEF About, Sending, SameEvent, Fresh, Shown, Copied, ToCopy, InTask, Inbox
  <1> QED
    BY <1>1, <1>2, <1>5, <1>6, StaysSilent, OwnGoesOn

LEMMA InsertCopyCalm ==
    ASSUME NEW i \in Ops, NEW m \in Msgs, Own(i, m), InsertCopy(i) PROVE CalmOK(m)'
  <1>1. op[i].pc = "insertCopy" /\ op[i].kind = "message" /\ msg[m].there
    BY Reached DEF InsertCopy, At, Stage, MessageStages, Own
  <1>2. UNCHANGED <<msg, home, remote>>
    BY DEF InsertCopy, homeVars
  <1>3. /\ \A j \in Ops \ {i} : op'[j] = op[j]
        /\ op'[i].msg = m /\ op'[i].pc = "rereadCopy" /\ SameEvent(i)
        /\ op'[i].todo = op[i].todo /\ op'[i].to = op[i].to
    BY InboxGoes DEF InsertCopy, Inbox
  <1>4. Sending(op[i], m)
    BY <1>1, OwnFacts DEF About
  <1>5. [NoRow EXCEPT !.there = TRUE, !.body = op[i].body] = msg[m]
    <2> DEFINE row == [NoRow EXCEPT !.there = TRUE, !.body = op[i].body]
    <2>1. row \in Rows /\ row.there = TRUE /\ row.body = op[i].body /\ row.original = None /\ row.deleted = FALSE
      BY <1>1, Reached DEF NoRow, Rows, Own, Going
    <2>2. msg[m].there = TRUE /\ msg[m].body = op[i].body /\ msg[m].original = None /\ msg[m].deleted = FALSE
      BY <1>1, <1>4, OwnFacts DEF Sending, Fresh, InTask, Inbox, Rows
    <2> QED
      BY <2>1, <2>2, OwnFacts, EqualRows
  <1>6. \A u \in Recipients : copy'[m][u] = IF u = op[i].to THEN msg[m] ELSE copy[m][u]
    BY <1>5, InsertedCopy DEF Own
  <1>7. About(op[i], m)'
    BY <1>1, <1>2, <1>3, <1>4, <1>6
       DEF About, Sending, SameEvent, Fresh, Shown, Copied, ToCopy, InTask, Inbox
  <1>8. Silent(m)'
    BY <1>4, <1>6, <1>1 DEF Silent, Sending, Fresh
  <1> QED
    BY <1>1, <1>2, <1>3, <1>7, <1>8, OwnGoesOn

LEMMA RereadCopyCalm ==
    ASSUME NEW i \in Ops, NEW m \in Msgs, Own(i, m), RereadCopy(i) PROVE CalmOK(m)'
  <1>1. op[i].pc = "rereadCopy" /\ op[i].kind = "message" /\ msg[m].there
    BY Reached DEF RereadCopy, At, Stage, MessageStages, Own
  <1>2. UNCHANGED <<msg, home, copy, remote>>
    BY DEF RereadCopy, homeVars, remoteVars
  <1>3. (\A j \in Ops \ {i} : op'[j] = op[j]) /\ SameEvent(i)
        /\ op'[i].pc = "publishCopy" /\ op'[i].todo = op[i].todo /\ op'[i].to = op[i].to
    BY RereadCopyFields, InboxIsLocal DEF Own, OnlyAbout, InboxStep
  <1>4. About(op[i], m)'
    BY <1>1, <1>2, <1>3, OwnFacts
       DEF About, Sending, SameEvent, Fresh, Shown, Copied, ToCopy, InTask, Inbox
  <1> QED
    BY <1>1, <1>2, <1>3, <1>4, StaysSilent, OwnGoesOn DEF SameEvent, Own

LEMMA PublishCopyCalm ==
    ASSUME NEW i \in Ops, NEW m \in Msgs, Own(i, m), PublishCopy(i) PROVE CalmOK(m)'
  <1>1. op[i].pc = "publishCopy" /\ op[i].kind = "message" /\ msg[m].there
    BY Reached DEF PublishCopy, At, Stage, MessageStages, Own
  <1>2. UNCHANGED <<msg, home, copy>>
    BY DEF PublishCopy, homeVars
  <1>3. /\ \A j \in Ops \ {i} : op'[j] = op[j]
        /\ op'[i].msg = m /\ op'[i].pc = "next" /\ SameEvent(i) /\ op'[i].todo = op[i].todo
    BY InboxAnswers DEF PublishCopy
  <1>4. Sending(op[i], m)
    BY <1>1, OwnFacts DEF About
  <1>5. About(op[i], m)'
    BY <1>1, <1>2, <1>3, <1>4 DEF About, Sending, SameEvent, Fresh, Shown, Copied, ToCopy, InTask, Inbox
  <1>6. Silent(m)'
    BY <1>2, <1>4 DEF Silent, Sending
  <1> QED
    BY <1>1, <1>2, <1>3, <1>5, <1>6, OwnGoesOn

\* One post of an edit brings every copy up to date.
LEMMA UpdateCopiesCalm ==
    ASSUME NEW i \in Ops, NEW m \in Msgs, Own(i, m), UpdateCopies(i) PROVE CalmOK(m)'
  <1>1. op[i].pc = "updateCopies" /\ op[i].kind = "message_edit" /\ msg[m].there
    BY Reached DEF UpdateCopies, At, Stage, EditStages, Own
  <1>2. UNCHANGED <<msg, home, remote>>
    BY DEF UpdateCopies, homeVars
  <1>3. /\ \A j \in Ops \ {i} : op'[j] = op[j]
        /\ op'[i].msg = m /\ op'[i].pc = "rereadEdit" /\ SameEvent(i)
    BY InboxGoes DEF UpdateCopies, Inbox
  <1>4. /\ Editing(op[i], m) /\ op[i].body = msg[m].body /\ op[i].original = msg[m].original
        /\ SameFate(m) /\ home[m] = Shown(m)
    BY <1>1, OwnFacts DEF About, Editing, InTask, Inbox
  <1>5. ASSUME NEW u \in Recipients PROVE copy'[m][u] = msg[m] /\ copy'[m][u].deleted = copy[m][u].deleted
    <2> DEFINE row == [copy[m][u] EXCEPT !.body = op[i].body, !.original = op[i].original]
    <2>1. copy[m][u].there = TRUE /\ msg[m].there = TRUE /\ copy[m][u].deleted = msg[m].deleted
      BY <1>1, <1>4, OwnFacts DEF SameFate, Rows
    <2>2. copy'[m][u] = row
      BY <2>1, UpdatedCopies DEF Own
    <2>3. op[i].body \in Texts \cup {None} /\ op[i].original \in Texts \cup {None}
      BY OwnFacts DEF Operations
    <2>4. /\ row.there = TRUE /\ row.deleted = copy[m][u].deleted
          /\ row.body = op[i].body /\ row.original = op[i].original
      BY <2>1, OwnFacts DEF Rows
    <2>5. row \in Rows
      <3>1. ASSUME NEW r \in Rows, NEW b \in Texts \cup {None}, NEW o \in Texts \cup {None}
            PROVE  [r EXCEPT !.body = b, !.original = o] \in Rows
        BY DEF Rows
      <3> QED
        BY <2>3, <3>1, OwnFacts
    <2> HIDE DEF row
    <2> QED
      BY <1>4, <2>1, <2>2, <2>4, <2>5, OwnFacts, EqualRows
  <1>6. About(op[i], m)'
    BY <1>1, <1>2, <1>3, <1>4, <1>5
       DEF About, Editing, SameEvent, SameFate, Shown, Updated, InTask, Inbox
  <1>7. Silent(m)'
    BY <1>1, <1>2, <1>5, OwnFacts DEF Silent, Own, CalmOK
  <1> QED
    BY <1>1, <1>2, <1>3, <1>6, <1>7, OwnGoesOn

LEMMA RereadEditCalm ==
    ASSUME NEW i \in Ops, NEW m \in Msgs, Own(i, m), RereadEdit(i), Calm(m)' PROVE CalmOK(m)'
  <1>1. op[i].pc = "rereadEdit" /\ op[i].kind = "message_edit" /\ msg[m].there /\ op[i].pc \in Inbox
    BY Reached DEF RereadEdit, At, Stage, EditStages, Own, Inbox
  <1>2. UNCHANGED <<msg, home, copy, remote>>
    BY DEF RereadEdit, homeVars, remoteVars
  <1>3. (\A j \in Ops \ {i} : op'[j] = op[j]) /\ SameEvent(i) /\ op'[i].pc = "publishEdit"
    BY <1>1, RereadEditFields, FailedIsNotCalm, InboxIsLocal DEF Own, OnlyAbout, InboxStep
  <1>4. About(op[i], m)'
    BY <1>1, <1>2, <1>3, OwnFacts
       DEF About, Editing, SameEvent, SameFate, Shown, Updated, InTask, Inbox
  <1> QED
    BY <1>1, <1>2, <1>3, <1>4, StaysSilent, OwnGoesOn DEF SameEvent, Own

\* What a client no longer shows is not shown again by an edit.
LEMMA PublishEditCalm ==
    ASSUME NEW i \in Ops, NEW m \in Msgs, Own(i, m), PublishEdit(i) PROVE CalmOK(m)'
  <1>1. op[i].pc = "publishEdit" /\ op[i].kind = "message_edit" /\ msg[m].there
    BY Reached DEF PublishEdit, At, Stage, EditStages, Own
  <1>2. UNCHANGED <<msg, home, copy>>
    BY DEF PublishEdit, homeVars
  <1>3. /\ \A j \in Ops \ {i} : op'[j] = op[j]
        /\ op'[i].msg = m /\ op'[i].pc = "next" /\ SameEvent(i) /\ op'[i].todo = op[i].todo
    BY InboxAnswers DEF PublishEdit
  <1>4. About(op[i], m)'
    BY <1>1, <1>2, <1>3, OwnFacts
       DEF About, Editing, SameEvent, SameFate, Shown, Updated, InTask, Inbox
  <1>5. Silent(m)'
    <2>1. ASSUME NEW u \in Recipients, remote[m][u] = None PROVE remote'[m][u] = None
      BY <2>1 DEF PublishEdit, Replaced, Own, IInv, RestOK
    <2>2. \A u \in Recipients : copy[m][u].deleted => remote[m][u] = None
      BY <1>1, OwnFacts DEF Own, CalmOK, Silent
    <2> QED
      BY <1>2, <2>1, <2>2 DEF Silent
  <1> QED
    BY <1>1, <1>2, <1>3, <1>4, <1>5, OwnGoesOn

LEMMA FindCalm ==
    ASSUME NEW i \in Ops, NEW m \in Msgs, Own(i, m), Find(i) PROVE CalmOK(m)'
  <1>1. op[i].pc = "find" /\ op[i].kind = "message_delete" /\ msg[m].there
    BY Reached DEF Find, At, Stage, DeleteStages, Own
  <1>2. UNCHANGED <<msg, home, copy, remote>>
    BY DEF Find, homeVars, remoteVars
  <1>3. \A j \in Ops \ {i} : op'[j] = op[j]
    BY InboxIsLocal DEF Own, OnlyAbout, InboxStep
  <1>4. /\ Deleting(op[i], m) /\ SameText(m) /\ msg[m].deleted /\ home[m] = None
        /\ Cardinality(Live(m)) <= PostsLeft(op[i])
    BY <1>1, OwnFacts DEF About, Deleting, InTask, Inbox
  <1>5. Live(m)' = Live(m)
    BY <1>2 DEF Live
  <1>6. CASE op'[i].pc = "markCopy" /\ SameEvent(i) /\ op'[i].todo = op[i].todo /\ op'[i].row \in Live(m)
    <2>1. PostsLeft(op[i])' = PostsLeft(op[i])
      BY <1>1, <1>6 DEF PostsLeft
    <2>2. About(op[i], m)'
      BY <1>1, <1>2, <1>4, <1>5, <1>6, <2>1 DEF About, Deleting, SameEvent, SameText, InTask
    <2> QED
      BY <1>1, <1>2, <1>3, <1>6, <2>2, StaysSilent, OwnGoesOn DEF SameEvent, Own
  <1>7. CASE Answered(i) /\ Live(m) = {}
    <2>1. op'[i].pc = "next" /\ SameEvent(i) /\ op'[i].todo = op[i].todo
      BY <1>7, InboxAnswers
    <2>2. Cardinality(Live(m)) = 0 /\ PostsLeft(op[i])' \in Nat
      BY <1>7, <2>1, FS_EmptySet, TodoFinite DEF PostsLeft, Own
    <2>3. Cardinality(Live(m)) <= PostsLeft(op[i])'
      BY <2>2
    <2>4. About(op[i], m)'
      BY <1>1, <1>2, <1>4, <1>5, <2>1, <2>3 DEF About, Deleting, SameEvent, SameText, InTask
    <2> QED
      BY <1>1, <1>2, <1>3, <2>1, <2>4, StaysSilent, OwnGoesOn DEF SameEvent, Own
  <1>8. Copies(m) = Recipients
    BY <1>1, <1>4, OwnFacts DEF Copies, SameText
  <1> QED
    BY <1>6, <1>7, <1>8, FindFields DEF Own, Live

LEMMA MarkCopyCalm ==
    ASSUME NEW i \in Ops, NEW m \in Msgs, Own(i, m), MarkCopy(i) PROVE CalmOK(m)'
  <1>1. op[i].pc = "markCopy" /\ op[i].kind = "message_delete" /\ msg[m].there
    BY Reached DEF MarkCopy, At, Stage, DeleteStages, Own
  <1>2. UNCHANGED <<msg, home, remote>>
    BY DEF MarkCopy, homeVars
  <1>3. /\ \A j \in Ops \ {i} : op'[j] = op[j]
        /\ op'[i].msg = m /\ op'[i].pc = "publishDelete" /\ SameEvent(i)
        /\ op'[i].todo = op[i].todo /\ op'[i].row = op[i].row
    BY InboxGoes DEF MarkCopy, Inbox
  <1>4. /\ SameText(m) /\ msg[m].deleted /\ home[m] = None
        /\ Cardinality(Live(m)) <= PostsLeft(op[i]) /\ op[i].row \in Live(m)
    BY <1>1, OwnFacts DEF About, Deleting, InTask, Inbox
  <1>5. ASSUME NEW u \in Recipients
        PROVE  /\ copy'[m][u].there = copy[m][u].there /\ copy'[m][u].body = copy[m][u].body
               /\ copy'[m][u].original = copy[m][u].original
               /\ copy'[m][u].deleted <=> (u = op[i].row \/ copy[m][u].deleted)
    <2> DEFINE row == [copy[m][u] EXCEPT !.deleted = TRUE]
    <2>1. copy'[m][u] = IF u = op[i].row THEN row ELSE copy[m][u]
      BY MarkedCopy DEF Own
    <2>2. /\ row.there = copy[m][u].there /\ row.body = copy[m][u].body
          /\ row.original = copy[m][u].original /\ row.deleted = TRUE
      BY OwnFacts DEF Rows
    <2> HIDE DEF row
    <2> QED
      BY <2>1, <2>2
  <1>6. Live(m)' = Live(m) \ {op[i].row}
    BY <1>5 DEF Live
  <1>7. Cardinality(Live(m)') = Cardinality(Live(m)) - 1
    <2>1. IsFiniteSet(Live(m))
      BY LiveFinite
    <2>2. Cardinality(Live(m) \ {op[i].row}) = Cardinality(Live(m)) - 1
      BY <1>4, <2>1, FS_RemoveElement
    <2> QED
      BY <1>6, <2>2
  <1>8. Cardinality(Live(m)') <= PostsLeft(op[i])'
    BY <1>1, <1>3, <1>4, <1>7, LiveFinite, TodoFinite DEF PostsLeft, Own
  <1>9. About(op[i], m)'
    BY <1>1, <1>2, <1>3, <1>4, <1>5, <1>8 DEF About, Deleting, SameEvent, SameText, InTask, Inbox
  <1>10. Silent(m)'
    <2>1. \A u \in Recipients : copy[m][u].deleted => remote[m][u] = None
      BY <1>1, OwnFacts DEF Own, CalmOK, Silent
    <2> QED
      BY <1>2, <1>3, <1>5, <2>1 DEF Silent
  <1> QED
    BY <1>1, <1>2, <1>3, <1>9, <1>10, OwnGoesOn

LEMMA PublishDeleteCalm ==
    ASSUME NEW i \in Ops, NEW m \in Msgs, Own(i, m), PublishDelete(i) PROVE CalmOK(m)'
  <1>1. op[i].pc = "publishDelete" /\ op[i].kind = "message_delete" /\ msg[m].there
    BY Reached DEF PublishDelete, At, Stage, DeleteStages, Own
  <1>2. UNCHANGED <<msg, home, copy>>
    BY DEF PublishDelete, homeVars
  <1>3. /\ \A j \in Ops \ {i} : op'[j] = op[j]
        /\ op'[i].msg = m /\ op'[i].pc = "next" /\ SameEvent(i) /\ op'[i].todo = op[i].todo
    BY InboxAnswers DEF PublishDelete
  <1>4. PostsLeft(op[i])' = PostsLeft(op[i]) /\ Live(m)' = Live(m)
    BY <1>1, <1>2, <1>3 DEF PostsLeft, Live
  <1>5. About(op[i], m)'
    BY <1>1, <1>2, <1>3, <1>4, OwnFacts DEF About, Deleting, SameEvent, SameText, InTask, Inbox
  <1>6. Silent(m)'
    <2>1. \A u \in Recipients : remote'[m][u] = IF u = op[i].row THEN None ELSE remote[m][u]
      BY DEF PublishDelete, Own, IInv, RestOK
    <2>2. \A u \in Recipients : copy[m][u].deleted => remote[m][u] = None \/ u = op[i].row
      BY OwnFacts DEF Own, CalmOK, Silent
    <2> QED
      BY <1>2, <2>1, <2>2 DEF Silent
  <1> QED
    BY <1>1, <1>2, <1>3, <1>5, <1>6, OwnGoesOn

-----------------------------------------------------------------------------
LEMMA CallCalm ==
    ASSUME IInv, Ended, CalmInv, NEW i \in Ops, Call(i) PROVE CalmInv'
  <1> SUFFICES ASSUME NEW m \in Msgs, Calm(m)' PROVE CalmOK(m)'
    BY DEF CalmInv
  <1>1. PICK n \in Msgs :
          /\ Started(i, n)
          /\ \/ op'[i].pc = "insert" /\ op'[i].kind = "message" /\ ~msg[n].there
             \/ op'[i].pc = "editCheck" /\ op'[i].kind = "message_edit" /\ msg[n].there
             \/ op'[i].pc = "deleteCheck" /\ op'[i].kind = "message_delete" /\ msg[n].there
    BY CallIsLocal
  <1>2. CalmOK(m)
    BY <1>1 DEF Started, Calm, CalmInv
  <1>3. op[i].msg = None
    BY <1>1 DEF Started, Ended, Running, At
  <1>4. CASE n # m
    BY <1>1, <1>2, <1>3, <1>4, CalmElsewhere, ConstantsAssumption DEF Started
  <1>5. CASE n = m
    <2>1. \A j \in Ops : op[j].msg # m
      BY <1>1, <1>5, ConstantsAssumption DEF Started, Calm, Ended
    <2>2. \A j, k \in Ops : j # k /\ op'[j].msg = m => op'[k].msg # m
      BY <1>1, <2>1 DEF Started
    <2>3. Silent(m)'
      BY <1>1, <1>2, <2>1 DEF Started, CalmOK, Silent
    <2>4. About(op[i], m)'
      <3>1. msg[m].there => Synced(m)
        BY <1>2, <2>1 DEF CalmOK
      <3>2. ~msg[m].there => \A u \in Recipients : ~copy[m][u].deleted
        BY <1>2 DEF CalmOK
      <3> QED
        BY <1>1, <1>5, <3>1, <3>2
           DEF Started, About, Sending, Editing, Deleting, Synced, Shown, SameFate, SameText, InTask, Inbox
    <2> QED
      BY <1>1, <1>2, <1>5, <2>1, <2>2, <2>3, <2>4 DEF Started, CalmOK
  <1> QED
    BY <1>4, <1>5

LEMMA StepCalm ==
    ASSUME IInv, Ended, CalmInv, NEW i \in Ops, Step(i) \/ Abandon(i) \/ Lose(i) PROVE CalmInv'
  <1> SUFFICES ASSUME NEW m \in Msgs, Calm(m)' PROVE CalmOK(m)'
    BY DEF CalmInv
  <1>1. OnlyAbout(i) /\ m # None
    BY StepIsLocal, ConstantsAssumption
  <1>2. CalmOK(m)
    BY <1>1 DEF OnlyAbout, Calm, CalmInv
  <1>3. CASE op[i].msg # m
    BY <1>1, <1>2, <1>3, CalmElsewhere DEF OnlyAbout
  <1>4. CASE op[i].msg = m
    <2>1. Own(i, m)
      BY <1>2, <1>4 DEF Own
    <2>2. ~Abandon(i)
      BY <1>4 DEF Abandon, Calm
    <2>3. ~Lose(i)
      BY <2>1, FailedIsNotCalm DEF Lose
    <2>4. CASE HandlerStep(i)
      BY <2>1, <2>4, InsertCalm, EditCheckCalm, UpdateCalm, RereadCalm, DeleteCheckCalm, MarkCalm,
         PublishCalm DEF HandlerStep
    <2>5. CASE TaskStep(i)
      BY <1>4, <2>1, <2>5, ListRecipientsCalm, PostCalm, EndTaskCalm
         DEF TaskStep, RecipientsUnknown, Calm
    <2>6. CASE InboxStep(i)
      BY <2>1, <2>6, MirrorCalm, DirectCalm, InsertCopyCalm, RereadCopyCalm, PublishCopyCalm,
         UpdateCopiesCalm, RereadEditCalm, PublishEditCalm, FindCalm, MarkCopyCalm, PublishDeleteCalm
         DEF InboxStep
    <2> QED
      BY <2>2, <2>3, <2>4, <2>5, <2>6 DEF Step
  <1> QED
    BY <1>3, <1>4

LEMMA CalmHolds ==
    /\ Init => Ended /\ CalmInv
    /\ IInv /\ Ended /\ CalmInv /\ [Next]_vars => CalmInv'
  <1>1. ASSUME Init PROVE Ended /\ CalmInv
    <2>1. \A i \in Ops : op[i].msg = None
      BY <1>1 DEF Init, Idle
    <2>2. NoRow.there = FALSE /\ NoRow.deleted = FALSE
      BY DEF NoRow
    <2> QED
      BY <1>1, <2>1, <2>2, ConstantsAssumption DEF Init, Ended, CalmInv, CalmOK, Silent
  <1>2. ASSUME IInv, Ended, CalmInv, [Next]_vars PROVE CalmInv'
    <2>1. CASE UNCHANGED vars
      <3>1. UNCHANGED <<msg, home, op, copy, remote, disturbed, failed>>
        BY <2>1 DEF vars, homeVars, remoteVars, history
      <3>2. \A q, m : (Sending(q, m)' <=> Sending(q, m)) /\ (Editing(q, m)' <=> Editing(q, m))
        BY <3>1 DEF Sending, Fresh, Copied, Editing, SameFate, Updated, Synced, Shown
      <3>3. \A q, m : Deleting(q, m)' <=> Deleting(q, m)
        BY <3>1 DEF Deleting, SameText, Live, PostsLeft, Synced, Shown
      <3> QED
        BY <1>2, <3>1, <3>2, <3>3 DEF CalmInv, Calm, CalmOK, Silent, Synced, Shown, About
    <2> QED
      BY <1>2, <2>1, CallCalm, StepCalm DEF Next
  <1> QED
    BY <1>1, <1>2

\* When the operations on a message are over, did not overlap and none was cut short (its
\* handler, or its task where it lists the recipients), and no post about it failed, every recipient's copy equals the message: although nothing
\* orders the posts, an edit updates all copies at once, and a delete picks any of them.
THEOREM CopiesEqualTheMessage == Spec => []CopiesAgree
  <1>1. Ended /\ CalmInv => CopiesAgree
    <2> SUFFICES ASSUME Ended, CalmInv, NEW m \in Msgs, Undisturbed(m), msg[m].there
                 PROVE  \A u \in Recipients : copy[m][u] = msg[m]
      BY DEF CopiesAgree
    <2>1. (\A i \in Ops : op[i].msg # m) /\ Calm(m)
      BY ConstantsAssumption DEF Undisturbed, Settled, Ended, Calm
    <2> QED
      BY <2>1 DEF CalmInv, CalmOK, Synced
  <1> QED
    BY <1>1, InitHolds, NextKeeps, EndedKept, CalmHolds, PTL DEF Spec

\* Under the same condition the home clients show what the table holds, and a message that
\* was deleted is shown by no client of any recipient.
THEOREM ClientsShowTheMessage == Spec => []ClientsAreCurrent
  <1>1. Ended /\ CalmInv => ClientsAreCurrent
    <2> SUFFICES ASSUME Ended, CalmInv, NEW m \in Msgs, Undisturbed(m), msg[m].there
                 PROVE  /\ home[m] = IF msg[m].deleted THEN None ELSE msg[m].body
                        /\ msg[m].deleted => \A u \in Recipients : remote[m][u] = None
      BY DEF ClientsAreCurrent
    <2>1. (\A i \in Ops : op[i].msg # m) /\ Calm(m)
      BY ConstantsAssumption DEF Undisturbed, Settled, Ended, Calm
    <2> QED
      BY <2>1 DEF CalmInv, CalmOK, Synced, Shown, Silent
  <1> QED
    BY <1>1, InitHolds, NextKeeps, EndedKept, CalmHolds, PTL DEF Spec
=============================================================================
