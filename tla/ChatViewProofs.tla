--------------------------- MODULE ChatViewProofs ---------------------------
(***************************************************************************)
(* Theorems about ChatView, for any conversations and any number of        *)
(* messages and requests: what the screen shows, and what counts as read.  *)
(*                                                                         *)
(* The heart of the invariant is Following: a list of messages, on the     *)
(* screen or in an answer under way, is the server's but for the changes   *)
(* that are still on their way to it.                                      *)
(***************************************************************************)
EXTENDS ChatView, FiniteSetTheorems, FunctionTheorems, SequenceTheorems, TLAPS

-----------------------------------------------------------------------------
(* The invariant. *)

Stages == {"sent", "stored", "answered"}
Writes == {"send", "edit", "delete"}
AnyView == [id: Nat, ver: 0..1]

(* A message on the screen, of the list of the server, or of an answer. *)
ViewsOK(s) ==
  /\ s \in Seq(AnyView)
  /\ \A k \in DOMAIN s: s[k].id \in DOMAIN log
  /\ \A j, k \in DOMAIN s: s[j].id = s[k].id => j = k

LogOK == log \in Seq(Rows) /\ readUpTo \in [Convs -> Nat] /\ taken \in [Convs -> Nat]

(* The user has seen what they change. *)
OwnSeen == \A i \in DOMAIN log: log[i].own /\ (log[i].ver = 1 \/ log[i].deleted) => i \in seen

(* All of c up to i has been seen. *)
SeenUpTo(c, i) ==
  \A j \in DOMAIN log: log[j].conv = c /\ j <= i => j \in seen \/ log[j].deleted
ReadOK ==
  \A c \in Convs: readUpTo[c] <= Len(log) /\ SeenUpTo(c, readUpTo[c])

ShownOK ==
  /\ ViewsOK(shown) /\ ShownIds \subseteq seen
  /\ selected \in Convs \union {NoConv}
  /\ selected = NoConv => shown = <<>>
  /\ ~mixed \/ ~stale => \A i \in ShownIds: log[i].conv = selected
  /\ editing # NoMsg => editing \in DOMAIN log /\ log[editing].own /\ editing \in seen
  /\ editing # NoMsg /\ selected # NoConv /\ ~mixed => log[editing].conv = selected

PushOK ==
  /\ push \in Seq([op: Writes, id: Nat, ver: 0..1])
  /\ \A k \in DOMAIN push:
       /\ push[k].id \in DOMAIN log /\ (log[push[k].id].ver = 0 => push[k].ver = 0)
       /\ push[k].op = "edit" => push[k].ver = 1
       /\ push[k].op = "delete" => log[push[k].id].deleted

(* What is stored and not yet published, or published and not yet applied. *)
Storing(op, i) == \E q \in reqs: q.stage = "stored" /\ q.kind = op /\ q.id = i
Pushing(op, i) == \E k \in DOMAIN push: push[k].op = op /\ push[k].id = i
Coming(op, i) == Storing(op, i) \/ Pushing(op, i)
(* The message will come, and in the end as it is. *)
Arriving(i) ==
  /\ Coming("send", i)
  /\ \A k \in DOMAIN push: push[k].op = "send" /\ push[k].id = i =>
       \/ push[k].ver = log[i].ver
       \/ Storing("edit", i)
       \/ \E j \in DOMAIN push: j > k /\ push[j].op = "edit" /\ push[j].id = i

(* A list of messages of c is the server's, but for what is under way. *)
Following(s, c) ==
  \A i \in DOMAIN log: log[i].conv = c =>
    /\ ~log[i].deleted /\ i \notin IdsOf(s) => Arriving(i)
    /\ \A k \in DOMAIN s: s[k].id = i /\ s[k].ver # log[i].ver /\ ~log[i].deleted => Coming("edit", i)
    /\ log[i].deleted /\ i \in IdsOf(s) => Coming("delete", i)

(* What is known of a request, by its kind. *)
IsRequest(q) ==
  q \in [n: {q.n}, own: BOOLEAN, kind: Kinds, conv: Convs \union {NoConv}, id: Nat,
         stage: Stages, body: Seq(AnyView), list: {q.list}, ok: BOOLEAN, since: Nat]
Done(q) == q.stage = "stored" \/ (q.stage = "answered" /\ q.ok)
WriteOK(q) ==
  /\ q.kind \in {"edit", "delete"} \/ Done(q) => q.id \in DOMAIN log /\ log[q.id].own = q.own
  /\ q.kind \in {"edit", "delete"} /\ q.own => q.id \in seen
  /\ Done(q) => /\ log[q.id].conv = q.conv
                /\ q.kind = "edit" /\ q.stage = "stored" => log[q.id].ver = 1
                /\ q.kind = "delete" => log[q.id].deleted
  /\ q.stage = "answered" /\ q.ok =>
       /\ Len(q.body) = 1 /\ q.body[1].id = q.id
       /\ log[q.id].ver = 0 => q.body[1].ver = 0
ListOK(q) ==
  /\ ViewsOK(q.body)
  /\ \A k \in DOMAIN q.body:
       /\ log[q.body[k].id].conv = q.conv
       /\ \A i \in DOMAIN log: log[i].conv = q.conv /\ i <= q.body[k].id =>
            i \in IdsOf(q.body) \/ log[i].deleted
  /\ q.since <= taken[q.conv]
  /\ q.since = taken[q.conv] => Following(q.body, q.conv)
RequestOK(q) ==
  /\ IsRequest(q)
  /\ q.kind # "list" => q.conv \in Convs
  /\ q.stage = "stored" => q.kind \in Writes
  /\ q.kind \in Writes => WriteOK(q)
  /\ q.kind = "read" => q.id <= Len(log) /\ SeenUpTo(q.conv, q.id)
  /\ q.kind = "load" /\ Done(q) => ListOK(q)
RequestsOK == \A q \in reqs: RequestOK(q)

(* The screen follows the server, or a list that replaces it is on its way. *)
Loading(c) == \E q \in reqs: q.kind = "load" /\ q.conv = c
ScreenOK == ~stale /\ selected # NoConv => Loading(selected) \/ Following(shown, selected)

Inv == LogOK /\ OwnSeen /\ ReadOK /\ ShownOK /\ PushOK /\ RequestsOK /\ ScreenOK

-----------------------------------------------------------------------------
(* Ordered: every finite set of numbers can be put in order.  A least bound below which
   one cannot is found by the well-foundedness of the finite sets of numbers. *)

InOrder(s) == \A j, k \in DOMAIN s: j < k => s[j] < s[k]
CanOrder(S) == \E s \in [1..Cardinality(S) -> S]: InOrder(s)

LEMMA BoundedFinite == ASSUME NEW n \in Nat, NEW S \in SUBSET (1..n) PROVE IsFiniteSet(S)
<1>1. IsFiniteSet(1..n)
  BY 0 \in Int, 1 \in Int, n \in Int, FS_Interval
<1> QED  BY <1>1, FS_Subset

LEMMA OneMore ==
  ASSUME NEW n \in Nat, n # 0, \A S \in SUBSET (1..(n - 1)): CanOrder(S), NEW S \in SUBSET (1..n)
  PROVE  CanOrder(S)
<1>1. CASE n \notin S
  <2>1. S \in SUBSET (1..(n - 1))
    BY <1>1
  <2> QED  BY <2>1
<1>2. CASE n \in S
  <2> DEFINE R == S \ {n}
             m == Cardinality(R)
  <2>1. R \in SUBSET (1..(n - 1)) /\ R \in SUBSET (1..n) /\ IsFiniteSet(R) /\ IsFiniteSet(S)
    <3>1. R \in SUBSET (1..(n - 1))
      OBVIOUS
    <3>2. R \in SUBSET (1..n)
      OBVIOUS
    <3> HIDE DEF R
    <3> QED  BY <3>1, <3>2, BoundedFinite
  <2>2. PICK s \in [1..m -> R]: InOrder(s)
    <3>1. CanOrder(R)
      BY <2>1
    <3> QED  BY <3>1 DEF CanOrder
  <2>3. m \in Nat /\ Cardinality(S) = m + 1
    BY <1>2, <2>1, FS_RemoveElement, FS_CardinalityType
  <2> DEFINE t == [k \in 1..(m + 1) |-> IF k = m + 1 THEN n ELSE s[k]]
  <2> HIDE DEF m
  <2>4. t \in [1..(m + 1) -> S]
    BY <1>2, <2>2, <2>3
  <2>5. ASSUME NEW j \in 1..(m + 1), NEW k \in 1..(m + 1), j < k PROVE t[j] < t[k]
    <3>1. j \in 1..m /\ s[j] \in 1..(n - 1)
      <4>1. j \in 1..m
        BY <2>3, <2>5
      <4>2. s[j] \in R
        BY <2>2, <4>1
      <4> QED  BY <2>1, <4>1, <4>2
    <3>2. CASE k = m + 1
      BY <2>3, <3>1, <3>2
    <3>3. CASE k # m + 1
      <4>1. k \in 1..m
        BY <2>3, <3>3
      <4> QED  BY <2>2, <2>3, <2>5, <3>1, <3>3, <4>1 DEF InOrder
    <3> QED  BY <3>2, <3>3
  <2>6. InOrder(t)
    BY <2>5 DEF InOrder
  <2> QED  BY <2>3, <2>4, <2>6 DEF CanOrder
<1> QED  BY <1>1, <1>2

LEMMA AllCanOrder == \A n \in Nat: \A S \in SUBSET (1..n): CanOrder(S)
<1> DEFINE Bad == {n \in Nat: \E S \in SUBSET (1..n): ~CanOrder(S)}
           T == {1..n: n \in Bad}
<1> SUFFICES ASSUME Bad # {} PROVE FALSE
  OBVIOUS
<1>1. T # {} /\ T \subseteq FiniteSubsetsOf(Nat)
  <2>1. \A n \in Nat: 1..n \in FiniteSubsetsOf(Nat)
    <3> SUFFICES ASSUME NEW n \in Nat PROVE 1..n \in FiniteSubsetsOf(Nat)
      OBVIOUS
    <3>1. 1..n \in SUBSET (1..n) /\ 1..n \in SUBSET Nat
      OBVIOUS
    <3>2. IsFiniteSet(1..n)
      BY <3>1, BoundedFinite
    <3> QED  BY <3>1, <3>2 DEF FiniteSubsetsOf
  <2> QED  BY <2>1
<1>2. PICK x \in T: \A y \in T: <<y, x>> \notin StrictSubsetOrdering(Nat)
  BY <1>1, FS_StrictSubsetOrderingWellFounded, WFMin
<1>3. PICK n \in Bad: x = 1..n
  BY <1>2
<1>4. n # 0
  <2>1. SUBSET (1..0) = {{}}
    OBVIOUS
  <2>2. CanOrder({})
    <3> DEFINE s == [k \in 1..0 |-> 0]
    <3>1. Cardinality({}) = 0 /\ 1..0 = {}
      BY FS_EmptySet
    <3>2. s \in [1..0 -> {}] /\ InOrder(s)
      BY <3>1 DEF InOrder
    <3> HIDE DEF s
    <3> QED  BY <3>1, <3>2 DEF CanOrder
  <2> QED  BY <2>1, <2>2
<1>5. n - 1 \in Nat /\ n - 1 \notin Bad
  <2>1. <<1..(n - 1), 1..n>> \in StrictSubsetOrdering(Nat)
    <3>1. 1..(n - 1) \subseteq 1..n /\ n \in 1..n /\ n \notin 1..(n - 1)
      BY <1>4
    <3>2. 1..(n - 1) \in SUBSET Nat /\ 1..n \in SUBSET Nat /\ 1..(n - 1) # 1..n
      BY <3>1
    <3> QED  BY <3>1, <3>2 DEF StrictSubsetOrdering
  <2>2. n - 1 \in Nat
    BY <1>4
  <2>3. 1..(n - 1) \notin T
    BY <1>2, <1>3, <2>1
  <2> QED  BY <2>2, <2>3
<1> QED  BY <1>4, <1>5, OneMore

(* The sequence is as long as the set, holds what the set holds, each once, and ascends. *)
LEMMA OrderedFacts ==
  ASSUME NEW n \in Nat, NEW S \in SUBSET (1..n), NEW s, s = Ordered(S)
  PROVE  /\ s \in Seq(S) /\ InOrder(s)
         /\ \A x \in S: \E k \in DOMAIN s: s[k] = x
         /\ \A j, k \in DOMAIN s: s[j] = s[k] => j = k
<1> DEFINE m == Cardinality(S)
<1>1. IsFiniteSet(S) /\ m \in Nat
  BY BoundedFinite, FS_CardinalityType
<1>2. s \in [1..m -> S] /\ InOrder(s)
  BY AllCanOrder DEF CanOrder, Ordered, InOrder
<1> HIDE DEF m
<1>3. \A j, k \in 1..m: s[j] = s[k] => j = k
  <2> SUFFICES ASSUME NEW j \in 1..m, NEW k \in 1..m, j # k PROVE s[j] # s[k]
    OBVIOUS
  <2>1. s[j] \in 1..n /\ s[k] \in 1..n
    BY <1>2
  <2>2. j < k \/ k < j
    BY <1>1
  <2>3. s[j] < s[k] \/ s[k] < s[j]
    BY <1>2, <2>2 DEF InOrder
  <2> QED  BY <2>1, <2>3
<1>4. s \in Surjection(1..m, S)
  <2>1. s \in Injection(1..m, S)
    BY <1>2, <1>3 DEF Injection, IsInjective
  <2>2. Cardinality(1..m) = Cardinality(S)
    BY <1>1, FS_Interval DEF m
  <2> QED  BY <1>1, <2>1, <2>2, FS_Injection
<1>5. \A x \in S: \E k \in 1..m: s[k] = x
  BY <1>4 DEF Surjection
<1> QED  BY <1>1, <1>2, <1>3, <1>5

-----------------------------------------------------------------------------
(* Lists of messages. *)

LEMMA IdsFacts ==
  ASSUME NEW s
  PROVE  IdsOf(s) = {i \in IdsOf(s): \E k \in DOMAIN s: s[k].id = i} /\ ShownIds = IdsOf(shown)
BY DEF IdsOf, ShownIds

LEMMA RowsFacts ==
  ASSUME LogOK, NEW c, NEW s, s = RowsOf(c), NEW b, b = [k \in DOMAIN s |-> ViewOf(s[k])]
  PROVE  /\ ViewsOK(b)
         /\ IdsOf(b) = {i \in DOMAIN log: log[i].conv = c /\ ~log[i].deleted}
         /\ \A k \in DOMAIN b: b[k].ver = log[b[k].id].ver
<1> DEFINE S == {i \in DOMAIN log: log[i].conv = c /\ ~log[i].deleted}
<1>1. Len(log) \in Nat /\ S \in SUBSET (1..Len(log)) /\ s = Ordered(S)
  BY DEF LogOK, RowsOf
<1>2. /\ s \in Seq(S) /\ \A x \in S: \E k \in DOMAIN s: s[k] = x
      /\ \A j, k \in DOMAIN s: s[j] = s[k] => j = k
  <2> HIDE DEF S
  <2>1. PICK n \in Nat: S \in SUBSET (1..n)
    BY <1>1
  <2>2. s = Ordered(S)
    BY <1>1
  <2> QED  BY <2>1, <2>2, OrderedFacts
<1>3. Len(s) \in Nat /\ DOMAIN s = 1..Len(s) /\ DOMAIN b = 1..Len(s)
      /\ \A k \in 1..Len(s): s[k] \in S
  BY <1>2
<1>4. \A k \in 1..Len(s): b[k] = ViewOf(s[k]) /\ b[k].id = s[k] /\ b[k].ver = log[s[k]].ver
  BY <1>3 DEF ViewOf
<1>5. \A k \in 1..Len(s): b[k] \in AnyView
  <2>1. \A i \in S: i \in Nat /\ log[i] \in Rows
    BY <1>1 DEF LogOK
  <2>2. \A i \in S: log[i].ver \in 0..1
    BY <2>1 DEF Rows
  <2> QED  BY <1>3, <1>4, <2>1, <2>2 DEF AnyView, ViewOf
<1>6. b \in Seq(AnyView)
  BY <1>3, <1>5
<1>7. ViewsOK(b)
  BY <1>1, <1>2, <1>3, <1>4, <1>6 DEF ViewsOK
<1>8. IdsOf(b) = S
  BY <1>2, <1>3, <1>4 DEF IdsOf
<1> QED  BY <1>3, <1>4, <1>7, <1>8

LEMMA WithoutFacts ==
  ASSUME NEW s, ViewsOK(s), NEW i, NEW w, w = Without(s, i)
  PROVE  /\ ViewsOK(w) /\ IdsOf(w) = IdsOf(s) \ {i}
         /\ \A k \in DOMAIN w: \E j \in DOMAIN s: w[k] = s[j]
<1> DEFINE S == {k \in DOMAIN s: s[k].id # i}
           f == Ordered(S)
<1>1. Len(s) \in Nat /\ S \in SUBSET (1..Len(s)) /\ DOMAIN s = 1..Len(s)
  BY DEF ViewsOK
<1>2. /\ f \in Seq(S) /\ \A x \in S: \E k \in DOMAIN f: f[k] = x
      /\ \A j, k \in DOMAIN f: f[j] = f[k] => j = k
  <2> HIDE DEF S
  <2>1. PICK n \in Nat: S \in SUBSET (1..n)
    BY <1>1
  <2> HIDE DEF f
  <2>2. f = Ordered(S)
    BY DEF f
  <2> QED  BY <2>1, <2>2, OrderedFacts
<1>3. w = [k \in DOMAIN f |-> s[f[k]]]
  BY DEF Without
<1> HIDE DEF f
<1>4. Len(f) \in Nat /\ DOMAIN f = 1..Len(f) /\ DOMAIN w = 1..Len(f)
      /\ \A k \in 1..Len(f): f[k] \in S /\ w[k] = s[f[k]]
  BY <1>2, <1>3
<1>5. \A k \in DOMAIN w: \E j \in DOMAIN s: w[k] = s[j]
  BY <1>4
<1>6. w \in Seq(AnyView)
  <2>1. \A k \in 1..Len(f): w[k] \in AnyView
    BY <1>4 DEF ViewsOK
  <2>2. w = [k \in 1..Len(f) |-> w[k]]
    BY <1>3, <1>4
  <2> QED  BY <1>4, <2>1, <2>2
<1>7. ViewsOK(w)
  BY <1>2, <1>4, <1>6 DEF ViewsOK
<1>8. IdsOf(w) = IdsOf(s) \ {i}
  BY <1>2, <1>4 DEF IdsOf
<1> QED  BY <1>5, <1>7, <1>8

LEMMA ReplacedFacts ==
  ASSUME NEW s, ViewsOK(s), NEW m \in AnyView, NEW w, w = Replaced(s, m)
  PROVE  /\ ViewsOK(w) /\ IdsOf(w) = IdsOf(s) /\ DOMAIN w = DOMAIN s
         /\ \A k \in DOMAIN s: w[k] = IF s[k].id = m.id THEN m ELSE s[k]
<1>1. DOMAIN w = DOMAIN s /\ \A k \in DOMAIN s: w[k] = IF s[k].id = m.id THEN m ELSE s[k]
  BY DEF Replaced
<1>2. \A k \in DOMAIN s: w[k].id = s[k].id /\ w[k] \in AnyView
  BY <1>1 DEF ViewsOK
<1>3. w \in Seq(AnyView)
  <2>1. Len(s) \in Nat /\ DOMAIN s = 1..Len(s)
    BY DEF ViewsOK
  <2>2. w = [k \in 1..Len(s) |-> w[k]]
    BY <2>1 DEF Replaced
  <2> QED  BY <1>2, <2>1, <2>2
<1>4. ViewsOK(w)
  BY <1>1, <1>2, <1>3 DEF ViewsOK
<1>5. IdsOf(w) = IdsOf(s)
  BY <1>1, <1>2 DEF IdsOf
<1> QED  BY <1>1, <1>4, <1>5

(* w is s, and m after it. *)
Appended(w, s, m) ==
  /\ w \in Seq(AnyView) /\ Len(w) = Len(s) + 1 /\ w[Len(s) + 1] = m
  /\ \A k \in 1..Len(s): w[k] = s[k]

LEMMA AppendIs ==
  ASSUME NEW s \in Seq(AnyView), NEW m \in AnyView
  PROVE  /\ Appended(Append(s, m), s, m)
         /\ \A b \in Seq(AnyView): Len(b) = 1 /\ b[1] = m => Appended(s \o b, s, m)
<1>1. Appended(Append(s, m), s, m)
  BY DEF Appended
<1>2. ASSUME NEW b \in Seq(AnyView), Len(b) = 1, b[1] = m PROVE Appended(s \o b, s, m)
  <2>1. PICK n \in Nat: n = Len(s)
    OBVIOUS
  <2>2. PICK w: w = s \o b
    OBVIOUS
  <2>3. w \in Seq(AnyView) /\ Len(w) = n + 1
        /\ \A i \in 1..(n + 1): w[i] = IF i <= n THEN s[i] ELSE b[i - n]
    <3>1. w \in Seq(AnyView) /\ Len(w) = Len(s) + Len(b)
      BY <2>2
    <3>2. \A i \in 1..(Len(s) + Len(b)): w[i] = IF i <= Len(s) THEN s[i] ELSE b[i - Len(s)]
      BY <2>2, ConcatProperties
    <3> QED  BY <1>2, <2>1, <3>1, <3>2
  <2>4. \A k \in 1..n: k \in 1..(n + 1) /\ k <= n
    BY <2>1
  <2>5. w[n + 1] = m
    BY <1>2, <2>1, <2>3
  <2> QED  BY <2>1, <2>2, <2>3, <2>4, <2>5 DEF Appended
<1> QED  BY <1>1, <1>2

LEMMA AppendFacts ==
  ASSUME NEW s, ViewsOK(s), NEW m \in AnyView, m.id \in DOMAIN log, m.id \notin IdsOf(s),
         NEW w, Appended(w, s, m)
  PROVE  /\ ViewsOK(w) /\ IdsOf(w) = IdsOf(s) \union {m.id}
         /\ \A k \in DOMAIN w: w[k] = m \/ \E j \in DOMAIN s: w[k] = s[j]
<1>1. /\ Len(s) \in Nat /\ DOMAIN s = 1..Len(s) /\ w \in Seq(AnyView)
      /\ DOMAIN w = 1..(Len(s) + 1) /\ w[Len(s) + 1] = m /\ \A k \in 1..Len(s): w[k] = s[k]
  BY DEF ViewsOK, Appended
<1>2. \A k \in 1..(Len(s) + 1): k = Len(s) + 1 \/ k \in 1..Len(s)
  BY <1>1
<1>3. \A k \in 1..Len(s): s[k].id # m.id
  BY <1>1 DEF IdsOf
<1>4. ViewsOK(w)
  <2>1. \A k \in DOMAIN w: w[k].id \in DOMAIN log
    BY <1>1, <1>2 DEF ViewsOK
  <2>2. ASSUME NEW j \in DOMAIN w, NEW k \in DOMAIN w, w[j].id = w[k].id PROVE j = k
    BY <1>1, <1>2, <1>3, <2>2 DEF ViewsOK
  <2> QED  BY <1>1, <2>1, <2>2 DEF ViewsOK
<1>5. IdsOf(w) = IdsOf(s) \union {m.id}
  <2>1. Len(s) + 1 \in DOMAIN w
    BY <1>1
  <2>2. \A k \in 1..Len(s): k \in DOMAIN w
    BY <1>1
  <2> QED  BY <1>1, <1>2, <2>1, <2>2 DEF IdsOf
<1> QED  BY <1>1, <1>2, <1>4, <1>5

-----------------------------------------------------------------------------
(* What a step leaves alone.  Rows only grow; a conversation of which no event was
   delivered or missed has lost nothing of what is under way to the screen. *)

LogGrows ==
  /\ LogOK' /\ Len(log) <= Len(log') /\ seen \subseteq seen'
  /\ \A i \in DOMAIN log:
       /\ log'[i].conv = log[i].conv /\ log'[i].own = log[i].own
       /\ log[i].ver = 1 => log'[i].ver = 1
       /\ log[i].deleted => log'[i].deleted
  /\ \A c \in Convs: taken[c] <= taken'[c]

Undisturbed(c) ==
  \A i \in DOMAIN log': log'[i].conv = c =>
    IF i \in DOMAIN log
    THEN /\ Arriving(i) => Arriving(i)'
         /\ \A op \in {"edit", "delete"}: Coming(op, i) => Coming(op, i)'
         /\ log'[i].ver # log[i].ver => Coming("edit", i)'
         /\ log'[i].deleted /\ ~log[i].deleted => Coming("delete", i)'
    ELSE Arriving(i)'

Grows == LogGrows /\ \A c \in Convs: taken'[c] = taken[c] => Undisturbed(c)

LEMMA RowTypes ==
  ASSUME LogOK
  PROVE  /\ Len(log) \in Nat /\ DOMAIN log = 1..Len(log)
         /\ \A i \in DOMAIN log: /\ log[i].conv \in Convs /\ log[i].ver \in 0..1
                                 /\ log[i].deleted \in BOOLEAN /\ log[i].own \in BOOLEAN
<1>1. Len(log) \in Nat /\ DOMAIN log = 1..Len(log) /\ \A i \in DOMAIN log: log[i] \in Rows
  BY DEF LogOK
<1> QED  BY <1>1 DEF Rows

LEMMA DomainGrows ==
  ASSUME LogOK, LogGrows
  PROVE  DOMAIN log \subseteq DOMAIN log' /\ DOMAIN log = 1..Len(log) /\ DOMAIN log' = 1..Len(log')
         /\ Len(log) \in Nat /\ Len(log') \in Nat
<1>1. Len(log) \in Nat /\ DOMAIN log = 1..Len(log)
  BY RowTypes
<1>2. Len(log') \in Nat /\ DOMAIN log' = 1..Len(log')
  BY DEF LogGrows, LogOK
<1> QED  BY <1>1, <1>2 DEF LogGrows

LEMMA ViewsStay ==
  ASSUME LogOK, LogGrows, NEW s, ViewsOK(s)
  PROVE  ViewsOK(s)'
BY DomainGrows DEF ViewsOK

LEMMA FollowingStays ==
  ASSUME LogOK, LogGrows, NEW c, Undisturbed(c), NEW s, ViewsOK(s), Following(s, c)
  PROVE  Following(s, c)'
<1> SUFFICES ASSUME NEW i \in DOMAIN log', log'[i].conv = c
             PROVE  /\ ~log'[i].deleted /\ i \notin IdsOf(s) => Arriving(i)'
                    /\ \A k \in DOMAIN s: s[k].id = i /\ s[k].ver # log'[i].ver /\ ~log'[i].deleted
                         => Coming("edit", i)'
                    /\ log'[i].deleted /\ i \in IdsOf(s) => Coming("delete", i)'
  BY DEF Following, IdsOf
<1>1. CASE i \in DOMAIN log
  <2>1. log[i].conv = c /\ (log[i].deleted => log'[i].deleted)
    BY <1>1 DEF LogGrows
  <2> QED  BY <1>1, <2>1 DEF Following, Undisturbed
<1>2. CASE i \notin DOMAIN log
  <2>1. i \notin IdsOf(s) /\ \A k \in DOMAIN s: s[k].id # i
    BY <1>2 DEF ViewsOK, IdsOf
  <2> QED  BY <1>2, <2>1 DEF Undisturbed
<1> QED  BY <1>1, <1>2

LEMMA SeenStays ==
  ASSUME LogOK, LogGrows, NEW c, NEW i \in Nat, i <= Len(log), SeenUpTo(c, i)
  PROVE  SeenUpTo(c, i)'
<1> SUFFICES ASSUME NEW j \in DOMAIN log', log'[j].conv = c, j <= i
             PROVE  j \in seen' \/ log'[j].deleted
  BY DEF SeenUpTo
<1>1. j \in DOMAIN log
  BY DomainGrows DEF LogGrows
<1> QED  BY <1>1 DEF SeenUpTo, LogGrows

LEMMA WriteStays ==
  ASSUME LogOK, LogGrows, NEW q, WriteOK(q)
  PROVE  WriteOK(q)'
<1>1. q.id \in DOMAIN log => q.id \in DOMAIN log' /\ log'[q.id].conv = log[q.id].conv
        /\ log'[q.id].own = log[q.id].own /\ (log[q.id].ver = 1 => log'[q.id].ver = 1)
        /\ (log'[q.id].ver = 0 => log[q.id].ver = 0) /\ (log[q.id].deleted => log'[q.id].deleted)
  BY DomainGrows, RowTypes DEF LogGrows
<1> QED  BY <1>1 DEF WriteOK, Done, LogGrows

LEMMA ListStays ==
  ASSUME LogOK, Grows, NEW q, q.conv \in Convs, q.since \in Nat, ListOK(q)
  PROVE  ListOK(q)'
<1>1. ViewsOK(q.body)'
  BY ViewsStay DEF ListOK, Grows
<1>2. ASSUME NEW k \in DOMAIN q.body
      PROVE  /\ log'[q.body[k].id].conv = q.conv
             /\ \A i \in DOMAIN log': log'[i].conv = q.conv /\ i <= q.body[k].id =>
                  i \in IdsOf(q.body) \/ log'[i].deleted
  <2>1. q.body[k].id \in DOMAIN log
    BY DEF ListOK, ViewsOK
  <2>2. \A i \in DOMAIN log': i <= q.body[k].id => i \in DOMAIN log
    BY <2>1, DomainGrows DEF Grows
  <2> QED  BY <2>1, <2>2 DEF ListOK, Grows, LogGrows
<1>3. q.since <= taken'[q.conv] /\ (q.since = taken'[q.conv] => taken'[q.conv] = taken[q.conv])
  BY DEF ListOK, Grows, LogGrows, LogOK
<1>4. q.since = taken'[q.conv] => Following(q.body, q.conv)'
  BY <1>3, FollowingStays DEF ListOK, Grows
<1> QED  BY <1>1, <1>2, <1>3, <1>4 DEF ListOK, IdsOf

LEMMA RequestStays ==
  ASSUME LogOK, Grows, NEW q, RequestOK(q)
  PROVE  RequestOK(q)'
<1>1. q.kind \in Writes => WriteOK(q)'
  BY WriteStays DEF RequestOK, Grows
<1>2. q.kind = "read" => q.id <= Len(log') /\ SeenUpTo(q.conv, q.id)'
  <2>1. q.id \in Nat
    BY DEF RequestOK, IsRequest
  <2> QED  BY <2>1, SeenStays, DomainGrows DEF RequestOK, Grows, LogGrows
<1>3. q.kind = "load" /\ Done(q) => ListOK(q)'
  BY ListStays DEF RequestOK, IsRequest
<1> QED  BY <1>1, <1>2, <1>3 DEF RequestOK, IsRequest, Done

LEMMA RequestsStay ==
  ASSUME Inv, Grows, \A r \in reqs': r \in reqs \/ RequestOK(r)'
  PROVE  RequestsOK'
BY RequestStays DEF Inv, RequestsOK

LEMMA ReadStays ==
  ASSUME Inv, Grows, readUpTo' = readUpTo
  PROVE  ReadOK'
BY SeenStays, DomainGrows DEF Inv, ReadOK, Grows, LogGrows, LogOK

LEMMA ShownStays ==
  ASSUME Inv, LogGrows, UNCHANGED <<shown, selected, editing, mixed>>, stale => stale'
  PROVE  ShownOK'
<1>1. ViewsOK(shown)'
  <2>1. PICK s: s = shown
    OBVIOUS
  <2>2. ViewsOK(s)'
    BY <2>1, ViewsStay DEF Inv, ShownOK
  <2> QED  BY <2>1, <2>2 DEF ViewsOK
<1>2. ShownIds' = ShownIds /\ ShownIds \subseteq DOMAIN log
  BY DEF ShownIds, Inv, ShownOK, ViewsOK
<1> QED  BY <1>1, <1>2, DomainGrows DEF Inv, ShownOK, LogGrows

LEMMA ScreenStays ==
  ASSUME Inv, Grows, UNCHANGED <<selected, shown>>,
         ~stale' /\ selected # NoConv => ~stale /\ taken'[selected] = taken[selected],
         Loading(selected) => Loading(selected)'
  PROVE  ScreenOK'
<1> SUFFICES ASSUME ~stale', selected # NoConv, ~Loading(selected) PROVE Following(shown, selected)'
  BY DEF ScreenOK, Loading
<1>1. PICK s, c: s = shown /\ c = selected
  OBVIOUS
<1>2. c \in Convs /\ Following(s, c) /\ ViewsOK(s) /\ Undisturbed(c)
  BY <1>1 DEF Inv, ShownOK, ScreenOK, Grows
<1>3. Following(s, c)'
  BY <1>2, FollowingStays DEF Inv, Grows
<1> QED  BY <1>1, <1>3 DEF Following, IdsOf

(* Steps that store, publish and apply nothing. *)
Untouched ==
  /\ UNCHANGED <<log, push, taken>> /\ seen \subseteq seen'
  /\ readUpTo' \in [Convs -> Nat]
  /\ \A q \in reqs: q.stage = "stored" => q \in reqs'

LEMMA UntouchedGrows ==
  ASSUME Inv, Untouched
  PROVE  Grows /\ OwnSeen' /\ PushOK' /\ LogOK'
<1>1. LogOK' /\ OwnSeen' /\ PushOK'
  BY DEF Inv, LogOK, OwnSeen, PushOK, Untouched
<1>2. \A op, i: Storing(op, i) => Storing(op, i)'
  BY DEF Storing, Untouched
<1>3. \A op, i: Coming(op, i) => Coming(op, i)'
  BY <1>2 DEF Coming, Pushing, Untouched
<1>4. \A i: Arriving(i) => Arriving(i)'
  <2> SUFFICES ASSUME NEW i, Arriving(i) PROVE Arriving(i)'
    OBVIOUS
  <2>1. Coming("send", i)' /\ (Storing("edit", i) => Storing("edit", i)')
    BY <1>2, <1>3 DEF Arriving
  <2> QED  BY <2>1 DEF Arriving, Untouched
<1>5. \A c \in Convs: Undisturbed(c)
  BY <1>3, <1>4 DEF Undisturbed, Untouched
<1>6. LogGrows
  BY <1>1, RowTypes DEF LogGrows, Untouched, Inv, LogOK
<1> QED  BY <1>1, <1>5, <1>6 DEF Grows

-----------------------------------------------------------------------------
(* The user and the others. *)

LEMMA UntouchedInv ==
  ASSUME Inv, Untouched, readUpTo' = readUpTo, ShownOK', ScreenOK',
         \A r \in reqs': r \in reqs \/ RequestOK(r)'
  PROVE  Inv'
BY UntouchedGrows, RequestsStay, ReadStays DEF Inv

Fresh(r, own, kind, c, i) ==
  /\ IsRequest(r) /\ r.own = own /\ r.kind = kind /\ r.conv = c /\ r.id = i
  /\ r.stage = "sent"

LEMMA RequestIsFresh ==
  ASSUME NEW own \in BOOLEAN, NEW kind \in Kinds, NEW c \in Convs \union {NoConv}, NEW i \in Nat,
         NEW r, r = RequestOf(own, kind, c, i)
  PROVE  Fresh(r, own, kind, c, i)
<1> DEFINE Number == Min({k \in Numbers: \A q \in reqs:
                [n |-> k, own |-> own, kind |-> kind, conv |-> c] #
                [n |-> q.n, own |-> q.own, kind |-> q.kind, conv |-> q.conv]})
<1>1. r = [n |-> Number, own |-> own, kind |-> kind, conv |-> c, id |-> i, stage |-> "sent",
           body |-> <<>>, list |-> {}, ok |-> TRUE, since |-> 0]
  BY DEF RequestOf
<1> HIDE DEF Number
<1>2. <<>> \in Seq(AnyView)
  OBVIOUS
<1> QED  BY <1>1, <1>2 DEF Fresh, IsRequest, Stages

LEMMA FreshOK ==
  ASSUME NEW own, NEW kind, NEW c, NEW i, NEW r, Fresh(r, own, kind, c, i),
         kind # "list" => c \in Convs,
         kind \in {"edit", "delete"} => i \in DOMAIN log' /\ log'[i].own = own /\ (own => i \in seen'),
         kind = "read" => i <= Len(log') /\ SeenUpTo(c, i)'
  PROVE  RequestOK(r)'
BY DEF Fresh, RequestOK, IsRequest, WriteOK, Done

LEMMA CallKeeps ==
  ASSUME Inv, UNCHANGED <<server, socket, history, selected, shown>>, editing' \in {editing, NoMsg},
         NEW own, NEW kind \in Kinds, NEW c \in Convs, NEW i, NEW r, Fresh(r, own, kind, c, i),
         kind # "read",
         kind \in {"edit", "delete"} => i \in DOMAIN log /\ log[i].own = own /\ (own => i \in seen),
         reqs' = reqs \union {r}
  PROVE  Inv'
<1> USE DEF server, socket, history
<1>1. Untouched
  BY DEF Untouched, Inv, LogOK
<1>2. Grows
  BY <1>1, UntouchedGrows
<1>3. RequestOK(r)'
  BY FreshOK
<1>4. ShownOK'
  BY DEF Inv, ShownOK, ViewsOK, ShownIds
<1>5. ScreenOK'
  BY <1>2, ScreenStays DEF Loading
<1> QED  BY <1>1, <1>3, <1>4, <1>5, UntouchedInv

LEMMA SelectKeeps ==
  ASSUME Inv, NEW c \in Convs, SelectConversation(c)
  PROVE  Inv'
<1> USE DEF server, socket
<1>1. Untouched
  BY DEF SelectConversation, Call, Untouched, Inv, LogOK
<1>2. PICK r: reqs' = reqs \union {r} /\ Fresh(r, TRUE, "load", c, NoMsg)
  <2>1. NoMsg \in Nat
    BY DEF NoMsg
  <2> QED  BY <2>1, RequestIsFresh DEF SelectConversation, Call, Request, Kinds
<1>3. RequestOK(r)'
  BY <1>2, FreshOK
<1>4. ShownOK'
  <2>1. ViewsOK(<<>>)'
    BY DEF ViewsOK
  <2> QED  BY <2>1 DEF SelectConversation, ShownOK, ShownIds, ViewsOK
<1>5. ScreenOK'
  BY <1>2 DEF ScreenOK, Loading, Fresh, SelectConversation
<1> QED  BY <1>1, <1>2, <1>3, <1>4, <1>5, UntouchedInv DEF SelectConversation

(* The screen is emptied, or an edit begins or ends: no request is made. *)
LEMMA ViewKeeps ==
  ASSUME Inv, UNCHANGED <<server, socket, reqs, history>>,
         \/ selected' = NoConv /\ shown' = <<>> /\ editing' = editing
         \/ UNCHANGED <<selected, shown>> /\ editing' \in {editing, NoMsg}
         \/ UNCHANGED <<selected, shown>> /\ editing' \in ShownIds /\ log[editing'].own
  PROVE  Inv'
<1> USE DEF server, socket, history
<1>1. Untouched
  BY DEF Untouched, Inv, LogOK
<1>2. ShownOK'
  <2>1. CASE selected' = NoConv /\ shown' = <<>> /\ editing' = editing
    <3>1. ViewsOK(<<>>)'
      BY DEF ViewsOK
    <3> QED  BY <2>1, <3>1 DEF Inv, ShownOK, ShownIds, ViewsOK
  <2>2. CASE UNCHANGED <<selected, shown>> /\ editing' \in {editing, NoMsg}
    BY <2>2 DEF Inv, ShownOK, ViewsOK, ShownIds
  <2>3. CASE UNCHANGED <<selected, shown>> /\ editing' \in ShownIds /\ log[editing'].own
    <3>1. ShownIds \subseteq DOMAIN log
      BY DEF Inv, ShownOK, ViewsOK, ShownIds
    <3> QED  BY <2>3, <3>1 DEF Inv, ShownOK, ViewsOK, ShownIds
  <2> QED  BY <2>1, <2>2, <2>3
<1>3. ScreenOK'
  <2>1. CASE selected' = NoConv
    BY <2>1 DEF ScreenOK
  <2>2. CASE UNCHANGED <<selected, shown>>
    BY <1>1, <2>2, UntouchedGrows, ScreenStays DEF Loading
  <2> QED  BY <2>1, <2>2
<1> QED  BY <1>1, <1>2, <1>3, UntouchedInv

LEMMA UserKeeps ==
  ASSUME Inv, UserStep
  PROVE  Inv'
<1> USE DEF NoMsg
<1>1. ASSUME NEW c \in Convs, SelectConversation(c) \/ NewConvCreate(c) \/ DeleteConversation(c)
      PROVE  Inv'
  <2>1. ASSUME NEW kind \in {"open", "drop"}, Call(kind, c, NoMsg), UNCHANGED <<server, socket, view, history>>
        PROVE  Inv'
    <3>1. PICK r: reqs' = reqs \union {r} /\ Fresh(r, TRUE, kind, c, NoMsg)
      BY <2>1, RequestIsFresh DEF Call, Request, Kinds
    <3> QED  BY <2>1, <3>1, CallKeeps DEF view, Kinds
  <2> QED  BY <1>1, <2>1, SelectKeeps DEF NewConvCreate, DeleteConversation
<1>2. CASE SendMessage
  <2>1. selected \in Convs
    BY <1>2 DEF SendMessage, Inv, ShownOK
  <2>2. PICK r: reqs' = reqs \union {r} /\ Fresh(r, TRUE, "send", selected, NoMsg)
    BY <1>2, <2>1, RequestIsFresh DEF SendMessage, Call, Request, Kinds
  <2> QED  BY <1>2, <2>1, <2>2, CallKeeps DEF SendMessage, view, Kinds
<1>3. CASE ConfirmEdit
  <2>1. selected \in Convs /\ editing \in Nat /\ editing \in DOMAIN log /\ log[editing].own = TRUE /\ editing \in seen
    BY <1>3, RowTypes DEF ConfirmEdit, Inv, ShownOK
  <2>2. PICK r: reqs' = reqs \union {r} /\ Fresh(r, TRUE, "edit", selected, editing)
    BY <1>3, <2>1, RequestIsFresh DEF ConfirmEdit, Call, Request, Kinds
  <2> QED  BY <1>3, <2>1, <2>2, CallKeeps DEF ConfirmEdit, Kinds
<1>4. ASSUME NEW i \in Ids, DeleteMessage(i) PROVE Inv'
  <2>1. selected \in Convs /\ i \in Nat /\ i \in DOMAIN log /\ log[i].own = TRUE /\ i \in seen
    BY <1>4, RowTypes DEF DeleteMessage, Inv, ShownOK, ViewsOK, ShownIds, Ids
  <2>2. PICK r: reqs' = reqs \union {r} /\ Fresh(r, TRUE, "delete", selected, i)
    BY <1>4, <2>1, RequestIsFresh DEF DeleteMessage, Call, Request, Kinds
  <2> QED  BY <1>4, <2>1, <2>2, CallKeeps DEF DeleteMessage, view, Kinds
<1>5. ASSUME NEW i \in Ids, StartEdit(i) PROVE Inv'
  BY <1>5, ViewKeeps DEF StartEdit
<1>6. CASE Deselect \/ CancelEdit
  BY <1>6, ViewKeeps DEF Deselect, CancelEdit
<1> QED  BY <1>1, <1>2, <1>3, <1>4, <1>5, <1>6 DEF UserStep

LEMMA OtherKeeps ==
  ASSUME Inv, OtherStep
  PROVE  Inv'
<1>1. ASSUME NEW c \in Convs, NEW kind \in Writes, NEW i \in Ids \union {NoMsg}, OtherCalls(kind, c, i)
      PROVE  Inv'
  <2>1. i \in Nat
    BY DEF Ids, NoMsg
  <2>2. kind \in {"edit", "delete"} => i \in DOMAIN log /\ log[i].own = FALSE
    BY <1>1, RowTypes DEF OtherCalls, Inv
  <2>3. PICK r: reqs' = reqs \union {r} /\ Fresh(r, FALSE, kind, c, i)
    BY <1>1, <2>1, RequestIsFresh DEF OtherCalls, Kinds, Writes
  <2>4. UNCHANGED <<server, socket, history, selected, shown>> /\ editing' \in {editing, NoMsg}
    BY <1>1 DEF OtherCalls, view
  <2>5. kind \in Kinds /\ kind # "read"
    BY DEF Kinds, Writes
  <2> QED  BY <2>2, <2>3, <2>4, <2>5, CallKeeps
<1>2. ASSUME NEW c \in Convs, OtherOpens(c)
      PROVE  Inv'
  <2>1. Untouched /\ reqs' = reqs /\ readUpTo' = readUpTo /\ UNCHANGED <<view, history>>
    BY <1>2 DEF OtherOpens, Untouched, Inv, LogOK, socket, history
  <2>2. ShownOK' /\ ScreenOK'
    BY <2>1, UntouchedGrows, ShownStays, ScreenStays DEF view, history, Loading, Grows
  <2> QED  BY <2>1, <2>2, UntouchedInv
<1> QED  BY <1>1, <1>2 DEF OtherStep, Writes

-----------------------------------------------------------------------------
(* The server. *)

LEMMA ReplyKeeps ==
  ASSUME Inv, NEW q \in reqs, q.stage # "stored", NEW r, Step(q, r), RequestOK(r),
         r.kind = q.kind, r.conv = q.conv,
         UNCHANGED <<log, readUpTo, push, view, history>>
  PROVE  Inv'
<1> USE DEF view, history
<1>1. Untouched
  BY DEF Untouched, Step, Inv, LogOK
<1>2. Grows
  BY <1>1, UntouchedGrows
<1>3. RequestOK(r)'
  BY <1>2, RequestStays DEF Inv
<1>4. ShownOK'
  BY <1>2, ShownStays DEF Grows
<1>5. ScreenOK'
  <2>1. Loading(selected) => Loading(selected)'
    BY DEF Loading, Step
  <2> QED  BY <1>2, <2>1, ScreenStays
<1> QED  BY <1>1, <1>3, <1>4, <1>5, UntouchedInv DEF Step

LEMMA RefusalOK ==
  ASSUME NEW q, RequestOK(q), NEW r, r = Refuse(q)
  PROVE  RequestOK(r) /\ r.kind = q.kind /\ r.conv = q.conv
<1>1. /\ IsRequest(r) /\ r.kind = q.kind /\ r.conv = q.conv /\ r.id = q.id /\ r.own = q.own
      /\ r.stage = "answered" /\ r.ok = FALSE
  BY DEF RequestOK, IsRequest, Refuse, Stages
<1> QED  BY <1>1 DEF RequestOK, WriteOK, Done

LEMMA ListKeeps ==
  ASSUME Inv, NEW q \in reqs, ListMessages(q)
  PROVE  Inv'
<1> DEFINE rows == RowsOf(q.conv)
           body == [k \in DOMAIN rows |-> ViewOf(rows[k])]
<1>1. PICK r: Step(q, r) /\ \/ r = [Answer(q) EXCEPT !.body = body, !.since = taken[q.conv]]
                            \/ r = Refuse(q)
  BY DEF ListMessages
<1>2. q.stage = "sent" /\ q.kind = "load" /\ RequestOK(q) /\ q.conv \in Convs
  BY DEF ListMessages, Inv, RequestsOK, RequestOK
<1>3. CASE r = [Answer(q) EXCEPT !.body = body, !.since = taken[q.conv]]
  <2>1. /\ ViewsOK(body) /\ IdsOf(body) = {i \in DOMAIN log: log[i].conv = q.conv /\ ~log[i].deleted}
        /\ \A k \in DOMAIN body: body[k].ver = log[body[k].id].ver
    <3> HIDE DEF rows
    <3>1. rows = RowsOf(q.conv)
      BY DEF rows
    <3> QED  BY <3>1, RowsFacts DEF Inv
  <2> HIDE DEF body
  <2>2. body \in Seq(AnyView) /\ taken[q.conv] \in Nat
    BY <1>2, <2>1 DEF ViewsOK, Inv, LogOK
  <2>3. /\ IsRequest(r) /\ r.kind = "load" /\ r.conv = q.conv /\ r.body = body
        /\ r.since = taken[q.conv] /\ r.stage = "answered"
    BY <1>2, <1>3, <2>2 DEF RequestOK, IsRequest, Answer, Stages
  <2>4. Following(body, q.conv)
    BY <2>1 DEF Following
  <2>5. \A k \in DOMAIN body: body[k].id \in IdsOf(body)
    BY DEF IdsOf
  <2>6. ListOK(r)
    BY <2>1, <2>2, <2>3, <2>4, <2>5 DEF ListOK
  <2>7. RequestOK(r)
    BY <1>2, <2>3, <2>6 DEF RequestOK, Done, ListOK, Writes
  <2> QED  BY <1>1, <1>2, <2>3, <2>7, ReplyKeeps DEF ListMessages, server, socket
<1>4. CASE r = Refuse(q)
  BY <1>1, <1>2, <1>4, RefusalOK, ReplyKeeps DEF ListMessages, server, socket
<1> QED  BY <1>1, <1>3, <1>4

LEMMA ConversationsKeeps ==
  ASSUME Inv, NEW q \in reqs, NEW kind \in {"list", "open", "drop"}, NEW after, Conversations(q, kind, after)
  PROVE  Inv'
<1>1. PICK r: r = [Answer(q) EXCEPT !.list = after]
  OBVIOUS
<1>2. RequestOK(q) /\ q.stage = "sent" /\ q.kind = kind
  BY DEF Conversations, Inv, RequestsOK
<1>3. IsRequest(r) /\ r.kind = q.kind /\ r.conv = q.conv /\ r.stage = "answered"
  BY <1>1, <1>2 DEF RequestOK, IsRequest, Answer, Stages
<1>4. RequestOK(r)
  BY <1>2, <1>3 DEF RequestOK, Writes
<1> QED  BY <1>1, <1>2, <1>3, <1>4, ReplyKeeps DEF Conversations, socket

LEMMA ReadKeeps ==
  ASSUME Inv, NEW q \in reqs, MarkRead(q)
  PROVE  Inv'
<1> USE DEF socket, view, history
<1>1. q.kind = "read" /\ q.conv \in Convs /\ q.id \in Nat /\ q.id <= Len(log) /\ SeenUpTo(q.conv, q.id)
      /\ q.stage = "sent"
  BY DEF MarkRead, Inv, RequestsOK, RequestOK, IsRequest
<1>2. \/ readUpTo' = [readUpTo EXCEPT ![q.conv] = q.id]
      \/ readUpTo' = readUpTo
  BY DEF MarkRead
<1>3. Untouched
  <2>1. readUpTo' \in [Convs -> Nat]
    BY <1>1, <1>2 DEF Inv, LogOK
  <2> QED  BY <1>1, <2>1 DEF Untouched, MarkRead
<1>4. Grows /\ LogOK' /\ OwnSeen' /\ PushOK'
  BY <1>3, UntouchedGrows
<1>5. RequestsOK'
  BY <1>4, RequestsStay DEF MarkRead
<1>6. ReadOK'
  <2> SUFFICES ASSUME NEW c \in Convs PROVE (readUpTo[c] <= Len(log) /\ SeenUpTo(c, readUpTo[c]))'
    BY DEF ReadOK
  <2>1. readUpTo'[c] = readUpTo[c] \/ (c = q.conv /\ readUpTo'[c] = q.id)
    BY <1>1, <1>2 DEF Inv, LogOK
  <2>2. PICK i: i = readUpTo'[c]
    OBVIOUS
  <2>3. i <= Len(log) /\ SeenUpTo(c, i)
    BY <1>1, <2>1, <2>2 DEF Inv, ReadOK
  <2> QED  BY <2>2, <2>3 DEF SeenUpTo, MarkRead
<1>7. ShownOK'
  BY <1>4, ShownStays DEF Grows, MarkRead
<1>8. ScreenOK'
  BY <1>1, <1>4, ScreenStays DEF MarkRead, Loading
<1> QED  BY <1>4, <1>5, <1>6, <1>7, <1>8 DEF Inv

(* A row is written, and the request goes on to publish it. *)
Written(q, r) ==
  /\ q.stage = "sent" /\ r.stage = "stored" /\ q.kind \in Writes /\ r.kind = q.kind /\ r.conv = q.conv
  /\ LogOK' /\ OwnSeen' /\ PushOK' /\ RequestOK(r)' /\ Len(log) <= Len(log')
  /\ \A i \in DOMAIN log:
       /\ log'[i].conv = log[i].conv /\ log'[i].own = log[i].own
       /\ log'[i].ver # log[i].ver => r.kind = "edit" /\ r.id = i /\ log'[i].ver = 1
       /\ log'[i].deleted # log[i].deleted => r.kind = "delete" /\ r.id = i /\ log'[i].deleted
  /\ \A i \in DOMAIN log': i \notin DOMAIN log => r.kind = "send" /\ r.id = i

LEMMA WrittenKeeps ==
  ASSUME Inv, NEW q \in reqs, NEW r, Step(q, r), Written(q, r),
         UNCHANGED <<readUpTo, push, view, history>>
  PROVE  Inv'
<1> USE DEF view, history
<1>1. LogGrows
  <2>1. \A i \in DOMAIN log: (log[i].ver = 1 => log'[i].ver = 1) /\ (log[i].deleted => log'[i].deleted)
    BY RowTypes DEF Written, Inv
  <2> QED  BY <2>1 DEF LogGrows, Written, Inv, LogOK
<1>2. Storing(r.kind, r.id)' /\ \A op, i: Storing(op, i) => Storing(op, i)'
  BY DEF Storing, Step, Written
<1>3. \A c: Undisturbed(c)
  <2> SUFFICES ASSUME NEW c, NEW i \in DOMAIN log', log'[i].conv = c
               PROVE  IF i \in DOMAIN log
                      THEN /\ Arriving(i) => Arriving(i)'
                           /\ \A op \in {"edit", "delete"}: Coming(op, i) => Coming(op, i)'
                           /\ log'[i].ver # log[i].ver => Coming("edit", i)'
                           /\ log'[i].deleted /\ ~log[i].deleted => Coming("delete", i)'
                      ELSE Arriving(i)'
    BY DEF Undisturbed
  <2>1. \A op: Coming(op, i) => Coming(op, i)'
    BY <1>2 DEF Coming, Pushing
  <2>2. CASE i \in DOMAIN log
    <3>1. log'[i].ver # log[i].ver => Storing("edit", i)'
      BY <1>2, <2>2 DEF Written
    <3>2. log'[i].deleted /\ ~log[i].deleted => Storing("delete", i)'
      BY <1>2, <2>2 DEF Written
    <3>3. Arriving(i) => Arriving(i)'
      BY <1>2, <2>1, <3>1 DEF Arriving
    <3> QED  BY <2>1, <2>2, <3>1, <3>2, <3>3 DEF Coming
  <2>3. CASE i \notin DOMAIN log
    <3>1. \A k \in DOMAIN push: push[k].id # i
      BY <2>3 DEF Inv, PushOK
    <3>2. Storing("send", i)'
      BY <1>2, <2>3 DEF Written
    <3> QED  BY <2>3, <3>1, <3>2 DEF Arriving, Coming
  <2> QED  BY <2>2, <2>3
<1>4. Grows
  BY <1>1, <1>3 DEF Grows
<1>5. RequestsOK' /\ ReadOK'
  BY <1>4, RequestsStay, ReadStays DEF Step, Written
<1>6. ShownOK'
  BY <1>1, ShownStays
<1>7. ScreenOK'
  <2>1. Loading(selected) => Loading(selected)'
    BY DEF Loading, Step, Written
  <2> QED  BY <1>4, <2>1, ScreenStays
<1> QED  BY <1>5, <1>6, <1>7 DEF Inv, Written


LEMMA StoreKeeps ==
  ASSUME Inv, NEW q \in reqs, StoreMessage(q)
  PROVE  Inv'
<1> USE DEF socket, view, history
<1>1. q.stage = "sent" /\ q.kind = "send" /\ RequestOK(q) /\ IsRequest(q) /\ q.conv \in Convs
  BY DEF StoreMessage, Inv, RequestsOK, RequestOK
<1>2. CASE log' = log
  <2>1. PICK r: r = Refuse(q)
    OBVIOUS
  <2>2. Step(q, r) \/ log' = Append(log, [conv |-> q.conv, ver |-> 0, deleted |-> FALSE, own |-> q.own])
    BY <2>1 DEF StoreMessage
  <2>3. log' # Append(log, [conv |-> q.conv, ver |-> 0, deleted |-> FALSE, own |-> q.own])
    <3>1. PICK x: x = [conv |-> q.conv, ver |-> 0, deleted |-> FALSE, own |-> q.own]
      OBVIOUS
    <3>2. x \in Rows
      BY <1>1, <3>1 DEF Rows, IsRequest
    <3>3. Len(Append(log, x)) = Len(log) + 1
      BY <3>2 DEF Inv, LogOK
    <3>4. log # Append(log, x)
      <4>1. Len(log) \in Nat
        BY RowTypes DEF Inv
      <4>2. \A n \in Nat: n # n + 1
        OBVIOUS
      <4> QED  BY <3>3, <4>1, <4>2
    <3> QED  BY <1>2, <3>1, <3>4
  <2> QED  BY <1>1, <1>2, <2>1, <2>2, <2>3, RefusalOK, ReplyKeeps DEF StoreMessage
<1>3. CASE log' # log
  <2>1. PICK x: x = [conv |-> q.conv, ver |-> 0, deleted |-> FALSE, own |-> q.own]
    OBVIOUS
  <2>2. PICK r: r = [q EXCEPT !.stage = "stored", !.id = Len(log) + 1] /\ Step(q, r) /\ log' = Append(log, x)
    BY <1>3, <2>1 DEF StoreMessage
  <2>3. Len(log) \in Nat /\ DOMAIN log = 1..Len(log) /\ x \in Rows
        /\ x.conv = q.conv /\ x.ver = 0 /\ x.deleted = FALSE /\ x.own = q.own
    BY <1>1, <2>1, RowTypes DEF Rows, IsRequest, Inv
  <2>4. /\ Len(log') = Len(log) + 1 /\ DOMAIN log' = 1..(Len(log) + 1) /\ log' \in Seq(Rows)
        /\ log'[Len(log) + 1] = x /\ \A i \in DOMAIN log: log'[i] = log[i]
    BY <2>2, <2>3 DEF Inv, LogOK
  <2>5. IsRequest(r) /\ r.stage = "stored" /\ r.kind = "send" /\ r.conv = q.conv /\ r.id = Len(log) + 1
        /\ r.own = q.own
    <3>1. r = [q EXCEPT !.stage = "stored", !.id = Len(log) + 1] /\ Len(log) + 1 \in Nat
      BY <2>2, <2>3
    <3> QED  BY <1>1, <3>1 DEF IsRequest, Stages
  <2>6. LogOK'
    BY <2>4 DEF LogOK, Inv, StoreMessage
  <2>7. \A i \in DOMAIN log': i \in DOMAIN log \/ i = Len(log) + 1
    BY <2>3, <2>4
  <2>8. OwnSeen'
    BY <2>3, <2>4, <2>7 DEF OwnSeen, Inv, StoreMessage
  <2>9. PushOK'
    <3>1. \A k \in DOMAIN push: push[k].id \in DOMAIN log' /\ log'[push[k].id] = log[push[k].id]
      BY <2>3, <2>4 DEF Inv, PushOK
    <3> QED  BY <3>1 DEF PushOK, Inv, StoreMessage
  <2>10. RequestOK(r)'
    <3>1. r.id \in DOMAIN log'
      BY <2>3, <2>4, <2>5
    <3>2. WriteOK(r)'
      BY <2>3, <2>4, <2>5, <3>1 DEF WriteOK, Done
    <3> QED  BY <1>1, <2>5, <3>2 DEF RequestOK, IsRequest, Writes, Done
  <2>11. Written(q, r)
    BY <1>1, <2>3, <2>4, <2>5, <2>6, <2>7, <2>8, <2>9, <2>10 DEF Written, Writes
  <2> QED  BY <2>2, <2>11, WrittenKeeps DEF StoreMessage
<1> QED  BY <1>2, <1>3

LEMMA ChangeKeeps ==
  ASSUME Inv, NEW q \in reqs, ChangeMessage(q)
  PROVE  Inv'
<1> USE DEF socket, view, history
<1>1. q.stage = "sent" /\ q.kind \in {"edit", "delete"} /\ RequestOK(q) /\ IsRequest(q) /\ WriteOK(q)
  BY DEF ChangeMessage, Inv, RequestsOK, RequestOK, Writes
<1>2. q.id \in DOMAIN log /\ log[q.id].own = q.own /\ (q.own => q.id \in seen)
  BY <1>1 DEF WriteOK
<1>3. CASE ~(Allowed(q) /\ log[q.id].conv = q.conv)
  <2>1. PICK r: r = Refuse(q)
    OBVIOUS
  <2> QED  BY <1>1, <1>3, <2>1, RefusalOK, ReplyKeeps DEF ChangeMessage
<1>4. CASE log[q.id].conv = q.conv /\ Allowed(q)
  <2>1. PICK r: r = [q EXCEPT !.stage = "stored"] /\ Step(q, r)
    BY <1>4 DEF ChangeMessage
  <2>2. IsRequest(r) /\ r.stage = "stored" /\ r.kind = q.kind /\ r.conv = q.conv /\ r.id = q.id /\ r.own = q.own
    BY <1>1, <2>1 DEF IsRequest, Stages
  <2>3. PICK row: /\ log' = [log EXCEPT ![q.id] = row]
                  /\ \/ q.kind = "edit" /\ row = [log[q.id] EXCEPT !.ver = 1]
                     \/ q.kind = "delete" /\ row = [log[q.id] EXCEPT !.deleted = TRUE]
    BY <1>1, <1>4 DEF ChangeMessage
  <2>4. /\ row \in Rows /\ row.conv = log[q.id].conv /\ row.own = log[q.id].own
        /\ q.kind = "edit" => row.ver = 1 /\ row.deleted = log[q.id].deleted
        /\ q.kind = "delete" => row.ver = log[q.id].ver /\ row.deleted = TRUE
    <3>1. log[q.id] \in Rows
      BY <1>2 DEF Inv, LogOK
    <3>2. CASE q.kind = "edit" /\ row = [log[q.id] EXCEPT !.ver = 1]
      BY <3>1, <3>2 DEF Rows
    <3>3. CASE q.kind = "delete" /\ row = [log[q.id] EXCEPT !.deleted = TRUE]
      BY <3>1, <3>3 DEF Rows
    <3> QED  BY <2>3, <3>2, <3>3
  <2>5. /\ Len(log') = Len(log) /\ DOMAIN log' = DOMAIN log /\ log' \in Seq(Rows)
        /\ \A i \in DOMAIN log: log'[i] = IF i = q.id THEN row ELSE log[i]
    BY <1>2, <2>3, <2>4 DEF Inv, LogOK
  <2>6. LogOK'
    BY <2>5 DEF LogOK, Inv, ChangeMessage
  <2>7. OwnSeen'
    BY <1>2, <2>4, <2>5 DEF OwnSeen, Inv, ChangeMessage
  <2>8. PushOK'
    <3>1. \A i \in DOMAIN log: (log'[i].ver = 0 => log[i].ver = 0) /\ (log[i].deleted => log'[i].deleted)
      BY <1>1, <2>4, <2>5
    <3> QED  BY <2>5, <3>1 DEF PushOK, Inv, ChangeMessage
  <2>9. RequestOK(r)'
    <3>1. WriteOK(r)'
      BY <1>2, <1>4, <2>2, <2>4, <2>5 DEF WriteOK, Done, ChangeMessage
    <3> QED  BY <1>1, <2>2, <3>1 DEF RequestOK, IsRequest, Writes, Done
  <2>10. Written(q, r)
    <3>1. Len(log) <= Len(log')
      BY <2>5, RowTypes DEF Inv
    <3>2. \A i \in DOMAIN log:
            /\ log'[i].conv = log[i].conv /\ log'[i].own = log[i].own
            /\ log'[i].ver # log[i].ver => r.kind = "edit" /\ r.id = i /\ log'[i].ver = 1
            /\ log'[i].deleted # log[i].deleted => r.kind = "delete" /\ r.id = i /\ log'[i].deleted
      BY <1>1, <2>2, <2>4, <2>5
    <3> QED  BY <1>1, <2>2, <2>5, <2>6, <2>7, <2>8, <2>9, <3>1, <3>2 DEF Written, Writes
  <2> QED  BY <2>1, <2>10, WrittenKeeps DEF ChangeMessage
<1> QED  BY <1>3, <1>4

(* An edit that keeps the text is answered with the row as it is. *)
LEMMA KeepKeeps ==
  ASSUME Inv, NEW q \in reqs, KeepMessage(q)
  PROVE  Inv'
<1> USE DEF socket, view, history
<1>1. q.stage = "sent" /\ q.kind = "edit" /\ RequestOK(q) /\ IsRequest(q) /\ WriteOK(q)
      /\ log[q.id].conv = q.conv /\ UNCHANGED <<log, readUpTo, push, view, history>>
  BY DEF KeepMessage, Inv, RequestsOK, RequestOK, Writes, server
<1>2. CASE reqs' = reqs \ {q}
  <2>1. Untouched
    BY <1>1, <1>2 DEF Untouched, Inv, LogOK
  <2>2. Grows
    BY <2>1, UntouchedGrows
  <2>3. ShownOK'
    BY <1>1, <2>2, ShownStays DEF Grows
  <2>4. ScreenOK'
    <3>1. Loading(selected) => Loading(selected)'
      BY <1>1, <1>2 DEF Loading
    <3> QED  BY <1>1, <2>2, <3>1, ScreenStays
  <2> QED  BY <1>1, <1>2, <2>1, <2>3, <2>4, UntouchedInv
<1>3. CASE Step(q, [Answer(q) EXCEPT !.body = <<ViewOf(q.id)>>])
  <2>1. PICK r: r = [Answer(q) EXCEPT !.body = <<ViewOf(q.id)>>]
    OBVIOUS
  <2>2. q.id \in DOMAIN log /\ log[q.id].own = q.own
    BY <1>1 DEF WriteOK
  <2>3. ViewOf(q.id) \in AnyView /\ ViewOf(q.id).id = q.id /\ ViewOf(q.id).ver = log[q.id].ver
    BY <2>2, RowTypes DEF ViewOf, AnyView, Inv
  <2>4. PICK b: b = <<ViewOf(q.id)>> /\ b \in Seq(AnyView) /\ Len(b) = 1 /\ b[1] = ViewOf(q.id)
    <3>1. PICK v: v = ViewOf(q.id)
      OBVIOUS
    <3>2. <<v>> \in Seq(AnyView) /\ Len(<<v>>) = 1 /\ <<v>>[1] = v
      BY <2>3, <3>1
    <3> QED  BY <3>1, <3>2
  <2>5. IsRequest(r) /\ r.stage = "answered" /\ r.kind = q.kind /\ r.conv = q.conv /\ r.id = q.id
        /\ r.own = q.own /\ r.body = b
    BY <1>1, <2>1, <2>4 DEF IsRequest, Answer, Stages
  <2>6. WriteOK(r)
    BY <1>1, <2>2, <2>3, <2>4, <2>5 DEF WriteOK, Done
  <2>7. RequestOK(r)
    BY <1>1, <2>5, <2>6 DEF RequestOK, Writes
  <2> QED  BY <1>1, <1>3, <2>1, <2>5, <2>7, ReplyKeeps
<1> QED  BY <1>2, <1>3 DEF KeepMessage

(* Publishing: the event is pushed, or the conversation has missed it. *)
LEMMA PublishedStays ==
  ASSUME Inv, NEW q \in reqs, q.stage = "stored", log' = log,
         \A p \in reqs: p # q /\ p.stage = "stored" => p \in reqs',
         push' = push \/ push' = Append(push, [op |-> q.kind, id |-> q.id, ver |-> log[q.id].ver]),
         NEW i \in DOMAIN log, push' = push => i # q.id
  PROVE  /\ Arriving(i) => Arriving(i)'
         /\ \A op: Coming(op, i) => Coming(op, i)'
<1>1. PICK e: e = [op |-> q.kind, id |-> q.id, ver |-> log[q.id].ver]
  OBVIOUS
<1>2. e \in [op: Writes, id: Nat, ver: 0..1] /\ e.op = q.kind /\ e.id = q.id /\ e.ver = log[q.id].ver
  BY <1>1, RowTypes DEF Inv, RequestsOK, RequestOK, WriteOK, IsRequest, Done
<1>3. Len(push) \in Nat /\ DOMAIN push = 1..Len(push)
  BY DEF Inv, PushOK
<1>4. /\ DOMAIN push \subseteq DOMAIN push' /\ \A k \in DOMAIN push: push'[k] = push[k]
      /\ push' # push => Len(push) + 1 \in DOMAIN push' /\ push'[Len(push) + 1] = e
  BY <1>1, <1>2, <1>3 DEF Inv, PushOK
<1>5. ASSUME NEW op, Storing(op, i)
      PROVE  Storing(op, i)' \/ (push' # push /\ op = q.kind /\ i = q.id)
  BY <1>5 DEF Storing
<1>6. ASSUME NEW op, Coming(op, i) PROVE Coming(op, i)'
  <2>1. CASE Pushing(op, i)
    BY <1>4, <2>1 DEF Pushing, Coming
  <2>2. CASE Storing(op, i)
    BY <1>2, <1>4, <1>5, <2>2 DEF Pushing, Coming
  <2> QED  BY <1>6, <2>1, <2>2 DEF Coming
<1>7. ASSUME Arriving(i) PROVE Arriving(i)'
  <2>1. Coming("send", i)'
    BY <1>6, <1>7 DEF Arriving
  <2> SUFFICES ASSUME NEW k \in DOMAIN push', push'[k].op = "send", push'[k].id = i
               PROVE  \/ push'[k].ver = log'[i].ver
                      \/ Storing("edit", i)'
                      \/ \E j \in DOMAIN push': j > k /\ push'[j].op = "edit" /\ push'[j].id = i
    BY <2>1 DEF Arriving
  <2>2. k \in DOMAIN push \/ push'[k] = e
    BY <1>1, <1>2, <1>3 DEF Inv, PushOK
  <2>3. CASE k \in DOMAIN push
    <3>1. push'[k] = push[k] /\ (push' # push => Len(push) + 1 > k)
      BY <1>3, <1>4, <2>3
    <3>2. \/ push[k].ver = log[i].ver \/ Storing("edit", i)
          \/ \E j \in DOMAIN push: j > k /\ push[j].op = "edit" /\ push[j].id = i
      BY <1>7, <2>3, <3>1 DEF Arriving
    <3> QED  BY <1>2, <1>4, <1>5, <3>1, <3>2
  <2>4. CASE push'[k] = e
    BY <1>2, <2>4
  <2> QED  BY <2>2, <2>3, <2>4
<1> QED  BY <1>6, <1>7

LEMMA PublishKeeps ==
  ASSUME Inv, NEW q \in reqs, Publish(q) \/ Untold(q)
  PROVE  Inv'
<1> USE DEF server, view
<1> DEFINE c == log[q.id].conv
           e == [op |-> q.kind, id |-> q.id, ver |-> log[q.id].ver]
<1>1. /\ q.stage = "stored" /\ RequestOK(q) /\ IsRequest(q) /\ q.kind \in Writes /\ WriteOK(q)
      /\ q.id \in DOMAIN log /\ log[q.id].conv = q.conv /\ log[q.id].own = q.own
      /\ log[q.id].ver \in 0..1 /\ log[q.id].deleted \in BOOLEAN /\ c \in Convs /\ q.id \in Nat
  BY RowTypes DEF Publish, Untold, Inv, RequestsOK, RequestOK, WriteOK, Done, IsRequest
<1>2. /\ log' = log /\ readUpTo' = readUpTo /\ seen' = seen /\ UNCHANGED <<shown, selected, editing, mixed>>
      /\ \/ push' = Append(push, e) /\ taken' = taken /\ stale' = stale
         \/ push' = push /\ taken' = [taken EXCEPT ![c] = @ + 1] /\ stale' = (stale \/ selected = c)
  BY DEF Publish, Untold, socket
<1>3. PICK r: /\ \/ reqs' = (reqs \ {q}) \union {r} /\ q.own
                 \/ reqs' = reqs \ {q}
              /\ r = [Answer(q) EXCEPT !.body = <<ViewOf(q.id)>>] \/ r = Refuse(q)
  BY DEF Publish, Untold, Step
<1>4. q.own => RequestOK(r)
  <2> SUFFICES ASSUME r = [Answer(q) EXCEPT !.body = <<ViewOf(q.id)>>] PROVE RequestOK(r)
    BY <1>1, <1>3, RefusalOK
  <2>1. ViewOf(q.id) \in AnyView /\ ViewOf(q.id).id = q.id /\ ViewOf(q.id).ver = log[q.id].ver
    BY <1>1 DEF ViewOf, AnyView
  <2>2. PICK b: b = <<ViewOf(q.id)>> /\ b \in Seq(AnyView) /\ Len(b) = 1 /\ b[1] = ViewOf(q.id)
    <3>1. PICK v: v = ViewOf(q.id)
      OBVIOUS
    <3>2. <<v>> \in Seq(AnyView) /\ Len(<<v>>) = 1 /\ <<v>>[1] = v
      BY <2>1, <3>1
    <3> QED  BY <3>1, <3>2
  <2>3. IsRequest(r) /\ r.stage = "answered" /\ r.kind = q.kind /\ r.conv = q.conv /\ r.id = q.id
        /\ r.own = q.own /\ r.body = b
    BY <1>1, <1>3, <2>2 DEF IsRequest, Answer, Stages
  <2>4. WriteOK(r)
    BY <1>1, <2>1, <2>2, <2>3 DEF WriteOK, Done
  <2> QED  BY <1>1, <2>3, <2>4 DEF RequestOK, Writes
<1>5. LogOK' /\ OwnSeen'
  <2>1. taken' \in [Convs -> Nat]
    BY <1>1, <1>2 DEF Inv, LogOK
  <2> QED  BY <1>2, <2>1 DEF Inv, LogOK, OwnSeen
<1>6. PushOK'
  <2>1. CASE push' = push
    BY <1>2, <2>1 DEF Inv, PushOK
  <2>2. CASE push' = Append(push, e)
    <3>1. e \in [op: Writes, id: Nat, ver: 0..1] /\ e.op = q.kind /\ e.id = q.id /\ e.ver = log[q.id].ver
      BY <1>1
    <3> HIDE DEF e
    <3>2. /\ push' \in Seq([op: Writes, id: Nat, ver: 0..1])
          /\ \A k \in DOMAIN push': k \in DOMAIN push \/ push'[k] = e
          /\ \A k \in DOMAIN push: push'[k] = push[k]
      BY <2>2, <3>1 DEF Inv, PushOK
    <3>3. q.kind = "edit" => log[q.id].ver = 1
      BY <1>1 DEF WriteOK, Done
    <3>4. q.kind = "delete" => log[q.id].deleted
      BY <1>1 DEF WriteOK, Done
    <3>5. \A k \in DOMAIN push':
            /\ push'[k].id \in DOMAIN log /\ (log[push'[k].id].ver = 0 => push'[k].ver = 0)
            /\ push'[k].op = "edit" => push'[k].ver = 1
            /\ push'[k].op = "delete" => log[push'[k].id].deleted
      BY <1>1, <3>1, <3>2, <3>3, <3>4 DEF Inv, PushOK
    <3> QED  BY <1>2, <3>2, <3>5 DEF PushOK
  <2> QED  BY <1>2, <2>1, <2>2
<1>7. \A p \in reqs: p # q /\ p.stage = "stored" => p \in reqs'
  BY <1>3
<1>8. LogGrows
  <2>1. \A d \in Convs: taken[d] \in Nat /\ taken[d] <= taken'[d]
    BY <1>1, <1>2 DEF Inv, LogOK
  <2> QED  BY <1>2, <1>5, <2>1, RowTypes DEF LogGrows, Inv
<1>9. ASSUME NEW d \in Convs, taken'[d] = taken[d] PROVE Undisturbed(d)
  <2>1. push' = push => d # c
    BY <1>1, <1>2, <1>9, RowTypes DEF Inv, LogOK, PushOK
  <2> SUFFICES ASSUME NEW i \in DOMAIN log, log[i].conv = d
               PROVE  (Arriving(i) => Arriving(i)') /\ \A op: Coming(op, i) => Coming(op, i)'
    BY <1>2 DEF Undisturbed
  <2>2. push' = push => i # q.id
    BY <2>1
  <2> QED  BY <1>1, <1>2, <1>7, <2>2, PublishedStays
<1>10. Grows
  BY <1>8, <1>9 DEF Grows
<1>11. RequestsOK' /\ ReadOK'
  <2>1. q.own => RequestOK(r)'
    BY <1>4, <1>10, RequestStays DEF Inv
  <2> QED  BY <1>2, <1>3, <1>10, <2>1, RequestsStay, ReadStays
<1>12. ShownOK'
  <2>1. stale => stale'
    BY <1>2
  <2> QED  BY <1>2, <1>8, <2>1, ShownStays
<1>13. ScreenOK'
  <2>1. Loading(selected) => Loading(selected)'
    BY <1>1, <1>2, <1>3 DEF Loading, Writes
  <2>2. ~stale' /\ selected # NoConv => ~stale /\ taken'[selected] = taken[selected]
    BY <1>1, <1>2 DEF Inv, ShownOK, LogOK
  <2> QED  BY <1>2, <1>10, <2>1, <2>2, ScreenStays
<1> QED  BY <1>5, <1>6, <1>11, <1>12, <1>13 DEF Inv


(* The socket breaks: what was on its way counts as missed. *)
LEMMA NothingPushed ==
  ASSUME Inv, NEW c
  PROVE  Count(c) \in Nat /\ (Count(c) = 0 => \A k \in DOMAIN push: log[push[k].id].conv # c)
<1> DEFINE S == {k \in DOMAIN push: log[push[k].id].conv = c}
<1>1. Len(push) \in Nat /\ DOMAIN push = 1..Len(push)
  BY DEF Inv, PushOK
<1>2. IsFiniteSet(S)
  BY <1>1, BoundedFinite
<1>3. Cardinality(S) \in Nat /\ (Cardinality(S) = 0 => S = {})
  BY <1>2, FS_CardinalityType, FS_EmptySet
<1> QED  BY <1>3 DEF Count

LEMMA DisconnectKeeps ==
  ASSUME Inv, Disconnect
  PROVE  Inv'
<1> USE DEF server, view
<1>1. /\ UNCHANGED <<log, readUpTo, reqs, shown, selected, editing, mixed, seen>> /\ push' = <<>>
      /\ taken' = [c \in Convs |-> taken[c] + Count(c)]
      /\ stale' = (stale \/ (selected # NoConv /\ Count(selected) > 0))
  BY DEF Disconnect
<1>2. \A c \in Convs: taken'[c] \in Nat /\ taken[c] <= taken'[c] /\ (taken'[c] = taken[c] => Count(c) = 0)
  <2> SUFFICES ASSUME NEW c \in Convs
               PROVE taken'[c] \in Nat /\ taken[c] <= taken'[c] /\ (taken'[c] = taken[c] => Count(c) = 0)
    OBVIOUS
  <2>1. taken'[c] = taken[c] + Count(c) /\ taken[c] \in Nat /\ Count(c) \in Nat
    BY <1>1, NothingPushed DEF Inv, LogOK
  <2> QED  BY <2>1
<1>3. LogOK' /\ OwnSeen'
  BY <1>1, <1>2 DEF Inv, LogOK, OwnSeen
<1>4. PushOK'
  BY <1>1 DEF PushOK
<1>5. LogGrows
  BY <1>1, <1>2, <1>3, RowTypes DEF LogGrows, Inv
<1>6. ASSUME NEW c \in Convs, taken'[c] = taken[c] PROVE Undisturbed(c)
  <2>1. \A k \in DOMAIN push: log[push[k].id].conv # c
    BY <1>2, <1>6, NothingPushed
  <2> SUFFICES ASSUME NEW i \in DOMAIN log, log[i].conv = c
               PROVE  (Arriving(i) => Arriving(i)') /\ \A op: Coming(op, i) => Coming(op, i)'
    BY <1>1 DEF Undisturbed
  <2>2. \A k \in DOMAIN push: push[k].id # i
    BY <2>1
  <2>3. \A op: Storing(op, i) => Storing(op, i)'
    BY <1>1 DEF Storing
  <2>4. \A op: Coming(op, i) => Coming(op, i)'
    BY <2>2, <2>3 DEF Coming, Pushing
  <2>5. Arriving(i) => Arriving(i)'
    BY <1>1, <2>4 DEF Arriving
  <2> QED  BY <2>4, <2>5
<1>7. Grows
  BY <1>5, <1>6 DEF Grows
<1>8. RequestsOK' /\ ReadOK'
  BY <1>1, <1>7, RequestsStay, ReadStays
<1>9. ShownOK'
  <2>1. stale => stale'
    BY <1>1
  <2> QED  BY <1>1, <1>5, <2>1, ShownStays
<1>10. ScreenOK'
  <2>1. ~stale' /\ selected # NoConv => ~stale /\ taken'[selected] = taken[selected]
    <3> SUFFICES ASSUME ~stale', selected # NoConv PROVE ~stale /\ taken'[selected] = taken[selected]
      OBVIOUS
    <3>1. PICK c: c = selected
      OBVIOUS
    <3>2. ~stale /\ ~(Count(c) > 0)
      BY <1>1, <3>1
    <3>3. c \in Convs /\ Count(c) \in Nat /\ taken[c] \in Nat
      BY <3>1, NothingPushed DEF Inv, ShownOK, LogOK
    <3>4. taken'[c] = taken[c] + Count(c)
      BY <1>1, <3>3
    <3>5. taken'[c] = taken[c]
      BY <3>2, <3>3, <3>4
    <3> QED  BY <3>1, <3>2, <3>5
  <2> QED  BY <1>1, <1>7, <2>1, ScreenStays DEF Loading
<1> QED  BY <1>3, <1>4, <1>8, <1>9, <1>10 DEF Inv

LEMMA IdleKeeps ==
  ASSUME Inv, UNCHANGED <<log, readUpTo, push, reqs, view, history>>
  PROVE  Inv'
<1>1. Untouched
  BY DEF Untouched, Inv, LogOK, history
<1>2. ShownOK' /\ ScreenOK'
  BY <1>1, UntouchedGrows, ShownStays, ScreenStays DEF view, history, Loading, Grows
<1> QED  BY <1>1, <1>2, UntouchedInv

LEMMA FeedKeeps ==
  ASSUME Inv, RefreshFeed \/ Reconnect
  PROVE  Inv'
BY IdleKeeps DEF RefreshFeed, Reconnect, server

LEMMA ServerKeeps ==
  ASSUME Inv, NEW q \in reqs, ServerStep(q) \/ Lose(q)
  PROVE  Inv'
<1>1. RequestOK(q)
  BY DEF Inv, RequestsOK
<1>2. CASE Lose(q)
  BY <1>1, <1>2, RefusalOK, ReplyKeeps DEF Lose, server, socket
<1>3. CASE RemoveConversation(q)
  <2>1. CASE q.conv \in member /\ Conversations(q, "drop", member \ {q.conv})
    BY <2>1, ConversationsKeeps
  <2>2. CASE q.stage = "sent" /\ Step(q, Refuse(q)) /\ UNCHANGED <<server, socket, view, steps, history>>
    BY <1>1, <2>2, RefusalOK, ReplyKeeps DEF server, socket
  <2> QED  BY <1>3, <2>1, <2>2 DEF RemoveConversation
<1>4. CASE ListConversations(q) \/ CreateConversation(q)
  BY <1>4, ConversationsKeeps DEF ListConversations, CreateConversation
<1> QED  BY <1>2, <1>3, <1>4, ListKeeps, ReadKeeps, StoreKeeps, ChangeKeeps, KeepKeeps, PublishKeeps
     DEF ServerStep


-----------------------------------------------------------------------------
(* Answers. *)

Taken(q) == \A p \in reqs: p # q => p \in reqs'

LEMMA AnswerUntouched ==
  ASSUME Inv, NEW q \in reqs, q.stage = "answered", Taken(q), UNCHANGED <<server, socket, taken>>,
         seen \subseteq seen'
  PROVE  Untouched /\ Grows /\ readUpTo' = readUpTo
BY UntouchedGrows DEF Untouched, Taken, server, socket, Inv, LogOK

(* What is on the screen changes to w. *)
LEMMA ShownChanges ==
  ASSUME Inv, Grows, NEW w, shown' = w, ViewsOK(w), IdsOf(w) \subseteq seen',
         UNCHANGED <<selected, editing, mixed>>, selected # NoConv \/ w = <<>>,
         stale => stale',
         ~mixed \/ ~stale' => \A i \in IdsOf(w): log[i].conv = selected
  PROVE  ShownOK'
<1>1. ViewsOK(w)'
  BY ViewsStay DEF Inv, Grows
<1>2. ShownIds' = IdsOf(w) /\ IdsOf(w) \subseteq DOMAIN log
  BY DEF ShownIds, IdsOf, ViewsOK
<1> QED  BY <1>1, <1>2, DomainGrows DEF Inv, ShownOK, LogGrows, Grows, ViewsOK

LEMMA ScreenChanges ==
  ASSUME Inv, Grows, NEW w, shown' = w, ViewsOK(w), selected' = selected,
         ~stale' /\ selected # NoConv =>
           \/ Loading(selected)'
           \/ taken'[selected] = taken[selected] /\ Following(w, selected)
  PROVE  ScreenOK'
<1> SUFFICES ASSUME ~stale', selected # NoConv, ~(Loading(selected)') PROVE Following(shown, selected)'
  BY DEF ScreenOK, Loading
<1>1. PICK c: c = selected
  OBVIOUS
<1>2. c \in Convs /\ Following(w, c) /\ Undisturbed(c)
  BY <1>1 DEF Inv, ShownOK, Grows
<1>3. Following(w, c)'
  BY <1>2, FollowingStays DEF Inv, Grows
<1> QED  BY <1>1, <1>3 DEF Following, IdsOf

LEMMA LoadedKeeps ==
  ASSUME Inv, NEW q \in reqs, MessagesLoaded(q)
  PROVE  Inv'
<1>1. q.stage = "answered" /\ q.kind = "load" /\ RequestOK(q) /\ IsRequest(q) /\ q.conv \in Convs
      /\ UNCHANGED <<server, socket, selected, editing, taken>>
  BY DEF MessagesLoaded, Pending, Inv, RequestsOK, RequestOK
<1>2. CASE selected = q.conv /\ q.ok
  <2>1. /\ shown' = q.body /\ seen' = seen \union IdsOf(q.body) /\ stale' = (q.since # taken[q.conv])
        /\ mixed' = (mixed /\ editing # NoMsg)
        /\ IF q.body = <<>> THEN Take(q)
           ELSE TakeAndCall(q, "read", q.conv, q.body[Len(q.body)].id)
    BY <1>2 DEF MessagesLoaded
  <2>2. ListOK(q) /\ ViewsOK(q.body)
    BY <1>1, <1>2 DEF RequestOK, Done, ListOK
  <2>3. Taken(q)
    BY <2>1 DEF Taken, Take, TakeAndCall
  <2>4. Untouched /\ Grows /\ readUpTo' = readUpTo
    BY <1>1, <2>1, <2>3, AnswerUntouched
  <2>5. \A r \in reqs': r \in reqs \/ RequestOK(r)'
    <3>1. CASE q.body = <<>>
      BY <2>1, <3>1 DEF Take
    <3>2. CASE q.body # <<>>
      <4>1. PICK i: i = q.body[Len(q.body)].id
        OBVIOUS
      <4>2. Len(q.body) \in DOMAIN q.body
        BY <2>2, <3>2 DEF ViewsOK
      <4>3. i \in DOMAIN log /\ i \in Nat /\ i <= Len(log)
        BY <2>2, <4>1, <4>2, RowTypes DEF ViewsOK, Inv
      <4>4. SeenUpTo(q.conv, i)'
        BY <1>1, <2>1, <2>2, <4>1, <4>2 DEF ListOK, SeenUpTo, server
      <4>5. PICK r: reqs' = (reqs \ {q}) \union {r} /\ Fresh(r, TRUE, "read", q.conv, i)
        BY <1>1, <2>1, <3>2, <4>1, <4>3, RequestIsFresh DEF TakeAndCall, Request, Kinds
      <4>6. RequestOK(r)'
        BY <1>1, <4>3, <4>4, <4>5, FreshOK DEF server
      <4> QED  BY <4>5, <4>6
    <3> QED  BY <3>1, <3>2
  <2>6. ShownOK'
    <3>1. ViewsOK(q.body)'
      BY <2>2, <2>4, ViewsStay DEF Inv, Grows
    <3>2. ShownIds' = IdsOf(q.body) /\ IdsOf(q.body) \subseteq DOMAIN log
          /\ \A i \in IdsOf(q.body): log[i].conv = q.conv
      BY <2>1, <2>2 DEF ShownIds, IdsOf, ViewsOK, ListOK
    <3> QED  BY <1>1, <1>2, <2>1, <3>1, <3>2, ViewAssumption DEF Inv, ShownOK, server, ViewsOK
  <2>7. ScreenOK'
    <3>1. ~stale' => Following(q.body, selected)
      BY <1>2, <2>1, <2>2 DEF ListOK
    <3> QED  BY <1>1, <2>1, <2>2, <2>4, <3>1, ScreenChanges
  <2> QED  BY <2>4, <2>5, <2>6, <2>7, UntouchedInv
<1>3. CASE ~(selected = q.conv /\ q.ok)
  <2>1. reqs' = reqs \ {q} /\ UNCHANGED <<shown, seen, mixed>> /\ stale' = (stale \/ selected = q.conv)
    BY <1>3 DEF MessagesLoaded, Take
  <2>2. Untouched /\ Grows /\ readUpTo' = readUpTo
    BY <1>1, <2>1, AnswerUntouched DEF Taken
  <2>3. ShownOK'
    <3>1. stale => stale'
      BY <2>1
    <3> QED  BY <1>1, <2>1, <2>2, <3>1, ShownStays DEF Grows
  <2>4. ScreenOK'
    <3>1. CASE stale'
      BY <3>1 DEF ScreenOK
    <3>2. CASE ~stale'
      <4>1. ~stale /\ selected # q.conv
        BY <2>1, <3>2
      <4>2. Loading(selected) => Loading(selected)'
        BY <1>1, <2>1, <4>1 DEF Loading
      <4> QED  BY <1>1, <2>1, <2>2, <4>1, <4>2, ScreenStays
    <3> QED  BY <3>1, <3>2
  <2> QED  BY <2>1, <2>2, <2>3, <2>4, UntouchedInv
<1> QED  BY <1>2, <1>3


(* A list that cannot be read empties the screen. *)
LEMMA BrokenKeeps ==
  ASSUME Inv, NEW q \in reqs, MessagesBroken(q)
  PROVE  Inv'
<1>1. /\ q.stage = "answered" /\ reqs' = reqs \ {q} /\ shown' = <<>> /\ stale' = TRUE
      /\ mixed' = (mixed /\ editing # NoMsg) /\ UNCHANGED <<server, socket, selected, editing, taken, seen>>
  BY DEF MessagesBroken, Pending
<1>2. Untouched /\ Grows /\ readUpTo' = readUpTo
  BY <1>1, AnswerUntouched DEF Taken
<1>3. ShownOK'
  <2>1. ViewsOK(shown)' /\ ShownIds' = {}
    BY <1>1 DEF ViewsOK, ShownIds
  <2>2. ~mixed' => ~mixed \/ editing = NoMsg
    BY <1>1
  <2> QED  BY <1>1, <2>1, <2>2 DEF Inv, ShownOK, server
<1>4. ScreenOK'
  BY <1>1 DEF ScreenOK
<1> QED  BY <1>1, <1>2, <1>3, <1>4, UntouchedInv

(* The lists that follow from an answer to a write. *)
LEMMA FollowingAppend ==
  ASSUME LogOK, NEW c, NEW s, ViewsOK(s), Following(s, c), NEW m \in AnyView, m.id \in DOMAIN log,
         m.id \notin IdsOf(s), NEW w, Appended(w, s, m),
         log[m.id].conv = c =>
           /\ log[m.id].deleted => Coming("delete", m.id)
           /\ m.ver = log[m.id].ver \/ log[m.id].deleted \/ Coming("edit", m.id)
  PROVE  Following(w, c)
<1>1. IdsOf(w) = IdsOf(s) \union {m.id} /\ \A k \in DOMAIN w: w[k] = m \/ \E j \in DOMAIN s: w[k] = s[j]
  BY AppendFacts
<1> SUFFICES ASSUME NEW i \in DOMAIN log, log[i].conv = c
             PROVE  /\ ~log[i].deleted /\ i \notin IdsOf(w) => Arriving(i)
                    /\ \A k \in DOMAIN w: w[k].id = i /\ w[k].ver # log[i].ver /\ ~log[i].deleted
                         => Coming("edit", i)
                    /\ log[i].deleted /\ i \in IdsOf(w) => Coming("delete", i)
  BY DEF Following
<1>2. \A k \in DOMAIN s: s[k].id \in IdsOf(s)
  BY DEF IdsOf
<1> QED  BY <1>1, <1>2 DEF Following

LEMMA FollowingReplaced ==
  ASSUME LogOK, NEW c, NEW s, ViewsOK(s), Following(s, c), NEW m \in AnyView,
         m.id \in DOMAIN log, log[m.id].ver = m.ver \/ Coming("edit", m.id), NEW w, w = Replaced(s, m)
  PROVE  Following(w, c)
<1>1. /\ IdsOf(w) = IdsOf(s) /\ DOMAIN w = DOMAIN s
      /\ \A k \in DOMAIN s: w[k] = IF s[k].id = m.id THEN m ELSE s[k]
  BY ReplacedFacts
<1> QED  BY <1>1 DEF Following

LEMMA FollowingWithout ==
  ASSUME LogOK, NEW c, NEW s, ViewsOK(s), Following(s, c), NEW i,
         i \in DOMAIN log => log[i].deleted, NEW w, w = Without(s, i)
  PROVE  Following(w, c)
<1>1. IdsOf(w) = IdsOf(s) \ {i} /\ \A k \in DOMAIN w: \E j \in DOMAIN s: w[k] = s[j]
  BY WithoutFacts
<1> QED  BY <1>1 DEF Following

(* An answer to a write changes the screen, if at all, to w. *)
LEMMA WriteAnswerKeeps ==
  ASSUME Inv, NEW q \in reqs, q.stage = "answered", q.kind \in Writes, reqs' = reqs \ {q},
         UNCHANGED <<server, socket, selected, editing, taken, mixed>>, stale => stale',
         NEW w, shown' = w, ViewsOK(w), IdsOf(w) \subseteq seen', seen \subseteq seen',
         selected # NoConv \/ w = <<>>,
         ~mixed \/ ~stale' => \A i \in IdsOf(w): log[i].conv = selected,
         ~stale' /\ selected # NoConv /\ Following(shown, selected) => Following(w, selected)
  PROVE  Inv'
<1>1. Untouched /\ Grows /\ readUpTo' = readUpTo
  BY AnswerUntouched DEF Taken
<1>2. ShownOK'
  BY <1>1, ShownChanges
<1>3. Loading(selected) => Loading(selected)'
  BY DEF Loading, Writes
<1>4. ScreenOK'
  BY <1>1, <1>3, ScreenChanges DEF Inv, ScreenOK
<1> QED  BY <1>1, <1>2, <1>4, UntouchedInv

LEMMA SentKeeps ==
  ASSUME Inv, NEW q \in reqs, MessageSent(q)
  PROVE  Inv'
<1>1. /\ q.stage = "answered" /\ q.kind = "send" /\ q.own /\ RequestOK(q) /\ WriteOK(q) /\ IsRequest(q)
      /\ q.conv \in Convs /\ reqs' = reqs \ {q}
      /\ UNCHANGED <<server, socket, selected, editing, taken, mixed>>
  BY DEF MessageSent, Pending, Take, Inv, RequestsOK, RequestOK, Writes
<1>2. ViewsOK(shown) /\ IdsOf(shown) = ShownIds /\ IdsOf(shown) \subseteq seen
      /\ (~mixed \/ ~stale => \A i \in IdsOf(shown): log[i].conv = selected)
      /\ (selected = NoConv => shown = <<>>)
  BY IdsFacts DEF Inv, ShownOK
<1>3. CASE q.ok /\ selected = q.conv /\ q.id \notin ShownIds
  <2>1. PICK m: m = q.body[1]
    OBVIOUS
  <2>2. /\ q.id \in DOMAIN log /\ log[q.id].own = q.own /\ log[q.id].conv = q.conv
        /\ Len(q.body) = 1 /\ m.id = q.id /\ (log[q.id].ver = 0 => m.ver = 0)
    BY <1>1, <1>3, <2>1 DEF WriteOK, Done
  <2>3. m \in AnyView
    BY <1>1, <2>1, <2>2 DEF IsRequest
  <2>4. q.body \in Seq(AnyView) /\ shown \in Seq(AnyView)
    BY <1>1, <1>2 DEF IsRequest, ViewsOK
  <2>5. shown' = shown \o q.body /\ seen' = seen \union IdsOf(q.body) /\ stale' = (stale \/ q.id \in seen)
    BY <1>3 DEF MessageSent
  <2>6. PICK w: w = shown \o q.body /\ Appended(w, shown, m)
    BY <2>1, <2>2, <2>3, <2>4, AppendIs
  <2>7. ViewsOK(w) /\ IdsOf(w) = IdsOf(shown) \union {q.id}
    BY <1>2, <1>3, <2>2, <2>3, <2>6, AppendFacts
  <2>8. q.id \in IdsOf(q.body)
    BY <1>1, <2>1, <2>2 DEF IdsOf, IsRequest
  <2>9. ~stale' => ~stale /\ ~log[q.id].deleted /\ log[q.id].ver = m.ver
    <3>1. ~stale' => ~stale /\ q.id \notin seen
      BY <2>5
    <3>2. q.id \notin seen => ~log[q.id].deleted /\ log[q.id].ver # 1
      BY <1>1, <2>2 DEF Inv, OwnSeen
    <3>3. log[q.id].ver \in 0..1
      BY <2>2, RowTypes DEF Inv
    <3> QED  BY <2>2, <3>1, <3>2, <3>3
  <2>10. ~stale' /\ Following(shown, selected) => Following(w, selected)
    BY <1>2, <1>3, <2>2, <2>3, <2>6, <2>9, FollowingAppend DEF Inv
  <2>11. stale => stale'
    BY <2>5
  <2>12. ~mixed \/ ~stale' => \A i \in IdsOf(w): log[i].conv = selected
    BY <1>2, <1>3, <2>2, <2>7, <2>9
  <2>13. IdsOf(w) \subseteq seen' /\ seen \subseteq seen' /\ selected # NoConv /\ shown' = w
    BY <1>1, <1>2, <1>3, <2>5, <2>6, <2>7, <2>8, ViewAssumption
  <2> QED  BY <1>1, <2>7, <2>10, <2>11, <2>12, <2>13, WriteAnswerKeeps DEF Writes
<1>4. CASE ~(q.ok /\ selected = q.conv /\ q.id \notin ShownIds)
  <2>1. UNCHANGED <<shown, seen, stale>>
    BY <1>4 DEF MessageSent
  <2>2. PICK w: w = shown
    OBVIOUS
  <2> QED  BY <1>1, <1>2, <2>1, <2>2, WriteAnswerKeeps DEF Writes
<1> QED  BY <1>3, <1>4

LEMMA EditedKeeps ==
  ASSUME Inv, NEW q \in reqs, EditResult(q)
  PROVE  Inv'
<1>1. /\ q.stage = "answered" /\ q.kind = "edit" /\ RequestOK(q) /\ WriteOK(q) /\ IsRequest(q)
      /\ reqs' = reqs \ {q} /\ UNCHANGED <<server, socket, selected, editing, taken, seen, mixed>>
      /\ stale' = (stale \/ (q.ok /\ q.body[1].ver # log[q.id].ver /\ Passed("edit", q.id)))
  BY DEF EditResult, Pending, Take, Inv, RequestsOK, RequestOK, Writes
<1>2. ViewsOK(shown) /\ IdsOf(shown) = ShownIds /\ IdsOf(shown) \subseteq seen
      /\ (~mixed \/ ~stale => \A i \in IdsOf(shown): log[i].conv = selected)
      /\ (selected = NoConv => shown = <<>>)
  BY IdsFacts DEF Inv, ShownOK
<1>3. CASE q.ok
  <2>1. PICK m, w: m = q.body[1] /\ w = Replaced(shown, m)
    OBVIOUS
  <2>2. m \in AnyView /\ m.id \in DOMAIN log /\ m.id = q.id
    BY <1>1, <1>3, <2>1 DEF WriteOK, Done, IsRequest
  <2>3. /\ ViewsOK(w) /\ IdsOf(w) = IdsOf(shown) /\ DOMAIN w = DOMAIN shown
    BY <1>2, <2>1, <2>2, ReplacedFacts
  <2>4. selected = NoConv => w = <<>>
    BY <1>2, <2>3 DEF ViewsOK
  <2>5. ~stale' /\ Following(shown, selected) => Following(w, selected)
    <3>1. ~stale' => m.ver = log[m.id].ver \/ ~Passed("edit", m.id)
      BY <1>1, <1>3, <2>1, <2>2
    <3>2. ~Passed("edit", m.id) => Coming("edit", m.id)
      BY DEF Passed, Coming, Pushing, Storing
    <3> QED  BY <1>2, <2>1, <2>2, <3>1, <3>2, FollowingReplaced DEF Inv
  <2>6. shown' = w /\ seen' = seen /\ (stale => stale')
    BY <1>1, <1>3, <2>1 DEF EditResult
  <2>7. ~mixed \/ ~stale' => \A i \in IdsOf(w): log[i].conv = selected
    BY <1>2, <2>3, <2>6
  <2> QED  BY <1>1, <1>2, <2>3, <2>4, <2>5, <2>6, <2>7, WriteAnswerKeeps DEF Writes
<1>4. CASE ~q.ok
  <2>1. shown' = shown /\ (stale' <=> stale)
    BY <1>1, <1>4 DEF EditResult
  <2>2. PICK w: w = shown
    OBVIOUS
  <2> QED  BY <1>1, <1>2, <2>1, <2>2, WriteAnswerKeeps DEF Writes
<1> QED  BY <1>3, <1>4

LEMMA DeletedKeeps ==
  ASSUME Inv, NEW q \in reqs, DeleteResult(q)
  PROVE  Inv'
<1>1. /\ q.stage = "answered" /\ q.kind = "delete" /\ RequestOK(q) /\ WriteOK(q) /\ IsRequest(q)
      /\ reqs' = reqs \ {q} /\ UNCHANGED <<server, socket, selected, editing, history>>
  BY DEF DeleteResult, Pending, Take, Inv, RequestsOK, RequestOK, Writes
<1>2. ViewsOK(shown) /\ IdsOf(shown) = ShownIds /\ IdsOf(shown) \subseteq seen
      /\ (~mixed \/ ~stale => \A i \in IdsOf(shown): log[i].conv = selected)
      /\ (selected = NoConv => shown = <<>>)
  BY IdsFacts DEF Inv, ShownOK
<1>3. CASE q.ok
  <2>1. PICK w: w = Without(shown, q.id)
    OBVIOUS
  <2>2. log[q.id].deleted
    BY <1>1, <1>3 DEF WriteOK, Done
  <2>3. ViewsOK(w) /\ IdsOf(w) \subseteq IdsOf(shown) /\ \A k \in DOMAIN w: \E j \in DOMAIN shown: w[k] = shown[j]
    BY <1>2, <2>1, WithoutFacts
  <2>4. selected = NoConv => w = <<>>
    BY <1>2, <2>3 DEF ViewsOK
  <2>5. Following(shown, selected) => Following(w, selected)
    BY <1>2, <2>1, <2>2, FollowingWithout DEF Inv
  <2>6. shown' = w /\ seen' = seen /\ stale' = stale /\ UNCHANGED <<mixed, taken>>
    BY <1>1, <1>3, <2>1 DEF DeleteResult, history
  <2> QED  BY <1>1, <1>2, <2>3, <2>4, <2>5, <2>6, WriteAnswerKeeps DEF Writes
<1>4. CASE ~q.ok
  <2>1. shown' = shown /\ UNCHANGED history
    BY <1>1, <1>4 DEF DeleteResult
  <2>2. PICK w: w = shown
    OBVIOUS
  <2> QED  BY <1>1, <1>2, <2>1, <2>2, WriteAnswerKeeps DEF Writes, history
<1> QED  BY <1>3, <1>4

(* Lists of conversations. *)
LEMMA ConvListKeeps ==
  ASSUME Inv, NEW q \in reqs,
         \/ ConversationsLoaded(q) \/ ConversationsBroken(q)
         \/ NewConvCreated(q) \/ DeleteConversationResult(q)
  PROVE  Inv'
<1>1. /\ q.stage = "answered" /\ q.kind \in {"list", "open", "drop"} /\ RequestOK(q)
      /\ UNCHANGED <<server, socket, editing, taken, seen>>
      /\ reqs' = reqs \ {q} \/ (reqs' = (reqs \ {q}) \union {Request("list", NoConv, NoMsg)})
  BY DEF ConversationsLoaded, ConversationsBroken, NewConvCreated, DeleteConversationResult, Pending, Take, TakeAndCall,
         Inv, RequestsOK, history
<1>2. Untouched /\ Grows /\ readUpTo' = readUpTo
  BY <1>1, AnswerUntouched DEF Taken
<1>3. \A r \in reqs': r \in reqs \/ RequestOK(r)'
  <2>1. PICK r: r = Request("list", NoConv, NoMsg) /\ Fresh(r, TRUE, "list", NoConv, NoMsg)
    <3>1. NoMsg \in Nat
      BY DEF NoMsg
    <3> QED  BY <3>1, RequestIsFresh DEF Request, Kinds
  <2>2. RequestOK(r)'
    BY <2>1, FreshOK
  <2> QED  BY <1>1, <2>1, <2>2
<1>4. Loading(selected) => Loading(selected)'  \/ selected' # selected
  BY <1>1 DEF Loading
<1>5. CASE UNCHANGED <<selected, shown, mixed, stale>>
  <2>1. ShownOK'
    BY <1>1, <1>2, <1>5, ShownStays DEF Grows
  <2>2. ScreenOK'
    BY <1>1, <1>2, <1>4, <1>5, ScreenStays
  <2> QED  BY <1>2, <1>3, <2>1, <2>2, UntouchedInv
<1>6. CASE selected' = NoConv /\ shown' = <<>> /\ UNCHANGED <<mixed, stale>>
  <2>1. ShownOK'
    BY <1>1, <1>6 DEF Inv, ShownOK, ShownIds, ViewsOK, server
  <2>2. ScreenOK'
    BY <1>6 DEF ScreenOK
  <2> QED  BY <1>2, <1>3, <2>1, <2>2, UntouchedInv
<1>7. CASE selected' = q.conv /\ q.conv \in Convs /\ shown' = shown
           /\ mixed' = (mixed \/ selected # q.conv) /\ stale' = TRUE
  <2>1. ~mixed' => ~mixed /\ selected' = selected
    BY <1>7
  <2>2. ShownOK'
    BY <1>1, <1>7, <2>1, ViewAssumption DEF Inv, ShownOK, ShownIds, ViewsOK, server
  <2>3. ScreenOK'
    BY <1>7 DEF ScreenOK
  <2> QED  BY <1>2, <1>3, <2>2, <2>3, UntouchedInv
<1>8. CASE ConversationsLoaded(q) \/ ConversationsBroken(q)
  BY <1>5, <1>8 DEF ConversationsLoaded, ConversationsBroken, history
<1>9. CASE NewConvCreated(q)
  <2>1. q.conv \in Convs
    BY <1>1, <1>9 DEF NewConvCreated, Pending, RequestOK
  <2> QED  BY <1>5, <1>7, <1>9, <2>1 DEF NewConvCreated
<1>10. CASE DeleteConversationResult(q)
  BY <1>5, <1>6, <1>10 DEF DeleteConversationResult, history
<1> QED  BY <1>8, <1>9, <1>10

LEMMA AnswerKeeps ==
  ASSUME Inv, NEW q \in reqs, AnswerStep(q)
  PROVE  Inv'
BY LoadedKeeps, BrokenKeeps, SentKeeps, EditedKeeps, DeletedKeeps, ConvListKeeps DEF AnswerStep

-----------------------------------------------------------------------------
(* Pushed events. *)

LEMMA HeadFacts ==
  ASSUME Inv, push # <<>>, push' = Tail(push)
  PROVE  /\ 1 \in DOMAIN push /\ Head(push) = push[1]
         /\ push' \in Seq([op: Writes, id: Nat, ver: 0..1])
         /\ \A k \in DOMAIN push': k + 1 \in DOMAIN push /\ push'[k] = push[k + 1]
         /\ \A k \in DOMAIN push: k \in Nat /\ (k = 1 \/ (k - 1 \in DOMAIN push' /\ push'[k - 1] = push[k]))
<1> DEFINE T == [op: Writes, id: Nat, ver: 0..1]
<1>1. push \in Seq(T)
  BY DEF Inv, PushOK
<1> HIDE DEF T
<1>2. PICK p, n: p = push /\ n = Len(p) /\ p \in Seq(T) /\ p # <<>> /\ n \in Nat \ {0}
  BY <1>1
<1>3. PICK t: t = Tail(p) /\ t \in Seq(T) /\ Len(t) = n - 1 /\ \A k \in 1..(n - 1): t[k] = p[k + 1]
  BY <1>2
<1>4. DOMAIN p = 1..n /\ DOMAIN t = 1..(n - 1) /\ Head(p) = p[1]
  BY <1>2, <1>3
<1>5. /\ \A k \in DOMAIN t: k + 1 \in DOMAIN p /\ t[k] = p[k + 1]
      /\ \A k \in DOMAIN p: k \in Nat /\ (k = 1 \/ (k - 1 \in DOMAIN t /\ t[k - 1] = p[k]))
      /\ 1 \in DOMAIN p
  <2>1. ASSUME NEW k \in DOMAIN p, k # 1 PROVE k - 1 \in 1..(n - 1) /\ (k - 1) + 1 = k
    BY <1>2, <1>4, <2>1
  <2>2. ASSUME NEW k \in DOMAIN p PROVE k \in Nat
    BY <1>4
  <2> QED  BY <1>2, <1>3, <1>4, <2>1, <2>2
<1>6. t \in Seq([op: Writes, id: Nat, ver: 0..1])
  BY <1>3 DEF T
<1> QED  BY <1>2, <1>3, <1>4, <1>5, <1>6

(* Only what the event itself was still to bring is no longer under way. *)
LEMMA Popped ==
  ASSUME Inv, push # <<>>, push' = Tail(push), log' = log, reqs \subseteq reqs',
         NEW e, e = Head(push), NEW i
  PROVE  /\ \A op: Coming(op, i) => Coming(op, i)' \/ (e.op = op /\ e.id = i)
         /\ Arriving(i) => Arriving(i)' \/ (e.op = "send" /\ e.id = i)
         /\ Arriving(i) /\ e.op = "send" /\ e.id = i => e.ver = log[i].ver \/ Coming("edit", i)'
<1>1. \A op: Storing(op, i) => Storing(op, i)'
  BY DEF Storing
<1>2. \A op: Pushing(op, i) => Pushing(op, i)' \/ (e.op = op /\ e.id = i)
  <2> SUFFICES ASSUME NEW op, NEW k \in DOMAIN push, push[k].op = op, push[k].id = i
               PROVE  Pushing(op, i)' \/ (e.op = op /\ e.id = i)
    BY DEF Pushing
  <2>1. k = 1 \/ (k - 1 \in DOMAIN push' /\ push'[k - 1] = push[k])
    BY HeadFacts
  <2>2. e = push[1]
    BY HeadFacts
  <2>3. CASE k = 1
    BY <2>2, <2>3
  <2>4. CASE k - 1 \in DOMAIN push' /\ push'[k - 1] = push[k]
    BY <2>4 DEF Pushing
  <2> QED  BY <2>1, <2>3, <2>4
<1>3. \A op: Coming(op, i) => Coming(op, i)' \/ (e.op = op /\ e.id = i)
  BY <1>1, <1>2 DEF Coming
<1>4. ASSUME NEW j \in DOMAIN push, NEW k \in DOMAIN push, j > k, push[j].op = "edit", push[j].id = i
      PROVE  j - 1 \in DOMAIN push' /\ push'[j - 1].op = "edit" /\ push'[j - 1].id = i
  <2>1. j # 1
    <3>1. j \in Nat /\ k \in Nat /\ k >= 1
      BY HeadFacts DEF Inv, PushOK
    <3> QED  BY <1>4, <3>1
  <2> QED  BY <1>4, <2>1, HeadFacts
<1>5. ASSUME Arriving(i), e.op = "send", e.id = i PROVE e.ver = log[i].ver \/ Coming("edit", i)'
  <2>1. 1 \in DOMAIN push /\ push[1] = e
    BY HeadFacts
  <2>2. \/ e.ver = log[i].ver
        \/ Storing("edit", i)
        \/ \E j \in DOMAIN push: j > 1 /\ push[j].op = "edit" /\ push[j].id = i
    BY <1>5, <2>1 DEF Arriving
  <2>3. CASE Storing("edit", i)
    BY <1>1, <2>3 DEF Coming
  <2>4. CASE \E j \in DOMAIN push: j > 1 /\ push[j].op = "edit" /\ push[j].id = i
    BY <1>4, <2>1, <2>4 DEF Coming, Pushing
  <2> QED  BY <2>2, <2>3, <2>4
<1>6. ASSUME Arriving(i), ~(e.op = "send" /\ e.id = i) PROVE Arriving(i)'
  <2>1. Coming("send", i)'
    BY <1>3, <1>6 DEF Arriving
  <2>2. ASSUME NEW k \in DOMAIN push', push'[k].op = "send", push'[k].id = i
        PROVE  \/ push'[k].ver = log[i].ver
               \/ Storing("edit", i)'
               \/ \E j \in DOMAIN push': j > k /\ push'[j].op = "edit" /\ push'[j].id = i
    <3>1. k + 1 \in DOMAIN push /\ push[k + 1] = push'[k] /\ k \in Nat
      <4>1. k \in Nat
        BY HeadFacts
      <4> QED  BY <4>1, HeadFacts
    <3>2. \/ push[k + 1].ver = log[i].ver
          \/ Storing("edit", i)
          \/ \E j \in DOMAIN push: j > k + 1 /\ push[j].op = "edit" /\ push[j].id = i
      BY <1>6, <2>2, <3>1 DEF Arriving
    <3>3. ASSUME NEW j \in DOMAIN push, j > k + 1, push[j].op = "edit", push[j].id = i
          PROVE  \E l \in DOMAIN push': l > k /\ push'[l].op = "edit" /\ push'[l].id = i
      <4>1. j - 1 \in DOMAIN push' /\ push'[j - 1].op = "edit" /\ push'[j - 1].id = i
        BY <1>4, <3>1, <3>3
      <4>2. j \in Nat
        BY HeadFacts
      <4>3. j - 1 > k
        BY <3>1, <3>3, <4>2
      <4> QED  BY <4>1, <4>3
    <3> QED  BY <1>1, <3>1, <3>2, <3>3
  <2> QED  BY <2>1, <2>2 DEF Arriving
<1> QED  BY <1>3, <1>5, <1>6

LEMMA PoppedSend ==
  ASSUME Inv, push # <<>>, push' = Tail(push), log' = log, reqs \subseteq reqs',
         NEW e, e = Head(push), e.op = "send", NEW i
  PROVE  /\ Coming("edit", i) => Coming("edit", i)'
         /\ Coming("delete", i) => Coming("delete", i)'
         /\ Arriving(i) /\ i # e.id => Arriving(i)'
         /\ Arriving(i) /\ i = e.id => e.ver = log[i].ver \/ Coming("edit", i)'
<1>1. \A op: Coming(op, i) => Coming(op, i)' \/ (e.op = op /\ e.id = i)
  BY Popped
<1>2. Arriving(i) => Arriving(i)' \/ (e.op = "send" /\ e.id = i)
  BY Popped
<1>3. Arriving(i) /\ e.op = "send" /\ e.id = i => e.ver = log[i].ver \/ Coming("edit", i)'
  BY Popped
<1> QED  BY <1>1, <1>2, <1>3

LEMMA PoppedChange ==
  ASSUME Inv, push # <<>>, push' = Tail(push), log' = log, reqs \subseteq reqs',
         NEW e, e = Head(push), e.op # "send", NEW i
  PROVE  /\ Coming("edit", i) /\ (e.op # "edit" \/ i # e.id) => Coming("edit", i)'
         /\ Coming("delete", i) /\ (e.op # "delete" \/ i # e.id) => Coming("delete", i)'
         /\ Arriving(i) => Arriving(i)'
<1>1. \A op: Coming(op, i) => Coming(op, i)' \/ (e.op = op /\ e.id = i)
  BY Popped
<1>2. Arriving(i) => Arriving(i)' \/ (e.op = "send" /\ e.id = i)
  BY Popped
<1> QED  BY <1>1, <1>2


(* One event is applied. *)
LEMMA EventFacts ==
  ASSUME Inv, OnPush, NEW e, e = Head(push), NEW c, c = log[e.id].conv
  PROVE  /\ push' = Tail(push) /\ UNCHANGED <<log, readUpTo, selected, editing, mixed>>
         /\ reqs \subseteq reqs' /\ seen \subseteq seen' /\ (stale => stale')
         /\ taken' = [taken EXCEPT ![c] = taken[c] + 1]
         /\ e \in [op: Writes, id: Nat, ver: 0..1] /\ e.id \in DOMAIN log /\ c \in Convs
         /\ log[e.id].ver = 0 => e.ver = 0
         /\ e.op = "edit" => e.ver = 1 /\ log[e.id].ver = 1
         /\ e.op = "delete" => log[e.id].deleted
<1>1. push # <<>> /\ push' = Tail(push)
  BY DEF OnPush
<1>2. 1 \in DOMAIN push /\ e = push[1]
  BY <1>1, HeadFacts
<1>3. /\ e \in [op: Writes, id: Nat, ver: 0..1] /\ e.id \in DOMAIN log
      /\ (log[e.id].ver = 0 => e.ver = 0) /\ (e.op = "edit" => e.ver = 1)
      /\ (e.op = "delete" => log[e.id].deleted)
  <2>1. e \in [op: Writes, id: Nat, ver: 0..1]
    <3>1. PICK T: T = [op: Writes, id: Nat, ver: 0..1] /\ push \in Seq(T)
      BY DEF Inv, PushOK
    <3>2. \A s \in Seq(T): \A k \in DOMAIN s: s[k] \in T
      OBVIOUS
    <3>3. e \in T
      BY <1>2, <3>1, <3>2
    <3> QED  BY <3>1, <3>3
  <2> QED  BY <1>2, <2>1 DEF Inv, PushOK
<1>4. c \in Convs /\ log[e.id].ver \in 0..1
  BY <1>3, RowTypes DEF Inv
<1>5. UNCHANGED <<log, readUpTo, selected, editing, mixed>> /\ reqs \subseteq reqs' /\ seen \subseteq seen'
  BY DEF OnPush, server
<1>6. taken' = [taken EXCEPT ![c] = taken[c] + 1]
  BY DEF OnPush
<1>7. stale => stale'
  BY DEF OnPush
<1>8. e.op = "edit" => log[e.id].ver = 1
  BY <1>3, <1>4
<1> QED  BY <1>1, <1>3, <1>4, <1>5, <1>6, <1>7, <1>8

LEMMA PushGrows ==
  ASSUME Inv, OnPush
  PROVE  Grows /\ OwnSeen' /\ PushOK' /\ LogOK'
<1>1. PICK e, c: e = Head(push) /\ c = log[e.id].conv
  OBVIOUS
<1>2. /\ push' = Tail(push) /\ UNCHANGED <<log, readUpTo>>
      /\ reqs \subseteq reqs' /\ seen \subseteq seen' /\ c \in Convs
      /\ taken' = [taken EXCEPT ![c] = taken[c] + 1]
  BY <1>1, EventFacts
<1>3. push # <<>>
  BY DEF OnPush
<1>4. \A d \in Convs: taken'[d] \in Nat /\ taken[d] <= taken'[d] /\ (taken'[d] = taken[d] => d # c)
  BY <1>2 DEF Inv, LogOK
<1>5. LogOK' /\ OwnSeen'
  BY <1>2 DEF Inv, LogOK, OwnSeen
<1>6. LogGrows
  BY <1>2, <1>4, <1>5, RowTypes DEF LogGrows, Inv
<1>7. ASSUME NEW d \in Convs, taken'[d] = taken[d] PROVE Undisturbed(d)
  <2>1. d # c
    BY <1>4, <1>7
  <2> SUFFICES ASSUME NEW i \in DOMAIN log, log[i].conv = d
               PROVE  (Arriving(i) => Arriving(i)') /\ \A op: Coming(op, i) => Coming(op, i)'
    BY <1>2 DEF Undisturbed
  <2>2. e.id # i
    BY <1>1, <2>1
  <2> QED  BY <1>1, <1>2, <1>3, <2>2, Popped
<1>8. PushOK'
  <2>1. /\ push' \in Seq([op: Writes, id: Nat, ver: 0..1])
        /\ \A k \in DOMAIN push': k + 1 \in DOMAIN push /\ push'[k] = push[k + 1]
    BY <1>2, <1>3, HeadFacts
  <2> QED  BY <1>2, <2>1 DEF Inv, PushOK
<1> QED  BY <1>5, <1>6, <1>7, <1>8 DEF Grows

(* The screen after the event e of c is w. *)
Applied(w, c) ==
  /\ shown' = w /\ ViewsOK(w) /\ IdsOf(w) \subseteq seen'
  /\ selected = NoConv => w = <<>>
  /\ ~mixed \/ ~stale' => \A i \in IdsOf(w): log[i].conv = selected
  /\ ~stale' /\ selected # NoConv /\ Following(shown, selected) =>
       IF selected = c THEN Following(w, c)' ELSE Following(w, selected)

(* A message is pushed that is not on the screen: it comes last. *)
LEMMA FollowingPushed ==
  ASSUME Inv, OnPush, NEW e, e = Head(push), NEW c, c = log[e.id].conv,
         selected = c, ~stale', Following(shown, c), e.op = "send", e.id \notin IdsOf(shown),
         NEW m \in AnyView, m.id = e.id, m.ver = e.ver, NEW w, Appended(w, shown, m)
  PROVE  Following(w, c)'
<1>1. /\ push # <<>> /\ push' = Tail(push) /\ log' = log /\ reqs \subseteq reqs' /\ e.id \in DOMAIN log
  BY EventFacts DEF OnPush
<1>2. ViewsOK(shown) /\ IdsOf(w) = IdsOf(shown) \union {e.id}
      /\ \A k \in DOMAIN w: w[k] = m \/ \E j \in DOMAIN shown: w[k] = shown[j]
  BY <1>1, AppendFacts DEF Inv, ShownOK
<1>3. ~Gone(e.id)
  BY DEF OnPush
<1> SUFFICES ASSUME NEW i \in DOMAIN log, log[i].conv = c
             PROVE  /\ ~log[i].deleted /\ i \notin IdsOf(w) => Arriving(i)'
                    /\ \A k \in DOMAIN w: w[k].id = i /\ w[k].ver # log[i].ver /\ ~log[i].deleted
                         => Coming("edit", i)'
                    /\ log[i].deleted /\ i \in IdsOf(w) => Coming("delete", i)'
  BY <1>1 DEF Following, IdsOf
<1>4. /\ Coming("edit", i) => Coming("edit", i)'
      /\ Coming("delete", i) => Coming("delete", i)'
      /\ Arriving(i) /\ i # e.id => Arriving(i)'
      /\ Arriving(i) /\ i = e.id => e.ver = log[i].ver \/ Coming("edit", i)'
  BY <1>1, PoppedSend
<1>5. ~log[i].deleted /\ i \notin IdsOf(w) => Arriving(i)'
  BY <1>2, <1>4 DEF Following
<1>6. ASSUME NEW k \in DOMAIN w, w[k].id = i, w[k].ver # log[i].ver, ~log[i].deleted
      PROVE  Coming("edit", i)'
  <2>1. CASE w[k] = m
    BY <1>4, <1>6, <2>1 DEF Following
  <2>2. CASE \E j \in DOMAIN shown: w[k] = shown[j]
    BY <1>4, <1>6, <2>2 DEF Following
  <2> QED  BY <1>2, <2>1, <2>2
<1>7. ASSUME log[i].deleted, i \in IdsOf(w) PROVE Coming("delete", i)'
  <2>1. CASE i = e.id
    <3>1. Coming("delete", i)
      BY <1>3, <1>7, <2>1 DEF Gone, Passed, Coming, Pushing, Storing
    <3> QED  BY <1>4, <3>1
  <2>2. CASE i # e.id
    BY <1>2, <1>4, <1>7, <2>2 DEF Following
  <2> QED  BY <2>1, <2>2
<1> QED  BY <1>5, <1>6, <1>7

LEMMA SendApplied ==
  ASSUME Inv, OnPush, NEW e, e = Head(push), NEW c, c = log[e.id].conv, e.op = "send",
         selected = c,
         shown' = IF e.id \in ShownIds THEN shown ELSE Append(shown, [id |-> e.id, ver |-> e.ver]),
         seen' = seen \union {e.id}
  PROVE  \E w: Applied(w, c)
<1>1. /\ push # <<>> /\ push' = Tail(push) /\ log' = log /\ reqs \subseteq reqs' /\ e.id \in DOMAIN log
      /\ e \in [op: Writes, id: Nat, ver: 0..1] /\ c \in Convs /\ (stale => stale')
  BY EventFacts DEF OnPush
<1>2. ViewsOK(shown) /\ IdsOf(shown) = ShownIds /\ IdsOf(shown) \subseteq seen
      /\ (~mixed \/ ~stale => \A i \in IdsOf(shown): log[i].conv = selected)
      /\ selected # NoConv
  BY <1>1, IdsFacts, ViewAssumption DEF Inv, ShownOK
<1>3. CASE e.id \in ShownIds
  <2>1. PICK w: w = shown /\ shown' = w
    BY <1>3
  <2>2. ASSUME Following(w, c) PROVE Following(w, c)'
    <3> SUFFICES ASSUME NEW i \in DOMAIN log, log[i].conv = c
                 PROVE  /\ ~log[i].deleted /\ i \notin IdsOf(w) => Arriving(i)'
                        /\ \A k \in DOMAIN w: w[k].id = i /\ w[k].ver # log[i].ver /\ ~log[i].deleted
                             => Coming("edit", i)'
                        /\ log[i].deleted /\ i \in IdsOf(w) => Coming("delete", i)'
      BY <1>1 DEF Following, IdsOf
    <3>1. /\ Coming("edit", i) => Coming("edit", i)'
          /\ Coming("delete", i) => Coming("delete", i)'
          /\ Arriving(i) /\ i # e.id => Arriving(i)'
      BY <1>1, PoppedSend
    <3>2. i \notin IdsOf(w) => i # e.id
      BY <1>2, <1>3, <2>1
    <3> QED  BY <2>2, <3>1, <3>2 DEF Following
  <2>3. ~mixed \/ ~stale' => \A i \in IdsOf(w): log[i].conv = selected
    BY <1>1, <1>2, <2>1
  <2> QED  BY <1>2, <2>1, <2>2, <2>3 DEF Applied
<1>4. CASE e.id \notin ShownIds
  <2>1. PICK m: m = [id |-> e.id, ver |-> e.ver]
    OBVIOUS
  <2>2. m \in AnyView /\ m.id = e.id /\ m.ver = e.ver
    BY <1>1, <2>1 DEF AnyView
  <2>3. PICK w: w = Append(shown, m) /\ Appended(w, shown, m)
    BY <1>2, <2>2, AppendIs DEF ViewsOK
  <2>4. ViewsOK(w) /\ IdsOf(w) = IdsOf(shown) \union {e.id}
    BY <1>1, <1>2, <1>4, <2>2, <2>3, AppendFacts
  <2>5. ~stale' /\ Following(shown, selected) => Following(w, c)'
    BY <1>2, <1>4, <2>2, <2>3, FollowingPushed
  <2>6. shown' = w
    BY <1>4, <2>1, <2>3
  <2>7. ~mixed \/ ~stale' => \A i \in IdsOf(w): log[i].conv = selected
    BY <1>1, <1>2, <2>4
  <2> QED  BY <1>2, <2>4, <2>5, <2>6, <2>7 DEF Applied
<1> QED  BY <1>3, <1>4

LEMMA EditApplied ==
  ASSUME Inv, OnPush, NEW e, e = Head(push), NEW c, c = log[e.id].conv, e.op = "edit",
         shown' = Replaced(shown, [id |-> e.id, ver |-> e.ver])
  PROVE  \E w: Applied(w, c)
<1>1. /\ push # <<>> /\ push' = Tail(push) /\ log' = log /\ reqs \subseteq reqs' /\ e.id \in DOMAIN log
      /\ e \in [op: Writes, id: Nat, ver: 0..1] /\ (stale => stale') /\ seen \subseteq seen'
      /\ log[e.id].ver = e.ver
  BY EventFacts DEF OnPush
<1>2. ViewsOK(shown) /\ IdsOf(shown) = ShownIds /\ IdsOf(shown) \subseteq seen
      /\ (~mixed \/ ~stale => \A i \in IdsOf(shown): log[i].conv = selected)
      /\ (selected = NoConv => shown = <<>>)
  BY IdsFacts DEF Inv, ShownOK
<1>3. PICK m: m = [id |-> e.id, ver |-> e.ver]
  OBVIOUS
<1>4. m \in AnyView /\ m.id = e.id /\ m.ver = e.ver
  BY <1>1, <1>3 DEF AnyView
<1>5. PICK w: w = Replaced(shown, m)
  OBVIOUS
<1>6. ViewsOK(w) /\ IdsOf(w) = IdsOf(shown) /\ DOMAIN w = DOMAIN shown
      /\ \A k \in DOMAIN shown: w[k] = IF shown[k].id = m.id THEN m ELSE shown[k]
  BY <1>2, <1>4, <1>5, ReplacedFacts
<1>7. selected = NoConv => w = <<>>
  BY <1>2, <1>6 DEF ViewsOK
<1>8. Following(shown, selected) => Following(w, selected)
  BY <1>1, <1>2, <1>4, <1>5, FollowingReplaced DEF Inv
<1>9. ASSUME Following(shown, c) PROVE Following(w, c)'
  <2> SUFFICES ASSUME NEW i \in DOMAIN log, log[i].conv = c
               PROVE  /\ ~log[i].deleted /\ i \notin IdsOf(w) => Arriving(i)'
                      /\ \A k \in DOMAIN w: w[k].id = i /\ w[k].ver # log[i].ver /\ ~log[i].deleted
                           => Coming("edit", i)'
                      /\ log[i].deleted /\ i \in IdsOf(w) => Coming("delete", i)'
    BY <1>1 DEF Following, IdsOf
  <2>1. /\ Coming("edit", i) /\ i # e.id => Coming("edit", i)'
        /\ Coming("delete", i) => Coming("delete", i)'
        /\ Arriving(i) => Arriving(i)'
    BY <1>1, PoppedChange
  <2>2. ASSUME NEW k \in DOMAIN w, w[k].id = i, w[k].ver # log[i].ver, ~log[i].deleted
        PROVE  Coming("edit", i)'
    <3>1. i # e.id /\ w[k] = shown[k] /\ k \in DOMAIN shown
      BY <1>1, <1>4, <1>6, <2>2
    <3> QED  BY <1>9, <2>1, <2>2, <3>1 DEF Following
  <2> QED  BY <1>6, <1>9, <2>1, <2>2 DEF Following
<1>10. ~mixed \/ ~stale' => \A i \in IdsOf(w): log[i].conv = selected
  BY <1>1, <1>2, <1>6
<1>11. shown' = w
  BY <1>3, <1>5
<1>12. IdsOf(w) \subseteq seen'
  BY <1>1, <1>2, <1>6
<1>13. selected = c /\ Following(shown, selected) => Following(w, c)'
  BY <1>9
<1> QED  BY <1>6, <1>7, <1>8, <1>10, <1>11, <1>12, <1>13 DEF Applied

LEMMA DeleteApplied ==
  ASSUME Inv, OnPush, NEW e, e = Head(push), NEW c, c = log[e.id].conv, e.op = "delete",
         selected = c, shown' = Without(shown, e.id)
  PROVE  \E w: Applied(w, c)
<1>1. /\ push # <<>> /\ push' = Tail(push) /\ log' = log /\ reqs \subseteq reqs' /\ e.id \in DOMAIN log
      /\ (stale => stale') /\ seen \subseteq seen' /\ log[e.id].deleted /\ c \in Convs
  BY EventFacts DEF OnPush
<1>2. ViewsOK(shown) /\ IdsOf(shown) = ShownIds /\ IdsOf(shown) \subseteq seen
      /\ (~mixed \/ ~stale => \A i \in IdsOf(shown): log[i].conv = selected)
      /\ selected # NoConv
  BY <1>1, IdsFacts, ViewAssumption DEF Inv, ShownOK
<1>3. PICK w: w = Without(shown, e.id)
  OBVIOUS
<1>4. ViewsOK(w) /\ IdsOf(w) = IdsOf(shown) \ {e.id} /\ \A k \in DOMAIN w: \E j \in DOMAIN shown: w[k] = shown[j]
  BY <1>2, <1>3, WithoutFacts
<1>5. ASSUME Following(shown, c) PROVE Following(w, c)'
  <2> SUFFICES ASSUME NEW i \in DOMAIN log, log[i].conv = c
               PROVE  /\ ~log[i].deleted /\ i \notin IdsOf(w) => Arriving(i)'
                      /\ \A k \in DOMAIN w: w[k].id = i /\ w[k].ver # log[i].ver /\ ~log[i].deleted
                           => Coming("edit", i)'
                      /\ log[i].deleted /\ i \in IdsOf(w) => Coming("delete", i)'
    BY <1>1 DEF Following, IdsOf
  <2>1. /\ Coming("edit", i) => Coming("edit", i)'
        /\ Coming("delete", i) /\ i # e.id => Coming("delete", i)'
        /\ Arriving(i) => Arriving(i)'
    BY <1>1, PoppedChange
  <2>2. ~log[i].deleted /\ i \notin IdsOf(w) => Arriving(i)'
    BY <1>1, <1>4, <1>5, <2>1 DEF Following
  <2>3. ASSUME NEW k \in DOMAIN w, w[k].id = i, w[k].ver # log[i].ver, ~log[i].deleted
        PROVE  Coming("edit", i)'
    BY <1>4, <1>5, <2>1, <2>3 DEF Following
  <2>4. log[i].deleted /\ i \in IdsOf(w) => Coming("delete", i)'
    BY <1>4, <1>5, <2>1 DEF Following
  <2> QED  BY <2>2, <2>3, <2>4
<1>6. ~mixed \/ ~stale' => \A i \in IdsOf(w): log[i].conv = selected
  BY <1>1, <1>2, <1>4
<1>7. IdsOf(w) \subseteq seen'
  BY <1>1, <1>2, <1>4
<1> QED  BY <1>2, <1>3, <1>4, <1>5, <1>6, <1>7 DEF Applied

(* An event of another conversation leaves the screen. *)
LEMMA ElsewhereApplied ==
  ASSUME Inv, OnPush, NEW e, e = Head(push), NEW c, c = log[e.id].conv, selected # c, shown' = shown
  PROVE  \E w: Applied(w, c)
<1>1. (stale => stale') /\ seen \subseteq seen'
  BY EventFacts
<1>2. PICK w: w = shown
  OBVIOUS
<1>3. ViewsOK(w) /\ IdsOf(w) \subseteq seen /\ (selected = NoConv => w = <<>>)
      /\ (~mixed \/ ~stale => \A i \in IdsOf(w): log[i].conv = selected)
  BY <1>2, IdsFacts DEF Inv, ShownOK
<1> QED  BY <1>1, <1>2, <1>3 DEF Applied

LEMMA OnPushKeeps ==
  ASSUME Inv, OnPush
  PROVE  Inv'
<1>1. PICK e, c: e = Head(push) /\ c = log[e.id].conv
  OBVIOUS
<1>2. /\ push' = Tail(push) /\ UNCHANGED <<log, readUpTo, selected, editing, mixed>>
      /\ reqs \subseteq reqs' /\ seen \subseteq seen' /\ (stale => stale')
      /\ taken' = [taken EXCEPT ![c] = taken[c] + 1] /\ c \in Convs
  BY <1>1, EventFacts
<1>3. Grows /\ OwnSeen' /\ PushOK' /\ LogOK'
  BY PushGrows
<1>4. \A r \in reqs': r \in reqs \/ RequestOK(r)'
  <2>1. PICK r: r = Request("list", NoConv, NoMsg) /\ Fresh(r, TRUE, "list", NoConv, NoMsg)
    <3>1. NoMsg \in Nat
      BY DEF NoMsg
    <3> QED  BY <3>1, RequestIsFresh DEF Request, Kinds
  <2>2. RequestOK(r)'
    BY <2>1, FreshOK
  <2>3. reqs' = reqs \/ reqs' = reqs \union {r}
    BY <2>1 DEF OnPush
  <2> QED  BY <2>2, <2>3
<1>5. RequestsOK' /\ ReadOK'
  BY <1>2, <1>3, <1>4, RequestsStay, ReadStays
<1>6. PICK w: Applied(w, c)
  <2>1. \/ /\ e.op = "send" /\ selected = c
           /\ shown' = IF e.id \in ShownIds THEN shown
                       ELSE Append(shown, [id |-> e.id, ver |-> e.ver])
           /\ seen' = seen \union {e.id}
        \/ selected # c /\ shown' = shown
        \/ e.op = "edit" /\ shown' = Replaced(shown, [id |-> e.id, ver |-> e.ver])
        \/ e.op = "delete" /\ selected = c /\ shown' = Without(shown, e.id)
    BY <1>1 DEF OnPush
  <2> QED  BY <1>1, <2>1, SendApplied, ElsewhereApplied, EditApplied, DeleteApplied
<1>7. ShownOK'
  BY <1>2, <1>3, <1>6, ShownChanges DEF Applied
<1>8. ScreenOK'
  <2>1. Loading(selected) => Loading(selected)'
    BY <1>2 DEF Loading
  <2>2. CASE selected # c
    <3>1. selected \in Convs \union {NoConv}
      BY DEF Inv, ShownOK
    <3>2. selected # NoConv => taken'[selected] = taken[selected]
      BY <1>2, <2>2, <3>1 DEF Inv, LogOK
    <3> QED  BY <1>2, <1>3, <1>6, <2>1, <2>2, <3>2, ScreenChanges DEF Applied, Inv, ScreenOK
  <2>3. CASE selected = c
    <3> SUFFICES ASSUME ~stale', ~Loading(selected) PROVE Following(shown, selected)'
      BY <1>2, <2>1 DEF ScreenOK, Loading
    <3>1. ~stale /\ selected # NoConv
      BY <1>2, <2>3, ViewAssumption
    <3>2. Following(shown, selected)
      BY <3>1 DEF Inv, ScreenOK
    <3>3. Following(w, c)'
      BY <1>6, <2>3, <3>1, <3>2 DEF Applied
    <3> QED  BY <1>2, <1>6, <2>3, <3>3 DEF Applied, Following, IdsOf
  <2> QED  BY <2>2, <2>3
<1> QED  BY <1>3, <1>5, <1>7, <1>8 DEF Inv


-----------------------------------------------------------------------------
(* The whole. *)

LEMMA InitHolds ==
  ASSUME Init
  PROVE  Inv
<1>1. /\ log = <<>> /\ push = <<>> /\ reqs = {} /\ shown = <<>> /\ selected = NoConv /\ editing = NoMsg
      /\ readUpTo = [c \in Convs |-> 0] /\ taken = [c \in Convs |-> 0]
  BY DEF Init
<1>2. LogOK /\ OwnSeen /\ ReadOK
  BY <1>1 DEF LogOK, OwnSeen, ReadOK, SeenUpTo
<1>3. ShownOK /\ ScreenOK
  BY <1>1 DEF ShownOK, ShownIds, ViewsOK, ScreenOK
<1>4. PushOK /\ RequestsOK
  BY <1>1 DEF PushOK, RequestsOK
<1> QED  BY <1>2, <1>3, <1>4 DEF Inv

LEMMA NextKeeps ==
  ASSUME Inv, [Next]_vars
  PROVE  Inv'
<1>1. CASE UNCHANGED vars
  BY <1>1, IdleKeeps DEF vars, server, socket
<1>2. ASSUME NEW q \in reqs, ServerStep(q) \/ Lose(q) \/ AnswerStep(q) PROVE Inv'
  BY <1>2, ServerKeeps, AnswerKeeps
<1>3. CASE RefreshFeed \/ Disconnect \/ Reconnect
  BY <1>3, FeedKeeps, DisconnectKeeps
<1> QED  BY <1>1, <1>2, <1>3, UserKeeps, OtherKeeps, OnPushKeeps DEF Next

LEMMA Invariance == Spec => []Inv
<1>1. Inv /\ [Next]_vars => Inv'
  BY NextKeeps
<1>2. Init => Inv
  BY InitHolds
<1> QED  BY <1>1, <1>2, PTL DEF Spec

(* A message counts as read only after the user had it on the screen, whatever is
   loaded, pushed, edited or deleted between the loading and the mark: the mark of
   MessagesLoaded is the id of the last message of the very list it shows. *)
THEOREM ReadIsOfSeen == Spec => []ReadIsSeen
<1>1. Inv => ReadIsSeen
  <2> SUFFICES ASSUME Inv, NEW i \in DOMAIN log, i <= readUpTo[log[i].conv] PROVE i \in seen \/ log[i].deleted
    BY DEF ReadIsSeen
  <2>1. log[i].conv \in Convs
    BY RowTypes DEF Inv
  <2> QED  BY <2>1 DEF Inv, ReadOK, SeenUpTo
<1> QED  BY <1>1, Invariance, PTL

(* The screen shows each message once and only those of the selected conversation,
   and the message being edited is one of them, until a conversation is opened over
   another (NewConvCreated): the answers compare their conversation with the one
   selected when they arrive, and add no message that its push has brought. *)
THEOREM ScreenIsOfSelected == Spec => []ScreenIsSelected
<1>1. ASSUME Inv PROVE Cardinality(ShownIds) = Len(shown)
  <2>1. PICK n: n \in Nat /\ n = Len(shown) /\ DOMAIN shown = 1..n
    BY <1>1 DEF Inv, ShownOK, ViewsOK
  <2> DEFINE f == [k \in 1..n |-> shown[k].id]
  <2>2. /\ IsFiniteSet(1..n) /\ Cardinality(1..n) = n
    <3>1. 1 \in Int /\ n \in Int
      BY <2>1
    <3>2. IsFiniteSet(1..n) /\ Cardinality(1..n) = IF 1 > n THEN 0 ELSE n - 1 + 1
      BY <3>1, FS_Interval
    <3>3. ~(1 > n) => n - 1 + 1 = n
      BY <2>1
    <3>4. 1 > n => n = 0
      BY <2>1
    <3> QED  BY <3>2, <3>3, <3>4
  <2>3. f \in Bijection(1..n, ShownIds)
    <3>1. f \in [1..n -> ShownIds]
      BY <2>1 DEF ShownIds
    <3>2. \A j, k \in 1..n: f[j] = f[k] => j = k
      BY <1>1, <2>1 DEF Inv, ShownOK, ViewsOK
    <3>3. \A i \in ShownIds: \E k \in 1..n: f[k] = i
      BY <2>1 DEF ShownIds
    <3> QED  BY <3>1, <3>2, <3>3, Fun_IsBij
  <2> HIDE DEF f
  <2>4. Cardinality(ShownIds) = Cardinality(1..n)
    BY <2>2, <2>3, FS_Bijection DEF ExistsBijection
  <2> QED  BY <2>1, <2>2, <2>4
<1>2. Inv => ScreenIsSelected
  BY <1>1 DEF Inv, ShownOK, ScreenIsSelected
<1> QED  BY <1>2, Invariance, PTL

(* When no event and no request of the selected conversation is under way, the screen
   shows what list_messages would answer, unless the screen missed an event (a broken
   socket, a feed that lacks the conversation, a write that was not read back), one
   overtook the list, the list could not be read, or the answer to an edit that kept the
   text came after another edit. *)
THEOREM ScreenCatchesUp == Spec => []CaughtUp
<1>1. Inv => CaughtUp
  <2> SUFFICES ASSUME Inv, push = <<>>, ~stale, selected # NoConv, \A q \in reqs: q.conv # selected
               PROVE  {shown[k]: k \in DOMAIN shown} = {ViewOf(i): i \in Range(RowsOf(selected))}
    BY DEF CaughtUp
  <2> DEFINE S == {i \in DOMAIN log: log[i].conv = selected /\ ~log[i].deleted}
  <2>1. \A op, i: i \in DOMAIN log /\ log[i].conv = selected => ~Coming(op, i)
    <3>1. \A q \in reqs: q.stage = "stored" => log[q.id].conv = q.conv
      BY DEF Inv, RequestsOK, RequestOK, WriteOK, Done
    <3> QED  BY <3>1 DEF Coming, Storing, Pushing
  <2>2. Following(shown, selected)
    BY DEF Inv, ScreenOK, Loading
  <2>3. /\ \A i \in S: i \in IdsOf(shown)
        /\ \A k \in DOMAIN shown: shown[k].id \in S => shown[k].ver = log[shown[k].id].ver
        /\ \A i \in DOMAIN log: log[i].conv = selected /\ log[i].deleted => i \notin IdsOf(shown)
    BY <2>1, <2>2 DEF Following, Arriving
  <2>4. \A k \in DOMAIN shown: shown[k].id \in S /\ shown[k] \in AnyView
    BY <2>3 DEF Inv, ShownOK, ViewsOK, ShownIds, IdsOf
  <2>5. \A k \in DOMAIN shown: shown[k] = ViewOf(shown[k].id)
    BY <2>3, <2>4 DEF AnyView, ViewOf
  <2>6. Range(RowsOf(selected)) = S
    <3>1. PICK s, c: s = RowsOf(selected) /\ c = selected
      OBVIOUS
    <3>2. PICK b: b = [k \in DOMAIN s |-> ViewOf(s[k])]
      OBVIOUS
    <3>3. IdsOf(b) = S
      BY <3>1, <3>2, RowsFacts DEF Inv
    <3>4. IdsOf(b) = Range(s)
      BY <3>2 DEF IdsOf, ViewOf, Range
    <3> QED  BY <3>1, <3>3, <3>4
  <2> HIDE DEF S
  <2> QED  BY <2>3, <2>4, <2>5, <2>6 DEF IdsOf
<1> QED  BY <1>1, Invariance, PTL

(* What is read stays read: requests of mark_read may overtake each other, and a
   later one may carry a smaller id, but the UPDATE never moves the mark back. *)
THEOREM ReadNeverGoesBack == Spec => ReadOnlyAdvances
<1>1. ASSUME Inv, NEW q \in reqs, MarkRead(q) PROVE \A c \in Convs: readUpTo'[c] >= readUpTo[c]
  <2>1. q.id \in Nat /\ readUpTo \in [Convs -> Nat]
    BY <1>1 DEF MarkRead, Inv, LogOK, RequestsOK, RequestOK, IsRequest
  <2> QED  BY <1>1, <2>1 DEF MarkRead
<1>2. ASSUME Inv, UNCHANGED readUpTo PROVE \A c \in Convs: readUpTo'[c] >= readUpTo[c]
  <2>1. \A c \in Convs: readUpTo[c] \in Nat
    BY <1>2 DEF Inv, LogOK
  <2> QED  BY <1>2, <2>1
<1>3. UserStep => UNCHANGED readUpTo
  BY DEF UserStep, SelectConversation, NewConvCreate, DeleteConversation, Deselect, SendMessage,
         CancelEdit, ConfirmEdit, StartEdit, DeleteMessage, server
<1>4. OtherStep => UNCHANGED readUpTo
  BY DEF OtherStep, OtherOpens, OtherCalls, server
<1>5. \A q: ServerStep(q) => MarkRead(q) \/ UNCHANGED readUpTo
  BY DEF ServerStep, ListMessages, StoreMessage, ChangeMessage, KeepMessage, Publish, Untold, ListConversations,
         CreateConversation, RemoveConversation, Conversations, server
<1>6. \A q: Lose(q) \/ AnswerStep(q) => UNCHANGED readUpTo
  BY DEF Lose, AnswerStep, MessagesLoaded, MessagesBroken, MessageSent, EditResult, DeleteResult,
         ConversationsLoaded, ConversationsBroken,
         NewConvCreated, DeleteConversationResult, server
<1>7. RefreshFeed \/ Disconnect \/ Reconnect \/ OnPush => UNCHANGED readUpTo
  BY DEF RefreshFeed, Disconnect, Reconnect, OnPush, server
<1>8. Inv /\ [Next]_vars => [\A c \in Convs: readUpTo'[c] >= readUpTo[c]]_vars
  BY <1>1, <1>2, <1>3, <1>4, <1>5, <1>6, <1>7 DEF Next
<1> QED  BY <1>8, Invariance, PTL DEF Spec, ReadOnlyAdvances
=============================================================================
