------------------------- MODULE CloudIngestProofs -------------------------
(***************************************************************************)
(* The cloud's picture of the shelf never goes back, and the statistics    *)
(* add up to the history, for any number of changes, reports, tasks and    *)
(* failures.                                                               *)
(***************************************************************************)
EXTENDS CloudIngest, FunctionTheorems, FiniteSetTheorems, TLAPS

Snapshot == [kind : {"status"}, of : Nat, ts : Nat]
Report == [kind : {"event", "stats"}, type : {"borrow", "return"}]
Message == Snapshot \cup Report

Of(s) == { s[i] : i \in 1..Len(s) }

\* The snapshots that may still be written to the cloud.
Ahead == (Of(link) \cup Of(tasks) \cup {retained}) \cap Snapshot

\* Change and time of each of them, and of the one that was written.
Known == { <<m.of, m.ts>> : m \in Ahead } \cup
         (IF row = None THEN {} ELSE {<<row.of, row.ts>>})

TypeOK ==
  /\ now \in Nat /\ shelf \in Nat
  /\ link \in Seq(Message) /\ tasks \in Seq(Message)
  /\ retained \in Snapshot \cup {None}
  /\ row \in [of : Nat, ts : Nat] \cup {None}

\* The strengthening of SnapshotNeverBack: no snapshot is of the future, and
\* the later one never shows an earlier shelf.
Ordered ==
  /\ \A p \in Known : p[1] <= shelf /\ p[2] <= now
  /\ \A p, q \in Known : p[2] < q[2] => p[1] <= q[1]

Inv == TypeOK /\ Ordered

(***************************************************************************)
(* Sequences.                                                              *)
(***************************************************************************)
LEMMA OfAppend ==
  ASSUME NEW S, NEW s \in Seq(S), NEW e \in S
  PROVE  Append(s, e) \in Seq(S) /\ Of(Append(s, e)) \subseteq Of(s) \cup {e}
  BY DEF Of

LEMMA OfTail ==
  ASSUME NEW S, NEW s \in Seq(S), s # <<>>
  PROVE  /\ Tail(s) \in Seq(S) /\ Of(Tail(s)) \subseteq Of(s)
         /\ Head(s) \in S /\ Head(s) \in Of(s)
  BY DEF Of

LEMMA OfPrefix ==
  ASSUME NEW S, NEW s \in Seq(S), NEW k \in 0..Len(s)
  PROVE  SubSeq(s, 1, k) \in Seq(S) /\ Of(SubSeq(s, 1, k)) \subseteq Of(s)
  BY DEF Of

LEMMA OfConcat ==
  ASSUME NEW S, NEW a \in Seq(S), NEW b \in Seq(S)
  PROVE  a \o b \in Seq(S) /\ Of(a \o b) \subseteq Of(a) \cup Of(b)
<1>1. a \o b \in Seq(S) /\ Len(a \o b) = Len(a) + Len(b)
  OBVIOUS
<1>2. ASSUME NEW j \in 1..Len(a \o b) PROVE (a \o b)[j] \in Of(a) \cup Of(b)
  <2>1. CASE j <= Len(a)
    <3>1. (a \o b)[j] = a[j] /\ j \in 1..Len(a)
      BY <2>1
    <3> QED BY <3>1 DEF Of
  <2>2. CASE j > Len(a)
    <3>1. (a \o b)[j] = b[j - Len(a)] /\ j - Len(a) \in 1..Len(b)
      BY <2>2
    <3> QED BY <3>1 DEF Of
  <2> QED BY <2>1, <2>2
<1> QED BY <1>1, <1>2 DEF Of

LEMMA OfRemoveAt ==
  ASSUME NEW S, NEW s \in Seq(S), NEW i \in 1..Len(s)
  PROVE  RemoveAt(s, i) \in Seq(S) /\ Of(RemoveAt(s, i)) \subseteq Of(s)
<1>1. SubSeq(s, 1, i - 1) \in Seq(S) /\ Of(SubSeq(s, 1, i - 1)) \subseteq Of(s)
  BY DEF Of
<1>2. SubSeq(s, i + 1, Len(s)) \in Seq(S) /\ Of(SubSeq(s, i + 1, Len(s))) \subseteq Of(s)
  <2>1. SubSeq(s, i + 1, Len(s)) \in Seq(S) /\ Len(SubSeq(s, i + 1, Len(s))) = Len(s) - i
    OBVIOUS
  <2>2. \A j \in 1..(Len(s) - i) : SubSeq(s, i + 1, Len(s))[j] = s[j + i] /\ j + i \in 1..Len(s)
    OBVIOUS
  <2> QED BY <2>1, <2>2 DEF Of
<1> DEFINE a == SubSeq(s, 1, i - 1)
           b == SubSeq(s, i + 1, Len(s))
<1> HIDE DEF a, b
<1>3. a \in Seq(S) /\ Of(a) \subseteq Of(s)
  BY <1>1 DEF a
<1>4. b \in Seq(S) /\ Of(b) \subseteq Of(s)
  BY <1>2 DEF b
<1>5. a \o b \in Seq(S) /\ Of(a \o b) \subseteq Of(a) \cup Of(b)
  BY <1>3, <1>4, OfConcat
<1>6. RemoveAt(s, i) = a \o b
  BY DEF RemoveAt, a, b
<1> QED BY <1>3, <1>4, <1>5, <1>6

(***************************************************************************)
(* What a step may add to the known snapshots: the shelf as it is now.     *)
(***************************************************************************)
LEMMA KnownType == TypeOK => Known \subseteq Nat \X Nat
  BY DEF TypeOK, Known, Ahead, Snapshot

LEMMA KnownGrows ==
  ASSUME Inv, Of(link') \cap Snapshot \subseteq Ahead \cup {Status},
         Of(tasks') \cap Snapshot \subseteq Ahead,
         retained' \in Ahead \cup {retained, None},
         row' = row \/ \E m \in Ahead : row' = [of |-> m.of, ts |-> m.ts]
  PROVE  Known' \subseteq Known \cup {<<shelf, now>>}
<1>1. Ahead' \subseteq Ahead \cup {Status}
  BY NoneOK DEF Ahead, Snapshot
<1>2. \A m \in Ahead' : <<m.of, m.ts>> \in Known \cup {<<shelf, now>>}
  BY <1>1 DEF Known, Status
<1>3. ASSUME row' # None PROVE <<row'.of, row'.ts>> \in Known
  <2>1. CASE row' = row
    BY <1>3, <2>1 DEF Known
  <2>2. ASSUME NEW m \in Ahead, row' = [of |-> m.of, ts |-> m.ts]
        PROVE  <<row'.of, row'.ts>> \in Known
    BY <2>2 DEF Known
  <2> QED BY <2>1, <2>2
<1> QED BY <1>2, <1>3 DEF Known

LEMMA OrderKept ==
  ASSUME Inv, now' \in Nat, shelf' \in Nat, now' >= now, shelf' >= shelf,
         Known' \subseteq Known \cup {<<shelf, now>>}
  PROVE  Ordered'
<1>1. Known \subseteq Nat \X Nat /\ now \in Nat /\ shelf \in Nat
  BY KnownType DEF Inv, TypeOK
<1>2. \A p \in Known : p[1] \in Nat /\ p[2] \in Nat /\ p[1] <= shelf /\ p[2] <= now
  BY <1>1 DEF Inv, Ordered
<1>3. \A p, q \in Known : p[2] < q[2] => p[1] <= q[1]
  BY DEF Inv, Ordered
<1>4. ASSUME NEW p \in Known' PROVE p[1] <= shelf' /\ p[2] <= now'
  <2>1. CASE p \in Known
    BY <2>1, <1>1, <1>2
  <2>2. CASE p = <<shelf, now>>
    BY <2>2, <1>1
  <2> QED BY <2>1, <2>2, <1>4
<1>5. ASSUME NEW p \in Known', NEW q \in Known', p[2] < q[2] PROVE p[1] <= q[1]
  <2>1. CASE p \in Known /\ q \in Known
    BY <2>1, <1>3, <1>5
  <2>2. CASE p \in Known /\ q = <<shelf, now>>
    BY <2>2, <1>2
  <2>3. CASE p = <<shelf, now>> /\ q \in Known
    BY <2>3, <1>1, <1>2, <1>5
  <2>4. CASE p = <<shelf, now>> /\ q = <<shelf, now>>
    BY <2>4, <1>1, <1>5
  <2> QED BY <2>1, <2>2, <2>3, <2>4, <1>5
<1> QED BY <1>4, <1>5 DEF Ordered

(***************************************************************************)
(* Init and the steps.                                                     *)
(***************************************************************************)
LEMMA InitInv == Init => Inv
<1> SUFFICES ASSUME Init PROVE Inv
  OBVIOUS
<1>1. TypeOK
  BY DEF Init, TypeOK
<1>2. Ahead = {} /\ row = None
  BY NoneOK DEF Init, Ahead, Of, Snapshot
<1>3. Known = {}
  BY <1>2 DEF Known
<1> QED BY <1>1, <1>3 DEF Inv, Ordered

\* A step of the board, the broker or the event loop keeps the invariant if
\* it keeps the types and brings no snapshot but the shelf as it is.
LEMMA InvKept ==
  ASSUME Inv, TypeOK', now' >= now, shelf' >= shelf,
         Of(link') \cap Snapshot \subseteq Ahead \cup {Status},
         Of(tasks') \cap Snapshot \subseteq Ahead,
         retained' \in Ahead \cup {retained, None},
         row' = row \/ \E m \in Ahead : row' = [of |-> m.of, ts |-> m.ts]
  PROVE  Inv'
<1>1. Known' \subseteq Known \cup {<<shelf, now>>}
  BY KnownGrows
<1>2. now' \in Nat /\ shelf' \in Nat
  BY DEF TypeOK
<1>3. Ordered'
  BY <1>1, <1>2, OrderKept
<1> QED BY <1>3 DEF Inv

LEMMA BoardStep ==
  ASSUME Inv,
         Change \/ PublishStatus \/ PublishEvent \/ BoardLost \/ BoardBack \/ Second
  PROVE  Inv'
<1>1. TypeOK /\ now \in Nat /\ shelf \in Nat
  BY DEF Inv, TypeOK
<1>2. tasks' = tasks /\ row' = row
  BY DEF Change, PublishStatus, PublishEvent, BoardLost, BoardBack, Second, dbVars,
         brokerVars
<1>3. now' \in Nat /\ shelf' \in Nat /\ now' >= now /\ shelf' >= shelf
  BY <1>1 DEF Change, PublishStatus, PublishEvent, BoardLost, BoardBack, Second, boardVars
<1>4. link' \in Seq(Message) /\ Of(link') \cap Snapshot \subseteq Ahead \cup {Status}
  <2>1. CASE link' = link
    BY <2>1, <1>1 DEF TypeOK, Ahead
  <2>2. CASE PublishStatus
    <3>1. Status \in Message
      BY <1>1 DEF Status, Message, Snapshot
    <3>2. link' = Append(link, Status)
      BY <2>2 DEF PublishStatus, Publish
    <3> QED BY <3>1, <3>2, <1>1, OfAppend DEF TypeOK, Ahead
  <2>3. CASE PublishEvent /\ connected
    <3>1. PICK type \in {"borrow", "return"} : link' = Append(link, Event(type))
      BY <2>3 DEF PublishEvent, Publish
    <3>2. Event(type) \in Message /\ Event(type) \notin Snapshot
      BY DEF Event, Message, Report, Snapshot
    <3>3. link' \in Seq(Message) /\ Of(link') \subseteq Of(link) \cup {Event(type)}
      BY <3>1, <3>2, <1>1, OfAppend DEF TypeOK
    <3> QED BY <3>2, <3>3 DEF Ahead
  <2>4. CASE BoardLost
    <3>1. PICK k \in 0..Len(link) : link' = SubSeq(link, 1, k)
      BY <2>4 DEF BoardLost
    <3>2. link' \in Seq(Message) /\ Of(link') \subseteq Of(link)
      BY <3>1, <1>1, OfPrefix DEF TypeOK
    <3> QED BY <3>2 DEF Ahead
  <2> QED
    BY <2>1, <2>2, <2>3, <2>4
    DEF Change, PublishStatus, PublishEvent, BoardLost, BoardBack, Second, brokerVars
<1>5. retained' \in {retained, None}
  BY DEF Change, PublishStatus, PublishEvent, BoardLost, BoardBack, Second, brokerVars
<1>6. Of(tasks') \cap Snapshot \subseteq Ahead
  BY <1>2 DEF Ahead
<1>7. TypeOK'
  BY <1>1, <1>2, <1>3, <1>4, <1>5 DEF TypeOK
<1> QED BY <1>2, <1>3, <1>4, <1>5, <1>6, <1>7, InvKept

LEMMA ServerStep ==
  ASSUME Inv, Forward \/ ServerLost \/ OnConnect
  PROVE  Inv'
<1>1. TypeOK
  BY DEF Inv
<1>2. now' = now /\ shelf' = shelf /\ row' = row
  BY DEF Forward, ServerLost, OnConnect, boardVars, dbVars
<1>3. CASE Forward
  <2>1. /\ link' \in Seq(Message) /\ Of(link') \subseteq Of(link)
        /\ Head(link) \in Message /\ Head(link) \in Of(link)
    BY <1>1, <1>3, OfTail DEF Forward, TypeOK
  <2>2. Head(link).kind = "status" => Head(link) \in Snapshot /\ Head(link) \in Ahead
    BY <2>1 DEF Message, Report, Snapshot, Ahead
  <2>3. retained' \in Ahead \cup {retained} /\ retained' \in Snapshot \cup {None}
    BY <1>1, <1>3, <2>2 DEF Forward, TypeOK
  <2>4. tasks' \in Seq(Message) /\ Of(tasks') \subseteq Of(tasks) \cup Of(link)
    <3>1. CASE subscribed
      <4>1. tasks' = Append(tasks, Head(link))
        BY <3>1, <1>3 DEF Forward, OnMessage
      <4>2. tasks \in Seq(Message)
        BY <1>1 DEF TypeOK
      <4> QED BY <4>1, <4>2, <2>1, OfAppend
    <3>2. CASE ~subscribed
      BY <3>2, <1>1, <1>3 DEF Forward, TypeOK
    <3> QED BY <3>1, <3>2
  <2>5. TypeOK'
    BY <1>1, <1>2, <2>1, <2>3, <2>4 DEF TypeOK
  <2> QED BY <1>1, <1>2, <2>1, <2>3, <2>4, <2>5, InvKept DEF Ahead, TypeOK
<1>4. CASE ServerLost
  <2>1. link' = link /\ retained' \in {retained, None}
    BY <1>4 DEF ServerLost
  <2>2. tasks' \in Seq(Message) /\ Of(tasks') \subseteq Of(tasks)
    <3>1. tasks' = tasks \/ tasks' = <<>>
      BY <1>4 DEF ServerLost
    <3>2. CASE tasks' = tasks
      BY <3>2, <1>1 DEF TypeOK
    <3>3. CASE tasks' = <<>>
      <4>1. tasks' \in Seq(Message) /\ Len(tasks') = 0
        BY <3>3
      <4> QED BY <4>1 DEF Of
    <3> QED BY <3>1, <3>2, <3>3
  <2>3. TypeOK'
    BY <1>1, <1>2, <2>1, <2>2 DEF TypeOK
  <2> QED BY <1>1, <1>2, <2>1, <2>2, <2>3, InvKept DEF Ahead, TypeOK
<1>5. CASE OnConnect
  <2>1. link' = link /\ retained' = retained
    BY <1>5 DEF OnConnect
  <2>2. tasks' \in Seq(Message) /\ Of(tasks') \subseteq Of(tasks) \cup {retained}
    <3>1. CASE retained = None
      BY <3>1, <1>1, <1>5 DEF OnConnect, TypeOK
    <3>2. CASE retained # None
      <4>1. retained \in Message
        BY <3>2, <1>1 DEF TypeOK, Message
      <4>2. tasks' = Append(tasks, retained)
        BY <3>2, <1>5 DEF OnConnect, OnMessage
      <4>3. tasks \in Seq(Message)
        BY <1>1 DEF TypeOK
      <4> QED BY <4>1, <4>2, <4>3, OfAppend
    <3> QED BY <3>1, <3>2
  <2>3. TypeOK'
    BY <1>1, <1>2, <2>1, <2>2 DEF TypeOK
  <2> QED BY <1>1, <1>2, <2>1, <2>2, <2>3, InvKept DEF Ahead, TypeOK
<1> QED BY <1>3, <1>4, <1>5

\* A task that is a snapshot is among the known ones.
LEMMA TaskAhead ==
  ASSUME Inv, NEW i \in 1..Len(tasks), tasks[i].kind = "status"
  PROVE  tasks[i] \in Ahead /\ <<tasks[i].of, tasks[i].ts>> \in Known
<1>1. tasks[i] \in Message
  BY DEF Inv, TypeOK
<1>2. tasks[i] \in Ahead
  BY <1>1 DEF Message, Report, Snapshot, Ahead, Of
<1> QED BY <1>2 DEF Known

LEMMA TaskStep ==
  ASSUME Inv, NEW i \in 1..Len(tasks),
         UpdateSnapshot(i) \/ InsertEvent(i) \/ UpdateStats(i) \/ TaskFails(i)
  PROVE  Inv'
<1>1. TypeOK /\ tasks[i] \in Message
  BY DEF Inv, TypeOK
<1>2. /\ now' = now /\ shelf' = shelf
      /\ link' = link /\ retained' = retained
  BY DEF UpdateSnapshot, InsertEvent, UpdateStats, TaskFails, boardVars, brokerVars
<1>3. tasks' \in Seq(Message) /\ Of(tasks') \cap Snapshot \subseteq Of(tasks)
  <2>1. CASE tasks' = RemoveAt(tasks, i)
    BY <2>1, <1>1, OfRemoveAt DEF TypeOK
  <2>2. CASE InsertEvent(i)
    <3>1. tasks[i] \in Report
      BY <2>2, <1>1 DEF InsertEvent, Message, Snapshot
    <3>2. [tasks[i] EXCEPT !.kind = "stats"] \in Report
      BY <3>1 DEF Report
    <3>3. [tasks[i] EXCEPT !.kind = "stats"] \notin Snapshot
      BY <3>1 DEF Report, Snapshot
    <3>4. tasks' = [tasks EXCEPT ![i] = [tasks[i] EXCEPT !.kind = "stats"]]
      BY <2>2 DEF InsertEvent
    <3>5. tasks' \in Seq(Message) /\ Len(tasks') = Len(tasks)
      BY <3>2, <3>4, <1>1 DEF TypeOK, Message
    <3>6. \A j \in 1..Len(tasks) : tasks'[j] = tasks[j] \/ tasks'[j] \notin Snapshot
      BY <3>3, <3>4, <1>1 DEF TypeOK
    <3> QED BY <3>5, <3>6 DEF Of
  <2> QED BY <2>1, <2>2 DEF UpdateSnapshot, UpdateStats, TaskFails
<1>4. row' = row \/ \E m \in Ahead : row' = [of |-> m.of, ts |-> m.ts]
  <2>1. CASE UpdateSnapshot(i)
    BY <2>1, TaskAhead DEF UpdateSnapshot
  <2> QED BY <2>1 DEF InsertEvent, UpdateStats, TaskFails
<1>5. row' \in [of : Nat, ts : Nat] \cup {None}
  BY <1>1, <1>4 DEF TypeOK, Ahead, Snapshot
<1>6. TypeOK'
  BY <1>1, <1>2, <1>3, <1>5 DEF TypeOK
<1> QED BY <1>1, <1>2, <1>3, <1>4, <1>6, InvKept DEF Ahead, TypeOK

LEMMA NextInv == Inv /\ [Next]_vars => Inv'
<1> SUFFICES ASSUME Inv, [Next]_vars PROVE Inv'
  OBVIOUS
<1>1. CASE Next
  <2>1. CASE Change \/ PublishStatus \/ PeriodicStatus \/ PublishEvent
             \/ BoardLost \/ BoardBack \/ Second
    BY <2>1, BoardStep DEF PeriodicStatus
  <2>2. CASE Forward \/ ServerLost \/ OnConnect
    BY <2>2, ServerStep
  <2>3. CASE RunTask \/ \E i \in 1..Len(tasks) : TaskFails(i)
    BY <2>3, TaskStep DEF RunTask
  <2> QED BY <1>1, <2>1, <2>2, <2>3 DEF Next
<1>2. CASE UNCHANGED vars
  BY <1>2 DEF Inv, TypeOK, Ordered, Known, Ahead, vars, boardVars, brokerVars, dbVars
<1> QED BY <1>1, <1>2

\* No snapshot in the cloud's way is of the future, and of two the later one
\* never shows an earlier shelf.
THEOREM SnapshotsInOrder == Spec => []Inv
<1> QED BY InitInv, NextInv, PTL DEF Spec

\* The cloud's picture of the shelf never goes back, in whatever order the
\* server's tasks write (update_snapshot of src/src/server/db.py).
THEOREM PictureNeverBack == Spec => SnapshotNeverBack
<1>1. Inv /\ [Next]_vars => [row # None => row'.of >= row.of]_row
  <2> SUFFICES ASSUME Inv, [Next]_vars, row # None, row' # row
               PROVE  row'.of >= row.of
    BY DEF Inv
  <2>1. PICK i \in 1..Len(tasks) : UpdateSnapshot(i)
    BY DEF Next, vars, dbVars, Change, PublishStatus, PeriodicStatus, PublishEvent,
           BoardLost, BoardBack, Second, Forward, ServerLost, OnConnect, RunTask,
           InsertEvent, UpdateStats, TaskFails
  <2> DEFINE m == tasks[i]
  <2>2. /\ row.ts < m.ts /\ row'.of = m.of
        /\ <<m.of, m.ts>> \in Known /\ <<row.of, row.ts>> \in Known
    BY <2>1, TaskAhead DEF UpdateSnapshot, Newer, Known
  <2>3. row.of <= m.of
    BY <2>2 DEF Inv, Ordered
  <2>4. row.of \in Nat /\ m.of \in Nat
    BY <2>2, KnownType DEF Inv
  <2> QED BY <2>2, <2>3, <2>4
<1> QED BY <1>1, SnapshotsInOrder, PTL DEF Spec, SnapshotNeverBack

(***************************************************************************)
(* Counting the tasks between their two statements.                        *)
(***************************************************************************)
Halves(s) == { i \in 1..Len(s) : Half(s[i]) }

LEMMA HalvesFinite ==
  ASSUME NEW s \in Seq(Message)
  PROVE  IsFiniteSet(Halves(s)) /\ HalfDone(s) = Cardinality(Halves(s)) /\ HalfDone(s) \in Nat
<1>1. IsFiniteSet(1..Len(s))
  BY FS_Interval
<1>2. IsFiniteSet(Halves(s))
  BY <1>1, FS_Subset DEF Halves
<1> QED BY <1>2, FS_CardinalityType DEF Halves, HalfDone

LEMMA HalvesEmpty == HalfDone(<<>>) = 0
<1>1. { i \in 1..Len(<<>>) : Half(<<>>[i]) } = {}
  OBVIOUS
<1> QED BY <1>1, FS_EmptySet DEF HalfDone

LEMMA HalvesOne ==
  ASSUME NEW m
  PROVE  HalfDone(<<m>>) = IF Half(m) THEN 1 ELSE 0
<1>1. { i \in 1..Len(<<m>>) : Half(<<m>>[i]) } = IF Half(m) THEN {1} ELSE {}
  OBVIOUS
<1> QED BY <1>1, FS_EmptySet, FS_Singleton DEF HalfDone

LEMMA HalvesAppend ==
  ASSUME NEW s \in Seq(Message), NEW m \in Message, ~Half(m)
  PROVE  HalfDone(Append(s, m)) = HalfDone(s)
<1>1. /\ Len(Append(s, m)) = Len(s) + 1 /\ Append(s, m)[Len(s) + 1] = m
      /\ \A i \in 1..Len(s) : Append(s, m)[i] = s[i]
  OBVIOUS
<1>2. Halves(Append(s, m)) = Halves(s)
  BY <1>1 DEF Halves
<1> QED BY <1>2 DEF Halves, HalfDone

\* A task that has run its first statement.
LEMMA HalvesGrow ==
  ASSUME NEW s \in Seq(Message), NEW i \in 1..Len(s), NEW m \in Message, ~Half(s[i])
  PROVE  HalfDone([s EXCEPT ![i] = m]) = HalfDone(s) + (IF Half(m) THEN 1 ELSE 0)
<1> DEFINE t == [s EXCEPT ![i] = m]
<1>1. Len(t) = Len(s) /\ t[i] = m /\ \A j \in 1..Len(s) : j # i => t[j] = s[j]
  OBVIOUS
<1> HIDE DEF t
<1>2. Halves(t) = IF Half(m) THEN Halves(s) \cup {i} ELSE Halves(s)
  BY <1>1 DEF Halves
<1>3. i \notin Halves(s)
  BY DEF Halves
<1>4. HalfDone(t) = Cardinality(Halves(t))
  BY DEF Halves, HalfDone
<1>5. Cardinality(Halves(s) \cup {i}) = HalfDone(s) + 1 /\ HalfDone(s) \in Nat
  BY <1>3, HalvesFinite, FS_AddElement
<1>6. HalfDone(t) = HalfDone(s) + (IF Half(m) THEN 1 ELSE 0)
  BY <1>2, <1>4, <1>5, HalvesFinite
<1> QED BY <1>6 DEF t

LEMMA RemoveAtLooks ==
  ASSUME NEW s \in Seq(Message), NEW i \in 1..Len(s)
  PROVE  /\ Len(RemoveAt(s, i)) = Len(s) - 1
         /\ \A j \in 1..(Len(s) - 1) : RemoveAt(s, i)[j] = IF j < i THEN s[j] ELSE s[j + 1]
<1> DEFINE a == SubSeq(s, 1, i - 1)
           b == SubSeq(s, i + 1, Len(s))
<1>1. a \in Seq(Message) /\ Len(a) = i - 1 /\ \A j \in 1..(i - 1) : a[j] = s[j]
  OBVIOUS
<1>2. b \in Seq(Message) /\ Len(b) = Len(s) - i /\ \A j \in 1..(Len(s) - i) : b[j] = s[j + i]
  OBVIOUS
<1>3. RemoveAt(s, i) = a \o b
  BY DEF RemoveAt
<1> HIDE DEF a, b
<1>4. Len(a \o b) = Len(s) - 1
  BY <1>1, <1>2
<1>5. ASSUME NEW j \in 1..(Len(s) - 1) PROVE (a \o b)[j] = IF j < i THEN s[j] ELSE s[j + 1]
  <2>1. CASE j < i
    BY <2>1, <1>1, <1>2
  <2>2. CASE ~(j < i)
    <3>1. (a \o b)[j] = b[j - Len(a)] /\ j - Len(a) = j - i + 1
      BY <2>2, <1>1, <1>2
    <3>2. j - i + 1 \in 1..(Len(s) - i) /\ (j - i + 1) + i = j + 1
      BY <2>2
    <3> QED BY <2>2, <3>1, <3>2, <1>2
  <2> QED BY <2>1, <2>2
<1> QED BY <1>3, <1>4, <1>5

\* A task that is over: the ones behind it move up, and it counts no more.
LEMMA HalvesRemove ==
  ASSUME NEW s \in Seq(Message), NEW i \in 1..Len(s)
  PROVE  HalfDone(RemoveAt(s, i)) = HalfDone(s) - (IF Half(s[i]) THEN 1 ELSE 0)
<1> DEFINE t == RemoveAt(s, i)
           S == Halves(s) \ {i}
           f == [j \in S |-> IF j < i THEN j ELSE j - 1]
<1>1. /\ Len(t) = Len(s) - 1
      /\ \A j \in 1..(Len(s) - 1) : t[j] = IF j < i THEN s[j] ELSE s[j + 1]
  BY RemoveAtLooks
<1> HIDE DEF t
<1>2. ASSUME NEW j \in S PROVE f[j] \in Halves(t)
  BY <1>1 DEF Halves
<1>3. ASSUME NEW j \in S, NEW k \in S, f[j] = f[k] PROVE j = k
  BY <1>3 DEF Halves
<1>4. ASSUME NEW k \in Halves(t) PROVE \E j \in S : f[j] = k
  <2>1. CASE k < i
    <3>1. k \in S
      BY <2>1, <1>1 DEF Halves
    <3> QED BY <2>1, <3>1
  <2>2. CASE ~(k < i)
    <3>1. k + 1 \in S /\ ~(k + 1 < i) /\ k \in Nat
      BY <2>2, <1>1 DEF Halves
    <3> QED BY <3>1
  <2> QED BY <2>1, <2>2
<1>5. f \in Bijection(S, Halves(t))
  BY <1>2, <1>3, <1>4, Fun_IsBij
<1>6. IsFiniteSet(S) /\ Cardinality(S) = HalfDone(s) - (IF Half(s[i]) THEN 1 ELSE 0)
  <2>1. i \in Halves(s) <=> Half(s[i])
    BY DEF Halves
  <2>2. HalfDone(s) \in Nat /\ IsFiniteSet(Halves(s)) /\ HalfDone(s) = Cardinality(Halves(s))
    BY HalvesFinite
  <2> QED BY <2>1, <2>2, FS_RemoveElement
<1>7. Cardinality(Halves(t)) = Cardinality(S)
  <2>1. ExistsBijection(S, Halves(t))
    BY <1>5, Fun_ExistsBij
  <2> QED BY <2>1, <1>6, FS_Bijection
<1>8. HalfDone(t) = HalfDone(s) - (IF Half(s[i]) THEN 1 ELSE 0)
  BY <1>6, <1>7 DEF Halves, HalfDone
<1> QED BY <1>8 DEF t

(***************************************************************************)
(* The strengthening of CountsAddUp: no message comes half done to the     *)
(* server, and the return that counts as a borrowing is the first event.   *)
(***************************************************************************)
Totals == /\ rows \in Nat /\ extra \in Nat /\ halves \in Nat
          /\ stats \in Nat \cup {None}

CountInv ==
  /\ Totals
  /\ \A m \in Of(link) : ~Half(m)
  /\ stats = None => extra = 0
  /\ CountsAddUp

LEMMA CountInit == Init => CountInv
<1> SUFFICES ASSUME Init PROVE CountInv
  OBVIOUS
<1>1. HalfDone(tasks) = 0
  BY HalvesEmpty DEF Init
<1>2. \A m \in Of(link) : ~Half(m)
  BY DEF Init, Of
<1> QED BY <1>1, <1>2 DEF Init, CountInv, Totals, CountsAddUp

\* Whatever leaves the tables alone and brings no half-done task.
LEMMA CountKept ==
  ASSUME CountInv, UNCHANGED <<rows, stats, extra, halves>>,
         \A m \in Of(link') : ~Half(m), HalfDone(tasks') = HalfDone(tasks)
  PROVE  CountInv'
  BY DEF CountInv, Totals, CountsAddUp

LEMMA CountBoard ==
  ASSUME Inv, CountInv,
         Change \/ PublishStatus \/ PublishEvent \/ BoardLost \/ BoardBack \/ Second
  PROVE  CountInv'
<1>1. tasks' = tasks /\ UNCHANGED <<rows, stats, extra, halves>>
  BY DEF Change, PublishStatus, PublishEvent, BoardLost, BoardBack, Second, dbVars,
         brokerVars
<1>2. link \in Seq(Message) /\ \A m \in Of(link) : ~Half(m)
  BY DEF Inv, TypeOK, CountInv
<1>3. ASSUME NEW m, ~Half(m), m \in Message, link' = Append(link, m)
      PROVE  \A x \in Of(link') : ~Half(x)
  <2>1. Of(Append(link, m)) \subseteq Of(link) \cup {m}
    BY <1>2, <1>3, OfAppend
  <2> QED BY <2>1, <1>2, <1>3
<1>4. \A m \in Of(link') : ~Half(m)
  <2>1. CASE link' = link
    BY <2>1, <1>2
  <2>2. CASE PublishStatus
    <3>1. Status \in Message /\ ~Half(Status) /\ link' = Append(link, Status)
      BY <2>2 DEF Inv, TypeOK, Status, Message, Snapshot, Half, PublishStatus, Publish
    <3> QED BY <3>1, <1>3
  <2>3. CASE PublishEvent /\ connected
    <3>1. PICK type \in {"borrow", "return"} : link' = Append(link, Event(type))
      BY <2>3 DEF PublishEvent, Publish
    <3>2. Event(type) \in Message /\ ~Half(Event(type))
      BY DEF Event, Message, Report, Half
    <3> QED BY <3>1, <3>2, <1>3
  <2>4. CASE BoardLost
    <3>1. PICK k \in 0..Len(link) : link' = SubSeq(link, 1, k)
      BY <2>4 DEF BoardLost
    <3>2. Of(link') \subseteq Of(link)
      BY <3>1, <1>2, OfPrefix
    <3> QED BY <3>2, <1>2
  <2> QED
    BY <2>1, <2>2, <2>3, <2>4
    DEF Change, PublishStatus, PublishEvent, BoardLost, BoardBack, Second, brokerVars
<1> QED BY <1>1, <1>4, CountKept

LEMMA CountServer ==
  ASSUME Inv, CountInv, Forward \/ ServerLost \/ OnConnect
  PROVE  CountInv'
<1>1. /\ link \in Seq(Message) /\ tasks \in Seq(Message)
      /\ retained \in Snapshot \cup {None}
      /\ \A m \in Of(link) : ~Half(m)
  BY DEF Inv, TypeOK, CountInv
<1>2. CASE Forward
  <2>1. /\ Of(link') \subseteq Of(link)
        /\ Head(link) \in Message /\ Head(link) \in Of(link)
    BY <1>1, <1>2, OfTail DEF Forward
  <2>2. HalfDone(tasks') = HalfDone(tasks)
    <3>1. CASE tasks' = tasks
      BY <3>1
    <3>2. CASE tasks' = Append(tasks, Head(link))
      BY <3>2, <1>1, <2>1, HalvesAppend
    <3> QED BY <3>1, <3>2, <1>2 DEF Forward, OnMessage
  <2>3. UNCHANGED <<rows, stats, extra, halves>>
    BY <1>2 DEF Forward, dbVars
  <2> QED BY <2>1, <2>2, <2>3, <1>1, CountKept
<1>3. CASE OnConnect
  <2>1. HalfDone(tasks') = HalfDone(tasks)
    <3>1. CASE tasks' = tasks
      BY <3>1
    <3>2. CASE retained # None /\ tasks' = Append(tasks, retained)
      <4>1. retained \in Message /\ ~Half(retained)
        BY <3>2, <1>1 DEF Message, Snapshot, Half
      <4> QED BY <3>2, <4>1, <1>1, HalvesAppend
    <3> QED BY <3>1, <3>2, <1>3 DEF OnConnect, OnMessage
  <2>2. link' = link /\ UNCHANGED <<rows, stats, extra, halves>>
    BY <1>3 DEF OnConnect, dbVars
  <2> QED BY <2>1, <2>2, <1>1, CountKept
<1>4. CASE ServerLost
  <2>1. link' = link /\ UNCHANGED <<rows, stats, extra>>
    BY <1>4 DEF ServerLost
  <2>2. CASE tasks' = tasks /\ halves' = halves
    BY <2>1, <2>2, <1>1, CountKept
  <2>3. CASE tasks' = <<>> /\ halves' = halves + HalfDone(tasks)
    <3>1. HalfDone(tasks') = 0 /\ HalfDone(tasks) \in Nat
      BY <2>3, <1>1, HalvesEmpty, HalvesFinite
    <3> QED BY <2>1, <2>3, <3>1, <1>1 DEF CountInv, Totals, CountsAddUp
  <2> QED BY <2>2, <2>3, <1>4 DEF ServerLost
<1> QED BY <1>2, <1>3, <1>4

LEMMA CountTask ==
  ASSUME Inv, CountInv, NEW i \in 1..Len(tasks),
         UpdateSnapshot(i) \/ InsertEvent(i) \/ UpdateStats(i) \/ TaskFails(i)
  PROVE  CountInv'
<1>1. /\ tasks \in Seq(Message) /\ tasks[i] \in Message
      /\ link' = link /\ \A m \in Of(link) : ~Half(m)
      /\ HalfDone(tasks) \in Nat /\ Totals
  BY HalvesFinite
  DEF Inv, TypeOK, CountInv, UpdateSnapshot, InsertEvent, UpdateStats, TaskFails, brokerVars
<1>2. HalfDone(RemoveAt(tasks, i)) = HalfDone(tasks) - (IF Half(tasks[i]) THEN 1 ELSE 0)
  BY <1>1, HalvesRemove
<1>3. CASE UpdateSnapshot(i)
  <2>1. ~Half(tasks[i]) /\ tasks' = RemoveAt(tasks, i)
        /\ UNCHANGED <<rows, stats, extra, halves>>
    BY <1>3 DEF UpdateSnapshot, Half
  <2> QED BY <2>1, <1>1, <1>2, CountKept
<1>4. CASE InsertEvent(i)
  <2> DEFINE m == [tasks[i] EXCEPT !.kind = "stats"]
  <2>1. tasks[i] \in Report /\ ~Half(tasks[i])
    BY <1>4, <1>1 DEF InsertEvent, Message, Snapshot, Half
  <2>2. m \in Message /\ (Half(m) <=> tasks[i].type = "borrow")
    BY <2>1 DEF Report, Message, Half
  <2>3. tasks' = [tasks EXCEPT ![i] = m]
    BY <1>4 DEF InsertEvent
  <2>4. rows' = rows + (IF tasks[i].type = "borrow" THEN 1 ELSE 0)
        /\ UNCHANGED <<stats, extra, halves>>
    BY <1>4 DEF InsertEvent
  <2> HIDE DEF m
  <2>5. HalfDone(tasks') = HalfDone(tasks) + (IF tasks[i].type = "borrow" THEN 1 ELSE 0)
    BY <2>1, <2>2, <2>3, <1>1, HalvesGrow
  <2> QED BY <2>4, <2>5, <1>1 DEF CountInv, Totals, CountsAddUp
<1>5. CASE UpdateStats(i)
  <2>1. /\ HalfDone(tasks') = HalfDone(tasks) - (IF tasks[i].type = "borrow" THEN 1 ELSE 0)
        /\ rows' = rows /\ halves' = halves
    BY <1>5, <1>2 DEF UpdateStats, Half
  <2>2. CASE stats = None
    <3>1. stats' = 1 /\ extra' = IF tasks[i].type = "borrow" THEN 0 ELSE 1
      BY <2>2, <1>5 DEF UpdateStats, Counted, CountInv
    <3>2. stats' # None /\ stats' \in Nat
      BY <3>1, NoneOK
    <3> QED BY <2>1, <2>2, <3>1, <3>2, <1>1 DEF CountInv, Totals, CountsAddUp
  <2>3. CASE stats # None
    <3>1. /\ stats' = stats + (IF tasks[i].type = "borrow" THEN 1 ELSE 0)
          /\ extra' = extra /\ stats \in Nat
      BY <2>3, <1>5, <1>1 DEF UpdateStats, Counted, Totals
    <3>2. stats' # None /\ stats' \in Nat
      BY <3>1, NoneOK
    <3> QED BY <2>1, <2>3, <3>1, <3>2, <1>1 DEF CountInv, Totals, CountsAddUp
  <2> QED BY <2>2, <2>3
<1>6. CASE TaskFails(i)
  <2>1. tasks' = RemoveAt(tasks, i) /\ UNCHANGED <<rows, stats, extra>>
        /\ halves' = halves + (IF Half(tasks[i]) THEN 1 ELSE 0)
    BY <1>6, HalvesOne DEF TaskFails
  <2>2. halves' \in Nat /\ HalfDone(tasks') + halves' = HalfDone(tasks) + halves
    BY <2>1, <1>1, <1>2 DEF Totals
  <2>3. HalfDone(tasks') \in Nat
    BY <2>1, <1>1, <1>2, OfRemoveAt, HalvesFinite
  <2> DEFINE counted == IF stats = None THEN 0 ELSE stats
  <2>4. Totals' /\ counted \in Nat /\ counted' = counted
    BY <2>1, <2>2, <1>1 DEF Totals
  <2>5. counted + HalfDone(tasks) + halves = rows + extra
    BY DEF CountInv, CountsAddUp
  <2> HIDE DEF counted
  <2>6. counted' + HalfDone(tasks') + halves' = rows' + extra'
    <3>1. rows' = rows /\ extra' = extra /\ halves \in Nat /\ HalfDone(tasks) \in Nat
      BY <2>1, <1>1 DEF Totals
    <3> QED BY <2>2, <2>3, <2>4, <2>5, <3>1
  <2>7. CountsAddUp'
    BY <2>6 DEF CountsAddUp, counted
  <2> QED BY <2>1, <2>4, <2>7, <1>1 DEF CountInv
<1> QED BY <1>3, <1>4, <1>5, <1>6

LEMMA CountNext == Inv /\ CountInv /\ [Next]_vars => CountInv'
<1> SUFFICES ASSUME Inv, CountInv, [Next]_vars PROVE CountInv'
  OBVIOUS
<1>1. CASE Next
  <2>1. CASE Change \/ PublishStatus \/ PeriodicStatus \/ PublishEvent
             \/ BoardLost \/ BoardBack \/ Second
    BY <2>1, CountBoard DEF PeriodicStatus
  <2>2. CASE Forward \/ ServerLost \/ OnConnect
    BY <2>2, CountServer
  <2>3. CASE RunTask \/ \E i \in 1..Len(tasks) : TaskFails(i)
    BY <2>3, CountTask DEF RunTask
  <2> QED BY <1>1, <2>1, <2>2, <2>3 DEF Next
<1>2. CASE UNCHANGED vars
  <2>1. link' = link /\ tasks' = tasks /\ UNCHANGED <<rows, stats, extra, halves>>
    BY <1>2 DEF vars, brokerVars, dbVars
  <2> QED BY <2>1, CountKept DEF CountInv
<1> QED BY <1>1, <1>2

\* The statistics of a book are its history but for what insert_event's two
\* statements leave open, for any number of events, tasks and failures.
THEOREM StatisticsAddUp == Spec => []CountsAddUp
<1>1. CountInv => CountsAddUp
  BY DEF CountInv
<1> QED BY <1>1, CountInit, CountNext, SnapshotsInOrder, PTL DEF Spec
=============================================================================
