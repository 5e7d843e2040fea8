---------------------------- MODULE CloudIngest ----------------------------
(***************************************************************************)
(* The way of the board's reports into the cloud's database: published by  *)
(* src/src/fsm/fsm.c if it is connected, kept by the broker if they are    *)
(* retained, received by src/src/server/mqtt_client.py, which starts a     *)
(* task of the event loop for each and does not wait for it, and written   *)
(* by src/src/server/db.py, one statement at a time, over a pool of        *)
(* connections.                                                            *)
(*                                                                         *)
(* A snapshot of the shelf is the number of the shelf's last change.  The  *)
(* last second MaxNow stands for the rest of time: the shelf changes no    *)
(* more, while reports go on.                                              *)
(***************************************************************************)
EXTENDS Integers, FiniteSets, Sequences, SequencesExt

CONSTANTS
  None,        \* no row, no retained snapshot
  Interval,    \* FSM_MQTT_STATUS_ACTIVE_SEC
  MaxNow,      \* bound: seconds in which the shelf changes
  MaxChanges,  \* bound: changes of the shelf
  MaxEvents,   \* bound: events published
  MaxLink,     \* bound: messages between the board and the broker
  MaxTasks,    \* bound: tasks of the event loop
  MaxFails     \* bound: broken links, ended servers, failed statements

ASSUME ConstantsOK ==
  /\ Interval \in Nat /\ MaxNow \in Nat /\ MaxChanges \in Nat
  /\ MaxEvents \in Nat /\ MaxLink \in Nat /\ MaxTasks \in Nat /\ MaxFails \in Nat

ASSUME NoneOK ==
  /\ None \notin [kind : {"status"}, of : Nat, ts : Nat]
  /\ None \notin [of : Nat, ts : Nat]
  /\ None \notin Nat

VARIABLES
  now,         \* the board's clock
  shelf,       \* number of the last change of the shelf
  connected,   \* the board's link to the broker
  lastStatus,  \* t_last_mqtt_status
  link,        \* published, not yet at the broker
  retained,    \* the snapshot the broker keeps for bookshelf/status
  subscribed,  \* the server's link to the broker
  tasks,       \* coroutines of the server: messages, "event" before its first
               \* statement and "stats" before its second
  row,         \* shelf_snapshot: what it shows, and its updated_at
  rows,        \* shelf_events: how many borrowings
  stats,       \* book_stats of the book: its borrow_count, or None
  events,      \* events published so far
  fails,       \* failures so far
  halves,      \* history: borrowings whose second statement never ran
  extra        \* history: 1 if a return created the row of book_stats

boardVars == <<now, shelf, connected, lastStatus>>
brokerVars == <<link, retained, subscribed>>
dbVars == <<row, rows, stats, halves, extra>>
vars == <<boardVars, brokerVars, tasks, dbVars, events, fails>>

Status == [kind |-> "status", of |-> shelf, ts |-> now]
Event(type) == [kind |-> "event", type |-> type]

\* mqtt_publish: at once or not at all.
Publish(m) == Len(link) < MaxLink /\ link' = Append(link, m)

Fail == fails < MaxFails /\ fails' = fails + 1

(***************************************************************************)
(* The board.                                                              *)
(***************************************************************************)
Change ==
  /\ shelf < MaxChanges /\ now < MaxNow
  /\ shelf' = shelf + 1
  /\ UNCHANGED <<now, connected, lastStatus, brokerVars, tasks, dbVars, events, fails>>

\* Mutant: the interval is compared with the last time itself.
StatusDueAbsolute == lastStatus >= Interval

\* mqtt_publish_status: with a change of mode, an accepted layout or a
\* request at any time, and every Interval.
StatusDue == now - lastStatus >= Interval \/ now = MaxNow

PublishStatus ==
  /\ connected
  /\ Publish(Status)
  /\ lastStatus' = now
  /\ UNCHANGED <<now, shelf, connected, retained, subscribed, tasks, dbVars, events, fails>>

PeriodicStatus == StatusDue /\ PublishStatus

\* mqtt_publish_event: what happens without a connection is never sent.
PublishEvent ==
  /\ events < MaxEvents
  /\ events' = events + 1
  /\ IF connected THEN \E type \in {"borrow", "return"} : Publish(Event(type))
     ELSE UNCHANGED link
  /\ UNCHANGED <<boardVars, retained, subscribed, tasks, dbVars, fails>>

\* The link breaks with messages on their way, and the broker publishes the
\* board's will, a retained status without a shelf.
BoardLost ==
  /\ connected /\ Fail
  /\ connected' = FALSE
  /\ \E k \in 0..Len(link) : link' = SubSeq(link, 1, k)
  /\ retained' \in {retained, None}
  /\ UNCHANGED <<now, shelf, lastStatus, subscribed, tasks, dbVars, events>>

BoardBack ==
  /\ ~connected
  /\ connected' = TRUE
  /\ UNCHANGED <<now, shelf, lastStatus, brokerVars, tasks, dbVars, events, fails>>

Second ==
  /\ now < MaxNow
  /\ now' = now + 1
  /\ UNCHANGED <<shelf, connected, lastStatus, brokerVars, tasks, dbVars, events, fails>>

(***************************************************************************)
(* The broker and the server.                                              *)
(***************************************************************************)
\* on_message: a task, which will run when it will.
OnMessage(m) == Len(tasks) < MaxTasks /\ tasks' = Append(tasks, m)

Forward ==
  /\ link # <<>>
  /\ link' = Tail(link)
  /\ retained' = IF Head(link).kind = "status" THEN Head(link) ELSE retained
  /\ IF subscribed THEN OnMessage(Head(link)) ELSE UNCHANGED tasks
  /\ UNCHANGED <<boardVars, subscribed, dbVars, events, fails>>

\* Borrowings between the two statements of insert_event.
Half(m) == m.kind = "stats" /\ m.type = "borrow"
HalfDone(s) == Cardinality({ i \in 1..Len(s) : Half(s[i]) })

\* The server loses the broker; its own will replaces the retained status.
\* Or it ends, and its tasks with it.
ServerLost ==
  /\ subscribed /\ Fail
  /\ subscribed' = FALSE
  /\ retained' \in {retained, None}
  /\ \/ UNCHANGED <<tasks, halves>>
     \/ tasks' = <<>> /\ halves' = halves + HalfDone(tasks)
  /\ UNCHANGED <<boardVars, link, row, rows, stats, extra, events>>

\* on_connect: it subscribes, and gets the retained status first.
OnConnect ==
  /\ ~subscribed
  /\ subscribed' = TRUE
  /\ IF retained = None THEN UNCHANGED tasks ELSE OnMessage(retained)
  /\ UNCHANGED <<boardVars, link, retained, dbVars, events, fails>>

(***************************************************************************)
(* The tasks, in any order.                                                *)
(***************************************************************************)
\* Mutant: the later of two snapshots of one second wins.
NewerOrEqual(m) == row = None \/ row.ts <= m.ts

\* update_snapshot: one statement, guarded by the time stamp.
Newer(m) == row = None \/ row.ts < m.ts

UpdateSnapshot(i) ==
  /\ tasks[i].kind = "status"
  /\ row' = IF Newer(tasks[i]) THEN [of |-> tasks[i].of, ts |-> tasks[i].ts] ELSE row
  /\ tasks' = RemoveAt(tasks, i)
  /\ UNCHANGED <<boardVars, brokerVars, rows, stats, halves, extra, events, fails>>

\* insert_event, the first statement
InsertEvent(i) ==
  /\ tasks[i].kind = "event"
  /\ rows' = rows + (IF tasks[i].type = "borrow" THEN 1 ELSE 0)
  /\ tasks' = [tasks EXCEPT ![i].kind = "stats"]
  /\ UNCHANGED <<boardVars, brokerVars, row, stats, halves, extra, events, fails>>

\* Mutant: every event counts as a borrowing.
CountedAny(type) == IF stats = None THEN 1 ELSE stats + 1

\* insert_event, the second: a row that is not there begins with 1.
Counted(type) == IF stats = None THEN 1
                 ELSE stats + (IF type = "borrow" THEN 1 ELSE 0)

UpdateStats(i) ==
  /\ tasks[i].kind = "stats"
  /\ stats' = Counted(tasks[i].type)
  /\ extra' = IF stats = None /\ tasks[i].type # "borrow" THEN 1 ELSE extra
  /\ tasks' = RemoveAt(tasks, i)
  /\ UNCHANGED <<boardVars, brokerVars, row, rows, halves, events, fails>>

\* A statement fails: the rest of the task is given up, and a line logged.
TaskFails(i) ==
  /\ Fail
  /\ tasks' = RemoveAt(tasks, i)
  /\ halves' = halves + HalfDone(<<tasks[i]>>)
  /\ UNCHANGED <<boardVars, brokerVars, row, rows, stats, extra, events>>

RunTask == \E i \in 1..Len(tasks) : UpdateSnapshot(i) \/ InsertEvent(i) \/ UpdateStats(i)

Init ==
  /\ now = 0 /\ shelf = 0 /\ connected = TRUE /\ lastStatus = 0
  /\ link = <<>> /\ retained = None /\ subscribed = FALSE /\ tasks = <<>>
  /\ row = None /\ rows = 0 /\ stats = None /\ events = 0 /\ fails = 0
  /\ halves = 0 /\ extra = 0

Next ==
  \/ Change \/ PublishStatus \/ PeriodicStatus \/ PublishEvent
  \/ BoardLost \/ BoardBack \/ Second
  \/ Forward \/ ServerLost \/ OnConnect
  \/ RunTask \/ \E i \in 1..Len(tasks) : TaskFails(i)

Spec == Init /\ [][Next]_vars

\* The board's loop and clock, the reconnection of both sides, a broker that
\* delivers, and an event loop that does not starve its oldest task.
FairSpec ==
  /\ Spec
  /\ SF_vars(PeriodicStatus) /\ WF_vars(Second) /\ WF_vars(BoardBack)
  /\ SF_vars(Forward) /\ WF_vars(OnConnect)
  /\ WF_vars(tasks # <<>> /\ (UpdateSnapshot(1) \/ InsertEvent(1) \/ UpdateStats(1)))

(***************************************************************************)
(* Properties.                                                             *)
(***************************************************************************)
\* The cloud's picture of the shelf never goes back: not when the tasks of
\* two snapshots are written in the wrong order, not when the broker hands a
\* retained one to a server that starts, and not for two snapshots of the
\* same second.
SnapshotNeverBack == [][row # None => row'.of >= row.of]_row

\* Nor does it stay behind: the shelf's last change reaches the cloud,
\* although reports are lost without a connection, dropped by a failed
\* statement, or refused because one of the same second was there before.
SnapshotCatchesUp == <>[](row # None /\ row.of = shelf)

\* The statistics of a book are the history of its borrowings but for what
\* the two statements, which are no transaction, leave open: a task between
\* them, one that never came to the second, and a row that a return created,
\* which begins with a borrowing.
CountsAddUp ==
  (IF stats = None THEN 0 ELSE stats) + HalfDone(tasks) + halves = rows + extra
=============================================================================
