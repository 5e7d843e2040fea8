----------------------------- MODULE ScreenLink -----------------------------
(***************************************************************************)
(* The screen program and the shelf program, which share nothing but two   *)
(* files: /tmp/sb_cmd, one command from the screen, and /tmp/fsm_state,    *)
(* what the machine last said of itself.  Each side replaces its file by a *)
(* rename.  Modelled is the search of a book through both: the page of     *)
(* src/src/ui/main.c, the files of ui_model.c and sb_ipc.c, and the part   *)
(* of src/src/fsm/fsm.c a search goes through (FsmMode has the rest).      *)
(***************************************************************************)
EXTENDS Integers

CONSTANTS
  Books,        \* what a search may match
  None,         \* no book, no command, no file
  FindTimeout,  \* FSM_FIND_TIMEOUT
  CloseAfter,   \* seconds a result stays on the screen
  MaxOrders,    \* bound: commands of the screen and of the cloud
  MaxCrashes    \* bound: ends of either program

ASSUME ConstantsOK ==
  /\ None \notin Books
  /\ FindTimeout \in Nat /\ CloseAfter \in Nat
  /\ MaxOrders \in Nat /\ MaxCrashes \in Nat

VARIABLES
  slot,      \* /tmp/sb_cmd
  inHand,    \* the command the machine has read and not yet executed
  file,      \* /tmp/fsm_state
  alive,     \* whether fsm_main runs
  machine,   \* the part of fsm_t that a search touches
  page,      \* of the screen: g_find_active, g_find_epc, the age of g_find_completed_at
  view,      \* g_fsm of the screen
  keyboard,  \* whether the screen's keyboard is up
  orders,    \* commands given so far
  crashes,   \* programs ended so far
  issued,    \* history: number of the last command that reached the slot
  done,      \* history: number of the last command executed
  lost,      \* history: the machine ended with a command in hand
  reported   \* history: this search saw its book reported missing

machineVars == <<inHand, file, alive, machine, done, lost, reported>>
screenVars == <<page, view, keyboard>>
vars == <<slot, machineVars, screenVars, orders, crashes, issued>>

Order(kind, wanted) == [kind |-> kind, wanted |-> wanted, n |-> issued + 1]

(***************************************************************************)
(* The machine.  A function below maps a record of the machine to the      *)
(* records it may become.                                                  *)
(***************************************************************************)
Start == [mode |-> "BOOT", prev |-> "BOOT", status |-> 0,
          matches |-> {}, target |-> None, age |-> 0]

Written(m) == [mode |-> m.mode, status |-> m.status, target |-> m.target]

Faulty(m) == [m EXCEPT !.mode = "FAULT", !.prev = IF m.mode = "FAULT" THEN @ ELSE m.mode]

Moved(m, mode) == [m EXCEPT !.mode = mode, !.prev = m.mode]

\* enter_active and enter_sleep; only the first starts the readers, and only
\* if they slept.
Activated(m) == {Moved(m, "ACTIVE")} \cup
                IF m.mode = "SLEEP" THEN {Faulty(Moved(m, "ACTIVE"))} ELSE {}

\* enter_find: the books that match, the last of which is the target.
Matched(m, wanted) ==
  IF wanted = {} THEN {m}
  ELSE { [m EXCEPT !.matches = wanted, !.target = b] : b \in wanted }

Entered(m, wanted) ==
  IF m.mode = "FIND" THEN Matched(m, wanted)
  ELSE LET found == [Moved(m, "FIND") EXCEPT !.age = 0]
       IN  Matched(found, wanted) \cup
           IF m.mode = "SLEEP" THEN {Faulty(found)} ELSE {}

\* fsm_begin_find: the status says "searching" in whatever mode.
Begun(m, wanted) ==
  LET begun == [m EXCEPT !.status = 1, !.matches = {}, !.target = None]
  IN  IF m.mode \in {"ACTIVE", "SLEEP", "FIND"} THEN Entered(begun, wanted) ELSE {begun}

\* leave_find(f, 1)
Cancelled(m) ==
  LET left == [m EXCEPT !.status = 4, !.matches = {}, !.target = None]
  IN  IF m.mode # "FIND" THEN {left}
      ELSE IF m.prev = "SLEEP" THEN {Moved(left, "SLEEP")} ELSE Activated(left)

\* fsm_retry_fault
Retried(m) == {[m EXCEPT !.mode = "BOOT", !.prev = "BOOT"], Faulty(m)}

Executed(m, cmd) ==
  IF cmd = None THEN {m}
  ELSE CASE cmd.kind = "find"   -> Begun(m, cmd.wanted)
         [] cmd.kind = "cancel" -> Cancelled(m)
         [] cmd.kind = "retry"  -> Retried(m)

\* Mutant: the status is cleared with the rest of the search.
AllGoneIdle(m) == Activated([m EXCEPT !.matches = {}, !.status = 0])

AllGone(m) == Activated([m EXCEPT !.matches = {}])

\* case FSM_FIND of fsm_tick: the scanner may report the target missing, all
\* the books may be gone, and the time may be over.
Searched(m, missing) ==
  LET seen == IF missing THEN [m EXCEPT !.status = 2] ELSE m
      over == [seen EXCEPT !.status = 3, !.matches = {}]
  IN  (IF m.matches # {} THEN AllGone(seen) ELSE {}) \cup
      IF m.age < FindTimeout THEN {seen}
      ELSE IF m.prev = "SLEEP" THEN {Moved(over, "SLEEP")} ELSE Activated(over)

Body(m, missing) ==
  CASE m.mode = "BOOT"   -> {m} \cup Activated(m)
    [] m.mode = "ACTIVE" -> {m, Moved(m, "SLEEP")}
    [] m.mode = "SLEEP"  -> {m} \cup Activated(m)
    [] m.mode = "FIND"   -> Searched(m, missing)
    [] m.mode = "FAULT"  -> {m}

\* The head of fsm_poll_local_cmd: the file is renamed, read and unlinked, so
\* that the screen can write the next one at once.
PollLocalCmd ==
  /\ alive /\ inHand = None /\ slot # None
  /\ inHand' = slot
  /\ slot' = None
  /\ UNCHANGED <<file, alive, machine, done, lost, reported>>
  /\ UNCHANGED <<screenVars, orders, crashes, issued>>

\* Mutant: the command file is removed after its command was executed.
ConsumedLate == slot' = IF inHand = None THEN slot ELSE None

\* After the poll the slot belongs to the screen again.
Consumed == slot' = slot

TickKeeps == /\ Consumed
             /\ inHand' = None
             /\ done' = IF inHand = None THEN done ELSE inHand.n
             /\ UNCHANGED <<alive, lost, screenVars, crashes, issued>>

\* The rest of fsm_tick.  A tick that ends in FAULT returns before it writes
\* the file; enter_fault and fsm_retry_fault write it themselves.
Tick ==
  /\ alive
  /\ \E cloud \in {None} \cup SUBSET Books :
       /\ cloud # None => orders < MaxOrders
       /\ orders' = IF cloud = None THEN orders ELSE orders + 1
       /\ \E a \in Executed(machine, inHand) :
          \E b \in IF cloud = None THEN {a} ELSE Begun(a, cloud) :
          \E missing \in IF b.target = None THEN {FALSE} ELSE BOOLEAN :
          \E c \in Body(b, missing) :
            /\ machine' = c
            /\ file' = CASE c.mode # "FAULT" -> Written(c)
                         [] inHand # None /\ inHand.kind = "retry" -> Written(a)
                         [] machine.mode # "FAULT" -> Written(c)
                         [] OTHER -> file
            /\ reported' =
                 /\ c.status # 3 /\ c.mode # "FAULT"
                 /\ \/ b.mode = "FIND" /\ missing
                    \/ /\ reported /\ cloud = None
                       /\ inHand = None
  /\ TickKeeps

\* fsm_stop or a crash; the supervisor removes the state file and starts a
\* new process, which does not look for a command its predecessor had read.
Crash ==
  /\ alive /\ crashes < MaxCrashes
  /\ crashes' = crashes + 1
  /\ alive' = FALSE
  /\ inHand' = None
  /\ lost' = (lost \/ inHand # None)
  /\ reported' = FALSE
  /\ file' \in {file, None}
  /\ machine' = Start
  /\ UNCHANGED <<slot, screenVars, orders, issued, done>>

StartFsm ==
  /\ ~alive
  /\ \/ file # None /\ file' = None /\ UNCHANGED alive
     \/ file = None /\ file' = Written(machine) /\ alive' = TRUE
  /\ UNCHANGED <<slot, inHand, machine, done, lost, reported, screenVars>>
  /\ UNCHANGED <<orders, crashes, issued>>

(***************************************************************************)
(* The screen.                                                             *)
(***************************************************************************)
Closed == [active |-> FALSE, book |-> None, age |-> -1]
Opened(b) == [active |-> TRUE, book |-> b, age |-> -1]

\* ui_fsm_read: without a file the mode is the last one read.
FsmRead == IF file = None THEN [mode |-> view.mode, status |-> 0, target |-> None]
           ELSE file

\* render_all
Dismissed(p, v) ==
  IF v.status = 4 \/ (v.mode # "FIND" /\ v.status = 0 /\ ~p.active) THEN Closed ELSE p

Adopted(p, v) ==
  IF v.mode = "FIND" /\ v.target # None /\ p.book = None THEN Opened(v.target) ELSE p

\* Mutant: the time of the result is taken again with each drawing.
CompletedAfresh(p, v) ==
  IF p.active /\ v.status \in {2, 3} THEN [p EXCEPT !.age = 0]
  ELSE IF v.status = 1 THEN [p EXCEPT !.age = -1] ELSE p

Completed(p, v) ==
  IF p.active /\ v.status \in {2, 3}
  THEN IF p.age >= CloseAfter THEN Closed ELSE [p EXCEPT !.age = IF @ = -1 THEN 0 ELSE @]
  ELSE IF v.status = 1 THEN [p EXCEPT !.age = -1] ELSE p

RenderAll(p) ==
  /\ view' = FsmRead
  /\ page' = Completed(Adopted(Dismissed(p, view'), view'), view')
  /\ keyboard' = FALSE

Shown == page.active \/ view.mode = "FIND"

\* write_cmd; the callers do not look at its result.
WriteCmd(cmd) ==
  /\ orders < MaxOrders
  /\ orders' = orders + 1
  /\ \/ slot' = cmd /\ issued' = cmd.n
     \/ UNCHANGED <<slot, issued>>
  /\ UNCHANGED <<machineVars, crashes>>

\* on_msg_find and on_result_find
OnFind == /\ ~Shown
          /\ \E b \in Books : WriteCmd(Order("find", {b})) /\ RenderAll(Opened(b))

OnCancelFind == /\ Shown
                /\ WriteCmd(Order("cancel", {}))
                /\ RenderAll(Closed)

OnFaultRetry == /\ ~Shown /\ view.mode = "FAULT"
                /\ WriteCmd(Order("retry", {}))
                /\ RenderAll(page)

\* tick: with its keyboard up the screen reads the file and draws nothing new.
UiTick ==
  /\ IF keyboard THEN view' = FsmRead /\ UNCHANGED <<page, keyboard>> ELSE RenderAll(page)
  /\ UNCHANGED <<slot, machineVars, orders, crashes, issued>>

OnKeyboard ==
  /\ keyboard \/ ~Shown
  /\ keyboard' = ~keyboard
  /\ UNCHANGED <<slot, machineVars, page, view, orders, crashes, issued>>

StartUi ==
  /\ crashes < MaxCrashes
  /\ crashes' = crashes + 1
  /\ view' = [mode |-> "BOOT", status |-> 0, target |-> None]
  /\ page' = Closed /\ keyboard' = FALSE
  /\ UNCHANGED <<slot, machineVars, orders, issued>>

Second ==
  /\ machine' = [machine EXCEPT !.age = IF @ < FindTimeout THEN @ + 1 ELSE @]
  /\ page' = [page EXCEPT !.age = IF @ \in 0..(CloseAfter - 1) THEN @ + 1 ELSE @]
  /\ UNCHANGED <<slot, inHand, file, alive, done, lost, reported, view, keyboard>>
  /\ UNCHANGED <<orders, crashes, issued>>

Init ==
  /\ machine = Start /\ file = Written(Start) /\ alive = TRUE
  /\ slot = None /\ inHand = None
  /\ page = Closed /\ view = Written(Start) /\ keyboard = FALSE
  /\ orders = 0 /\ crashes = 0 /\ issued = 0 /\ done = 0
  /\ lost = FALSE /\ reported = FALSE

Next ==
  \/ PollLocalCmd \/ Tick \/ Crash \/ StartFsm
  \/ OnFind \/ OnCancelFind \/ OnFaultRetry \/ UiTick \/ OnKeyboard \/ StartUi
  \/ Second

Spec == Init /\ [][Next]_vars

\* Both programs loop, the supervisor looks every five seconds, time passes.
FairSpec ==
  /\ Spec
  /\ WF_vars(PollLocalCmd) /\ WF_vars(Tick) /\ WF_vars(StartFsm)
  /\ WF_vars(UiTick) /\ WF_vars(Second)

(***************************************************************************)
(* Properties.                                                             *)
(***************************************************************************)
\* A command is overwritten by a later one, never by nothing: what the
\* screen wrote last is executed, though the machine may be reading the one
\* before, unless it ends between reading and executing.
LastCommandWins == []<>(done = issued \/ lost)

\* What the scanner reports reaches the person at the shelf: once the target
\* of a search is missed, the screen comes to say so, in whatever order the
\* two programs run and although the machine leaves its search at once,
\* unless a new command, a timeout, a fault or a restart comes first.
TakenIsShown == reported ~> (view.status = 2 \/ ~reported)

\* A search page does not outlive its search: once the machine runs, is not
\* in fault, and says the search was taken, timed out or cancelled, the page
\* closes and stays closed, however old the status was that it first saw.
Over == alive /\ machine.mode \notin {"FIND", "FAULT"} /\ machine.status \in {2, 3, 4}
PageCloses == <>[](Over /\ ~keyboard) => <>[]~Shown
=============================================================================
