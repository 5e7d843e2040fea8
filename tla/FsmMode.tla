------------------------------ MODULE FsmMode ------------------------------
(***************************************************************************)
(* The mode machine of src/src/fsm/fsm.c: the states BOOT, ACTIVE, SLEEP,  *)
(* FIND and FAULT, the two UHF readers it starts and stops, the radar that *)
(* puts the shelf to sleep, the find session and the add-book session.     *)
(*                                                                         *)
(* fsm_tick is single threaded, but a tick is not instantaneous: it reads  *)
(* the clock once ("now"), then handles one command of the screen, then    *)
(* one message of the broker, then runs the body of the current state.     *)
(* pc is the position inside a tick, and seconds may pass between two      *)
(* positions.  A stored time t_x is represented by its age, the seconds    *)
(* passed since t_x, and "now" by lag, the seconds passed since now was    *)
(* read; now - t_x is then Since(age), with the wrap of uint32_t.          *)
(*                                                                         *)
(* What is read by the antennas and what the fusion of UHF and infrared    *)
(* makes of it is an input here: it chooses the set `present'.             *)
(***************************************************************************)
EXTENDS Integers

CONSTANTS
  Books,            \* the slots of the scanner's table, one book each
  NoBook,           \* the empty find_target_epc
  Devs,             \* the UHF readers: upper and lower
  Flaky,            \* the readers that may lose their link or not answer
  Commands,         \* the commands that the screen and the cloud may issue
  SleepTimeout,     \* FSM_SLEEP_TIMEOUT
  FindTimeout,      \* FSM_FIND_TIMEOUT
  BaselineTimeout,  \* FSM_BASELINE_TO
  FrameStale,       \* FSM_RADAR_FRAME_STALE_SEC
  MaxLag,           \* bound: seconds that may pass within one tick
  Word              \* 2^32: the arithmetic of uint32_t wraps at it

AllCommands ==
  { "FIND", "MQTT_FIND", "FIND_CANCEL", "UHF_POWER", "ADD_START", "ADD_CANCEL",
    "REGISTER", "DELETE_BOOK", "FAULT_RETRY", "SYSTEM_REBOOT",
    "FORCE_BOOT", "FORCE_ACTIVE", "FORCE_SLEEP", "FORCE_FIND",
    "FORCE_FAULT" }

ASSUME ConstantsOK ==
  /\ NoBook \notin Books
  /\ Flaky \subseteq Devs
  /\ Commands \subseteq AllCommands
  /\ SleepTimeout \in Nat \ {0}
  /\ FindTimeout \in Nat \ {0}
  /\ BaselineTimeout \in Nat
  /\ FrameStale \in Nat
  /\ MaxLag \in Nat
  /\ Word \in Nat
  /\ Word > SleepTimeout + MaxLag
  /\ Word > FindTimeout + MaxLag
  /\ Word > FrameStale + MaxLag

VARIABLES
  pc,                \* "idle", or inside a tick "cmd", "mqtt", "body"
  lag,               \* seconds since the tick read now
  entered,           \* history: since then this tick has changed the mode or
                     \* renewed t_last_present
  state, prev_state,
  link,              \* the readers that are plugged in and powered
  open,              \* sc.dev[d].fd >= 0
  scanning,          \* sc.dev[d].scanning
  lost,              \* readers whose open descriptor was overwritten
  ready,             \* sc.ready
  uhf_ok, radar_ok,  \* mod_uhf.ok, mod_radar.ok
  target,            \* the radar's last report: somebody is there
  seen_person,       \* radar_seen_person
  present,           \* sc.is_present
  find_query,        \* the books find_query matches, {} when it is empty
  find_matches, find_target, find_status,
  add_mode, register_pending,
  detect_unknown,    \* sc.detect_unknown
  frameAge,          \* age of t_last_radar_frame
  personAge,         \* age of t_last_radar_person
  presentAge,        \* age of t_last_present
  findAge,           \* age of t_find_start
  startAge           \* age of t_start

tickVars  == <<pc, lag, entered>>
modeVars  == <<state, prev_state>>
devVars   == <<open, scanning, lost, ready>>
okVars    == <<uhf_ok, radar_ok>>
radarVars == <<target, seen_person, frameAge, personAge>>
findVars  == <<find_query, find_matches, find_target, find_status, findAge>>
addVars   == <<add_mode, register_pending, detect_unknown>>

vars == <<tickVars, modeVars, link, devVars, okVars, radarVars, present,
          findVars, addVars, presentAge, startAge>>

States == {"BOOT", "ACTIVE", "SLEEP", "FIND", "FAULT"}

\* The values of find_status.
Idle == 0
Searching == 1
Taken == 2
TimedOut == 3
Cancelled == 4

(***************************************************************************)
(* Ages.  An age is capped at the first value that no comparison can tell  *)
(* from a larger one.                                                      *)
(***************************************************************************)
PresentCap == SleepTimeout + MaxLag
FindCap    == FindTimeout + MaxLag
StartCap   == BaselineTimeout + 1
FrameCap   == FrameStale + MaxLag + 1

Older(age, cap) == IF age < cap THEN age + 1 ELSE cap

\* now - t in uint32_t: a time taken after now wraps to a huge difference.
Since(age) == IF lag <= age THEN age - lag ELSE Word - (lag - age)

TypeOK ==
  /\ pc \in {"idle", "cmd", "mqtt", "body"}
  /\ lag \in 0..MaxLag
  /\ entered \in BOOLEAN
  /\ state \in States
  /\ prev_state \in States
  /\ link \in SUBSET Devs
  /\ open \in SUBSET Devs
  /\ scanning \in SUBSET open
  /\ lost \in SUBSET Devs
  /\ ready \in BOOLEAN
  /\ uhf_ok \in BOOLEAN
  /\ radar_ok \in BOOLEAN
  /\ target \in BOOLEAN
  /\ seen_person \in BOOLEAN
  /\ present \in SUBSET Books
  /\ find_query \in SUBSET Books
  /\ find_matches \in SUBSET Books
  /\ find_target \in Books \cup {NoBook}
  /\ find_status \in Idle..Cancelled
  /\ add_mode \in BOOLEAN
  /\ register_pending \in BOOLEAN
  /\ detect_unknown \in BOOLEAN
  /\ frameAge \in 0..FrameCap
  /\ personAge \in 0..PresentCap
  /\ presentAge \in 0..PresentCap
  /\ findAge \in 0..FindCap
  /\ startAge \in 0..StartCap

(***************************************************************************)
(* The UHF readers.                                                        *)
(***************************************************************************)

\* The readers that answer a command: a flaky one may time out.
Answers == { a \in SUBSET link : link \ Flaky \subseteq a }

\* scanner_init: the structure is cleared, the table is read from the
\* database, each reader is opened and started; a failure is only logged.
ScannerInit(before) ==
  /\ \E a \in Answers, b \in Answers :
       /\ open' = a
       /\ scanning' = a \cap b
  /\ lost' = lost \cup before
  /\ ready' = TRUE
  /\ detect_unknown' = FALSE
  /\ present' \in SUBSET Books

\* Mutant: only the readers that scan are closed.
AfterStopScanning(devs) == IF ready THEN devs \ scanning ELSE devs

\* scanner_stop closes every reader, when the scanner is ready.
AfterStop(devs) == IF ready THEN {} ELSE devs

UhfStopBoth == /\ scanning' = {}
               /\ UNCHANGED <<open, lost, ready>>

\* uhf_start_both fails when an open reader refuses its power or its start.
UhfStartBoth == /\ \E a \in Answers : open \subseteq a
                /\ scanning' = open
                /\ UNCHANGED <<open, lost, ready>>

UhfStartFails == \E a \in Answers : ~(open \subseteq a)

\* enter_fault_reason, from a function that had already set the state to s.
EnterFaultFrom(s) ==
  /\ state' = "FAULT"
  /\ IF s # "FAULT"
       THEN prev_state' = s /\ UhfStopBoth
       ELSE UNCHANGED <<prev_state, devVars>>

(***************************************************************************)
(* Mode changes.                                                           *)
(***************************************************************************)

\* Mutant: the readers are not started again.
EnterActiveSilent == /\ state' = "ACTIVE"
                     /\ prev_state' = state
                     /\ presentAge' = 0
                     /\ UNCHANGED devVars

\* Mutant: t_last_present is not refreshed.
EnterActiveStale ==
  \/ /\ state' = "ACTIVE"
     /\ prev_state' = state
     /\ IF state = "SLEEP" THEN UhfStartBoth ELSE UNCHANGED devVars
     /\ UNCHANGED presentAge
  \/ state = "SLEEP" /\ UhfStartFails /\ EnterFaultFrom("ACTIVE") /\ UNCHANGED presentAge

EnterActive ==
  \/ /\ state' = "ACTIVE"
     /\ prev_state' = state
     /\ IF state = "SLEEP" THEN UhfStartBoth ELSE UNCHANGED devVars
     /\ presentAge' = 0
  \/ /\ state = "SLEEP"
     /\ UhfStartFails
     /\ EnterFaultFrom("ACTIVE")
     /\ UNCHANGED presentAge

\* Mutant: the readers are not stopped.
EnterSleepScanning == /\ state' = "SLEEP"
                      /\ prev_state' = state
                      /\ UNCHANGED <<devVars, presentAge>>

EnterSleep ==
  /\ state' = "SLEEP"
  /\ prev_state' = state
  /\ UhfStopBoth
  /\ UNCHANGED presentAge

\* The table is searched in an order that is not known here: the target is
\* any one of the new matches.
AppendMatches(query, matches, tgt) ==
  LET new == query \ matches
  IN  /\ find_matches' = matches \cup new
      /\ find_target' \in IF new = {} THEN {tgt} ELSE new

\* enter_find, called with prev_state and the find fields set to the arguments.
EnterFind(prev, query, matches, tgt, status) ==
  /\ find_query' = query
  /\ \/ /\ state = "FIND"
        /\ find_status' = status
        /\ AppendMatches(query, matches, tgt)
        /\ prev_state' = prev
        /\ UNCHANGED <<state, devVars, findAge>>
     \/ /\ state # "FIND"
        /\ state' = "FIND"
        /\ prev_state' = state
        /\ IF state = "SLEEP" THEN UhfStartBoth ELSE UNCHANGED devVars
        /\ find_status' = Searching
        /\ findAge' = 0
        /\ AppendMatches(query, matches, tgt)
     \/ /\ state = "SLEEP"
        /\ UhfStartFails
        /\ EnterFaultFrom("FIND")
        /\ find_status' = Searching
        /\ findAge' = 0
        /\ find_matches' = matches
        /\ find_target' = tgt

\* Mutant: find_count is not reset.
BeginFindKeepsMatches(query) ==
  /\ state \in {"ACTIVE", "SLEEP", "FIND"}
  /\ EnterFind(prev_state, query, find_matches, NoBook, Searching)

\* Mutant: enter_find records where it came from even when it is in FIND.
BeginFindForgets(query) ==
  /\ state \in {"ACTIVE", "SLEEP", "FIND"}
  /\ EnterFind(state, query, {}, NoBook, Searching)

\* Mutant: every state accepts a search.
BeginFindAnyState(query) == EnterFind(prev_state, query, {}, NoBook, Searching)

\* fsm_begin_find: the session is reset before the state is looked at.
BeginFind(query) ==
  IF state \in {"ACTIVE", "SLEEP", "FIND"}
    THEN EnterFind(prev_state, query, {}, NoBook, Searching)
    ELSE /\ find_query' = query
         /\ find_matches' = {}
         /\ find_target' = NoBook
         /\ find_status' = Searching
         /\ UNCHANGED <<modeVars, devVars, findAge>>

\* Where FIND returns to when it is cancelled or runs out of time.
ReturnFromFind == IF prev_state = "SLEEP" THEN EnterSleep ELSE EnterActive

\* A command that enters a mode stamps it with a clock newer than now.
NoteEntry == entered' = (entered \/ state' # state \/ presentAge' < presentAge)

(***************************************************************************)
(* fsm_poll_local_cmd: one command of the screen per tick.                 *)
(***************************************************************************)
Command(c) == /\ pc = "cmd"
              /\ pc' = "mqtt"
              /\ c \in Commands
              /\ UNCHANGED <<lag, link, radarVars, startAge>>

\* No command, or one that touches nothing modelled here.
CmdNone == /\ pc = "cmd"
           /\ pc' = "mqtt"
           /\ UNCHANGED <<lag, modeVars, link, devVars, okVars, radarVars,
                          present, findVars, addVars, presentAge, startAge>>

CmdFind == /\ Command("FIND")
           /\ \E q \in SUBSET Books : BeginFind(q)
           /\ UNCHANGED <<okVars, present, addVars, presentAge>>

CmdFindCancel ==
  /\ Command("FIND_CANCEL")
  /\ find_status' = Cancelled
  /\ find_query' = {}
  /\ find_matches' = {}
  /\ find_target' = NoBook
  /\ IF state = "FIND" THEN ReturnFromFind
                       ELSE UNCHANGED <<modeVars, devVars, presentAge>>
  /\ UNCHANGED <<okVars, present, addVars, findAge>>

\* fsm_set_uhf_power: an open reader that refuses is a fault.
CmdUhfPower ==
  /\ Command("UHF_POWER")
  /\ \/ UhfStartFails /\ EnterFaultFrom(state)
     \/ (\E a \in Answers : open \subseteq a) /\ UNCHANGED <<modeVars, devVars>>
  /\ UNCHANGED <<okVars, present, findVars, addVars, presentAge>>

\* A failed wake-up does not stop the command: the session starts in FAULT.
CmdAddStart ==
  /\ Command("ADD_START")
  /\ IF state = "SLEEP" THEN EnterActive
                        ELSE UNCHANGED <<modeVars, devVars, presentAge>>
  /\ add_mode' = TRUE
  /\ register_pending' = FALSE
  /\ detect_unknown' = TRUE
  /\ UNCHANGED <<okVars, present, findVars>>

\* Mutant: the scanner goes on looking.
CmdAddCancelKeepsLooking ==
  /\ Command("ADD_CANCEL")
  /\ add_mode' = FALSE
  /\ register_pending' = FALSE
  /\ UNCHANGED <<modeVars, devVars, okVars, present, findVars, detect_unknown,
                 presentAge>>

CmdAddCancel ==
  /\ Command("ADD_CANCEL")
  /\ add_mode' = FALSE
  /\ register_pending' = FALSE
  /\ detect_unknown' = FALSE
  /\ UNCHANGED <<modeVars, devVars, okVars, present, findVars, presentAge>>

\* REGISTER and REGISTER_PAGES, when the arguments parse and the book is
\* written; otherwise nothing changes (CmdNone).
CmdRegister ==
  /\ Command("REGISTER")
  /\ register_pending
  /\ add_mode' = FALSE
  /\ register_pending' = FALSE
  /\ ScannerInit(AfterStop(open))
  /\ UNCHANGED <<modeVars, okVars, findVars, presentAge>>

\* The deleted book may be the one that waits for its registration.
CmdDeleteBook ==
  /\ Command("DELETE_BOOK")
  /\ register_pending' \in {register_pending, FALSE}
  /\ ScannerInit(AfterStop(open))
  /\ UNCHANGED <<modeVars, okVars, findVars, add_mode, presentAge>>

\* run_selfcheck, when no fatal module fails.
SelfCheckPasses(before) ==
  /\ ScannerInit(before)
  /\ uhf_ok' = TRUE
  /\ radar_ok' = TRUE
  /\ target' = FALSE

\* fsm_retry_fault: everything is closed and the self-check runs again.  The
\* scanner is stopped only if mod_uhf.ok said that it was running.
CmdFaultRetry ==
  LET left == IF uhf_ok THEN AfterStop(open) ELSE open
  IN  /\ pc = "cmd"
      /\ pc' = "mqtt"
      /\ "FAULT_RETRY" \in Commands
      /\ \/ /\ state' = "BOOT"
            /\ prev_state' = "BOOT"
            /\ SelfCheckPasses(left)
            /\ startAge' = 0
            /\ presentAge' = 0
         \/ \* a module before the scanner fails its check
            /\ state' = "FAULT"
            /\ prev_state' = IF state # "FAULT" THEN state ELSE prev_state
            /\ open' = left
            /\ scanning' = IF state # "FAULT" THEN {} ELSE scanning \cap left
            /\ ready' = (ready /\ ~uhf_ok)
            /\ uhf_ok' = FALSE
            /\ radar_ok' \in BOOLEAN
            /\ target' = FALSE
            /\ UNCHANGED <<lost, present, detect_unknown, startAge, presentAge>>
      /\ UNCHANGED <<lag, link, seen_person, frameAge, personAge, findVars,
                     add_mode, register_pending>>

\* The command returns while the board shuts down: the loop goes on.
CmdReboot ==
  /\ Command("SYSTEM_REBOOT")
  /\ IF uhf_ok /\ ready
       THEN open' = {} /\ scanning' = {} /\ ready' = FALSE /\ UNCHANGED lost
       ELSE UNCHANGED devVars
  /\ UNCHANGED <<modeVars, okVars, present, findVars, addVars, presentAge>>

\* fsm_force_state, without the entry actions of BOOT.
CmdForce ==
  /\ \/ /\ Command("FORCE_BOOT")
        /\ state' = "BOOT"
        /\ prev_state' = state
        /\ UNCHANGED <<devVars, findVars, presentAge>>
     \/ /\ Command("FORCE_ACTIVE")
        /\ EnterActive
        /\ UNCHANGED findVars
     \/ /\ Command("FORCE_SLEEP")
        /\ EnterSleep
        /\ UNCHANGED findVars
     \/ /\ Command("FORCE_FAULT")
        /\ EnterFaultFrom(state)
        /\ UNCHANGED <<findVars, presentAge>>
     \/ /\ Command("FORCE_FIND")
        /\ EnterFind("ACTIVE", find_query, find_matches, find_target, find_status)
        /\ UNCHANGED presentAge
  /\ UNCHANGED <<okVars, present, addVars>>

PollLocalCmd ==
  /\ \/ CmdNone \/ CmdFind \/ CmdFindCancel \/ CmdUhfPower
     \/ CmdAddStart \/ CmdAddCancel \/ CmdRegister \/ CmdDeleteBook
     \/ CmdFaultRetry \/ CmdReboot \/ CmdForce
  /\ NoteEntry

(***************************************************************************)
(* mqtt_poll: on_mqtt_message runs inside the tick.                        *)
(***************************************************************************)
PollMqtt ==
  /\ pc = "mqtt"
  /\ pc' = "body"
  /\ \/ UNCHANGED <<modeVars, devVars, findVars>>
     \/ "MQTT_FIND" \in Commands /\ \E q \in SUBSET Books : BeginFind(q)
  /\ UNCHANGED <<lag, link, okVars, radarVars, present, addVars, presentAge,
                 startAge>>
  /\ NoteEntry

(***************************************************************************)
(* The body of the tick: radar, hardware check, then the current state.    *)
(***************************************************************************)

\* ld2410c_poll and fsm_update_radar_runtime: the last report stays valid
\* until a new frame comes.
PollRadar ==
  /\ \E frame, sees \in BOOLEAN :
       /\ target' = IF radar_ok /\ frame THEN sees ELSE target
       /\ frameAge' = IF radar_ok /\ frame THEN lag ELSE frameAge
  /\ seen_person' = (seen_person \/ (radar_ok /\ target'))
  /\ personAge' = IF radar_ok /\ target' THEN lag ELSE personAge

HasPerson == radar_ok /\ target'

SleepReliable == radar_ok /\ seen_person' /\ Since(frameAge') <= FrameStale

\* scanner_poll: it may report an unknown tag, once.
UnknownFound(found) ==
  /\ found => detect_unknown
  /\ detect_unknown' = (detect_unknown /\ ~found)

\* Mutant: a tag found during a search is not kept.
TakeUnknownActive(found) ==
  register_pending' = (register_pending \/ (found /\ add_mode /\ state = "ACTIVE"))

\* process_events for an unknown tag.
TakeUnknown(found) ==
  register_pending' = (register_pending \/ (found /\ add_mode))

BodyFault ==
  /\ open # Devs
  /\ EnterFaultFrom(state)
  /\ UNCHANGED <<present, findVars, addVars, presentAge>>

\* Mutant: only a complete baseline ends.
BaselineExpiredComplete == startAge > BaselineTimeout /\ present' = Books

BaselineExpired == startAge > BaselineTimeout

\* baseline: it ends as soon as both layers are complete, or out of time.
\* The events of the scanner are not looked at.
BodyBoot ==
  /\ state = "BOOT"
  /\ present' \in SUBSET Books
  /\ \E found \in BOOLEAN : UnknownFound(found)
  /\ \/ EnterActive
     \/ /\ ~BaselineExpired
        /\ UNCHANGED <<modeVars, devVars, presentAge>>
  /\ UNCHANGED <<register_pending, add_mode, findVars>>

QuietLongEnough ==
  ~HasPerson /\ SleepReliable /\ Since(presentAge) >= SleepTimeout

\* Going to sleep ends the tick before the events are processed.
BodyAutoSleep ==
  /\ state = "ACTIVE"
  /\ QuietLongEnough
  /\ present' \in SUBSET Books
  /\ \E found \in BOOLEAN : UnknownFound(found)
  /\ EnterSleep
  /\ UNCHANGED <<findVars, add_mode, register_pending>>

BodyActive ==
  /\ state = "ACTIVE"
  /\ ~QuietLongEnough
  /\ present' \in SUBSET Books
  /\ \E found \in BOOLEAN : UnknownFound(found) /\ TakeUnknown(found)
  /\ presentAge' = IF radar_ok /\ (HasPerson \/ ~SleepReliable) THEN lag
                                                              ELSE presentAge
  /\ UNCHANGED <<modeVars, devVars, findVars, add_mode>>

\* Mutant: a radar that works is not asked about people.
RadarWakesIfLost == radar_ok /\ ~SleepReliable

RadarWakes == radar_ok /\ (HasPerson \/ ~SleepReliable)

\* The infrared array is read once a second; the scanner is not polled.
BodySleep ==
  /\ state = "SLEEP"
  /\ \E irChanged \in BOOLEAN :
       IF irChanged \/ RadarWakes
         THEN EnterActive
         ELSE UNCHANGED <<modeVars, devVars, presentAge>>
  /\ UNCHANGED <<present, findVars, addVars>>

\* Mutant: one second too early.
FindExpiredEarly == Since(findAge) + 1 >= FindTimeout

\* Mutant: a search goes on as long as somebody is there.
FindExpiredAlone == ~HasPerson /\ Since(findAge) >= FindTimeout

FindExpired == Since(findAge) >= FindTimeout

\* Every match taken away ends the search early, else the time does.
BodyFind ==
  /\ state = "FIND"
  /\ present' \in SUBSET Books
  /\ \E found \in BOOLEAN : UnknownFound(found) /\ TakeUnknown(found)
  /\ \E missing \in SUBSET present :
       LET taken == IF find_target \in missing THEN Taken ELSE find_status
           allGone == find_matches # {} /\ find_matches \cap present' = {}
       IN  \/ /\ allGone
              /\ find_status' = taken
              /\ find_matches' = {}
              /\ find_query' = {}
              /\ EnterActive
           \/ /\ ~allGone
              /\ FindExpired
              /\ find_status' = TimedOut
              /\ find_matches' = {}
              /\ find_query' = {}
              /\ ReturnFromFind
           \/ /\ ~allGone
              /\ ~FindExpired
              /\ find_status' = taken
              /\ UNCHANGED <<find_matches, find_query, modeVars, devVars,
                             presentAge>>
  /\ UNCHANGED <<find_target, findAge, add_mode>>

BodyInFault ==
  /\ state = "FAULT"
  /\ UNCHANGED <<modeVars, devVars, present, findVars, addVars, presentAge>>

TickBody ==
  /\ pc = "body"
  /\ pc' = "idle"
  /\ lag' = 0 /\ entered' = FALSE
  /\ PollRadar
  /\ \/ BodyFault
     \/ /\ open = Devs
        /\ \/ BodyBoot \/ BodyAutoSleep \/ BodyActive \/ BodySleep
           \/ BodyFind \/ BodyInFault
  /\ UNCHANGED <<link, okVars, startAge>>

TickStart ==
  /\ pc = "idle"
  /\ pc' = "cmd"
  /\ UNCHANGED <<lag, entered, modeVars, link, devVars, okVars, radarVars,
                 present, findVars, addVars, presentAge, startAge>>

(***************************************************************************)
(* The environment: a second passes, a reader is unplugged or comes back.  *)
(***************************************************************************)
Elapse ==
  /\ \/ pc = "idle" /\ UNCHANGED lag
     \/ pc # "idle" /\ lag < MaxLag /\ lag' = lag + 1
  /\ frameAge' = Older(frameAge, FrameCap)
  /\ personAge' = Older(personAge, PresentCap)
  /\ presentAge' = Older(presentAge, PresentCap)
  /\ findAge' = Older(findAge, FindCap)
  /\ startAge' = Older(startAge, StartCap)
  /\ UNCHANGED <<pc, entered, modeVars, link, devVars, okVars, target, seen_person,
                 present, find_query, find_matches, find_target, find_status,
                 addVars>>

LinkChange ==
  /\ \E d \in Flaky : link' = IF d \in link THEN link \ {d} ELSE link \cup {d}
  /\ UNCHANGED <<tickVars, modeVars, devVars, okVars, radarVars, present,
                 findVars, addVars, presentAge, startAge>>

\* fsm_init, after a self-check that passed: a failed one ends the process.
Init ==
  /\ pc = "idle" /\ lag = 0 /\ entered = FALSE
  /\ state = "BOOT" /\ prev_state = "BOOT"
  /\ link \in {l \in SUBSET Devs : Devs \ Flaky \subseteq l}
  /\ open \in Answers
  /\ scanning \in {a \cap open : a \in Answers}
  /\ lost = {}
  /\ ready = TRUE
  /\ uhf_ok = TRUE /\ radar_ok = TRUE
  /\ target = FALSE /\ seen_person = FALSE
  /\ present \in SUBSET Books
  /\ find_query = {} /\ find_matches = {} /\ find_target = NoBook
  /\ find_status = Idle
  /\ add_mode = FALSE /\ register_pending = FALSE /\ detect_unknown = FALSE
  /\ frameAge = FrameCap
  /\ personAge = PresentCap
  /\ presentAge = PresentCap   \* t_last_present = 0
  /\ findAge = FindCap         \* t_find_start = 0
  /\ startAge = 0

Next == TickStart \/ PollLocalCmd \/ PollMqtt \/ TickBody \/ Elapse \/ LinkChange

Spec == Init /\ [][Next]_vars

\* The main loop never stops ticking and the clock never stops.
Fairness == /\ WF_vars(TickStart)
            /\ WF_vars(PollLocalCmd)
            /\ WF_vars(PollMqtt)
            /\ WF_vars(TickBody)
            /\ WF_vars(Elapse)

FairSpec == Spec /\ Fairness

(***************************************************************************)
(* Properties.                                                             *)
(***************************************************************************)

\* The add-book session: a tag waits for its registration, or the scanner
\* looks for one, only in a session that was started, and never both at once,
\* whatever the order of ADD_START, ADD_CANCEL, REGISTER, DELETE_BOOK, retries,
\* mode changes and tag reads.
AddSessionOK ==
  /\ register_pending => add_mode /\ ~detect_unknown
  /\ detect_unknown => add_mode

\* The find session: a search under way reports "searching" or "taken", and
\* whatever books are lit, the target shown on the screen is one of them, over
\* repeated, cancelled and failed searches.
FindSessionOK ==
  /\ state = "FIND" => find_status \in {Searching, Taken}
  /\ find_matches # {} => find_target \in find_matches

\* The variables keep their types and a search is consistent with itself.
Consistent == TypeOK /\ FindSessionOK

\* In ACTIVE, the time that decides about sleep is never older than the last
\* time the radar saw somebody, through every path that enters ACTIVE.
PresentCoversPerson == state = "ACTIVE" => presentAge <= personAge

\* A search that goes on never forgets the state it has to return to.
SearchKeepsOrigin ==
  [][state = "FIND" /\ state' = "FIND" => prev_state' = prev_state]_vars

AutoSleep == pc = "body" /\ state = "ACTIVE" /\ state' = "SLEEP"

\* The shelf goes to sleep on its own only when the radar has not seen anybody
\* for the whole timeout, has seen somebody before, and ACTIVE has lasted that
\* long.  A tick may take any time, and now is as old as the tick: only in the
\* tick that entered the mode may t_last_present be newer than now.
SleepInOrder ==
  [][AutoSleep /\ ~entered
       => /\ seen_person'
          /\ personAge' >= SleepTimeout
          /\ presentAge >= SleepTimeout]_vars

\* A search runs out of time only after FSM_FIND_TIMEOUT seconds, unless it
\* began in this very tick.
FindGetsItsTime ==
  [][state = "FIND" /\ find_status' = TimedOut /\ find_status # TimedOut
       /\ ~entered
       => findAge >= FindTimeout]_vars

\* Nothing times out before its time: neither the shelf that is awake nor a
\* search under way, whatever restarts or extends them and however long the
\* ticks take, but for the tick that entered ACTIVE or FIND.
TimeoutsInOrder == SleepInOrder /\ FindGetsItsTime

\* The shelf counts its books whenever it is awake: no order of sleep, wake-up,
\* search, reload, retry and power command leaves a reader closed between two
\* ticks, nor one silent that does answer, whatever the other reader fails to do.
AwakeScans ==
  pc = "idle" /\ state \in {"ACTIVE", "FIND"}
    => open = Devs /\ Devs \ Flaky \subseteq scanning

Stopped(s) == s \in {"SLEEP", "FAULT"}

\* Every way into SLEEP and FAULT stops the readers, and while the shelf stays
\* there nothing starts one again but the two commands that reload the
\* scanner's table, REGISTER and DELETE_BOOK: no power command, retry, search
\* or wake-up that fails leaves a reader running behind the stopped machine.
StoppedIsQuiet ==
  [][Stopped(state')
       => \/ scanning' = {}
          \/ state' = state /\ scanning' \subseteq scanning
          \/ state' = state /\ (CmdRegister \/ CmdDeleteBook)]_vars

\* The add-book session looks for a tag or holds one that it has found.
Armed == add_mode => detect_unknown \/ register_pending

\* A session under way loses its tag or stops looking for one only by a reload
\* of the table that it did not ask for (DELETE_BOOK and the retry of the
\* self-check), or in a tick that drops the scanner's events: the baseline and
\* the one that falls asleep.
SessionStaysArmed ==
  [][Armed /\ ~Armed'
       => \/ CmdDeleteBook \/ CmdFaultRetry
          \/ pc = "body" /\ (state = "BOOT" \/ AutoSleep)]_vars

\* FAULT is left only through a self-check that passed, with every module up
\* and a new baseline.
FaultLatched ==
  [][state = "FAULT" /\ state' # "FAULT"
       => state' = "BOOT" /\ uhf_ok' /\ radar_ok' /\ ready' /\ startAge' = 0]_vars

\* scanner_init, which clears the descriptors, never runs over readers that are
\* still open: a retry closes what the attempt before it had opened, however
\* often the readers fail and in whatever mode the shelf was forced.  That is so
\* where REGISTER and DELETE_BOOK are not used: they start the scanner again
\* without setting mod_uhf.ok, on which the retry relies.
NoReaderLost == lost = {}

\* A search ends, however often it is repeated.
FindEnds == state = "FIND" ~> state # "FIND"

\* The baseline ends.
BootEnds == state = "BOOT" ~> state # "BOOT"

\* The shelf does not sleep on while the radar reports somebody.
WakesForPerson == <>[](radar_ok /\ target) => []<>(state # "SLEEP")

\* The shelf does not sleep on behind a radar that stopped sending frames.
WakesWithoutRadar ==
  <>[](radar_ok /\ frameAge = FrameCap) => []<>(state # "SLEEP")

\* Neither a person nor a silent radar is slept through.
Wakes == WakesForPerson /\ WakesWithoutRadar

=============================================================================
