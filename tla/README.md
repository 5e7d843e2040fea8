# BookGuard in TLA+

BookGuard is a smart bookshelf: a C program on an RK3506 board reads the UHF
tags of the books with two antennas (upper and lower layer), watches the slots
with infrared boards, watches for people with a radar, keeps the record of the
shelf in SQLite, lights LEDs, talks to a touch screen through files and to a
cloud over MQTT. A Python server stores what the board publishes and a WeChat
program shows it. This directory holds TLA+ models of the parts of it where
the order of events decides what is right, TLC runs on small instances, and
TLAPS proofs of what matters most.

Contents: [inventory](#1-inventory) | [plan](#2-plan) |
[models](#3-the-models) | [runs](#4-the-runs) | [proofs](#5-the-proofs) |
[divergences](#6-where-the-code-and-its-documents-differ) |
[not modelled](#7-what-is-left-out-and-why)

Paths below are relative to the repository.

## 1. Inventory

| Component | State it keeps | Operations | What makes it hard | What makes it correct |
|---|---|---|---|---|
| Mode machine, `src/fsm/fsm.c`, `main.c` | `state`, `prev_state`, module flags, radar stamps, search and add-book session | `fsm_tick`, commands of the screen (a file), the cloud (a callback), the shell | any command in any mode; a tick reads the clock once and takes seconds; unsigned differences; readers that fail half way | awake means scanning, asleep means quiet; no sleep beside a person; a search ends and returns where it came from; a fault stays until repaired |
| Scanner, `src/uhf/uhf_scanner.c` | per book: presence, layer, streaks, hold-off; events of the poll; unknown tags | `scanner_init`, `scanner_poll`, `scanner_stop` | bad reads, two antennas that both hear a tag, a bounded event array | nothing is reported before enough polls agree; whoever follows the reports is wrong only about what a full array lost; a lasting change is noticed |
| Layer vote, `choose_layer_from_evidence` and the streak in `scanner_poll` | decaying score, candidate, streak | once per tag and poll | integer percentages, bursts | the only antenna that reads wins; neither antenna is preferred |
| Fusion, `process_events` to `op_commit` in `fsm.c` | `shelf_state` rows, `missing_since`, pending layer changes, the operation window, recent gaps | one sequence of handlers per tick | the two kinds of evidence arrive in any order, several books at once, windows, timers per book, sleep in between | the record follows the scanner; nothing is recorded without cause; every change ends up on the record |
| Reader driver, `src/uhf/uhf_driver.c` | file descriptor, `scanning`, tag cache | open, power, start, stop, poll | half a frame, no answer | a descriptor is closed before it is opened again |
| Radar, `src/ld2410c` | last report, frame parser | `ld2410c_poll` | frames stop | an old report is not believed |
| Infrared scan, `ir_scan` in `fsm.c` | raw, stable and previous bitmaps, streaks, lost boards | one scan per tick awake, one every few seconds asleep; `ir_prime_baseline` | a board that fails, flickers or is told again because of another; scans nobody listens to | only what was read several times in a row counts; the operation window hears of every change; a board that came back is believed again |
| Database, `src/db/db.c` | books, `shelf_state`, two logs, an archive | upserts, log, `db_archive_migrate`, `db_cleanup` | crash between copy and delete, clock not yet set, two files, statements that fail | a log row is in one of the two files until its time is up, and leaves the small one |
| Screen files, `src/common/sb_ipc.c`, `fsm_poll_local_cmd` | one command slot, one state file | rename, read, unlink; write temporary, rename | two processes, a crash in between | a command is executed at most once; the state file is never half written |
| Screen, `src/ui` | page, list of books merged from two tables | LVGL timers, SQLite reads, command writes | reads while the machine writes | shows what the record says |
| MQTT client, `src/mqtt/mqtt_client.c` | socket, receive buffer, packet ids, keep-alive | connect, subscribe, publish, poll | packets split and glued by TCP, reconnects | one callback for every message received, in order; nothing is left lying in the buffer; a broken connection is noticed and replaced |
| Bridge and JSON, `src/mqtt` | reporting times | periodic publish | - | - |
| Server, `src/server` | events, statistics, the last snapshot | a coroutine per message, two statements per event, queries | tasks that overtake each other, a retained snapshot delivered again, a failure between two statements | the snapshot never goes back and catches up; statistics follow events |
| App, `src/app` | view of the cloud | subscribe, request | reconnects | - |
| Supervisor, `scripts` | pid files, stop file | start, restart, stop | a crash during start, a stop during a restart | one instance of each program; none after a stop |
| Wi-Fi, LEDs, sensors | flags, colours, last value | periodic calls | - | - |

How they interact: the loop in `src/fsm/main.c` calls `fsm_tick` for ever. A
tick reads the clock into `now`, takes one command of the screen from its file
slot, polls MQTT (whose callback may start a search), the radar and the
sensors, and runs the body of the current mode. In ACTIVE the body polls the
scanner and the infrared boards, may fall asleep, and otherwise hands events
and gaps to the fusion, which writes the database, publishes, and writes back
into the scanner's table. Everything in the board program runs in one thread:
what interleaves is *commands, clock, devices and the order of the handlers
over several ticks*.

The hazards this gives rise to are listed in `PROJECT.json` at the line where
each bites, with the properties that cover it or the reason why none does.

## 2. Plan

In the order of importance for what the shelf promises:

| # | Module | About | State |
|---|---|---|---|
| 1 | `FsmMode` | modes, timers, commands, readers, sessions | done, proved |
| 2 | `UhfScanner`, `LayerVote` | from reads to events | done, proved |
| 3 | `ShelfRecord` | abstract: a record that follows what stands on the shelf | done |
| 4 | `ShelfFusion` | from events and gaps to the record; implements `ShelfRecord` | done, proved |
| 5 | `IrScan` | debouncing, lost and re-probed boards, who listens | done, proved |
| 6 | `LogArchive` | copy, delete and clean up over two files with crashes and a clock that is set late | done, proved |
| 7 | `MqttClient` | framing, reconnection, keep-alive | done, proved |
| 8 | `ScreenLink` | command slot and state file between two processes that restart | done, checked |
| 9 | `CloudIngest` | from the board's publish over broker and event loop to the cloud's tables | done, proved |
| 10 | `Layout` | `op_reflow` and `op_insert_returned_book` over centimetres | open |
| 11 | `Supervisor` | `stop_all`, pid files, two starts at once | open |

`Layout` is arithmetic over doubles with a fixed number of books: its
properties (no overlap, order kept, inside the boards) are those of one
function call, and no other module depends on its result, because
`ShelfFusion` leaves open where a book stands. `Supervisor` is a shell script
whose restarts are in `ScreenLink` already. A next step beyond these is a
composition of `IrScan` with `ShelfFusion` (today `ShelfFusion` lets any
settled gap come at any tick, which includes everything `IrScan` can tell) and
a wall clock that jumps backwards in `FsmMode`.

## 3. The models

Common to all: a stored time is represented by its *age*, capped one beyond
the largest value it is compared with, so an action `Elapse` or `Second` makes
every age grow and no clock grows without bound. Logging, LEDs, screen files,
wording and MQTT formatting are not state.

### 3.1 FsmMode

The machine of `fsm_tick`, with a program counter for the four points of a tick
where time may have passed (`idle`, `cmd`, `mqtt`, `body`).

| Model | Code |
|---|---|
| `state`, `prev_state`, `ready`, `uhf_ok`, `radar_ok`, `find_*`, `add_mode`, `register_pending`, `detect_unknown`, `present` | fields of the same names in `fsm_t` and `scanner_t` |
| `presentAge`, `personAge`, `frameAge`, `findAge`, `startAge` | ages of `t_last_present`, `t_last_radar_person`, `t_last_radar_frame`, `t_find_start`, `t_start` |
| `lag`, `Since(age)`, `Word` | `now` is as old as the tick; `now - t` in `uint32_t` wraps when `t` is younger than `now` |
| `open`, `scanning`, `link` | the descriptor, the inventory and the cable of each reader |
| `lost`, `entered` | history: descriptors that `scanner_init` overwrote; whether this tick entered ACTIVE or FIND, in which case its `now` is older than the stamps |
| `PollLocalCmd` = `CmdFind` ... `CmdForce` | `fsm_poll_local_cmd`, one disjunct per command |
| `PollMqtt` | the search of the cloud, `on_mqtt_message` |
| `PollRadar` | `fsm_update_radar_runtime` and `radar_frame_is_fresh` |
| `TickBody` = `BodyBoot`, `BodyActive`, `BodyAutoSleep`, `BodySleep`, `BodyFind`, `BodyFault` | the `switch` in `fsm_tick` |
| `EnterActive`, `EnterSleep`, `EnterFind`, `EnterFaultFrom`, `ReturnFromFind` | the functions of these names |
| `ScannerInit`, `AfterStop`, `UhfStartBoth`, `UhfStopBoth` | `scanner_init`, `scanner_stop`, `uhf_start_both`, `uhf_stop_both` with every partial failure |

A flaky reader may lose its link or not answer at any call. What the fusion
makes of reads and gaps is an input: it chooses `present`. All modules are
assumed enabled; a slot of the scanner's table is identified with its book.

### 3.2 UhfScanner

One action `Poll` is one `scanner_poll` together with the consumer's
`process_events` of the same tick. The driver's tag cache is the age of the
last read (`readAge`), so a tag counts as read for `Fresh` more seconds.
(`present_timeout_sec` is set at `uhf_scanner.c:116` and read nowhere: absence
is counted in polls only.) `seen`, `miss`, `cand`, `streak`, `reported` are the
streaks and the hold-off of the code; the layer a book is registered on,
`book_layer`, is a constant. `Events` is the bounded array, filled in the order
of the table, including what happens when it is full: a further event is
dropped (`Kept`), and the caller writes its `expected_layer` into the last
element whether or not the event fitted (`Expected`). `PollUnknown`, `Hear` and
`AskUnknown` are the search for a new tag; which unknown tags are near is an
input of the poll.

`view` is what a consumer knows that only follows events: presence, layer, and
the layer it takes for the registered one. History: `quiet`, `reads`, `spoke`
and `agree` count what the antennas did; `unheard` holds the books whose last
report found the array full, `mixed` those whose last report was the last of an
array that a later report of the same poll found full. The run keeps every
threshold small; what the properties say for the code's own thresholds
(8, 6, 6 polls, 2 s, 64 books, 16 events) is proved, for every value.

### 3.3 LayerVote

`choose_layer_from_evidence`, the score and signal it weighs, and the candidate's
streak of `scanner_poll`, for one tag: `Evidence` is what the antennas may say in a
poll (who heard it, how many reads, who is louder), `Decay` the score with its
integer division, `ByEvidence`, `ByScore`, `ByRssi` the three rules in their
order, `PollFound` and `PollUnread` the candidate's streak. `silent` counts
reads in a row without each antenna. `DeltaCap` is the most reads that count in
one poll (40 in the code), `ScoreCap` the score that so many reads in every poll
would lead to, `Fade[n]` what is left of it after `n` polls without a read, and
`Echo` a number of polls beyond which that is less than the 6 a decision by
score needs. The run has a cap of 6 and an `Echo` of 2; the theorems are for
all, and `BurstsOfTheCode` computes `Fade` for the code's.

### 3.4 ShelfRecord and ShelfFusion

`ShelfRecord` says what the record of the shelf promises, without events,
windows or timers: two variables, what the record has and what the scanner
has, and for each book five things a write may do to its row (`TakeOut`,
`PutIn`, `Move`, `Note`, `Keep`). `ShelfFusion` implements it:

    Record == INSTANCE ShelfRecord WITH
      row <- shelf,
      has <- [b \in Books |-> [present |-> present[b], layer |-> actual[b]]]

In `ShelfFusion` a tick is the sequence `Poll`, `ProcessEvents`, `OpWindow`,
`ConfirmLayers`, `ConfirmStale`, `Reconcile`, in the order of the code;
`FallAsleep` ends it after `Poll`. `SleepScan` is the tick of SLEEP, which
scans the boards only and may open or feed a window. Between ticks come
`Reader` (what the antennas read changes), `Second`, `ChangeMode` (what
`FsmMode` does, in any order) and `Reload` (another book is registered or
deleted, and `scanner_init` reads the record again).

| Model | Code |
|---|---|
| `shelf` | the rows of `shelf_state`, presence and layer |
| `present`, `actual` | the scanner's table, which the fusion writes too |
| `missing`, `pending`, `waited` | ages of `missing_since` and `t_layer_pending`, `layer_pending_value` |
| `op_active`, `quiet`, `before`, `seen_removed`, `seen_added` | the operation window and its snapshot |
| `gapped`, `filled`, `recent`, `emptied` | boards whose bitmaps differ, recent gaps, and the books such a gap overlaps |
| `Removed`, `Restored`, `Inserted`, `Replaced`, `Relayered`, `AfterReturn`, `Missed` | what each handler does to the row of one book |
| `OpCommit` | `op_commit`: overlooked, replaced, inserted, moved, given up |
| `away` | history: the seconds for which the scanner has not had a book of the record, which no handler keeps or restarts |
| `unheard`, `untold` | history: books whose RETURNED the tick that falls asleep dropped; books that came back with the time of a miss running and without a RETURNED that was processed, because the fusion or a reload put them back into the scanner's table or because that tick dropped it |

Centimetres are not kept: whether a gap overlaps a book's place is a free
choice, made when the gap is seen and made again when positions are computed
anew. A board keeps its identity and loses its bits. Every book has a row.
A poll reports at once (the delays are UhfScanner's) and never more than the
array holds. `before` is forgotten outside a window, where nothing reads it. A
commit that moves or puts back one of several books opens the choice of what the
gaps overlap again, as its new positions do in the code.

### 3.5 IrScan

`ir_scan` over every enabled board at once, with what each reads as input: any
set of slots, `Dead` (does not answer the probe) or `Deaf` (answers it and
fails the scan).

| Model | Code |
|---|---|
| `ok`, `raw`, `streak`, `stable`, `prev` | `ir_board_ok`, `ir_raw_bitmap`, `ir_raw_streak`, `ir_bitmap`, `ir_prev_bitmap` |
| `reprobe`, `scanAge` | ages of `last_reprobe` and `t_last_ir_scan` |
| `Scan` | `ir_scan`; `Changed` is `ir_changed`, `AnyAnswers` its return value |
| `TickBoot`, `TickAwake`, `FallAsleep`, `TickSleep` | who calls it, and whether `op_window_update` looks at the result (`Listen`) or nobody does (`Ignore`) |
| `Retry` | `fsm_retry_fault` with `ir_prime_baseline` |
| `ChangeMode` | every other change of `state`; `"ACTIVE"` stands for FIND too, which scans in the same way |

`picture` is what somebody knows who only adds up what the operation window is
told, `unheard` the slots that changed in a scan nobody listened to, `run` the
readings in a row: history. The I2C transfers under a reading are not modelled.

### 3.6 LogArchive

The two log tables in the NAND file (`local`) and on the SD card (`arc`). Each
SQL statement of `db_cleanup` and `db_archive_migrate` is an action (`Begin`,
`Copy`, `Commit`, `Delete`, `Trim`), each may fail, and between any two the
clock may be set (`SetClock`), a day may begin (`Elapse`), the screen may log
(`Log`), or the power may fail (`Restart`). `byDate` and `arcByDate` are the
two readings of `time_is_valid()`, `migrated` says which retention the code
uses after the COMMIT, `txn` is what the open transaction has inserted. A row is its
id; its age is what `datetime('now', ...)` sees. A row logged in 1970 is as
old as can be once the clock is set. `lag` counts days that begin within one
cleanup.

### 3.7 MqttClient

`mqtt_connect`, `mqtt_poll`, `handle_packet` and the reconnection in
`fsm_tick`. A packet is cut into two units, of which the first holds the
header: enough to arrive in parts, glued together, or not to the end. `rx` is
`rx_buf`, `Receive` one `recv` with the drop when the buffer is full,
`HandlePackets` the loop of at most `MaxLoops` packets; what handling a
packet makes of buffer, `connected` and history is a record, as the code
changes all three inside the loop. Bytes that are no header may be anything
(`Misread`). `net`, `owed`, `session`, `tcp`, `wifi` are the network and the
broker. `got` and `clean` are history: the last message called back whole, and
whether this connection began with an empty buffer.

### 3.8 ScreenLink

The screen program and the shelf program with the two files between them.

| Model | Code |
|---|---|
| `slot`, `WriteCmd` | `/tmp/sb_cmd`, written by temporary file and rename |
| `inHand` | the command between the `rename`/`unlink` of `fsm_poll_local_cmd` and its execution |
| `file` | `/tmp/fsm_state` |
| `machine`, `Executed`, `Searched`, `Body` | the part of `fsm_t` a search goes through; functions from a machine to the set of machines it may become |
| `Tick` | `fsm_tick` after the command was taken, including that a tick in FAULT returns before it writes the file |
| `page`, `view`, `keyboard` | `g_find_active`, `g_find_epc`, `g_find_completed_at`; `g_fsm`; the keyboard that holds drawing back |
| `RenderAll` = `Dismissed`, `Adopted`, `Completed` | `render_all`, in its order |
| `Crash`, `StartFsm`, `StartUi` | the end of either program and the supervisor that starts it again, removing the state file first |

`issued`, `done`, `lost` and `reported` are history. The machine always starts in
BOOT, as `fsm_main` does. The shelf-edit mode of the screen
(`g_shelf_edit_mode`, which holds drawing back on the shelf page as the keyboard
does everywhere, `ui/main.c:2015`) is left out.

### 3.9 CloudIngest

A report from `mqtt_publish_status` and `mqtt_publish_event` to the database of
the cloud: `link` (published, not yet at the broker), `retained` (what the
broker keeps for `bookshelf/status`), `tasks` (coroutines that `on_message`
started and nobody awaits, run in any order) and the three tables `row`,
`rows`, `stats`. `UpdateSnapshot` is one guarded statement; `InsertEvent` and
`UpdateStats` are the two statements of `insert_event`, which are no
transaction. Links break, the server ends, statements fail (`MaxFails`), and
either side's will replaces the retained status. A snapshot is the number of
the last change it shows. `halves` and `extra` are history.

## 4. The runs

`MCFsmMode`, `MCUhfScanner`, `MCShelfFusion` and `MCLogArchive` add command sets,
the layers books belong on, symmetry and retention times; the other modules are checked as they are. Every property has
a mutant in `PROJECT.json`: a change of one mapped definition that a plausible
slip in the code would make, under which the run finds the property violated.

| Run | Question | Bounds and why they are enough |
|---|---|---|
| `mode_service` | Do search session, presence clock, timeouts and reader handles survive every order of searches, retries, FORCE_STATE, radar reports and a failing reader, when ticks take time? | one book (the session holds a set of matches; none, some and all occur), two readers of which one fails, every timeout 1 or 2 (before, at and after each limit), a second inside any tick (`MaxLag = 1`), which is what it takes for a subtraction to wrap |
| `mode_reload` | Does an awake shelf scan and a stopped one not, but for a reload; does an add-book session stay armed, but for a reload; do search origin and fault latch survive reloads, power changes, faults and reboots? | REGISTER and DELETE_BOOK among the commands, two readers of which one fails (so FAULT is reached, and half a start), timeouts 0 and 1 |
| `mode_liveness` | Do searches and the baseline end, does the shelf wake for a person and behind a silent radar? | one reader, and one second may pass inside a tick |
| `scanner` | Are reports filtered as the parameters say, what is a consumer of the events wrong about when the array overflows, and is each change of presence noticed in the end? | two books and an array of one, so that the second report of a poll is dropped and its layer mixed into the first; the books belong on different layers; two polls confirm an absence or a return, one a layer (the vote's own streak, with the code's 6, is `vote_steady`'s); one unknown tag |
| `vote_steady` | Does the only antenna that reads win, is no antenna preferred, does the layer change only for an antenna that still reads or whose burst still speaks? | read counts 0, 1 and 6 (none, some, burst) with the code's percentages, margins and streak; a cap of 6, whose score speaks on for 2 polls, where the code's 40 speaks on for 8: two thresholds the proofs leave open |
| `fusion_books` | Two books: is every change of the record one that `ShelfRecord` allows, and is no book published as borrowed without a gap before the scanner has been without it for the time? | one layer, one board, ACTIVE, SLEEP and FIND with reloads; a recent miss 1 s, a recent gap 1 s, a stale miss 2 s (the code's 6, 8 and 12, of which the last has to stay apart), windows settle in 1 s; books are symmetric |
| `fusion_liveness` | Does the record follow the scanner and end up with what is read, do windows close? | one book, two layers, ACTIVE and SLEEP, so that a tick that falls asleep drops events; a layer change waits 2 s, longer than a window |
| `ir_scan` | Is the listener's picture right, is a change debounced, is a board that came back believed? | two boards of which one is lost and found, one slot, two readings confirm, every mode |
| `log_archive` | Is a row copied before it is deleted, kept while young, and moved out of the NAND file in the end? | two tables, two rows, retentions 1 < 2 < 3 days, one row kept by count, one restart, one day within a cleanup |
| `mqtt_client` | Does framing survive, is what lies in the buffer handled, does the client come back? | two messages (one may stay behind the other), a loop of two packets, a buffer of three and a half packets, one break, loss of network or restart |
| `screen_link` | Is the last command executed, does the screen show what was found, does its page close? | one book, three commands (one may overwrite another while a third is in hand), one end of either program |
| `cloud_ingest` | Does the cloud's picture never go back and catch up, and do the counts add up? | two changes, two events, two tasks (one may overtake the other), one failure |

Fairness. `FsmMode`, `UhfScanner` and `IrScan` assume weak fairness of the
steps of the loop and of the clock: the loop of `main.c` has no exit but a
signal, every call in a tick is bounded by a timeout, and the clock is the
hardware's. `ShelfFusion` assumes weak fairness of the tick and strong fairness of
`Second`, because in the model time passes only between two ticks and a tick
disables it again and again; in the code it passes anywhere. `LogArchive`
assumes the tick, the calendar, and that no file stays locked for ever: a
DELETE that is tried in cleanup after cleanup succeeds at some time (strong
fairness for each table). `MqttClient` assumes a broker that is not
unreachable or late in each single attempt (strong fairness of `Connect`,
`Accept`, `Answer`), `ScreenLink` two loops, a clock and the supervisor, which
looks every five seconds, `CloudIngest` that statuses are published again and
again while connected (`PeriodicStatus`, strong), that the broker delivers,
that both sides reconnect, and that the event loop runs its oldest task.
Its last second `MaxNow` stands for the rest of time. Nothing is assumed of
users, readers, the radar or the boards; the liveness properties say
themselves which of these have to come to rest (`<>[]` on the left).

`CHECK_DEADLOCK` is on in every run.

## 5. The proofs

Every theorem is for all values of the constants that the modules' `ASSUME`s
admit, and is checked to the last leaf.

**FsmModeProofs.** `TypeCorrect` is inductive on its own, one lemma per command
and per mode body. On it rest

- `AddSessionSafe` and `FindSessionSafe`, whose conjuncts are inductive
  together with the types;
- `PresenceCovered`: in ACTIVE `t_last_present` is never older than the last
  person, for every delay inside a tick;
- `TimeoutsKept`: the shelf never falls asleep and no search runs out before its
  time (`SleepsInOrder`, `SearchGetsItsTime`), however long ticks take. The
  only exception is the tick that entered ACTIVE or FIND, in which the
  subtraction may wrap (section 6). The strengthening `EntryInv`: once that tick
  is over, no stamp is newer than `now`, so nothing wraps (`SinceOfOlder`);
- `StoppedStaysQuiet`: a reader that scans in SLEEP or FAULT was started by
  REGISTER or DELETE_BOOK, for every set of commands. Every way into the two
  modes, with a reader that fails at any call, stops what runs;
- `SessionArmed`: an add-book session goes on looking or holds a tag. The
  statement names the ways out: DELETE_BOOK and a retry, which initialise the
  scanner again, and ticks that drop the scanner's events;
- `NoDescriptorLost` (without REGISTER and DELETE_BOOK): no descriptor is
  overwritten while it is open. The strengthening `HandleInv`: a scanner that
  is not ready, or not trusted, has nothing open;
- `SearchOriginKept` (without FORCE_STATE FIND), `AwakeShelfScans` (no
  FORCE_STATE BOOT, ACTIVE or FIND; for the readers that answer, whatever the
  others do), `FaultStaysLatched` (no FORCE_STATE that leaves FAULT). The
  assumptions are the exact commands for which the code does not keep the
  property, see section 6.

**UhfScannerProofs.** `TypeCorrect`; `ViewIsConsistent`, for any number of books
and any size of the array: the view of a consumer is right about every book but
those that `unheard` and `mixed` hold, and about those it is wrong in the one way
the property says. What a full array does is in `KeptIffRoom` (an event is kept
exactly if fewer than `MaxEvents` books before it report) and `ForeignOnlyWhenFull`
(a foreign layer is written only into the last event of an array that a later
report found full), by a cardinality argument. The confirmation theorems rest on
`StreaksCovered`: each streak of the code is at
most the number of polls in a row that the history counts. Without it the
properties are not inductive, as they speak of the history and the code
decides by its streaks. `SilenceIsNoticed` is the other direction: of a present
book no silent poll has gone uncounted
(`SilenceCounted`), so one that was not read for `missing_confirm` polls is
never taken to be there. A return has no such converse, because reads in the
hold-off do not count.

**LayerVoteProofs.** `VoteHasNoFavourite`: exchanging the two antennas
exchanges the answer, for every score, count and rule. One lemma for each rule
says what it makes of exchanged evidence (`EvidenceSwapped`, `ScoreSwapped`,
`SignalSwapped`). `OneSidedReadsWin` and `ChangesAreHeard` rest on `VoteInv`.
Its `ScoresFade` ties the score to the history: the score of an antenna that has
been silent for `n` reads is at most `Fade[n]`, so beyond `Echo` reads it
decides nothing. Its `Returning` says that from then on every read speaks for
the other antenna and lengthens its streak. That `Fade` never grows and that no
score exceeds `ScoreCap` are inductions, done over a set of numbers with the
library's minimum of a well-founded relation. `BurstsOfTheCode` evaluates `Fade`
step by step at the cap of 40: `Echo` is 8.

**ShelfFusionProofs.** The inductive invariant is
`Inv == TypeOK /\ EventsOK`: the events of a tick agree with the scanner's
table while they are being processed, which is what lets `ProcessEvents` act on
a report. `Fine(b, k)` says what a handler may make of one book, one lemma per
outcome shows it of each (`RemovedFine`, `RestoredFine`, ...), and `FineStep`
of the whole handler. `RecordCaused` and `LayerCaused` are read off it, and
`RecordImplemented`, the refinement: `ShelfFusion`'s initial states are initial
states of `ShelfRecord`, and each of its steps is one of its steps or a stutter.
`RecordFollowed`, in every mode, needs the stronger
`Followed`, which also holds in the middle of a tick, where a book just polled
is not yet on the record; the books excepted are those whose return the tick
that falls asleep dropped. `MissTimed` compares with `away`, not with the code's
own time of a miss, which a restored miss leaves behind. Its invariant `Timed`
ties the two: the time of a miss never claims more than the scanner has been
without the book, unless the fusion, a reload or a dropped return put the book
back without clearing it (`untold`). `Borrows` says that a handler which
publishes a borrowing starts that time anew.

**IrScanProofs.** `ListenerInformed` is inductive with the types; the step is
`ChangesAreTold`: whatever a scan settles is among what the window is told.
`ChangesAreDebounced` rests on `StreakCovered`: while the last reading differs
from what is held, the streak of the code is not ahead of the readings in a row
that the history counts. The condition is needed: the baseline gives a board a
full streak at its first reading. `RepeatsAreBelieved` is the converse: a
reading that came `StableScans` times in a row is what the shelf holds, by
`RunCovered`: while a board answers, the streak of the code is not behind the
history either, and a loss ends both. Together they say that the filter is
exact.

**LogArchiveProofs.** `TypeCorrect`; `CopiedFirst` from `CopyInv`, which says
at each statement of the migration what the open transaction already covers,
and that rows are only selected by date while the clock is set;
`RowsKeptWhileYoung` from the same invariant, for every retention, order of
failures and restarts, and any number of days within a cleanup.

**CloudIngestProofs.** `SnapshotsInOrder`: of all the snapshots on their way
(link, broker, tasks, row) none is of the future and a later time stamp never
shows an earlier shelf (`Ordered`); `PictureNeverBack` follows. `StatisticsAddUp`
from `CountInv`, over lemmas that count the borrowings between their two
statements in a sequence of tasks (`HalvesAppend`, `HalvesRemove`).

**MqttClientProofs.** `FramingSurvives`, for every buffer, every size of a
`recv`, every loop and any number of messages and breaks. `StreamIntact` speaks
of a client that is connected, which is not inductive: what it then finds in the
buffer arrived while it waited for the CONNACK. `StreamInv` says the same from
`Connect` on (`Live`): buffer and network, one after the other, are `Ahead`,
whole packets in order whose messages follow the last one called back without a
gap; and as long as the connection stands they end with a whole packet and hold
every message sent (`Full`). The lemmas go by what may happen to the stream:
units leave at the front two at a time (`FirstPacketGone`, `OtherPacketGone`,
`MessageGone`), a packet comes at the end (`PacketMore`, `OtherPacketMore`,
`MessageMore`), the end is cut off anywhere (`AheadOfPrefix`, `CutKeeps`), or
units move from the network to the buffer (`PiecesJoin`, `ReceivedFacts`). The
loop of `mqtt_poll` is a recursive function; `LoopKeeps` unfolds it and shows
that a set which one packet does not leave is not left by the loop
(`NatSetInduction`). `CallbacksInOrder` is the step of one packet: the next
message is called back, none twice and none left out. `BufferIsLargeEnough` is a conjunct of the same invariant.

What stays with TLC: liveness under fairness and `ENABLED`. That is every
property of `ScreenLink` (`LastCommandWins`, `TakenIsShown`, `PageCloses`), which
therefore has no proof module, and of the others `FindEnds`, `BootEnds`,
`Wakes`, `ChangesAreNoticed`, `RecordCatchesUp`, `WindowCloses`, `SettlesAgain`,
`NandDrains`, `ReceivedIsHandled`, `Reconnects` and `SnapshotCatchesUp`. Every
other property of the runs is the conclusion of a theorem.

## 6. Where the code and its documents differ

Read off the code while modelling it. The models follow the code; where a
property would fail because of one of these, its assumptions or the run's
constants say so.

Modes and commands:

- `enter_active` stamps `t_last_present` with a new `time()`, later than the
  `now` of the tick; `now - t_last_present` wraps and the shelf may sleep in the
  tick in which it woke (`fsm.c:3534`). The same holds of `t_find_start`
  (`fsm.c:3615`). `TimeoutsInOrder` excepts that tick and no other.
- DELETE_BOOK and REGISTER re-initialise the scanner in SLEEP and FAULT too and
  leave it scanning (`fsm.c:806`, `835`); `fsm.h:76` says SLEEP stops the
  readers. `StoppedIsQuiet` names the two commands as the only exception. After a retry that failed they also leave descriptors open that the
  next retry overwrites.
- FORCE_STATE FIND in FIND sets `prev_state` to ACTIVE (`fsm.c:3743`);
  FORCE_STATE ACTIVE out of FAULT does not start the readers (`fsm.c:3737`).
- A reader that opens but does not start is only logged (`uhf_scanner.c:161`);
  a reader unplugged at run time is never noticed, because its descriptor stays
  (`fsm.c:3500`).
- A search begun in BOOT or FAULT sets the status to "searching" and never ends
  (`fsm.c:508`); a search for a book that is known but absent ends in its first
  tick, with the status still at "searching". A restart of the machine in a search
  leaves the page of the screen open until somebody cancels
  (`ui/main.c:1943`).
- A tick in FAULT returns before it writes the state file (`fsm.c:3641`): the
  screen keeps seeing what `enter_fault` wrote.

Scanner and vote:

- `scanner_init` clears `detect_unknown` under a running add-book session
  (`uhf_scanner.c:112`), which after DELETE_BOOK or a retry waits until it is cancelled; a tag kept near stays "recent" for ever (`:38`).
- `uhf/README.md:81` says that five seconds without a read mean taken;
  `present_timeout_sec` is set (`uhf_scanner.c:116`) and never read, and eight
  polls in a row decide.
- A book that reports when the array of 16 is full is never reported again for
  that change, and its registered layer is written into the last event that
  did fit (`uhf_scanner.c:271`).
- The layer vote asks for 70 % or a lead of 6 (`uhf_scanner.c:65`), the
  documentation says 58 % or 3. With 40 reads a poll (`:210`) a burst decides by
  its score for 8 polls after its last read, longer than the 6 that confirm a
  change (`BurstsOfTheCode`): a book may be moved to the layer of an antenna
  that no longer reads it (`:96`).

Record:

- `op_commit` publishes "borrowed" for a book that `process_events` took out in
  the same tick (`fsm.c:2900`, `3321`).
- The tick that falls asleep drops its events and its board changes
  (`fsm.c:3536`): a return in that tick never reaches the record, until the book
  goes and comes again or the table is reloaded. `RecordFollows` and
  `RecordCatchesUp` except these books (`unheard`).
- Without a gap `op_commit` gives up a missed book after 6 s (`fsm.c:2218`),
  `fsm/README.md:174` says that a single one keeps its place for 12 s. Several
  missed books are given up when their misses are not recent (`:2993`),
  `fsm/README.md:175` says they are always kept. A gap on the other layer at the
  same centimetres counts as proof (`:2303`).
- An overlooked miss leaves its time behind (`:2316`): the next miss of the book
  goes on with it (`:3319`) and may be published at once (`:3423`).
  `MissNeedsTime` says that a time left behind, by this, a reload or a dropped
  return (`untold`), is the only way to be published early.
- A return is written and logged but not published (`fsm.c:3345`).

Boards:

- `op_window_update` looks at every board once one has changed, and tells an
  unsettled board's old difference again, with a new time (`fsm.c:3197`).
- A read that fails in `ir_prime_baseline` leaves bitmap and streak as they were.
- A comment (`fsm.c:1958`) and `fsm/README.md:104` say that only `upper_right`
  is enabled; the table enables all four boards (`fsm.c:57`).

Database:

- `db/README.md:155` says that with the clock in 1970 nothing is deleted; the
  code then deletes by count (`db.c:854`). Rows logged before the clock is set
  are due at once when it is.
- `db/README.md:178` promises no loss at any point; a row that becomes due
  between the INSERT and the DELETE of one cleanup is deleted without a copy
  (`DueMeanwhile`).

MQTT and cloud:

- `mqtt_client.h:5` promises reconnection; `mqtt_connect` does not empty
  `rx_buf` (`mqtt_client.c:385`), and the rest of a packet left in it stands
  before the next CONNACK. Data that does not fit into `rx_buf` is dropped and
  framing lost (`:567`). `clean` excludes both.
- Events without a connection are never sent (`fsm.c:1049`).
- The first return of a book without statistics creates a row that counts a
  borrowing (`server/db.py:134`): `extra`.
- The wills of the board and of the server replace the retained snapshot by a
  status without a shelf.

## 7. What is left out and why

- `op_reflow`, `op_insert_returned_book` and the other layout arithmetic: double
  arithmetic over one call; `ShelfFusion` leaves open where a book stands.
- The reordering of the scanner's table on a reload: the modules identify a
  slot of the table with its book.
- Jumps of the wall clock, except the first setting of the clock
  (`LogArchive`) and a stamp newer than `now` (`FsmMode`).
- The issue text a person sees, which `ir_reconcile` may clear.
- Frame parsers of the UHF reader and of the radar; the encoders and packet
  identifiers of MQTT: bytes in, one value out, no state that another step
  depends on.
- LEDs, sensors, Wi-Fi calls, JSON text, the sensor bridge, the other pages of
  the screen, SQL schema and queries, the HTTP queries of the server, the
  WeChat program: input, output and views without influence on kept state.
- Pid files and `stop_all` of the supervisor.
- `ir_live`, `ir_monitor`, `uhf_cli`, `uhf_shelf_sweep`, `*_test.c`: bench tools.
- `sqlite3.h`, fonts, `ui/archive`: vendored, generated or retired; together
  they are most of the repository's lines.
