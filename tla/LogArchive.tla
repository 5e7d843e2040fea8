----------------------------- MODULE LogArchive -----------------------------
(***************************************************************************)
(* The two log tables of src/src/db/db.c, kept in the NAND file and moved  *)
(* to the archive on the SD card by db_cleanup, which fsm.c calls every    *)
(* ten minutes and when it stops.                                          *)
(*                                                                         *)
(* A row is its id: AUTOINCREMENT never gives an id twice.  Its age is the *)
(* difference that datetime('now', ...) sees once the clock is set: a row  *)
(* written while the clock still stood in 1970 is as old as can be.        *)
(* Each SQL statement is a step, so seconds may pass, the clock may be     *)
(* set, the screen may log and the power may fail between any two; each    *)
(* statement may fail (card pulled out, file locked).                      *)
(***************************************************************************)
EXTENDS Integers, FiniteSets

CONSTANTS
  Order,         \* the tables, in the order the code works on them
  LocalDays,     \* DB_BOOK_LOG_LOCAL_DAYS, DB_SENSOR_LOCAL_DAYS
  FallbackDays,  \* DB_FALLBACK_BOOK_DAYS, DB_FALLBACK_SENSOR_DAYS
  ArchiveDays,   \* DB_BOOK_LOG_ARCHIVE_DAYS, DB_SENSOR_ARCHIVE_DAYS
  CountKeep,     \* DB_BOOK_LOG_MAX_ROWS, DB_SENSOR_LOG_MAX_ROWS
  MaxRows,       \* bound: the rows ever logged
  MaxLag,        \* bound: days that may begin within one cleanup
  MaxCuts        \* bound: restarts

Tables == {Order[1], Order[2]}

ASSUME ConstantsOK ==
  /\ Order[1] # Order[2]
  /\ MaxRows \in Nat /\ MaxLag \in Nat /\ MaxCuts \in Nat
  /\ \A t \in Tables :
       /\ LocalDays[t] \in Nat \ {0} /\ FallbackDays[t] \in Nat
       /\ ArchiveDays[t] \in Nat /\ CountKeep[t] \in Nat
       /\ LocalDays[t] <= FallbackDays[t]
       /\ FallbackDays[t] <= ArchiveDays[t]

VARIABLES
  local, arc,   \* the rows of each table in the NAND file and on the card
  next,         \* sqlite_sequence: the rows logged so far
  age,          \* the age in days of each row that is held
  clock,        \* time_is_valid()
  archive_ok,   \* the archive was opened at boot
  pc,           \* the step of db_cleanup, "idle" outside it
  at,           \* the table the step works on
  arcByDate,    \* clock_ok of db_cleanup
  byDate,       \* clock_ok of db_archive_migrate
  txn,          \* the rows the open transaction has inserted into the archive
  migrated,     \* the COMMIT succeeded: book_days, sens_days are the local ones
  lag,          \* days begun since this cleanup started to copy
  cuts          \* restarts so far

rowVars   == <<next, age>>
stepVars  == <<pc, at>>
cleanVars == <<arcByDate, byDate, txn, migrated, lag>>
vars == <<local, arc, rowVars, clock, archive_ok, stepVars, cleanVars, cuts>>

Ids == 1..MaxRows
Nothing == [t \in Tables |-> {}]

TypeOK ==
  /\ local \in [Tables -> SUBSET Ids]
  /\ arc \in [Tables -> SUBSET Ids]
  /\ next \in [Tables -> 0..MaxRows]
  /\ age \in [Tables -> [Ids -> Nat]]
  /\ txn \in [Tables -> SUBSET Ids]
  /\ clock \in BOOLEAN /\ archive_ok \in BOOLEAN
  /\ arcByDate \in BOOLEAN /\ byDate \in BOOLEAN /\ migrated \in BOOLEAN
  /\ pc \in {"idle", "clock", "begin", "copy", "commit", "delete", "trim"}
  /\ at \in {1, 2}
  /\ lag \in 0..MaxLag
  /\ cuts \in 0..MaxCuts

\* The rows of `rows' that a statement with this many days selects.
Due(t, rows, days) == {r \in rows : age[t][r] >= days}

\* cleanup_by_count: all but the newest ones.
Surplus(rows, keep) == {r \in rows : Cardinality({q \in rows : q > r}) >= keep}

(***************************************************************************)
(* db_cleanup and db_archive_migrate, one action per statement.            *)
(***************************************************************************)

\* fsm_tick every ten minutes, or fsm_stop.
CleanStart ==
  /\ pc = "idle"
  /\ pc' = "clock"
  /\ arcByDate' = clock
  /\ UNCHANGED <<local, arc, rowVars, clock, archive_ok, at, byDate, txn,
                 migrated, lag, cuts>>

\* db_archive_migrate reads the clock again.
ReadClock ==
  /\ pc = "clock"
  /\ byDate' = clock
  /\ pc' = IF clock /\ archive_ok THEN "begin" ELSE "delete"
  /\ UNCHANGED <<local, arc, rowVars, clock, archive_ok, at, arcByDate, txn,
                 migrated, lag, cuts>>

\* goto cleanup_local, after a ROLLBACK where a transaction is open.
GiveUp ==
  /\ pc' = "delete"
  /\ at' = 1
  /\ txn' = Nothing
  /\ UNCHANGED <<arc, migrated>>

\* BEGIN and ATTACH: every later failure is a failure of the card.
Begin ==
  /\ pc = "begin"
  /\ \/ /\ pc' = "copy"
        /\ UNCHANGED <<arc, at, txn, migrated>>
     \/ GiveUp
  /\ lag' = 0
  /\ UNCHANGED <<local, rowVars, clock, archive_ok, arcByDate, byDate, cuts>>

\* INSERT OR IGNORE INTO arc.
Copy ==
  /\ pc = "copy"
  /\ LET t == Order[at]
     IN  \/ /\ txn' = [txn EXCEPT ![t] = Due(t, local[t], LocalDays[t])]
            /\ IF at = 1 THEN at' = 2 /\ UNCHANGED pc ELSE at' = 1 /\ pc' = "commit"
            /\ UNCHANGED <<arc, migrated>>
         \/ GiveUp
  /\ UNCHANGED <<local, rowVars, clock, archive_ok, arcByDate, byDate, lag, cuts>>

\* Mutant: the local days are used whether or not the COMMIT succeeded.
CommitAnyway ==
  /\ pc = "commit"
  /\ pc' = "delete"
  /\ arc' \in {arc, [t \in Tables |-> arc[t] \cup txn[t]]}
  /\ migrated' = TRUE
  /\ txn' = Nothing
  /\ UNCHANGED <<local, rowVars, clock, archive_ok, at, arcByDate, byDate, lag, cuts>>

Commit ==
  /\ pc = "commit"
  /\ \/ /\ pc' = "delete"
        /\ arc' = [t \in Tables |-> arc[t] \cup txn[t]]
        /\ migrated' = TRUE
        /\ txn' = Nothing
        /\ UNCHANGED at
     \/ GiveUp
  /\ UNCHANGED <<local, rowVars, clock, archive_ok, arcByDate, byDate, lag, cuts>>

\* Mutant: without a migration nothing is deleted by date.
LocalDueMigrated(t) ==
  IF byDate
    THEN IF migrated THEN Due(t, local[t], LocalDays[t]) ELSE {}
    ELSE Surplus(local[t], CountKeep[t])

\* What cleanup_local deletes from the NAND file.
LocalDue(t) ==
  IF byDate
    THEN Due(t, local[t], IF migrated THEN LocalDays[t] ELSE FallbackDays[t])
    ELSE Surplus(local[t], CountKeep[t])

\* Mutant: the card keeps its rows no longer than the NAND file.
CardDueSoon(t) ==
  IF arcByDate THEN Due(t, arc[t], FallbackDays[t])
               ELSE Surplus(arc[t], CountKeep[t])

\* What db_cleanup deletes from the card.
CardDue(t) ==
  IF arcByDate THEN Due(t, arc[t], ArchiveDays[t])
               ELSE Surplus(arc[t], CountKeep[t])

\* The end of db_cleanup: nothing of it is kept.
Finish == /\ pc' = "idle"
          /\ at' = 1
          /\ arcByDate' = FALSE
          /\ byDate' = FALSE
          /\ migrated' = FALSE
          /\ lag' = 0

\* After the statement on the last table comes `then', or the end.
Proceed(then) ==
  IF at = 1
    THEN at' = 2 /\ UNCHANGED <<pc, arcByDate, byDate, migrated, lag>>
    ELSE IF then = "idle"
           THEN Finish
           ELSE /\ pc' = then
                /\ at' = 1
                /\ UNCHANGED <<arcByDate, byDate, migrated, lag>>

AfterLocal == IF archive_ok THEN "trim" ELSE "idle"

Delete ==
  /\ pc = "delete"
  /\ local' = [local EXCEPT ![Order[at]] = @ \ LocalDue(Order[at])]
  /\ Proceed(AfterLocal)
  /\ UNCHANGED <<arc, rowVars, clock, archive_ok, txn, cuts>>

\* The DELETE fails, its result is not looked at.
DeleteFails ==
  /\ pc = "delete"
  /\ Proceed(AfterLocal)
  /\ UNCHANGED <<local, arc, rowVars, clock, archive_ok, txn, cuts>>

Trim ==
  /\ pc = "trim"
  /\ \/ arc' = [arc EXCEPT ![Order[at]] = @ \ CardDue(Order[at])]
     \/ UNCHANGED arc
  /\ Proceed("idle")
  /\ UNCHANGED <<local, rowVars, clock, archive_ok, txn, cuts>>

(***************************************************************************)
(* The surroundings.                                                       *)
(***************************************************************************)

\* The shelf logs between two cleanups, the screen moves books at any time.
Log(t) ==
  /\ next[Order[1]] + next[Order[2]] < MaxRows
  /\ pc = "idle" \/ t = Order[1]
  /\ LET id == next[t] + 1
     IN  /\ next' = [next EXCEPT ![t] = id]
         /\ local' = [local EXCEPT ![t] = @ \cup {id}]
         /\ age' = [age EXCEPT ![t][id] = IF clock THEN 0 ELSE ArchiveDays[t]]
  /\ UNCHANGED <<arc, clock, archive_ok, stepVars, cleanVars, cuts>>

Older(t, r) ==
  IF r \in local[t] \cup arc[t]
    THEN IF age[t][r] < ArchiveDays[t] THEN age[t][r] + 1 ELSE age[t][r]
    ELSE 0

Elapse ==
  /\ \/ pc = "idle" /\ UNCHANGED lag
     \/ pc # "idle" /\ lag < MaxLag /\ lag' = lag + 1
  /\ age' = [t \in Tables |-> [r \in Ids |-> Older(t, r)]]
  /\ UNCHANGED <<local, arc, next, clock, archive_ok, stepVars, arcByDate, byDate,
                 txn, migrated, cuts>>

\* rdate succeeds in the background.
SetClock ==
  /\ ~clock
  /\ clock' = TRUE
  /\ UNCHANGED <<local, arc, rowVars, archive_ok, stepVars, cleanVars, cuts>>

\* The process is killed or the power fails, and fsm_init runs again: an
\* open transaction is lost, the card may be there or not, the clock may
\* have been kept or not.
Restart ==
  /\ cuts < MaxCuts
  /\ cuts' = cuts + 1
  /\ Finish
  /\ txn' = Nothing
  /\ clock' \in BOOLEAN
  /\ archive_ok' \in BOOLEAN
  /\ UNCHANGED <<local, arc, rowVars>>

Init ==
  /\ local = Nothing /\ arc = Nothing
  /\ next = [t \in Tables |-> 0]
  /\ age = [t \in Tables |-> [r \in Ids |-> 0]]
  /\ clock \in BOOLEAN /\ archive_ok \in BOOLEAN
  /\ pc = "idle" /\ at = 1
  /\ arcByDate = FALSE /\ byDate = FALSE
  /\ txn = Nothing /\ migrated = FALSE
  /\ lag = 0 /\ cuts = 0

Next ==
  \/ CleanStart \/ ReadClock \/ Begin \/ Copy \/ Commit
  \/ Delete \/ DeleteFails \/ Trim
  \/ \E t \in Tables : Log(t)
  \/ Elapse \/ SetClock \/ Restart

Spec == Init /\ [][Next]_vars

\* Ticks and time go on, and no file stays locked for ever.
Fairness ==
  /\ WF_vars(CleanStart \/ ReadClock \/ Begin \/ Copy \/ Commit \/ Trim)
  /\ WF_vars(DeleteFails)
  /\ WF_vars(Elapse)
  /\ \A i \in {1, 2} : SF_vars(Delete /\ at = i)

FairSpec == Spec /\ Fairness

(***************************************************************************)
(* Properties.                                                             *)
(***************************************************************************)

\* The NAND rows that came of age while the statements ran.
DueMeanwhile(t, r) == age[t][r] - lag < LocalDays[t]

\* What the statements copied to the card is there before the shorter
\* retention is applied to the NAND file, in whatever order statements fail,
\* the card comes and goes and the clock is set; only a row that becomes due
\* between the INSERT and the DELETE may be missing.
CopyBeforeDelete ==
  pc = "delete" /\ byDate /\ migrated =>
    \A t \in Tables : \A r \in local[t] :
      age[t][r] >= LocalDays[t] => r \in arc[t] \/ DueMeanwhile(t, r)

Held(t) == local[t] \cup arc[t]

\* A row is gone from both files only when it is as old as the archive keeps
\* rows, when the NAND file had to keep it alone for the longer fallback time,
\* when it became due within the cleanup, or, counted because the clock was
\* not set, when enough newer ones were kept.
KeptWhileYoung ==
  [][\A t \in Tables : \A r \in Held(t) \ Held(t)' :
       \/ age[t][r] >= ArchiveDays[t]
       \/ r \notin arc[t] /\ age[t][r] >= FallbackDays[t]
       \/ byDate /\ migrated /\ DueMeanwhile(t, r)
       \/ ~byDate /\ r \in Surplus(local[t], CountKeep[t])
       \/ ~arcByDate /\ r \in Surplus(arc[t], CountKeep[t])]_vars

\* No row stays in the NAND file for ever while the clock is set, whether the
\* card works, fails or is not there.
NandDrains ==
  \A t \in Tables : \A r \in Ids :
    (clock /\ r \in local[t]) ~> (~clock \/ r \notin local[t])
=============================================================================
