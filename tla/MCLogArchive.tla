---------------------------- MODULE MCLogArchive ----------------------------
(***************************************************************************)
(* An instance of LogArchive for TLC: the retention times of db.h scaled   *)
(* down in their order, one row kept when rows are counted.                *)
(***************************************************************************)
EXTENDS LogArchive

LogTables == <<"book_log", "sensor_log">>
ScaledLocal == [t \in {"book_log", "sensor_log"} |-> 1]
ScaledFallback == [t \in {"book_log", "sensor_log"} |-> 2]
ScaledArchive == [t \in {"book_log", "sensor_log"} |-> 3]
KeepOne == [t \in {"book_log", "sensor_log"} |-> 1]
=============================================================================
