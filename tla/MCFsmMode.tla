----------------------------- MODULE MCFsmMode -----------------------------
(***************************************************************************)
(* Instances of FsmMode for TLC.  The timeouts are the code's, scaled down *)
(* in their order: frames go stale before the shelf sleeps.                *)
(***************************************************************************)
EXTENDS FsmMode

\* What the screen and the cloud send in normal use.
ScreenCommands ==
  { "FIND", "MQTT_FIND", "FIND_CANCEL", "UHF_POWER", "ADD_START",
    "ADD_CANCEL", "FAULT_RETRY" }

\* Searches and retries mixed with the debugging commands of the shell.
ServiceCommands ==
  { "FIND", "FIND_CANCEL", "FAULT_RETRY",
    "FORCE_BOOT", "FORCE_ACTIVE", "FORCE_SLEEP", "FORCE_FIND", "FORCE_FAULT" }

\* Normal use with the commands that reload the scanner's table, and a fault.
ReloadCommands ==
  ScreenCommands \cup {"REGISTER", "DELETE_BOOK", "SYSTEM_REBOOT", "FORCE_FAULT"}

\* Without the retry, which restarts the baseline as often as it is pressed.
LivenessCommands == {"FIND", "MQTT_FIND", "FIND_CANCEL", "UHF_POWER", "ADD_START"}
=============================================================================
