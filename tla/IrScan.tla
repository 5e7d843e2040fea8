------------------------------- MODULE IrScan -------------------------------
(***************************************************************************)
(* The infrared boards of src/src/fsm/fsm.c: ir_scan, which turns what     *)
(* the boards read in one scan into settled changes, ir_prime_baseline,    *)
(* and who listens.  The gaps and additions it tells are the input of      *)
(* module ShelfFusion.                                                     *)
(*                                                                         *)
(* A bitmap is the set of slots with something in front of them.  A board  *)
(* may read anything in any scan, be dead, or answer the probe and fail    *)
(* the scan.  The modes change as FsmMode has them; here in any way.       *)
(***************************************************************************)
EXTENDS Integers

CONSTANTS
  Boards,      \* the enabled boards
  Flaky,       \* the boards that may be lost
  Slots,       \* the channels of a board
  Dead, Deaf,  \* a board that does not answer; that fails after its probe
  StableScans, \* IR_STABLE_SCANS
  RetryAfter,  \* seconds between two probes of a board that is lost
  ScanEvery    \* FSM_IR_SLEEP_SCAN_SEC

ASSUME ConstantsOK ==
  /\ StableScans \in Nat \ {0}
  /\ RetryAfter \in Nat /\ ScanEvery \in Nat
  /\ Flaky \subseteq Boards
  /\ Dead # Deaf
  /\ \A S \in SUBSET Slots : S # Dead /\ S # Deaf

VARIABLES
  mode,      \* f->state; "ACTIVE" stands for FIND too
  ok,        \* ir_board_ok
  raw,       \* ir_raw_bitmap
  streak,    \* ir_raw_streak
  stable,    \* ir_bitmap
  prev,      \* ir_prev_bitmap
  reprobe,   \* age of last_reprobe
  scanAge,   \* age of t_last_ir_scan
  reads,     \* what a scan of each board gives now
  picture,   \* what a listener knows who only adds up the changes it is told
  unheard,   \* history: slots that changed in a scan nobody listened to
  run        \* history: scans in a row that read the same, without a failure

boardVars == <<ok, raw, streak, stable, prev, reprobe, scanAge>>
vars == <<mode, boardVars, reads, picture, unheard, run>>

Modes == {"BOOT", "ACTIVE", "SLEEP", "FAULT"}
Readings == {Dead, Deaf} \cup SUBSET Slots
Gives(b) == IF b \in Flaky THEN Readings ELSE SUBSET Slots

Least(a, b) == IF a <= b THEN a ELSE b
Differ(A, B) == (A \ B) \cup (B \ A)

TypeOK ==
  /\ mode \in Modes
  /\ ok \in [Boards -> BOOLEAN]
  /\ raw \in [Boards -> SUBSET Slots]
  /\ streak \in [Boards -> 0..StableScans]
  /\ stable \in [Boards -> SUBSET Slots]
  /\ prev \in [Boards -> SUBSET Slots]
  /\ reprobe \in [Boards -> 0..RetryAfter]
  /\ scanAge \in 0..ScanEvery
  /\ reads \in [Boards -> Readings]
  /\ picture \in [Boards -> SUBSET Slots]
  /\ unheard \in [Boards -> SUBSET Slots]
  /\ run \in [Boards -> 0..StableScans]

(***************************************************************************)
(* ir_scan.  A board that is lost is probed every RetryAfter seconds, and  *)
(* read in the same scan if it answers.                                    *)
(***************************************************************************)
\* Mutant: a lost board is looked for at boot only.
ProbedAtBoot(b) == ~ok[b] /\ mode = "BOOT"

Probed(b) == ~ok[b] /\ reprobe[b] >= RetryAfter

Scanned(b) == ok[b] \/ (Probed(b) /\ reads[b] # Dead)

Answers(b) == Scanned(b) /\ reads[b] \notin {Dead, Deaf}

\* Mutant: a board that was lost goes on where it was.
StreakKept(b) == streak[b]

\* What is left of the streak when the board is read: nothing after a loss.
StreakBefore(b) == IF ok[b] THEN streak[b] ELSE 0

StreakAfter(b) ==
  IF Answers(b)
    THEN IF reads[b] = raw[b] THEN Least(StreakBefore(b) + 1, StableScans) ELSE 1
    ELSE IF Scanned(b) THEN StreakBefore(b) ELSE streak[b]

Settled(b) == Answers(b) /\ StreakAfter(b) >= StableScans

\* Mutant: the last board decides.
ChangedOnAll == \A b \in Boards : Settled(b) /\ reads[b] # stable[b]

\* ir_changed after the scan.
Changed == \E b \in Boards : Settled(b) /\ reads[b] # stable[b]

\* The return value.
AnyAnswers == \E b \in Boards : Answers(b)

Scan ==
  /\ ok'      = [b \in Boards |-> Answers(b)]
  /\ raw'     = [b \in Boards |-> IF Answers(b) THEN reads[b] ELSE raw[b]]
  /\ streak'  = [b \in Boards |-> StreakAfter(b)]
  /\ stable'  = [b \in Boards |-> IF Settled(b) THEN reads[b] ELSE stable[b]]
  /\ prev'    = [b \in Boards |-> IF Settled(b) THEN stable[b] ELSE prev[b]]
  /\ reprobe' = [b \in Boards |->
                   IF Probed(b) \/ (Scanned(b) /\ ~Answers(b)) THEN 0 ELSE reprobe[b]]
  /\ scanAge' = 0
  /\ run'     = [b \in Boards |->
                   IF ~Answers(b) THEN 0
                   ELSE IF reads[b] = raw[b] THEN Least(run[b] + 1, StableScans) ELSE 1]
  /\ UNCHANGED reads

(***************************************************************************)
(* Who listens.                                                            *)
(***************************************************************************)

\* op_window_update: it looks at all boards once one has changed, also at
\* those that this scan has not settled.
Told(b) == IF Changed THEN Differ(prev'[b], stable'[b]) ELSE {}

Listen ==
  /\ picture' = [b \in Boards |->
                   (picture[b] \ Told(b)) \cup (Told(b) \cap stable'[b])]
  /\ unheard' = [b \in Boards |-> unheard[b] \ Told(b)]

Ignore ==
  /\ unheard' = [b \in Boards |-> unheard[b] \cup Differ(stable[b], stable'[b])]
  /\ UNCHANGED picture

(***************************************************************************)
(* fsm_tick.                                                               *)
(***************************************************************************)

\* The baseline takes the boards as they are.
TickBoot == mode = "BOOT" /\ Scan /\ Ignore /\ UNCHANGED mode

TickAwake == mode = "ACTIVE" /\ Scan /\ Listen /\ UNCHANGED mode

\* The tick that falls asleep has scanned and leaves before anybody listens.
FallAsleep == mode = "ACTIVE" /\ Scan /\ Ignore /\ mode' = "SLEEP"

\* A settled change wakes the shelf, and is told first.
TickSleep ==
  /\ mode = "SLEEP"
  /\ scanAge >= ScanEvery
  /\ Scan
  /\ Listen
  /\ mode' = IF AnyAnswers /\ Changed THEN "ACTIVE" ELSE mode

Tick == TickBoot \/ TickAwake \/ FallAsleep \/ TickSleep

\* FAULT_RETRY in any mode, with a self-check that passed: ir_prime_baseline over
\* the boards that are not lost.  One that cannot be read stays as it was.
Primed(b) == ok[b] /\ reads[b] \notin {Dead, Deaf}

Retry ==
  /\ mode' = "BOOT"
  /\ raw'    = [b \in Boards |-> IF Primed(b) THEN reads[b] ELSE raw[b]]
  /\ stable' = [b \in Boards |-> IF Primed(b) THEN reads[b] ELSE stable[b]]
  /\ prev'   = [b \in Boards |-> IF Primed(b) THEN reads[b] ELSE prev[b]]
  /\ streak' = [b \in Boards |-> IF Primed(b) THEN StableScans ELSE streak[b]]
  /\ run'    = [b \in Boards |-> IF Primed(b) THEN 1 ELSE run[b]]
  /\ Ignore
  /\ UNCHANGED <<ok, reprobe, scanAge, reads>>

\* Every other change of the mode.
ChangeMode ==
  /\ mode' \in Modes
  /\ UNCHANGED <<boardVars, reads, picture, unheard, run>>

(***************************************************************************)
(* The environment.                                                        *)
(***************************************************************************)
Sense ==
  /\ \E b \in Boards : \E r \in Gives(b) : reads' = [reads EXCEPT ![b] = r]
  /\ UNCHANGED <<mode, boardVars, picture, unheard, run>>

Second ==
  /\ reprobe' = [b \in Boards |-> Least(reprobe[b] + 1, RetryAfter)]
  /\ scanAge' = Least(scanAge + 1, ScanEvery)
  /\ UNCHANGED <<mode, ok, raw, streak, stable, prev, reads, picture, unheard, run>>

\* fsm_init: ir_init, and the baseline over the boards that answered.
Init ==
  /\ mode = "BOOT"
  /\ reads \in [Boards -> Readings]
  /\ \A b \in Boards \ Flaky : reads[b] \notin {Dead, Deaf}
  /\ ok = [b \in Boards |-> reads[b] # Dead]
  /\ stable = [b \in Boards |-> IF Primed(b) THEN reads[b] ELSE {}]
  /\ prev = stable /\ raw = stable /\ picture = stable
  /\ streak = [b \in Boards |-> IF Primed(b) THEN StableScans ELSE 0]
  /\ run = [b \in Boards |-> IF Primed(b) THEN 1 ELSE 0]
  /\ reprobe = [b \in Boards |-> RetryAfter]
  /\ scanAge = ScanEvery
  /\ unheard = [b \in Boards |-> {}]

Next == Tick \/ Retry \/ ChangeMode \/ Sense \/ Second

Spec == Init /\ [][Next]_vars

\* The loop ticks and the clock goes on.
FairSpec == Spec /\ WF_vars(Tick) /\ WF_vars(Second)

(***************************************************************************)
(* Properties.                                                             *)
(***************************************************************************)

\* Who adds up the changes that op_window_update is told knows each board,
\* but for the slots that changed in a scan nobody listened to: with boards
\* that are lost, recover, flicker, and are told again because of another.
PictureFollows ==
  \A b \in Boards : Differ(picture[b], stable[b]) \subseteq unheard[b]

\* Only a reading that came StableScans times in a row, with no failure of the
\* board in between, changes what the shelf holds of it; the baseline apart.
Debounced ==
  [][\A b \in Boards : stable'[b] # stable[b] /\ mode' # "BOOT"
       => run'[b] >= StableScans /\ raw'[b] = stable'[b]]_vars

\* A board that reads the same for good is believed in the end, lost and found
\* again as it may have been, awake or asleep.
SettlesAgain ==
  \A b \in Boards : \A S \in SUBSET Slots :
    <>[](reads[b] = S) /\ <>[](mode # "FAULT") => <>[](stable[b] = S)
=============================================================================
