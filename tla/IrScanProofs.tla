---------------------------- MODULE IrScanProofs ----------------------------
(***************************************************************************)
(* What holds of the infrared boards for every number of boards, slots and *)
(* confirming scans, whatever the boards read.                             *)
(***************************************************************************)
EXTENDS IrScan, TLAPS

\* An age or a streak grows up to its cap.
LEMMA LeastFacts ==
  ASSUME NEW b \in Nat, NEW a \in 0..b
  PROVE  Least(a + 1, b) \in 0..b
  BY DEF Least

(***************************************************************************)
(* Types.                                                                  *)
(***************************************************************************)
LEMMA StreakTyped ==
  ASSUME TypeOK, NEW b \in Boards
  PROVE  StreakAfter(b) \in 0..StableScans
<1>1. streak[b] \in 0..StableScans /\ StableScans \in Nat \ {0}
  BY ConstantsOK DEF TypeOK, ConstantsOK
<1>2. StreakBefore(b) \in 0..StableScans
  BY <1>1 DEF StreakBefore
<1>3. Least(StreakBefore(b) + 1, StableScans) \in 0..StableScans
  BY <1>1, <1>2, LeastFacts
<1> QED BY <1>1, <1>2, <1>3 DEF StreakAfter

\* A board that answers gives a set of slots.
LEMMA AnswersAreSlots ==
  ASSUME TypeOK, NEW b \in Boards, reads[b] \notin {Dead, Deaf}
  PROVE  reads[b] \subseteq Slots
  BY DEF TypeOK, Readings

LEMMA ScanTyped ==
  ASSUME TypeOK, Scan
  PROVE  /\ ok' \in [Boards -> BOOLEAN]
         /\ raw' \in [Boards -> SUBSET Slots]
         /\ streak' \in [Boards -> 0..StableScans]
         /\ stable' \in [Boards -> SUBSET Slots]
         /\ prev' \in [Boards -> SUBSET Slots]
         /\ reprobe' \in [Boards -> 0..RetryAfter]
         /\ scanAge' \in 0..ScanEvery
         /\ reads' \in [Boards -> Readings]
         /\ run' \in [Boards -> 0..StableScans]
<1>1. \A b \in Boards : Answers(b) => reads[b] \in SUBSET Slots
  BY AnswersAreSlots DEF Answers
<1>2. \A b \in Boards : Answers(b) \in BOOLEAN
  BY DEF Answers
<1>3. ok' \in [Boards -> BOOLEAN]
  BY <1>2 DEF Scan
<1>4. raw' \in [Boards -> SUBSET Slots]
  BY <1>1 DEF Scan, TypeOK
<1>5. streak' \in [Boards -> 0..StableScans]
  BY StreakTyped DEF Scan
<1>6. stable' \in [Boards -> SUBSET Slots]
  BY <1>1 DEF Scan, TypeOK, Settled
<1>7. prev' \in [Boards -> SUBSET Slots]
  BY DEF Scan, TypeOK
<1>8. reprobe' \in [Boards -> 0..RetryAfter] /\ scanAge' \in 0..ScanEvery
  BY ConstantsOK DEF Scan, TypeOK, ConstantsOK
<1>9. run' \in [Boards -> 0..StableScans]
  <2>1. ASSUME NEW b \in Boards PROVE Least(run[b] + 1, StableScans) \in 0..StableScans
    <3>1. run[b] \in 0..StableScans /\ StableScans \in Nat
      BY ConstantsOK DEF TypeOK, ConstantsOK
    <3> QED BY <3>1, LeastFacts
  <2> QED BY <2>1, ConstantsOK DEF Scan, ConstantsOK
<1> QED BY <1>3, <1>4, <1>5, <1>6, <1>7, <1>8, <1>9 DEF Scan, TypeOK

LEMMA HearingTyped ==
  ASSUME TypeOK, prev' \in [Boards -> SUBSET Slots], stable' \in [Boards -> SUBSET Slots],
         Listen \/ Ignore
  PROVE  picture' \in [Boards -> SUBSET Slots] /\ unheard' \in [Boards -> SUBSET Slots]
<1>1. CASE Listen
  BY <1>1 DEF Listen, TypeOK
<1>2. CASE Ignore
  <2>1. \A b \in Boards : Differ(stable[b], stable'[b]) \subseteq Slots
    BY DEF Differ, TypeOK
  <2> QED BY <1>2, <2>1 DEF Ignore, TypeOK
<1> QED BY <1>1, <1>2

LEMMA TypeInit ==
  ASSUME Init PROVE TypeOK
<1>1. \A b \in Boards : Primed(b) => reads[b] \in SUBSET Slots
  BY DEF Primed, Init, Readings
<1>2. stable \in [Boards -> SUBSET Slots]
  BY <1>1 DEF Init
<1> QED BY <1>2, ConstantsOK DEF TypeOK, Init, Modes, ConstantsOK

LEMMA TypeNext ==
  ASSUME TypeOK, [Next]_vars PROVE TypeOK'
<1>1. CASE Tick
  <2>1. Scan /\ (Listen \/ Ignore) /\ mode' \in Modes
    BY <1>1 DEF Tick, TickBoot, TickAwake, FallAsleep, TickSleep, TypeOK, Modes
  <2> QED BY <2>1, ScanTyped, HearingTyped DEF TypeOK
<1>2. CASE Retry
  <2>1. \A b \in Boards : Primed(b) => reads[b] \in SUBSET Slots
    BY AnswersAreSlots DEF Primed
  <2>2. /\ raw' \in [Boards -> SUBSET Slots]
        /\ stable' \in [Boards -> SUBSET Slots]
        /\ prev' \in [Boards -> SUBSET Slots]
    BY <1>2, <2>1 DEF Retry, TypeOK
  <2>3. streak' \in [Boards -> 0..StableScans] /\ run' \in [Boards -> 0..StableScans]
    BY <1>2, ConstantsOK DEF Retry, TypeOK, ConstantsOK
  <2>4. picture' \in [Boards -> SUBSET Slots] /\ unheard' \in [Boards -> SUBSET Slots]
    BY <1>2, <2>2, HearingTyped DEF Retry
  <2> QED BY <1>2, <2>2, <2>3, <2>4 DEF Retry, TypeOK, Modes
<1>3. CASE ChangeMode
  BY <1>3 DEF ChangeMode, TypeOK, boardVars
<1>4. CASE Sense
  BY <1>4 DEF Sense, Gives, Readings, TypeOK, boardVars
<1>5. CASE Second
  <2>1. ASSUME NEW b \in Boards PROVE Least(reprobe[b] + 1, RetryAfter) \in 0..RetryAfter
    <3>1. reprobe[b] \in 0..RetryAfter /\ RetryAfter \in Nat
      BY ConstantsOK DEF TypeOK, ConstantsOK
    <3> QED BY <3>1, LeastFacts
  <2>2. Least(scanAge + 1, ScanEvery) \in 0..ScanEvery
    BY LeastFacts, ConstantsOK DEF TypeOK, ConstantsOK
  <2> QED BY <1>5, <2>1, <2>2 DEF Second, TypeOK
<1>6. CASE UNCHANGED vars
  BY <1>6 DEF vars, boardVars, TypeOK
<1> QED BY <1>1, <1>2, <1>3, <1>4, <1>5, <1>6 DEF Next

(***************************************************************************)
(* The listener.                                                           *)
(***************************************************************************)

\* A scan leaves each board either settled, with what it held before as prev,
\* or as it was.
LEMMA ScanSettles ==
  ASSUME TypeOK, Scan, NEW b \in Boards
  PROVE  \/ Settled(b) /\ stable'[b] = reads[b] /\ prev'[b] = stable[b]
         \/ stable'[b] = stable[b]
  BY DEF Scan, TypeOK

\* What a scan changes is what the listener is told of it, or less.
LEMMA ChangesAreTold ==
  ASSUME TypeOK, Scan, NEW b \in Boards
  PROVE  Differ(stable[b], stable'[b]) \subseteq Told(b)
<1>1. CASE stable'[b] = stable[b]
  BY <1>1 DEF Differ
<1>2. CASE stable'[b] # stable[b]
  <2>1. Settled(b) /\ stable'[b] = reads[b] /\ prev'[b] = stable[b]
    BY <1>2, ScanSettles
  <2>2. Changed
    BY <1>2, <2>1 DEF Changed
  <2> QED BY <2>1, <2>2 DEF Told
<1> QED BY <1>1, <1>2

LEMMA PictureNext ==
  ASSUME TypeOK, PictureFollows, [Next]_vars PROVE PictureFollows'
<1>1. ASSUME Ignore PROVE PictureFollows'
  <2> SUFFICES ASSUME NEW b \in Boards
               PROVE  Differ(picture'[b], stable'[b]) \subseteq unheard'[b]
    BY DEF PictureFollows
  <2>1. Differ(picture[b], stable[b]) \subseteq unheard[b]
    BY DEF PictureFollows
  <2>2. unheard'[b] = unheard[b] \cup Differ(stable[b], stable'[b])
    BY <1>1 DEF Ignore
  <2> QED BY <1>1, <2>1, <2>2 DEF Ignore, Differ
<1>2. ASSUME Scan, Listen PROVE PictureFollows'
  <2> SUFFICES ASSUME NEW b \in Boards
               PROVE  Differ(picture'[b], stable'[b]) \subseteq unheard'[b]
    BY DEF PictureFollows
  <2>1. Differ(picture[b], stable[b]) \subseteq unheard[b]
    BY DEF PictureFollows
  <2>2. Differ(stable[b], stable'[b]) \subseteq Told(b)
    BY <1>2, ChangesAreTold
  <2>3. /\ picture'[b] = (picture[b] \ Told(b)) \cup (Told(b) \cap stable'[b])
        /\ unheard'[b] = unheard[b] \ Told(b)
    BY <1>2 DEF Listen
  <2> QED BY <2>1, <2>2, <2>3 DEF Differ
<1>3. CASE Tick
  BY <1>1, <1>2, <1>3 DEF Tick, TickBoot, TickAwake, FallAsleep, TickSleep
<1>4. CASE Retry
  BY <1>1, <1>4 DEF Retry
<1>5. CASE ChangeMode \/ Sense \/ Second \/ UNCHANGED vars
  BY <1>5 DEF ChangeMode, Sense, Second, vars, boardVars, PictureFollows
<1> QED BY <1>3, <1>4, <1>5 DEF Next

\* The types, for every set of boards and slots.
THEOREM TypeCorrect == Spec => []TypeOK
<1>1. Init => TypeOK
  BY TypeInit
<1>2. TypeOK /\ [Next]_vars => TypeOK'
  BY TypeNext
<1> QED BY <1>1, <1>2, PTL DEF Spec

\* op_window_update hears of every settled change but those of the scans after
\* which the tick leaves before it, whatever the boards do.
THEOREM ListenerInformed == Spec => []PictureFollows
<1>1. Init => PictureFollows
  BY DEF Init, PictureFollows, Differ
<1>2. TypeOK /\ PictureFollows /\ [Next]_vars => PictureFollows'
  BY PictureNext
<1> QED BY <1>1, <1>2, TypeCorrect, PTL DEF Spec

(***************************************************************************)
(* The filter.  As long as the last reading differs from what is held, the *)
(* streak of the code is not ahead of the history's count.                 *)
(***************************************************************************)
StreakCovered ==
  \A b \in Boards : ok[b] /\ raw[b] # stable[b] => streak[b] <= run[b]

\* A scan, for one board: what is held changes only for a confirmed reading.
LEMMA ScanConfirms ==
  ASSUME TypeOK, StreakCovered, Scan, NEW b \in Boards
  PROVE  /\ ok'[b] /\ raw'[b] # stable'[b] => streak'[b] <= run'[b]
         /\ stable'[b] # stable[b] => run'[b] >= StableScans /\ raw'[b] = stable'[b]
<1> USE ConstantsOK DEF ConstantsOK
<1>1. /\ streak[b] \in 0..StableScans /\ run[b] \in 0..StableScans
      /\ streak'[b] = StreakAfter(b)
      /\ ok'[b] = Answers(b)
      /\ raw'[b] = IF Answers(b) THEN reads[b] ELSE raw[b]
      /\ stable'[b] = IF Settled(b) THEN reads[b] ELSE stable[b]
      /\ run'[b] = IF ~Answers(b) THEN 0
                   ELSE IF reads[b] = raw[b] THEN Least(run[b] + 1, StableScans) ELSE 1
  BY DEF Scan, TypeOK
<1>2. CASE ~Answers(b)
  BY <1>1, <1>2 DEF Settled
<1>3. CASE Answers(b) /\ reads[b] # raw[b]
  BY <1>1, <1>3 DEF StreakAfter, Settled
<1>4. CASE Answers(b) /\ reads[b] = raw[b] /\ raw[b] = stable[b]
  BY <1>1, <1>4 DEF Settled
<1>5. CASE Answers(b) /\ reads[b] = raw[b] /\ raw[b] # stable[b]
  <2>1. StreakBefore(b) <= run[b] /\ StreakBefore(b) \in 0..StableScans
    BY <1>1, <1>5 DEF StreakBefore, StreakCovered
  <2>2. StreakAfter(b) <= run'[b]
    BY <1>1, <1>5, <2>1 DEF StreakAfter, Least
  <2> QED BY <1>1, <1>5, <2>2, StreakTyped DEF Settled
<1> QED BY <1>2, <1>3, <1>4, <1>5

LEMMA CoveredNext ==
  ASSUME TypeOK, StreakCovered, [Next]_vars PROVE StreakCovered'
<1>1. CASE Tick
  <2>1. Scan
    BY <1>1 DEF Tick, TickBoot, TickAwake, FallAsleep, TickSleep
  <2> QED BY <2>1, ScanConfirms DEF StreakCovered
<1>2. CASE Retry
  <2> SUFFICES ASSUME NEW b \in Boards, ok'[b], raw'[b] # stable'[b]
               PROVE  streak'[b] <= run'[b]
    BY DEF StreakCovered
  <2>1. CASE Primed(b)
    BY <1>2, <2>1 DEF Retry, TypeOK
  <2>2. CASE ~Primed(b)
    BY <1>2, <2>2 DEF Retry, TypeOK, StreakCovered
  <2> QED BY <2>1, <2>2
<1>3. CASE ChangeMode \/ Sense \/ Second \/ UNCHANGED vars
  BY <1>3 DEF ChangeMode, Sense, Second, vars, boardVars, StreakCovered
<1> QED BY <1>1, <1>2, <1>3 DEF Next

\* One bad scan, or a board that is lost and found, never changes what the
\* shelf holds of it: that takes IR_STABLE_SCANS scans that agree.
THEOREM ChangesAreDebounced == Spec => Debounced
<1>1. Init => StreakCovered
  BY DEF Init, StreakCovered
<1>2. TypeOK /\ StreakCovered /\ [Next]_vars => StreakCovered'
  BY CoveredNext
<1>3. TypeOK /\ StreakCovered /\ [Next]_vars
        => [\A b \in Boards : stable'[b] # stable[b] /\ mode' # "BOOT"
              => run'[b] >= StableScans /\ raw'[b] = stable'[b]]_vars
  <2> SUFFICES ASSUME TypeOK, StreakCovered, Next, NEW b \in Boards,
                      stable'[b] # stable[b], mode' # "BOOT"
               PROVE  run'[b] >= StableScans /\ raw'[b] = stable'[b]
    OBVIOUS
  <2>1. CASE Tick
    <3>1. Scan
      BY <2>1 DEF Tick, TickBoot, TickAwake, FallAsleep, TickSleep
    <3> QED BY <3>1, ScanConfirms
  <2>2. CASE Retry \/ ChangeMode \/ Sense \/ Second
    BY <2>2 DEF Retry, ChangeMode, Sense, Second, boardVars
  <2> QED BY <2>1, <2>2 DEF Next
<1> QED BY <1>1, <1>2, <1>3, TypeCorrect, PTL DEF Spec, Debounced

(***************************************************************************)
(* The other half of the filter.  While a board answers, the streak of the *)
(* code is not behind the history's count: a loss of the board ends both,  *)
(* and the baseline counts as settled.                                     *)
(***************************************************************************)
RunCovered ==
  \A b \in Boards : IF ok[b] THEN run[b] <= streak[b] ELSE run[b] = 0

\* A reading that came StableScans times in a row is what the shelf holds.
RepeatedIsBelieved ==
  \A b \in Boards : run[b] >= StableScans => stable[b] = raw[b]

LEMMA ScanBelieves ==
  ASSUME TypeOK, RunCovered, Scan, NEW b \in Boards
  PROVE  /\ IF ok'[b] THEN run'[b] <= streak'[b] ELSE run'[b] = 0
         /\ run'[b] >= StableScans => stable'[b] = raw'[b]
<1> USE ConstantsOK DEF ConstantsOK
<1>1. /\ streak[b] \in 0..StableScans /\ run[b] \in 0..StableScans
      /\ streak'[b] = StreakAfter(b)
      /\ ok'[b] = Answers(b)
      /\ raw'[b] = IF Answers(b) THEN reads[b] ELSE raw[b]
      /\ stable'[b] = IF Settled(b) THEN reads[b] ELSE stable[b]
      /\ run'[b] = IF ~Answers(b) THEN 0
                   ELSE IF reads[b] = raw[b] THEN Least(run[b] + 1, StableScans) ELSE 1
  BY DEF Scan, TypeOK
<1>2. CASE ~Answers(b)
  BY <1>1, <1>2
<1>3. CASE Answers(b)
  <2>1. run[b] <= StreakBefore(b) /\ StreakBefore(b) \in 0..StableScans
    BY <1>1 DEF StreakBefore, RunCovered
  <2>2. run'[b] <= streak'[b]
    BY <1>1, <1>3, <2>1 DEF StreakAfter, Least
  <2>3. run'[b] \in Nat /\ streak'[b] \in Nat
    BY <1>1, StreakTyped DEF Least
  <2>4. run'[b] >= StableScans => Settled(b)
    BY <1>1, <1>3, <2>2, <2>3 DEF Settled
  <2> QED BY <1>1, <1>3, <2>2, <2>4
<1> QED BY <1>2, <1>3

LEMMA BelievedNext ==
  ASSUME TypeOK, RunCovered, RepeatedIsBelieved, [Next]_vars
  PROVE  RunCovered' /\ RepeatedIsBelieved'
<1>1. CASE Tick
  <2>1. Scan
    BY <1>1 DEF Tick, TickBoot, TickAwake, FallAsleep, TickSleep
  <2> QED BY <2>1, ScanBelieves DEF RunCovered, RepeatedIsBelieved
<1>2. CASE Retry
  <2> SUFFICES ASSUME NEW b \in Boards
               PROVE  /\ IF ok'[b] THEN run'[b] <= streak'[b] ELSE run'[b] = 0
                      /\ run'[b] >= StableScans => stable'[b] = raw'[b]
    BY DEF RunCovered, RepeatedIsBelieved
  <2>1. CASE Primed(b)
    BY <1>2, <2>1, ConstantsOK DEF Retry, TypeOK, Primed, ConstantsOK
  <2>2. CASE ~Primed(b)
    BY <1>2, <2>2 DEF Retry, TypeOK, RunCovered, RepeatedIsBelieved
  <2> QED BY <2>1, <2>2
<1>3. CASE ChangeMode \/ Sense \/ Second \/ UNCHANGED vars
  BY <1>3 DEF ChangeMode, Sense, Second, vars, boardVars, RunCovered, RepeatedIsBelieved
<1> QED BY <1>1, <1>2, <1>3 DEF Next

\* The filter of ir_scan never loses a change: IR_STABLE_SCANS scans that agree,
\* however the board was lost and found before, are believed with the last of
\* them.
THEOREM RepeatsAreBelieved == Spec => []RepeatedIsBelieved
<1>1. Init => RunCovered /\ RepeatedIsBelieved
  BY ConstantsOK DEF Init, RunCovered, RepeatedIsBelieved, Primed, ConstantsOK
<1>2. TypeOK /\ RunCovered /\ RepeatedIsBelieved /\ [Next]_vars
        => RunCovered' /\ RepeatedIsBelieved'
  BY BelievedNext
<1> QED BY <1>1, <1>2, TypeCorrect, PTL DEF Spec
=============================================================================
