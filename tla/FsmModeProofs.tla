--------------------------- MODULE FsmModeProofs ---------------------------
(***************************************************************************)
(* Proofs about FsmMode, for every set of books and readers and for every  *)
(* timeout.                                                                *)
(***************************************************************************)
EXTENDS FsmMode, TLAPS

(***************************************************************************)
(* Types.                                                                  *)
(***************************************************************************)

\* The part of TypeOK that a change of mode can disturb.
ModeOK ==
  /\ state \in States
  /\ prev_state \in States
  /\ open \in SUBSET Devs
  /\ scanning \in SUBSET open
  /\ lost \in SUBSET Devs
  /\ ready \in BOOLEAN

FindOK ==
  /\ find_query \in SUBSET Books
  /\ find_matches \in SUBSET Books
  /\ find_target \in Books \cup {NoBook}
  /\ find_status \in Idle..Cancelled
  /\ findAge \in 0..FindCap

\* The caps of the ages are natural numbers.
LEMMA CapsNat ==
  /\ PresentCap \in Nat /\ FindCap \in Nat /\ StartCap \in Nat /\ FrameCap \in Nat
  /\ MaxLag <= PresentCap /\ MaxLag <= FindCap /\ MaxLag <= FrameCap
BY ConstantsOK DEF ConstantsOK, PresentCap, FindCap, StartCap, FrameCap

\* An age that grows stays below its cap.
LEMMA OlderType ==
  ASSUME NEW cap \in Nat, NEW age \in 0..cap
  PROVE  Older(age, cap) \in 0..cap
BY DEF Older

\* A fault keeps the types, from whatever state it comes.
LEMMA EnterFaultType ==
  ASSUME TypeOK, NEW s \in States, EnterFaultFrom(s)
  PROVE  ModeOK'
BY DEF TypeOK, EnterFaultFrom, UhfStopBoth, ModeOK, States, devVars

LEMMA EnterActiveType ==
  ASSUME TypeOK, EnterActive
  PROVE  ModeOK' /\ presentAge' \in 0..PresentCap
<1>1. CASE /\ state = "SLEEP"
           /\ UhfStartFails
           /\ EnterFaultFrom("ACTIVE")
           /\ UNCHANGED presentAge
  BY <1>1, EnterFaultType DEF States, TypeOK
<1>2. CASE /\ state' = "ACTIVE"
           /\ prev_state' = state
           /\ IF state = "SLEEP" THEN UhfStartBoth ELSE UNCHANGED devVars
           /\ presentAge' = 0
  BY <1>2, CapsNat DEF TypeOK, ModeOK, UhfStartBoth, devVars, States
<1>3. QED
  BY <1>1, <1>2 DEF EnterActive

LEMMA EnterSleepType ==
  ASSUME TypeOK, EnterSleep
  PROVE  ModeOK' /\ presentAge' \in 0..PresentCap
BY DEF TypeOK, ModeOK, EnterSleep, UhfStopBoth, States

LEMMA ReturnFromFindType ==
  ASSUME TypeOK, ReturnFromFind
  PROVE  ModeOK' /\ presentAge' \in 0..PresentCap
BY EnterActiveType, EnterSleepType DEF ReturnFromFind

LEMMA AppendMatchesType ==
  ASSUME NEW query \in SUBSET Books, NEW matches \in SUBSET Books,
         NEW tgt \in Books \cup {NoBook}, AppendMatches(query, matches, tgt)
  PROVE  /\ find_matches' \in SUBSET Books
         /\ find_target' \in Books \cup {NoBook}
BY DEF AppendMatches

LEMMA EnterFindType ==
  ASSUME TypeOK, NEW prev \in States, NEW query \in SUBSET Books,
         NEW matches \in SUBSET Books, NEW tgt \in Books \cup {NoBook},
         NEW status \in Idle..Cancelled,
         EnterFind(prev, query, matches, tgt, status)
  PROVE  ModeOK' /\ FindOK'
<1>0. find_query' \in SUBSET Books
  BY DEF EnterFind
<1>1. CASE /\ state = "FIND"
           /\ find_status' = status
           /\ AppendMatches(query, matches, tgt)
           /\ prev_state' = prev
           /\ UNCHANGED <<state, devVars, findAge>>
  BY <1>0, <1>1, AppendMatchesType DEF TypeOK, ModeOK, FindOK, devVars
<1>2. CASE /\ state # "FIND"
           /\ state' = "FIND"
           /\ prev_state' = state
           /\ IF state = "SLEEP" THEN UhfStartBoth ELSE UNCHANGED devVars
           /\ find_status' = Searching
           /\ findAge' = 0
           /\ AppendMatches(query, matches, tgt)
  <2>1. ModeOK'
    BY <1>2 DEF TypeOK, ModeOK, UhfStartBoth, devVars, States
  <2>2. FindOK'
    BY <1>0, <1>2, AppendMatchesType, CapsNat
    DEF FindOK, Idle, Searching, Cancelled
  <2>3. QED
    BY <2>1, <2>2
<1>3. CASE /\ state = "SLEEP"
           /\ UhfStartFails
           /\ EnterFaultFrom("FIND")
           /\ find_status' = Searching
           /\ findAge' = 0
           /\ find_matches' = matches
           /\ find_target' = tgt
  <2>1. ModeOK'
    BY <1>3, EnterFaultType DEF States
  <2>2. FindOK'
    BY <1>0, <1>3, CapsNat DEF FindOK, Idle, Searching, Cancelled
  <2>3. QED
    BY <2>1, <2>2
<1>4. QED
  BY <1>1, <1>2, <1>3 DEF EnterFind

LEMMA BeginFindType ==
  ASSUME TypeOK, NEW query \in SUBSET Books, BeginFind(query)
  PROVE  ModeOK' /\ FindOK'
<1>1. CASE state \in {"ACTIVE", "SLEEP", "FIND"}
  <2>1. EnterFind(prev_state, query, {}, NoBook, Searching)
    BY <1>1 DEF BeginFind
  <2>2. Searching \in Idle..Cancelled /\ prev_state \in States
    BY DEF TypeOK, Searching, Idle, Cancelled
  <2>3. QED
    BY <2>1, <2>2, EnterFindType
<1>2. CASE state \notin {"ACTIVE", "SLEEP", "FIND"}
  BY <1>2 DEF BeginFind, TypeOK, ModeOK, FindOK, modeVars, devVars,
              Idle, Searching, Cancelled
<1>3. QED
  BY <1>1, <1>2

LEMMA ScannerInitType ==
  ASSUME TypeOK, NEW before \in SUBSET Devs, ScannerInit(before)
  PROVE  /\ open' \in SUBSET Devs
         /\ scanning' \in SUBSET open'
         /\ lost' \in SUBSET Devs
         /\ ready' \in BOOLEAN
         /\ detect_unknown' \in BOOLEAN
         /\ present' \in SUBSET Books
BY DEF TypeOK, ScannerInit, Answers

\* The commands of the screen keep the types.
LEMMA CmdFindType == TypeOK /\ CmdFind /\ entered' \in BOOLEAN => TypeOK'
<1> SUFFICES ASSUME TypeOK, CmdFind, entered' \in BOOLEAN PROVE TypeOK'
  OBVIOUS
<1>1. PICK q \in SUBSET Books : BeginFind(q)
  BY DEF CmdFind
<1>2. ModeOK' /\ FindOK'
  BY <1>1, BeginFindType
<1>3. QED
  BY <1>2 DEF CmdFind, Command, TypeOK, ModeOK, FindOK, okVars, addVars, radarVars

LEMMA CmdFindCancelType == TypeOK /\ CmdFindCancel /\ entered' \in BOOLEAN => TypeOK'
<1> SUFFICES ASSUME TypeOK, CmdFindCancel, entered' \in BOOLEAN PROVE TypeOK'
  OBVIOUS
<1>1. ModeOK' /\ presentAge' \in 0..PresentCap
  BY ReturnFromFindType DEF CmdFindCancel, TypeOK, ModeOK, modeVars, devVars
<1>2. FindOK'
  BY DEF CmdFindCancel, TypeOK, FindOK, Cancelled, Idle
<1>3. QED
  BY <1>1, <1>2 DEF CmdFindCancel, Command, TypeOK, ModeOK, FindOK, okVars,
                    addVars, radarVars

LEMMA CmdUhfPowerType == TypeOK /\ CmdUhfPower /\ entered' \in BOOLEAN => TypeOK'
<1> SUFFICES ASSUME TypeOK, CmdUhfPower, entered' \in BOOLEAN PROVE TypeOK'
  OBVIOUS
<1>1. state \in States
  BY DEF TypeOK
<1>2. ModeOK'
  BY <1>1, EnterFaultType DEF CmdUhfPower, TypeOK, ModeOK, modeVars, devVars
<1>3. QED
  BY <1>2 DEF CmdUhfPower, Command, TypeOK, ModeOK, okVars, findVars, addVars,
              radarVars

LEMMA CmdAddStartType == TypeOK /\ CmdAddStart /\ entered' \in BOOLEAN => TypeOK'
<1> SUFFICES ASSUME TypeOK, CmdAddStart, entered' \in BOOLEAN PROVE TypeOK'
  OBVIOUS
<1>1. ModeOK' /\ presentAge' \in 0..PresentCap
  BY EnterActiveType DEF CmdAddStart, TypeOK, ModeOK, modeVars, devVars
<1>2. QED
  BY <1>1 DEF CmdAddStart, Command, TypeOK, ModeOK, okVars, findVars, radarVars

LEMMA CmdAddCancelType == TypeOK /\ CmdAddCancel /\ entered' \in BOOLEAN => TypeOK'
BY DEF CmdAddCancel, Command, TypeOK, modeVars, devVars, okVars, findVars,
       radarVars

LEMMA AfterStopType ==
  ASSUME TypeOK
  PROVE  AfterStop(open) \in SUBSET Devs
BY DEF TypeOK, AfterStop

LEMMA CmdRegisterType == TypeOK /\ CmdRegister /\ entered' \in BOOLEAN => TypeOK'
<1> SUFFICES ASSUME TypeOK, CmdRegister, entered' \in BOOLEAN PROVE TypeOK'
  OBVIOUS
<1>1. ScannerInit(AfterStop(open))
  BY DEF CmdRegister
<1>2. QED
  BY <1>1, AfterStopType, ScannerInitType
  DEF CmdRegister, Command, TypeOK, modeVars, okVars, findVars, radarVars

LEMMA CmdDeleteBookType == TypeOK /\ CmdDeleteBook /\ entered' \in BOOLEAN => TypeOK'
<1> SUFFICES ASSUME TypeOK, CmdDeleteBook, entered' \in BOOLEAN PROVE TypeOK'
  OBVIOUS
<1>1. ScannerInit(AfterStop(open))
  BY DEF CmdDeleteBook
<1>2. QED
  BY <1>1, AfterStopType, ScannerInitType
  DEF CmdDeleteBook, Command, TypeOK, modeVars, okVars, findVars, radarVars

LEMMA CmdFaultRetryType == TypeOK /\ CmdFaultRetry /\ entered' \in BOOLEAN => TypeOK'
<1> SUFFICES ASSUME TypeOK, CmdFaultRetry, entered' \in BOOLEAN PROVE TypeOK'
  OBVIOUS
<1> DEFINE left == IF uhf_ok THEN AfterStop(open) ELSE open
<1>1. left \in SUBSET Devs
  BY AfterStopType DEF TypeOK
<1>2. CASE state' = "BOOT" /\ prev_state' = "BOOT" /\ SelfCheckPasses(left)
           /\ startAge' = 0 /\ presentAge' = 0
  <2>1. 0 \in 0..StartCap /\ 0 \in 0..PresentCap
    BY CapsNat
  <2> HIDE DEF left
  <2>2. QED
    BY <1>1, <1>2, <2>1, ScannerInitType
    DEF SelfCheckPasses, CmdFaultRetry, TypeOK, States, findVars
<1>3. CASE /\ state' = "FAULT"
           /\ prev_state' = IF state # "FAULT" THEN state ELSE prev_state
           /\ open' = left
           /\ scanning' = IF state # "FAULT" THEN {} ELSE scanning \cap left
           /\ ready' = (ready /\ ~uhf_ok)
           /\ uhf_ok' = FALSE
           /\ radar_ok' \in BOOLEAN
           /\ target' = FALSE
           /\ UNCHANGED <<lost, present, detect_unknown, startAge, presentAge>>
  <2> HIDE DEF left
  <2>1. QED
    BY <1>1, <1>3 DEF CmdFaultRetry, TypeOK, States, findVars
<1>4. QED
  BY <1>2, <1>3 DEF CmdFaultRetry

LEMMA CmdRebootType == TypeOK /\ CmdReboot /\ entered' \in BOOLEAN => TypeOK'
BY DEF CmdReboot, Command, TypeOK, modeVars, devVars, okVars, findVars,
       addVars, radarVars

LEMMA CmdForceType == TypeOK /\ CmdForce /\ entered' \in BOOLEAN => TypeOK'
<1> SUFFICES ASSUME TypeOK, CmdForce, entered' \in BOOLEAN PROVE TypeOK'
  OBVIOUS
<1> DEFINE Changed == ModeOK' /\ FindOK' /\ presentAge' \in 0..PresentCap
<1>0. FindOK /\ ModeOK /\ presentAge \in 0..PresentCap
  BY DEF TypeOK, FindOK, ModeOK
<1>a. CASE Command("FORCE_BOOT") /\ state' = "BOOT" /\ prev_state' = state
           /\ UNCHANGED <<devVars, findVars, presentAge>>
  <2>1. Changed
    BY <1>0, <1>a DEF ModeOK, FindOK, devVars, findVars, States
  <2>2. QED
    BY <1>a, <2>1 DEF CmdForce, Command, TypeOK, ModeOK, FindOK, okVars, addVars,
                      radarVars
<1>b. CASE Command("FORCE_ACTIVE") /\ EnterActive /\ UNCHANGED findVars
  <2>1. Changed
    BY <1>0, <1>b, EnterActiveType DEF FindOK, findVars
  <2>2. QED
    BY <1>b, <2>1 DEF CmdForce, Command, TypeOK, ModeOK, FindOK, okVars, addVars,
                      radarVars
<1>c. CASE Command("FORCE_SLEEP") /\ EnterSleep /\ UNCHANGED findVars
  <2>1. Changed
    BY <1>0, <1>c, EnterSleepType DEF FindOK, findVars
  <2>2. QED
    BY <1>c, <2>1 DEF CmdForce, Command, TypeOK, ModeOK, FindOK, okVars, addVars,
                      radarVars
<1>d. CASE Command("FORCE_FAULT") /\ EnterFaultFrom(state)
           /\ UNCHANGED <<findVars, presentAge>>
  <2>1. Changed
    BY <1>0, <1>d, EnterFaultType DEF FindOK, ModeOK, findVars
  <2>2. QED
    BY <1>d, <2>1 DEF CmdForce, Command, TypeOK, ModeOK, FindOK, okVars, addVars,
                      radarVars
<1>e. CASE /\ Command("FORCE_FIND")
           /\ EnterFind("ACTIVE", find_query, find_matches, find_target, find_status)
           /\ UNCHANGED presentAge
  <2>1. Changed
    BY <1>0, <1>e, EnterFindType DEF FindOK, States
  <2>2. QED
    BY <1>e, <2>1 DEF CmdForce, Command, TypeOK, ModeOK, FindOK, okVars, addVars,
                      radarVars
<1>f. QED
  BY <1>a, <1>b, <1>c, <1>d, <1>e DEF CmdForce

LEMMA PollLocalCmdType == TypeOK /\ PollLocalCmd => TypeOK'
<1>0. NoteEntry => entered' \in BOOLEAN
  BY DEF NoteEntry
<1>1. TypeOK /\ CmdNone /\ entered' \in BOOLEAN => TypeOK'
  BY DEF CmdNone, TypeOK, modeVars, devVars, okVars, radarVars, findVars, addVars
<1>2. QED
  BY <1>0, <1>1, CmdFindType, CmdFindCancelType, CmdUhfPowerType, CmdAddStartType,
     CmdAddCancelType, CmdRegisterType, CmdDeleteBookType, CmdFaultRetryType,
     CmdRebootType, CmdForceType DEF PollLocalCmd

LEMMA PollMqttType == TypeOK /\ PollMqtt => TypeOK'
<1> SUFFICES ASSUME TypeOK, PollMqtt PROVE TypeOK'
  OBVIOUS
<1>1. ModeOK' /\ FindOK'
  BY BeginFindType DEF PollMqtt, TypeOK, ModeOK, FindOK, modeVars, devVars, findVars
<1>2. entered' \in BOOLEAN
  BY DEF PollMqtt, NoteEntry
<1>3. QED
  BY <1>1, <1>2 DEF PollMqtt, TypeOK, ModeOK, FindOK, okVars, radarVars, addVars

(***************************************************************************)
(* The body of a tick.                                                     *)
(***************************************************************************)

\* What the radar poll leaves in its own variables.
LEMMA PollRadarType ==
  ASSUME TypeOK, PollRadar
  PROVE  /\ target' \in BOOLEAN
         /\ seen_person' \in BOOLEAN
         /\ frameAge' \in 0..FrameCap
         /\ personAge' \in 0..PresentCap
<1>1. lag \in 0..FrameCap /\ lag \in 0..PresentCap
  BY CapsNat, ConstantsOK DEF TypeOK, ConstantsOK
<1>2. QED
  BY <1>1 DEF TypeOK, PollRadar

\* What a body may change.
BodyOK ==
  /\ ModeOK
  /\ FindOK
  /\ present \in SUBSET Books
  /\ presentAge \in 0..PresentCap
  /\ add_mode \in BOOLEAN
  /\ register_pending \in BOOLEAN
  /\ detect_unknown \in BOOLEAN

LEMMA BodyFaultType == TypeOK /\ BodyFault => BodyOK'
<1> SUFFICES ASSUME TypeOK, BodyFault PROVE BodyOK'
  OBVIOUS
<1>1. ModeOK'
  BY EnterFaultType DEF BodyFault, TypeOK
<1>2. QED
  BY <1>1 DEF BodyFault, BodyOK, FindOK, TypeOK, findVars, addVars

LEMMA BodyBootType == TypeOK /\ BodyBoot => BodyOK'
<1> SUFFICES ASSUME TypeOK, BodyBoot PROVE BodyOK'
  OBVIOUS
<1>1. ModeOK' /\ presentAge' \in 0..PresentCap
  BY EnterActiveType DEF BodyBoot, TypeOK, ModeOK, modeVars, devVars
<1>2. detect_unknown' \in BOOLEAN
  BY DEF BodyBoot, UnknownFound, TypeOK
<1>3. QED
  BY <1>1, <1>2 DEF BodyBoot, BodyOK, FindOK, TypeOK, findVars

LEMMA BodyAutoSleepType == TypeOK /\ BodyAutoSleep => BodyOK'
<1> SUFFICES ASSUME TypeOK, BodyAutoSleep PROVE BodyOK'
  OBVIOUS
<1>1. ModeOK' /\ presentAge' \in 0..PresentCap
  BY EnterSleepType DEF BodyAutoSleep
<1>2. detect_unknown' \in BOOLEAN
  BY DEF BodyAutoSleep, UnknownFound, TypeOK
<1>3. QED
  BY <1>1, <1>2 DEF BodyAutoSleep, BodyOK, FindOK, TypeOK, findVars

LEMMA BodyActiveType == TypeOK /\ BodyActive => BodyOK'
<1> SUFFICES ASSUME TypeOK, BodyActive PROVE BodyOK'
  OBVIOUS
<1>1. detect_unknown' \in BOOLEAN /\ register_pending' \in BOOLEAN
  BY DEF BodyActive, UnknownFound, TakeUnknown, TypeOK
<1>2. lag \in 0..PresentCap
  BY CapsNat, ConstantsOK DEF TypeOK, ConstantsOK
<1>3. presentAge' \in 0..PresentCap
  BY <1>2 DEF BodyActive, TypeOK
<1>4. QED
  BY <1>1, <1>3 DEF BodyActive, BodyOK, ModeOK, FindOK, TypeOK, modeVars,
                    devVars, findVars

LEMMA BodySleepType == TypeOK /\ BodySleep => BodyOK'
<1> SUFFICES ASSUME TypeOK, BodySleep PROVE BodyOK'
  OBVIOUS
<1>1. EnterActive \/ UNCHANGED <<modeVars, devVars, presentAge>>
  BY DEF BodySleep
<1>2. ModeOK' /\ presentAge' \in 0..PresentCap
  BY <1>1, EnterActiveType DEF TypeOK, ModeOK, modeVars, devVars
<1>3. QED
  BY <1>2 DEF BodySleep, BodyOK, FindOK, TypeOK, findVars, addVars

LEMMA BodyFindType == TypeOK /\ BodyFind => BodyOK'
<1> SUFFICES ASSUME TypeOK, BodyFind PROVE BodyOK'
  OBVIOUS
<1>1. detect_unknown' \in BOOLEAN /\ register_pending' \in BOOLEAN
  BY DEF BodyFind, UnknownFound, TakeUnknown, TypeOK
<1>2. \/ EnterActive
      \/ ReturnFromFind
      \/ UNCHANGED <<modeVars, devVars, presentAge>>
  BY DEF BodyFind
<1>3. ModeOK' /\ presentAge' \in 0..PresentCap
  BY <1>2, EnterActiveType, ReturnFromFindType DEF TypeOK, ModeOK, modeVars, devVars
<1>4. /\ find_matches' \in SUBSET Books
      /\ find_query' \in SUBSET Books
      /\ find_status' \in Idle..Cancelled
  BY DEF BodyFind, TypeOK, Idle, Taken, TimedOut, Cancelled
<1>5. QED
  BY <1>1, <1>3, <1>4 DEF BodyFind, BodyOK, FindOK, TypeOK

LEMMA TickBodyType == TypeOK /\ TickBody => TypeOK'
<1> SUFFICES ASSUME TypeOK, TickBody PROVE TypeOK'
  OBVIOUS
<1>1. TypeOK /\ BodyInFault => BodyOK'
  BY DEF BodyInFault, TypeOK, BodyOK, ModeOK, FindOK, modeVars, devVars,
         findVars, addVars
<1>2. BodyOK'
  BY <1>1, BodyFaultType, BodyBootType, BodyAutoSleepType, BodyActiveType,
     BodySleepType, BodyFindType DEF TickBody
<1>3. 0 \in 0..MaxLag
  BY ConstantsOK DEF ConstantsOK
<1>4. PollRadar
  BY DEF TickBody
<1>5. QED
  BY <1>2, <1>3, <1>4, PollRadarType DEF TickBody, BodyOK, ModeOK, FindOK, TypeOK,
                                        okVars

LEMMA ElapseType == TypeOK /\ Elapse => TypeOK'
<1> SUFFICES ASSUME TypeOK, Elapse PROVE TypeOK'
  OBVIOUS
<1>1. lag' \in 0..MaxLag
  BY ConstantsOK DEF Elapse, TypeOK, ConstantsOK
<1>2. /\ frameAge' \in 0..FrameCap
      /\ personAge' \in 0..PresentCap
      /\ presentAge' \in 0..PresentCap
      /\ findAge' \in 0..FindCap
      /\ startAge' \in 0..StartCap
  BY CapsNat, OlderType DEF Elapse, TypeOK
<1>3. QED
  BY <1>1, <1>2 DEF Elapse, TypeOK, modeVars, devVars, okVars, addVars

LEMMA LinkChangeType == TypeOK /\ LinkChange => TypeOK'
<1> SUFFICES ASSUME TypeOK, LinkChange PROVE TypeOK'
  OBVIOUS
<1>1. link' \in SUBSET Devs
  BY ConstantsOK DEF LinkChange, TypeOK, ConstantsOK
<1>2. QED
  BY <1>1 DEF LinkChange, TypeOK, tickVars, modeVars, devVars, okVars, radarVars,
              findVars, addVars

LEMMA InitType == Init => TypeOK
<1> SUFFICES ASSUME Init PROVE TypeOK
  OBVIOUS
<1>1. 0 \in 0..MaxLag /\ 0 \in 0..StartCap
  BY CapsNat, ConstantsOK DEF ConstantsOK
<1>2. /\ FrameCap \in 0..FrameCap
      /\ PresentCap \in 0..PresentCap
      /\ FindCap \in 0..FindCap
  BY CapsNat
<1>3. link \in SUBSET Devs /\ open \in SUBSET link /\ scanning \in SUBSET open
  BY DEF Init, Answers
<1>4. /\ find_query \in SUBSET Books /\ find_matches \in SUBSET Books
      /\ find_status \in Idle..Cancelled /\ lost \in SUBSET Devs
  BY DEF Init, Idle, Cancelled
<1>5. QED
  BY <1>1, <1>2, <1>3, <1>4 DEF Init, TypeOK, States

LEMMA NextType == TypeOK /\ [Next]_vars => TypeOK'
<1> SUFFICES ASSUME TypeOK, [Next]_vars PROVE TypeOK'
  OBVIOUS
<1>1. CASE TickStart
  BY <1>1 DEF TickStart, TypeOK, modeVars, devVars, okVars, radarVars, findVars,
              addVars
<1>2. CASE UNCHANGED vars
  BY <1>2 DEF TypeOK, vars, tickVars, modeVars, devVars, okVars, radarVars,
              findVars, addVars
<1>3. QED
  BY <1>1, <1>2, PollLocalCmdType, PollMqttType, TickBodyType, ElapseType,
     LinkChangeType DEF Next

\* Every variable keeps its type; a reader scans only when it is open.
THEOREM TypeCorrect == Spec => []TypeOK
<1>1. QED
  BY InitType, NextType, PTL DEF Spec

(***************************************************************************)
(* The add-book session.                                                   *)
(***************************************************************************)

\* The commands that do not touch the session.
LEMMA AddUntouched ==
  CmdNone \/ CmdFind \/ CmdFindCancel \/ CmdUhfPower \/ CmdReboot \/ CmdForce
    \/ PollMqtt \/ TickStart \/ Elapse \/ LinkChange \/ UNCHANGED vars
    => UNCHANGED addVars
BY DEF CmdNone, CmdFind, CmdFindCancel, CmdUhfPower, CmdReboot, CmdForce,
       PollMqtt, TickStart, Elapse, LinkChange, vars

\* The session through the body of a tick: the tag that ends the search is
\* the one that waits, or it is dropped (BOOT, and the tick that goes to sleep).
LEMMA AddSessionBody ==
  ASSUME TypeOK, AddSessionOK, TickBody
  PROVE  AddSessionOK'
<1>1. CASE BodyFault \/ BodySleep \/ BodyInFault
  BY <1>1 DEF BodyFault, BodySleep, BodyInFault, addVars, AddSessionOK
<1>2. CASE BodyBoot \/ BodyAutoSleep
  BY <1>2 DEF BodyBoot, BodyAutoSleep, UnknownFound, AddSessionOK, TypeOK
<1>3. CASE BodyActive \/ BodyFind
  <2>1. PICK found \in BOOLEAN : UnknownFound(found) /\ TakeUnknown(found)
    BY <1>3 DEF BodyActive, BodyFind
  <2>2. add_mode' = add_mode
    BY <1>3 DEF BodyActive, BodyFind
  <2>3. QED
    BY <2>1, <2>2 DEF UnknownFound, TakeUnknown, AddSessionOK, TypeOK
<1>4. QED
  BY <1>1, <1>2, <1>3 DEF TickBody

LEMMA AddSessionNext ==
  ASSUME TypeOK, AddSessionOK, [Next]_vars
  PROVE  AddSessionOK'
<1>1. CASE UNCHANGED addVars
  BY <1>1 DEF addVars, AddSessionOK
<1>2. CASE CmdAddStart
  BY <1>2 DEF CmdAddStart, AddSessionOK
<1>3. CASE CmdAddCancel
  BY <1>3 DEF CmdAddCancel, AddSessionOK
<1>4. CASE CmdRegister
  BY <1>4 DEF CmdRegister, ScannerInit, AddSessionOK
<1>5. CASE CmdDeleteBook
  <2>1. /\ register_pending' = register_pending \/ register_pending' = FALSE
        /\ detect_unknown' = FALSE /\ add_mode' = add_mode
    BY <1>5 DEF CmdDeleteBook, ScannerInit
  <2>2. QED
    BY <2>1 DEF AddSessionOK
<1>6. CASE CmdFaultRetry
  <2>1. /\ detect_unknown' = FALSE \/ detect_unknown' = detect_unknown
        /\ UNCHANGED <<add_mode, register_pending>>
    BY <1>6 DEF CmdFaultRetry, SelfCheckPasses, ScannerInit
  <2>2. QED
    BY <2>1 DEF AddSessionOK
<1>7. CASE TickBody
  BY <1>7, AddSessionBody
<1>8. QED
  BY <1>1, <1>2, <1>3, <1>4, <1>5, <1>6, <1>7, AddUntouched DEF Next, PollLocalCmd

\* A tag waits, or is looked for, only in a session, and never both.
THEOREM AddSessionSafe == Spec => []AddSessionOK
<1>1. Init => AddSessionOK
  BY DEF Init, AddSessionOK
<1>2. QED
  BY <1>1, TypeCorrect, AddSessionNext, PTL DEF Spec

\* The body of a tick disarms a session only where it drops the events.
LEMMA ArmedBody ==
  ASSUME TypeOK, Armed, TickBody, pc = "body", state # "BOOT", ~AutoSleep
  PROVE  Armed'
<1>1. CASE BodyFault \/ BodySleep \/ BodyInFault
  BY <1>1 DEF BodyFault, BodySleep, BodyInFault, addVars, Armed
<1>2. ~BodyBoot /\ ~BodyAutoSleep
  BY DEF BodyBoot, BodyAutoSleep, EnterSleep, AutoSleep
<1>3. CASE BodyActive \/ BodyFind
  <2>1. PICK found \in BOOLEAN : UnknownFound(found) /\ TakeUnknown(found)
    BY <1>3 DEF BodyActive, BodyFind
  <2>2. add_mode' = add_mode
    BY <1>3 DEF BodyActive, BodyFind
  <2>3. QED
    BY <2>1, <2>2 DEF UnknownFound, TakeUnknown, Armed, TypeOK
<1>4. QED
  BY <1>1, <1>2, <1>3 DEF TickBody

\* A session under way goes on looking, or holds what it found, through every
\* mode change, search, fault and power command, for every set of commands; a
\* reload of the table and a tick without its events are the only ways out.
THEOREM SessionArmed == Spec => SessionStaysArmed
<1>1. ASSUME TypeOK, [Next]_vars
      PROVE  [Armed /\ ~Armed'
                => \/ CmdDeleteBook \/ CmdFaultRetry
                   \/ pc = "body" /\ (state = "BOOT" \/ AutoSleep)]_vars
  <2> SUFFICES ASSUME Next, Armed, ~Armed'
               PROVE  \/ CmdDeleteBook \/ CmdFaultRetry
                      \/ pc = "body" /\ (state = "BOOT" \/ AutoSleep)
    BY <1>1
  <2>1. ~(UNCHANGED addVars)
    BY DEF addVars, Armed
  <2>2. ~CmdAddStart /\ ~CmdAddCancel /\ ~CmdRegister
    BY DEF CmdAddStart, CmdAddCancel, CmdRegister, Armed
  <2>3. CASE TickBody
    BY <1>1, <2>3, ArmedBody DEF TickBody
  <2>4. QED
    BY <2>1, <2>2, <2>3, AddUntouched DEF Next, PollLocalCmd
<1>2. QED
  BY <1>1, TypeCorrect, PTL DEF Spec, SessionStaysArmed

(***************************************************************************)
(* The find session.                                                       *)
(***************************************************************************)

\* The states that a mode change ends in.
LEMMA EnterActiveState == EnterActive => state' \in {"ACTIVE", "FAULT"}
BY DEF EnterActive, EnterFaultFrom

LEMMA ReturnFromFindState ==
  ReturnFromFind => state' \in {"ACTIVE", "SLEEP", "FAULT"}
BY EnterActiveState DEF ReturnFromFind, EnterSleep

\* The target stays one of the matches when matches are added.
LEMMA AppendMatchesTarget ==
  ASSUME NEW query, NEW matches, NEW tgt, matches # {} => tgt \in matches,
         AppendMatches(query, matches, tgt)
  PROVE  find_matches' # {} => find_target' \in find_matches'
BY DEF AppendMatches

LEMMA EnterFindSession ==
  ASSUME NEW prev, NEW query, NEW matches, NEW tgt, NEW status,
         matches # {} => tgt \in matches,
         state = "FIND" => status \in {Searching, Taken},
         EnterFind(prev, query, matches, tgt, status)
  PROVE  FindSessionOK'
<1>1. CASE state = "FIND" /\ find_status' = status
           /\ AppendMatches(query, matches, tgt)
  BY <1>1, AppendMatchesTarget DEF FindSessionOK
<1>2. CASE find_status' = Searching /\ AppendMatches(query, matches, tgt)
  BY <1>2, AppendMatchesTarget DEF FindSessionOK
<1>3. CASE find_status' = Searching /\ find_matches' = matches /\ find_target' = tgt
  BY <1>3 DEF FindSessionOK
<1>4. QED
  BY <1>1, <1>2, <1>3 DEF EnterFind

LEMMA BeginFindSession ==
  ASSUME NEW query, BeginFind(query)
  PROVE  FindSessionOK'
<1>1. CASE state \in {"ACTIVE", "SLEEP", "FIND"}
  <2>1. EnterFind(prev_state, query, {}, NoBook, Searching)
    BY <1>1 DEF BeginFind
  <2>2. QED
    BY <2>1, EnterFindSession
<1>2. CASE state \notin {"ACTIVE", "SLEEP", "FIND"}
  BY <1>2 DEF BeginFind, modeVars, FindSessionOK
<1>3. QED
  BY <1>1, <1>2

\* The steps that leave the find fields alone enter FIND only from FIND.
LEMMA FindUntouched ==
  ASSUME \/ CmdNone \/ CmdUhfPower \/ CmdAddStart \/ CmdAddCancel \/ CmdRegister
         \/ CmdDeleteBook \/ CmdFaultRetry \/ CmdReboot
         \/ TickStart \/ Elapse \/ LinkChange \/ UNCHANGED vars
  PROVE  /\ UNCHANGED <<find_status, find_matches, find_target>>
         /\ state' = "FIND" => state = "FIND"
<1>1. CASE CmdNone \/ CmdAddCancel \/ CmdRegister \/ CmdDeleteBook \/ CmdReboot
           \/ TickStart \/ Elapse \/ LinkChange \/ UNCHANGED vars
  BY <1>1 DEF CmdNone, CmdAddCancel, CmdRegister, CmdDeleteBook, CmdReboot,
              TickStart, Elapse, LinkChange, vars, findVars, modeVars
<1>2. CASE CmdUhfPower
  BY <1>2 DEF CmdUhfPower, EnterFaultFrom, findVars, modeVars
<1>3. CASE CmdAddStart
  BY <1>3, EnterActiveState DEF CmdAddStart, findVars, modeVars
<1>4. CASE CmdFaultRetry
  BY <1>4 DEF CmdFaultRetry, findVars
<1>5. QED
  BY <1>1, <1>2, <1>3, <1>4

LEMMA FindSessionBody ==
  ASSUME FindSessionOK, TickBody
  PROVE  FindSessionOK'
<1>1. CASE BodyFault \/ BodySleep \/ BodyInFault \/ BodyBoot \/ BodyAutoSleep
           \/ BodyActive
  <2>1. UNCHANGED findVars
    BY <1>1 DEF BodyFault, BodySleep, BodyInFault, BodyBoot, BodyAutoSleep, BodyActive
  <2>2. state' = "FIND" => state = "FIND"
    BY <1>1, EnterActiveState
    DEF BodyFault, BodySleep, BodyInFault, BodyBoot, BodyAutoSleep, BodyActive,
        EnterFaultFrom, EnterSleep, modeVars
  <2>3. QED
    BY <2>1, <2>2 DEF FindSessionOK, findVars
<1>2. CASE BodyFind
  <2>1. \/ find_matches' = {} /\ (EnterActive \/ ReturnFromFind)
        \/ /\ find_status' \in {find_status, Taken}
           /\ UNCHANGED <<find_matches, state>>
    BY <1>2 DEF BodyFind, modeVars
  <2>2. find_target' = find_target /\ state = "FIND"
    BY <1>2 DEF BodyFind
  <2>3. QED
    BY <2>1, <2>2, EnterActiveState, ReturnFromFindState DEF FindSessionOK
<1>3. QED
  BY <1>1, <1>2 DEF TickBody

LEMMA FindSessionNext ==
  ASSUME FindSessionOK, [Next]_vars
  PROVE  FindSessionOK'
<1>1. CASE CmdFind \/ PollMqtt
  BY <1>1, BeginFindSession DEF CmdFind, PollMqtt, findVars, modeVars, FindSessionOK
<1>2. CASE CmdFindCancel
  BY <1>2, ReturnFromFindState DEF CmdFindCancel, FindSessionOK, modeVars
<1>3. CASE CmdForce
  <2>1. CASE EnterFind("ACTIVE", find_query, find_matches, find_target, find_status)
    BY <2>1, EnterFindSession DEF FindSessionOK
  <2>2. CASE UNCHANGED findVars /\ state' # "FIND"
    BY <2>2 DEF findVars, FindSessionOK
  <2>3. QED
    BY <1>3, <2>1, <2>2, EnterActiveState DEF CmdForce, EnterSleep, EnterFaultFrom
<1>4. CASE TickBody
  BY <1>4, FindSessionBody
<1>5. CASE UNCHANGED <<find_status, find_matches, find_target>>
           /\ (state' = "FIND" => state = "FIND")
  BY <1>5 DEF FindSessionOK
<1>6. QED
  BY <1>1, <1>2, <1>3, <1>4, <1>5, FindUntouched DEF Next, PollLocalCmd

\* A search that runs says so, and its target is one of its books.
THEOREM FindSessionSafe == Spec => []FindSessionOK
<1>1. Init => FindSessionOK
  BY DEF Init, FindSessionOK
<1>2. QED
  BY <1>1, FindSessionNext, PTL DEF Spec

(***************************************************************************)
(* The radar and the way to sleep.                                         *)
(***************************************************************************)

\* The part that makes PresentCoversPerson inductive: the clock of a tick is
\* never ahead of the last person it has seen.
RadarInv ==
  /\ PresentCoversPerson
  /\ lag <= personAge

\* An older person and an older presence stay in order under the cap.
LEMMA OlderMonotone ==
  ASSUME NEW cap \in Nat, NEW a \in 0..cap, NEW b \in 0..cap, a <= b
  PROVE  Older(a, cap) <= Older(b, cap)
BY DEF Older

LEMMA RadarBody ==
  ASSUME TypeOK, RadarInv, TickBody
  PROVE  RadarInv'
<1>1. lag' = 0 /\ PollRadar
  BY DEF TickBody
<1>2. personAge' = lag \/ personAge' = personAge
  BY <1>1 DEF PollRadar
<1>3. lag \in Nat /\ personAge \in Nat /\ presentAge \in Nat /\ lag <= personAge
  BY ConstantsOK, CapsNat DEF TypeOK, RadarInv, ConstantsOK
<1>4. lag' <= personAge'
  BY <1>1, <1>2, <1>3
<1>5. state' = "ACTIVE" => presentAge' <= personAge'
  <2>1. CASE EnterActive
    <3>1. presentAge' = 0 \/ state' = "FAULT"
      BY <2>1 DEF EnterActive, EnterFaultFrom
    <3>2. QED
      BY <3>1, <1>2, <1>3
  <2>2. CASE state' \in {"SLEEP", "FAULT"}
    BY <2>2
  <2>3. CASE BodyActive
    <3>1. state = "ACTIVE" /\ presentAge <= personAge
      BY <2>3 DEF BodyActive, RadarInv, PresentCoversPerson
    <3>2. presentAge' = lag \/ (presentAge' = presentAge /\ ~HasPerson)
      BY <2>3, <1>1 DEF BodyActive, HasPerson, TickBody, okVars
    <3>3. ~HasPerson => personAge' = personAge
      BY <1>1 DEF PollRadar, HasPerson
    <3>4. QED
      BY <3>1, <3>2, <3>3, <1>2, <1>3
  <2>4. CASE UNCHANGED modeVars /\ state # "ACTIVE"
    BY <2>4 DEF modeVars
  <2>5. QED
    BY <2>1, <2>2, <2>3, <2>4
    DEF TickBody, BodyFault, EnterFaultFrom, BodyBoot, BodyAutoSleep, EnterSleep,
        BodySleep, BodyFind, ReturnFromFind, BodyInFault
<1>6. QED
  BY <1>4, <1>5 DEF RadarInv, PresentCoversPerson

LEMMA RadarElapse ==
  ASSUME TypeOK, RadarInv, Elapse
  PROVE  RadarInv'
<1>1. /\ personAge' = Older(personAge, PresentCap)
      /\ presentAge' = Older(presentAge, PresentCap)
      /\ state' = state
  BY DEF Elapse, modeVars
<1>2. state' = "ACTIVE" => presentAge' <= personAge'
  BY <1>1, CapsNat, OlderMonotone DEF TypeOK, RadarInv, PresentCoversPerson
<1>3. lag' <= personAge'
  <2>1. lag' \in 0..PresentCap /\ (lag' = lag \/ lag' = lag + 1)
    BY CapsNat, ConstantsOK DEF Elapse, TypeOK, ConstantsOK
  <2>2. lag <= personAge /\ personAge \in 0..PresentCap /\ lag \in Nat
    BY ConstantsOK DEF RadarInv, TypeOK, ConstantsOK
  <2>3. QED
    BY <1>1, <2>1, <2>2, CapsNat DEF Older
<1>4. QED
  BY <1>2, <1>3 DEF RadarInv, PresentCoversPerson

\* What a command of the screen or the cloud does to the radar's clock.
LEMMA CommandRadar ==
  ASSUME PollLocalCmd \/ PollMqtt
  PROVE  /\ UNCHANGED <<lag, personAge>>
         /\ \/ presentAge' = 0
            \/ presentAge' = presentAge /\ (state' = "ACTIVE" => state = "ACTIVE")
<1>1. UNCHANGED <<lag, personAge>>
  BY DEF PollLocalCmd, CmdNone, CmdFind, CmdFindCancel, CmdUhfPower, CmdAddStart,
         CmdAddCancel, CmdRegister, CmdDeleteBook, CmdFaultRetry, CmdReboot,
         CmdForce, PollMqtt, Command, radarVars
<1> DEFINE Moves ==
      \/ presentAge' = 0
      \/ presentAge' = presentAge /\ (state' = "ACTIVE" => state = "ACTIVE")
<1> SUFFICES Moves
  BY <1>1
<1>2. EnterActive => Moves
  BY DEF EnterActive, EnterFaultFrom
<1>3. EnterSleep => Moves
  BY DEF EnterSleep
<1>4. ASSUME NEW s, EnterFaultFrom(s), UNCHANGED presentAge PROVE Moves
  BY <1>4 DEF EnterFaultFrom
<1>5. ASSUME NEW q, BeginFind(q), UNCHANGED presentAge PROVE Moves
  BY <1>5 DEF BeginFind, EnterFind, EnterFaultFrom, modeVars
<1>6. CASE CmdNone \/ CmdAddCancel \/ CmdRegister \/ CmdDeleteBook \/ CmdReboot
  BY <1>6 DEF CmdNone, CmdAddCancel, CmdRegister, CmdDeleteBook, CmdReboot, modeVars
<1>7. CASE CmdFind \/ PollMqtt
  BY <1>7, <1>5 DEF CmdFind, PollMqtt, modeVars
<1>8. CASE CmdFindCancel \/ CmdAddStart
  BY <1>8, <1>2, <1>3 DEF CmdFindCancel, CmdAddStart, ReturnFromFind, modeVars
<1>9. CASE CmdUhfPower
  BY <1>9, <1>4 DEF CmdUhfPower, modeVars
<1>10. CASE CmdFaultRetry
  BY <1>10 DEF CmdFaultRetry
<1>11. CASE CmdForce
  <2>1. CASE EnterFind("ACTIVE", find_query, find_matches, find_target, find_status)
             /\ UNCHANGED presentAge
    BY <2>1 DEF EnterFind, EnterFaultFrom
  <2>2. CASE EnterFaultFrom(state) /\ UNCHANGED presentAge
    BY <2>2, <1>4
  <2>3. CASE state' = "BOOT" /\ UNCHANGED presentAge
    BY <2>3
  <2>4. QED
    BY <1>11, <2>1, <2>2, <2>3, <1>2, <1>3 DEF CmdForce
<1>12. QED
  BY <1>6, <1>7, <1>8, <1>9, <1>10, <1>11 DEF PollLocalCmd

LEMMA RadarNext ==
  ASSUME TypeOK, RadarInv, [Next]_vars
  PROVE  RadarInv'
<1>1. personAge \in Nat
  BY CapsNat DEF TypeOK
<1>2. CASE PollLocalCmd \/ PollMqtt
  BY <1>1, <1>2, CommandRadar DEF RadarInv, PresentCoversPerson
<1>3. CASE TickBody
  BY <1>3, RadarBody
<1>4. CASE Elapse
  BY <1>4, RadarElapse
<1>5. CASE TickStart \/ LinkChange \/ UNCHANGED vars
  BY <1>5 DEF TickStart, LinkChange, vars, tickVars, modeVars, radarVars,
              RadarInv, PresentCoversPerson
<1>6. QED
  BY <1>2, <1>3, <1>4, <1>5 DEF Next

LEMMA RadarInvariant == Spec => []RadarInv
<1>1. Init => RadarInv
  BY CapsNat DEF Init, RadarInv, PresentCoversPerson
<1>2. QED
  BY <1>1, TypeCorrect, RadarNext, PTL DEF Spec

\* The types and the search session, as one invariant.
THEOREM ModeConsistent == Spec => []Consistent
BY TypeCorrect, FindSessionSafe, PTL DEF Consistent


\* In ACTIVE the time that decides about sleep is never older than the last
\* person the radar has seen.
THEOREM PresenceCovered == Spec => []PresentCoversPerson
<1>1. RadarInv => PresentCoversPerson
  BY DEF RadarInv
<1>2. QED
  BY <1>1, RadarInvariant, PTL

\* The step that puts the shelf to sleep on its own.
LEMMA AutoSleepStep ==
  ASSUME Next, AutoSleep
  PROVE  TickBody /\ BodyAutoSleep
<1>1. pc = "body" /\ state = "ACTIVE" /\ state' = "SLEEP"
  BY DEF AutoSleep
<1>2. TickBody
  BY <1>1 DEF Next, TickStart, PollLocalCmd, PollMqtt, Elapse, LinkChange, modeVars,
              CmdNone, CmdFind, CmdFindCancel, CmdUhfPower, CmdAddStart,
              CmdAddCancel, CmdRegister, CmdDeleteBook, CmdFaultRetry, CmdReboot,
              CmdForce, Command
<1>3. QED
  BY <1>1, <1>2 DEF TickBody, BodyFault, EnterFaultFrom, BodyBoot, BodyActive,
                    BodySleep, BodyFind, BodyInFault, modeVars

\* A stamp that is not newer than now is as old as it is.
LEMMA SinceOfOlder ==
  ASSUME NEW age \in Nat, lag \in Nat, lag <= age
  PROVE  Since(age) = age - lag
BY DEF Since

\* What the subtraction rests on: but for the tick that enters a mode, the
\* stamps of the mode are not newer than now.
EntryInv ==
  ~entered => /\ state = "ACTIVE" => lag <= presentAge
              /\ state = "FIND" => lag <= findAge

\* A command does not extend a search that is under way.
LEMMA SearchNotExtended ==
  ASSUME PollLocalCmd \/ PollMqtt, state = "FIND"
  PROVE  findAge' = findAge
<1>1. ASSUME NEW q, BeginFind(q) PROVE findAge' = findAge
  BY <1>1 DEF BeginFind, EnterFind
<1>2. CASE CmdFind \/ PollMqtt
  BY <1>1, <1>2 DEF CmdFind, PollMqtt, findVars
<1>3. CASE CmdForce
  BY <1>3 DEF CmdForce, EnterFind, findVars
<1>4. QED
  BY <1>2, <1>3 DEF PollLocalCmd, CmdNone, CmdFindCancel, CmdUhfPower, CmdAddStart,
     CmdAddCancel, CmdRegister, CmdDeleteBook, CmdFaultRetry, CmdReboot, findVars

LEMMA EntryElapse ==
  ASSUME TypeOK, EntryInv, Elapse
  PROVE  EntryInv'
<1>1. /\ presentAge' = Older(presentAge, PresentCap)
      /\ findAge' = Older(findAge, FindCap)
      /\ state' = state /\ entered' = entered
      /\ lag' \in {lag, lag + 1} /\ lag' <= MaxLag
  BY ConstantsOK DEF Elapse, modeVars, TypeOK, ConstantsOK
<1>2. /\ presentAge \in 0..PresentCap /\ findAge \in 0..FindCap
      /\ lag \in Nat /\ MaxLag \in Nat
  BY ConstantsOK DEF TypeOK, ConstantsOK
<1>3. ASSUME NEW cap \in Nat, MaxLag <= cap, NEW age \in 0..cap, lag <= age
      PROVE  lag' <= Older(age, cap)
  BY <1>1, <1>2, <1>3 DEF Older
<1>4. QED
  BY <1>1, <1>2, <1>3, CapsNat DEF EntryInv

LEMMA EntryNext ==
  ASSUME TypeOK, EntryInv, [Next]_vars
  PROVE  EntryInv'
<1>1. TypeOK'
  BY NextType
<1>2. CASE PollLocalCmd \/ PollMqtt
  <2> SUFFICES ASSUME ~entered'
               PROVE  /\ state' = "ACTIVE" => lag' <= presentAge'
                      /\ state' = "FIND" => lag' <= findAge'
    BY DEF EntryInv
  <2>1. ~entered /\ state' = state /\ ~(presentAge' < presentAge)
    BY <1>2 DEF PollLocalCmd, PollMqtt, NoteEntry
  <2>2. lag' = lag
    BY <1>2, CommandRadar
  <2>3. presentAge \in Nat /\ presentAge' \in Nat /\ lag \in Nat
    BY <1>1, CapsNat, ConstantsOK DEF TypeOK, ConstantsOK
  <2>4. state = "FIND" => findAge' = findAge
    BY <1>2, SearchNotExtended
  <2>5. QED
    BY <2>1, <2>2, <2>3, <2>4 DEF EntryInv
<1>3. CASE TickBody
  <2>1. lag' = 0
    BY <1>3 DEF TickBody
  <2>2. presentAge' \in Nat /\ findAge' \in Nat
    BY <1>1, CapsNat DEF TypeOK
  <2>3. QED
    BY <2>1, <2>2 DEF EntryInv
<1>4. CASE Elapse
  BY <1>4, EntryElapse
<1>5. CASE TickStart \/ LinkChange \/ UNCHANGED vars
  BY <1>5 DEF TickStart, LinkChange, vars, tickVars, modeVars, findVars, EntryInv
<1>6. QED
  BY <1>2, <1>3, <1>4, <1>5 DEF Next

LEMMA EntryInvariant == Spec => []EntryInv
<1>1. Init => EntryInv
  BY DEF Init, EntryInv
<1>2. QED
  BY <1>1, TypeCorrect, EntryNext, PTL DEF Spec

\* However long a tick takes, a shelf that goes to sleep on its own has had
\* nobody before it, and has been awake, for the whole timeout, unless the very
\* tick had just entered ACTIVE.
THEOREM SleepsInOrder == Spec => SleepInOrder
<1>1. ASSUME TypeOK, RadarInv, EntryInv, [Next]_vars
      PROVE  [AutoSleep /\ ~entered
                => /\ seen_person'
                   /\ personAge' >= SleepTimeout
                   /\ presentAge >= SleepTimeout]_vars
  <2> SUFFICES ASSUME Next, AutoSleep, ~entered
               PROVE  /\ seen_person'
                      /\ personAge' >= SleepTimeout
                      /\ presentAge >= SleepTimeout
    BY <1>1
  <2>1. BodyAutoSleep /\ PollRadar /\ state = "ACTIVE"
    BY AutoSleepStep DEF TickBody, BodyAutoSleep
  <2>2. ~HasPerson /\ SleepReliable /\ Since(presentAge) >= SleepTimeout
    BY <2>1 DEF BodyAutoSleep, QuietLongEnough
  <2>3. lag \in Nat /\ presentAge \in Nat /\ personAge \in Nat /\ SleepTimeout \in Nat
    BY <1>1, CapsNat, ConstantsOK DEF TypeOK, ConstantsOK
  <2>4. lag <= presentAge
    BY <1>1, <2>1 DEF EntryInv
  <2>5. presentAge >= SleepTimeout
    BY <2>2, <2>3, <2>4, SinceOfOlder
  <2>6. personAge' = personAge /\ presentAge <= personAge
    BY <1>1, <2>1, <2>2 DEF PollRadar, HasPerson, RadarInv, PresentCoversPerson
  <2>7. QED
    BY <2>2, <2>3, <2>5, <2>6 DEF SleepReliable
<1>2. QED
  BY <1>1, TypeCorrect, RadarInvariant, EntryInvariant, PTL DEF Spec, SleepInOrder

(***************************************************************************)
(* Searches.                                                               *)
(***************************************************************************)

LEMMA BeginFindKeepsOrigin ==
  ASSUME NEW q, BeginFind(q), state = "FIND", state' = "FIND"
  PROVE  prev_state' = prev_state
<1>1. EnterFind(prev_state, q, {}, NoBook, Searching)
  BY DEF BeginFind
<1>2. QED
  BY <1>1 DEF EnterFind, EnterFaultFrom

\* Without the debugging command FORCE_FIND, a search that goes on never
\* forgets the state it returns to: for any number of repeated searches.
THEOREM SearchOriginKept ==
  ASSUME "FORCE_FIND" \notin Commands
  PROVE  Spec => SearchKeepsOrigin
<1>1. ASSUME [Next]_vars
      PROVE  [state = "FIND" /\ state' = "FIND" => prev_state' = prev_state]_vars
  <2> SUFFICES ASSUME Next, state = "FIND", state' = "FIND"
               PROVE  prev_state' = prev_state
    BY <1>1
  <2>1. CASE CmdFind \/ PollMqtt
    BY <2>1, BeginFindKeepsOrigin DEF CmdFind, PollMqtt, modeVars
  <2>2. CASE CmdFindCancel \/ CmdUhfPower \/ CmdAddStart
    BY <2>2, EnterActiveState, ReturnFromFindState
    DEF CmdFindCancel, CmdUhfPower, CmdAddStart, EnterFaultFrom, modeVars
  <2>3. CASE CmdForce
    BY <2>3, EnterActiveState
    DEF CmdForce, Command, EnterSleep, EnterFaultFrom
  <2>4. CASE CmdFaultRetry
    BY <2>4 DEF CmdFaultRetry
  <2>5. CASE TickBody
    BY <2>5, EnterActiveState, ReturnFromFindState
    DEF TickBody, BodyFault, EnterFaultFrom, BodyBoot, BodyAutoSleep, BodyActive,
        BodySleep, BodyFind, BodyInFault, modeVars
  <2>6. CASE UNCHANGED modeVars
    BY <2>6 DEF modeVars
  <2>7. QED
    BY <2>1, <2>2, <2>3, <2>4, <2>5, <2>6
    DEF Next, PollLocalCmd, CmdNone, CmdAddCancel, CmdRegister, CmdDeleteBook,
        CmdReboot, TickStart, Elapse, LinkChange
<1>2. QED
  BY <1>1, PTL DEF Spec, SearchKeepsOrigin

\* The step that runs a search out of time.
LEMMA TimeoutStep ==
  ASSUME Next, state = "FIND", find_status' = TimedOut, find_status # TimedOut
  PROVE  TickBody /\ BodyFind
<1>1. ASSUME NEW q, BeginFind(q) PROVE find_status' # TimedOut
  BY <1>1 DEF BeginFind, EnterFind, Searching, TimedOut
<1>2. ~CmdFind /\ ~PollMqtt /\ ~CmdFindCancel
  BY <1>1 DEF CmdFind, PollMqtt, CmdFindCancel, findVars, Cancelled, TimedOut
<1>3. ~CmdForce
  BY DEF CmdForce, EnterFind, findVars, Searching, TimedOut
<1>4. TickBody
  BY <1>2, <1>3 DEF Next, PollLocalCmd, CmdNone, CmdUhfPower, CmdAddStart,
     CmdAddCancel, CmdRegister, CmdDeleteBook, CmdFaultRetry, CmdReboot, TickStart,
     Elapse, LinkChange, findVars
<1>5. QED
  BY <1>4 DEF TickBody, BodyFault, BodyBoot, BodyAutoSleep, BodyActive, BodySleep,
              BodyInFault, findVars

\* However long a tick takes, a search that did not begin in this very tick
\* runs out of time only after FSM_FIND_TIMEOUT seconds.
THEOREM SearchGetsItsTime == Spec => FindGetsItsTime
<1>1. ASSUME TypeOK, EntryInv, [Next]_vars
      PROVE  [state = "FIND" /\ find_status' = TimedOut /\ find_status # TimedOut
                /\ ~entered
                => findAge >= FindTimeout]_vars
  <2> SUFFICES ASSUME Next, state = "FIND", find_status' = TimedOut,
                      find_status # TimedOut, ~entered
               PROVE  findAge >= FindTimeout
    BY <1>1
  <2>1. FindExpired
    BY TimeoutStep DEF BodyFind, Taken, TimedOut
  <2>2. lag \in Nat /\ findAge \in Nat /\ FindTimeout \in Nat
    BY <1>1, CapsNat, ConstantsOK DEF TypeOK, ConstantsOK
  <2>3. lag <= findAge
    BY <1>1 DEF EntryInv
  <2>4. QED
    BY <2>1, <2>2, <2>3, SinceOfOlder DEF FindExpired
<1>2. QED
  BY <1>1, TypeCorrect, EntryInvariant, PTL DEF Spec, FindGetsItsTime

\* Both timeouts.
THEOREM TimeoutsKept == Spec => TimeoutsInOrder
BY SleepsInOrder, SearchGetsItsTime, PTL DEF TimeoutsInOrder

(***************************************************************************)
(* The readers.                                                            *)
(***************************************************************************)

\* A step that StoppedIsQuiet allows, but for the reloads.
StaysQuiet ==
  Stopped(state') => \/ scanning' = {}
                     \/ state' = state /\ scanning' \subseteq scanning

\* Every mode change stops the readers on its way into SLEEP or FAULT, and
\* starts none there.
LEMMA ModeChangeStops ==
  /\ EnterActive => StaysQuiet
  /\ EnterSleep => StaysQuiet
  /\ \A s : s \in {state, "FIND", "ACTIVE"} /\ EnterFaultFrom(s) => StaysQuiet
  /\ \A prev, q, m, t, st : EnterFind(prev, q, m, t, st) => StaysQuiet
  /\ UNCHANGED <<modeVars, devVars>> => StaysQuiet
<1>1. \A s : s \in {state, "FIND", "ACTIVE"} /\ EnterFaultFrom(s) => StaysQuiet
  BY DEF EnterFaultFrom, UhfStopBoth, StaysQuiet, devVars, Stopped
<1>2. EnterActive => StaysQuiet
  BY <1>1 DEF EnterActive, StaysQuiet, Stopped
<1>3. EnterSleep => StaysQuiet
  BY DEF EnterSleep, UhfStopBoth, StaysQuiet
<1>4. \A prev, q, m, t, st : EnterFind(prev, q, m, t, st) => StaysQuiet
  BY <1>1 DEF EnterFind, StaysQuiet, Stopped, devVars
<1>5. UNCHANGED <<modeVars, devVars>> => StaysQuiet
  BY DEF modeVars, devVars, StaysQuiet
<1>6. QED
  BY <1>1, <1>2, <1>3, <1>4, <1>5

\* No reader runs behind a machine that sleeps or is in fault but after a
\* reload of the table: for every set of commands and whatever readers answer.
THEOREM StoppedStaysQuiet == Spec => StoppedIsQuiet
<1>1. ASSUME [Next]_vars
      PROVE  [Stopped(state')
                => \/ scanning' = {}
                   \/ state' = state /\ scanning' \subseteq scanning
                   \/ state' = state /\ (CmdRegister \/ CmdDeleteBook)]_vars
  <2> SUFFICES ASSUME Next
               PROVE  StaysQuiet \/ (state' = state /\ (CmdRegister \/ CmdDeleteBook))
    BY <1>1 DEF StaysQuiet
  <2>1. CASE CmdFind \/ PollMqtt
    <3>1. ASSUME NEW q, BeginFind(q) PROVE StaysQuiet
      BY <3>1, ModeChangeStops DEF BeginFind
    <3>2. QED
      BY <2>1, <3>1, ModeChangeStops DEF CmdFind, PollMqtt
  <2>2. CASE CmdFindCancel \/ CmdUhfPower \/ CmdAddStart
    BY <2>2, ModeChangeStops DEF CmdFindCancel, CmdUhfPower, CmdAddStart, ReturnFromFind
  <2>3. CASE CmdForce
    <3>1. CASE state' = "BOOT"
      BY <3>1 DEF StaysQuiet, Stopped
    <3>2. QED
      BY <2>3, <3>1, ModeChangeStops DEF CmdForce
  <2>4. CASE CmdFaultRetry
    BY <2>4 DEF CmdFaultRetry, StaysQuiet, Stopped
  <2>5. CASE CmdReboot
    BY <2>5, ModeChangeStops DEF CmdReboot, StaysQuiet
  <2>6. CASE CmdRegister \/ CmdDeleteBook
    BY <2>6 DEF CmdRegister, CmdDeleteBook, modeVars
  <2>7. CASE TickBody
    BY <2>7, ModeChangeStops
    DEF TickBody, BodyFault, BodyBoot, BodyAutoSleep, BodyActive, BodySleep, BodyFind,
        BodyInFault, ReturnFromFind
  <2>8. CASE UNCHANGED <<modeVars, devVars>>
    BY <2>8, ModeChangeStops
  <2>9. QED
    BY <2>1, <2>2, <2>3, <2>4, <2>5, <2>6, <2>7, <2>8
    DEF Next, PollLocalCmd, CmdNone, CmdAddCancel, TickStart, Elapse, LinkChange
<1>2. QED
  BY <1>1, PTL DEF Spec, StoppedIsQuiet

\* An awake shelf scans with every open reader that answers, and between two
\* ticks every reader is open.
AwakeInv ==
  /\ Devs \ Flaky \subseteq link
  /\ state \notin {"SLEEP", "FAULT"} => open \ Flaky \subseteq scanning
  /\ pc = "idle" /\ state \in {"ACTIVE", "FIND"} => open = Devs

\* The mode changes start the readers whenever they wake the shelf.
LEMMA ModeChangeScans ==
  ASSUME AwakeInv
  PROVE  /\ EnterActive /\ state # "FAULT" =>
              /\ state' \notin {"SLEEP", "FAULT"} => open' \ Flaky \subseteq scanning'
              /\ open' = open
         /\ EnterSleep => state' = "SLEEP" /\ open' = open
         /\ \A s : EnterFaultFrom(s) => state' = "FAULT" /\ open' = open
         /\ \A prev, q, m, t, st : EnterFind(prev, q, m, t, st) /\ state # "FAULT" =>
              /\ state' \notin {"SLEEP", "FAULT"} => open' \ Flaky \subseteq scanning'
              /\ open' = open
         /\ UNCHANGED <<modeVars, devVars>> =>
              /\ state' \notin {"SLEEP", "FAULT"} => open' \ Flaky \subseteq scanning'
              /\ open' = open
<1>1. \A s : EnterFaultFrom(s) => state' = "FAULT" /\ open' = open
  BY DEF EnterFaultFrom, UhfStopBoth, devVars
<1>2. EnterActive /\ state # "FAULT" =>
        /\ state' \notin {"SLEEP", "FAULT"} => open' \ Flaky \subseteq scanning'
        /\ open' = open
  BY <1>1 DEF EnterActive, AwakeInv, UhfStartBoth, devVars
<1>3. EnterSleep => state' = "SLEEP" /\ open' = open
  BY DEF EnterSleep, UhfStopBoth
<1>4. \A prev, q, m, t, st : EnterFind(prev, q, m, t, st) /\ state # "FAULT" =>
        /\ state' \notin {"SLEEP", "FAULT"} => open' \ Flaky \subseteq scanning'
        /\ open' = open
  BY <1>1 DEF EnterFind, AwakeInv, UhfStartBoth, devVars
<1>5. UNCHANGED <<modeVars, devVars>> =>
        /\ state' \notin {"SLEEP", "FAULT"} => open' \ Flaky \subseteq scanning'
        /\ open' = open
  BY DEF modeVars, devVars, AwakeInv
<1>6. QED
  BY <1>1, <1>2, <1>3, <1>4, <1>5

\* A reload starts every reader that answers.
LEMMA ReloadScans ==
  ASSUME TypeOK, AwakeInv, NEW before, ScannerInit(before)
  PROVE  open' \ Flaky \subseteq scanning'
<1>1. \A a \in Answers : a \subseteq Devs /\ Devs \ Flaky \subseteq a
  BY DEF Answers, AwakeInv, TypeOK
<1>2. PICK a \in Answers, b \in Answers : open' = a /\ scanning' = a \cap b
  BY DEF ScannerInit
<1>3. QED
  BY <1>1, <1>2

LEMMA AwakeNext ==
  ASSUME Commands \cap {"FORCE_BOOT", "FORCE_ACTIVE", "FORCE_FIND"} = {},
         TypeOK, AwakeInv, [Next]_vars
  PROVE  AwakeInv'
<1> DEFINE Scans == state' \notin {"SLEEP", "FAULT"} => open' \ Flaky \subseteq scanning'
<1>0. link' = link \/ LinkChange
  BY DEF Next, TickStart, PollLocalCmd, PollMqtt, TickBody, Elapse, CmdNone, CmdFind, CmdFindCancel, CmdUhfPower, CmdAddStart,
         CmdAddCancel, CmdRegister, CmdDeleteBook, CmdFaultRetry, CmdReboot,
         CmdForce, Command, vars
<1>1. Devs \ Flaky \subseteq link'
  BY <1>0 DEF LinkChange, AwakeInv
<1>2. ASSUME NEW q, BeginFind(q) PROVE Scans
  BY <1>2, ModeChangeScans DEF BeginFind
<1>3. CASE PollMqtt \/ CmdFind
  <2>1. pc' # "idle"
    BY <1>3 DEF PollMqtt, CmdFind, Command
  <2>2. Scans
    BY <1>2, <1>3, ModeChangeScans DEF PollMqtt, CmdFind
  <2>3. QED
    BY <1>1, <2>1, <2>2 DEF AwakeInv
<1>4. CASE PollLocalCmd /\ ~CmdFind
  <2>1. pc' # "idle"
    BY <1>4 DEF PollLocalCmd, CmdNone, CmdFindCancel, CmdUhfPower, CmdAddStart,
                CmdAddCancel, CmdRegister, CmdDeleteBook, CmdFaultRetry, CmdReboot,
                CmdForce, Command
  <2> SUFFICES Scans
    BY <1>1, <2>1 DEF AwakeInv
  <2>2. CASE CmdRegister \/ CmdDeleteBook \/ CmdFaultRetry
    BY <2>2, ReloadScans DEF CmdRegister, CmdDeleteBook, CmdFaultRetry, SelfCheckPasses
  <2>3. CASE CmdFindCancel \/ CmdUhfPower \/ CmdAddStart \/ CmdAddCancel \/ CmdNone
    BY <2>3, ModeChangeScans
    DEF CmdFindCancel, CmdUhfPower, CmdAddStart, CmdAddCancel, CmdNone, ReturnFromFind
  <2>4. CASE CmdReboot
    BY <2>4, ModeChangeScans DEF CmdReboot
  <2>5. CASE CmdForce
    BY <2>5, ModeChangeScans DEF CmdForce, Command
  <2>6. QED
    BY <1>4, <2>2, <2>3, <2>4, <2>5 DEF PollLocalCmd
<1>5. CASE TickBody
  <2>1. CASE BodyFault
    BY <1>1, <2>1, ModeChangeScans DEF BodyFault, AwakeInv
  <2>2. CASE open = Devs /\ ~BodyFault
    <3>1. Scans /\ open' = open
      BY <1>5, <2>2, ModeChangeScans
      DEF TickBody, BodyBoot, BodyAutoSleep, BodyActive, BodySleep, BodyFind,
          BodyInFault, ReturnFromFind
    <3>2. QED
      BY <1>1, <2>2, <3>1 DEF AwakeInv
  <2>3. QED
    BY <1>5, <2>1, <2>2 DEF TickBody
<1>6. CASE TickStart \/ Elapse \/ LinkChange \/ UNCHANGED vars
  BY <1>1, <1>6 DEF TickStart, Elapse, LinkChange, vars, tickVars, modeVars, devVars,
                    AwakeInv
<1>7. QED
  BY <1>3, <1>4, <1>5, <1>6 DEF Next

\* A reader that answers is never left silent in ACTIVE or FIND between two
\* ticks, over every order of sleep, wake-up, search, reload and retry, whatever
\* the readers that may fail do.
THEOREM AwakeShelfScans ==
  ASSUME Commands \cap {"FORCE_BOOT", "FORCE_ACTIVE", "FORCE_FIND"} = {}
  PROVE  Spec => []AwakeScans
<1>1. Init => AwakeInv
  <2> SUFFICES ASSUME Init PROVE AwakeInv
    OBVIOUS
  <2>1. PICK a \in Answers : scanning = a \cap open
    BY DEF Init
  <2>2. Devs \ Flaky \subseteq link /\ link \ Flaky \subseteq a /\ open \subseteq link
    BY <2>1 DEF Init, Answers
  <2>3. open \ Flaky \subseteq scanning
    BY <2>1, <2>2
  <2>4. QED
    BY <2>2, <2>3 DEF Init, AwakeInv
<1>2. AwakeInv => AwakeScans
  BY DEF AwakeInv, AwakeScans
<1>3. QED
  BY <1>1, <1>2, TypeCorrect, AwakeNext, PTL DEF Spec

\* FAULT is left only by a self-check that passed, into a new baseline.
THEOREM FaultStaysLatched ==
  ASSUME Commands \cap {"FORCE_BOOT", "FORCE_ACTIVE", "FORCE_SLEEP", "FORCE_FIND"} = {}
  PROVE  Spec => FaultLatched
<1>1. ASSUME [Next]_vars
      PROVE  [state = "FAULT" /\ state' # "FAULT"
                => /\ state' = "BOOT" /\ uhf_ok' /\ radar_ok' /\ ready'
                   /\ startAge' = 0]_vars
  <2> SUFFICES ASSUME Next, state = "FAULT", state' # "FAULT"
               PROVE  /\ state' = "BOOT" /\ uhf_ok' /\ radar_ok' /\ ready'
                      /\ startAge' = 0
    BY <1>1
  <2>1. CASE CmdFaultRetry
    BY <2>1 DEF CmdFaultRetry, SelfCheckPasses, ScannerInit
  <2>2. ~CmdFind /\ ~PollMqtt
    BY DEF CmdFind, PollMqtt, BeginFind, modeVars
  <2>3. ~CmdFindCancel /\ ~CmdUhfPower /\ ~CmdAddStart /\ ~CmdForce
    BY DEF CmdFindCancel, CmdUhfPower, CmdAddStart, CmdForce, Command,
           EnterFaultFrom, modeVars
  <2>4. ~TickBody
    BY DEF TickBody, BodyFault, EnterFaultFrom, BodyBoot, BodyAutoSleep, BodyActive,
           BodySleep, BodyFind, BodyInFault, modeVars
  <2>5. QED
    BY <2>1, <2>2, <2>3, <2>4
    DEF Next, PollLocalCmd, CmdNone, CmdAddCancel, CmdRegister, CmdDeleteBook,
        CmdReboot, TickStart, Elapse, LinkChange, modeVars
<1>2. QED
  BY <1>1, PTL DEF Spec, FaultLatched

(***************************************************************************)
(* The descriptors.                                                        *)
(***************************************************************************)

\* A scanner that is not ready, or not trusted, has nothing open: what makes
\* the next scanner_init safe.
HandleInv ==
  /\ lost = {}
  /\ ~ready \/ ~uhf_ok => open = {}

\* Mode changes start and stop readers, and open or close none.
LEMMA ModeChangeKeepsOpen ==
  /\ EnterActive => UNCHANGED <<open, lost, ready>>
  /\ EnterSleep => UNCHANGED <<open, lost, ready>>
  /\ \A s : EnterFaultFrom(s) => UNCHANGED <<open, lost, ready>>
  /\ \A prev, q, m, t, st : EnterFind(prev, q, m, t, st) => UNCHANGED <<open, lost, ready>>
  /\ \A q : BeginFind(q) => UNCHANGED <<open, lost, ready>>
<1>1. \A s : EnterFaultFrom(s) => UNCHANGED <<open, lost, ready>>
  BY DEF EnterFaultFrom, UhfStopBoth, devVars
<1>2. EnterActive => UNCHANGED <<open, lost, ready>>
  BY <1>1 DEF EnterActive, UhfStartBoth, devVars
<1>3. EnterSleep => UNCHANGED <<open, lost, ready>>
  BY DEF EnterSleep, UhfStopBoth
<1>4. \A prev, q, m, t, st : EnterFind(prev, q, m, t, st) => UNCHANGED <<open, lost, ready>>
  BY <1>1 DEF EnterFind, UhfStartBoth, devVars
<1>5. \A q : BeginFind(q) => UNCHANGED <<open, lost, ready>>
  BY <1>4 DEF BeginFind, devVars
<1>6. QED
  BY <1>1, <1>2, <1>3, <1>4, <1>5

LEMMA HandleNext ==
  ASSUME "REGISTER" \notin Commands, "DELETE_BOOK" \notin Commands,
         HandleInv, [Next]_vars
  PROVE  HandleInv'
<1>1. CASE CmdFaultRetry
  <2>1. (IF uhf_ok THEN AfterStop(open) ELSE open) = {}
    BY DEF HandleInv, AfterStop
  <2>2. CASE state' = "BOOT"
    BY <1>1, <2>1, <2>2 DEF CmdFaultRetry, SelfCheckPasses, ScannerInit, HandleInv
  <2>3. CASE state' = "FAULT"
    BY <1>1, <2>1, <2>3 DEF CmdFaultRetry, HandleInv
  <2>4. QED
    BY <1>1, <2>2, <2>3 DEF CmdFaultRetry
<1>2. CASE CmdReboot
  BY <1>2 DEF CmdReboot, HandleInv, devVars, okVars
<1>3. CASE UNCHANGED <<open, lost, ready, uhf_ok>>
  BY <1>3 DEF HandleInv
<1>4. CASE CmdFind \/ PollMqtt \/ CmdFindCancel \/ CmdUhfPower \/ CmdAddStart \/ CmdForce
  <2>1. UNCHANGED <<open, lost, ready>>
    BY <1>4, ModeChangeKeepsOpen
    DEF CmdFind, PollMqtt, CmdFindCancel, CmdUhfPower, CmdAddStart, CmdForce,
        ReturnFromFind, devVars
  <2>2. uhf_ok' = uhf_ok
    BY <1>4 DEF CmdFind, PollMqtt, CmdFindCancel, CmdUhfPower, CmdAddStart, CmdForce, okVars
  <2>3. QED
    BY <2>1, <2>2, <1>3
<1>5. CASE TickBody
  <2>1. UNCHANGED <<open, lost, ready>>
    BY <1>5, ModeChangeKeepsOpen
    DEF TickBody, BodyFault, BodyBoot, BodyAutoSleep, BodyActive, BodySleep, BodyFind,
        BodyInFault, ReturnFromFind, devVars
  <2>2. uhf_ok' = uhf_ok
    BY <1>5 DEF TickBody, okVars
  <2>3. QED
    BY <2>1, <2>2, <1>3
<1>6. QED
  BY <1>1, <1>2, <1>3, <1>4, <1>5
  DEF Next, PollLocalCmd, CmdNone, CmdAddCancel, CmdRegister, CmdDeleteBook,
      Command, TickStart, Elapse, LinkChange, vars, devVars, okVars

\* Without the commands that reload the scanner whether or not its self-check
\* failed, no descriptor is overwritten, however often the readers fail.
THEOREM NoDescriptorLost ==
  ASSUME "REGISTER" \notin Commands, "DELETE_BOOK" \notin Commands
  PROVE  Spec => []NoReaderLost
<1>1. Init => HandleInv
  BY DEF Init, HandleInv
<1>2. HandleInv => NoReaderLost
  BY DEF HandleInv, NoReaderLost
<1>3. QED
  BY <1>1, <1>2, HandleNext, PTL DEF Spec

=============================================================================
