-------------------------- MODULE UhfScannerProofs --------------------------
(***************************************************************************)
(* Proofs about UhfScanner, for every number of books, every threshold and *)
(* every size of the event array.                                          *)
(***************************************************************************)
EXTENDS UhfScanner, FiniteSetTheorems, WellFoundedInduction, TLAPS

(***************************************************************************)
(* The event array.                                                        *)
(***************************************************************************)

\* A set of books that is not empty has a first one ...
LEMMA FirstExists ==
  ASSUME NEW S \in SUBSET Books, S # {}
  PROVE  \E b \in S : \A c \in S : b <= c
<1> DEFINE R == OpToRel(<, Nat)
<1>1. IsWellFoundedOn(R, Nat)
  BY NatLessThanWellFounded
<1>2. S \subseteq Nat
  BY ScannerConstantsOK DEF Books, ScannerConstantsOK
<1>3. PICK b \in S : \A c \in S : ~(<<c, b>> \in R)
  <2> HIDE DEF R
  <2> QED
    BY <1>1, <1>2, WFMin
<1>4. \A c \in S : ~(c < b)
  BY <1>2, <1>3 DEF OpToRel
<1>5. QED
  BY <1>2, <1>4

\* ... and a last one.
LEMMA LastExists ==
  ASSUME NEW S \in SUBSET Books, S # {}
  PROVE  Last(S) \in S /\ \A c \in S : c <= Last(S)
<1> DEFINE T == {N + 1 - x : x \in S}
<1>1. N \in Nat
  BY ScannerConstantsOK DEF ScannerConstantsOK
<1>2. T \in SUBSET Books
  BY <1>1 DEF Books
<1>3. T # {}
  <2>1. PICK s \in S : TRUE
    OBVIOUS
  <2>2. N + 1 - s \in T
    BY <2>1
  <2>3. QED
    BY <2>2
<1>4. PICK t \in T : \A y \in T : t <= y
  <2> HIDE DEF T
  <2> QED
    BY <1>2, <1>3, FirstExists
<1>5. PICK b \in S : t = N + 1 - b
  BY <1>4
<1>6. \A c \in S : c <= b
  <2> SUFFICES ASSUME NEW c \in S PROVE c <= b
    OBVIOUS
  <2>1. N + 1 - b <= N + 1 - c
    BY <1>4, <1>5
  <2>2. QED
    BY <1>1, <2>1 DEF Books
<1>7. QED
  BY <1>5, <1>6 DEF Last

\* A poll reports exactly the books that it changes.
LEMMA ReportsChanges ==
  ASSUME TypeOK, NEW obs \in [Books -> Layers], PollBooks(obs), NEW b \in Books
  PROVE  Reports(b, obs[b]) <=> Changed(b)
<1>1. /\ present'[b] = NextPresent(b)
      /\ layer'[b] = IF Found(b) THEN LayerAfter(b, obs[b]) ELSE layer[b]
  BY DEF PollBooks
<1>2. present[b] \in BOOLEAN
  BY DEF TypeOK
<1>3. CASE Found(b)
  BY <1>1, <1>2, <1>3 DEF Reports, Changed, NextPresent, Gone, Back, Moved
<1>4. CASE ~Found(b)
  BY <1>1, <1>2, <1>4 DEF Reports, Changed, NextPresent, Gone, Back, Moved
<1>5. QED
  BY <1>3, <1>4

\* The books that changed before one in the order of the table are fewer than
\* its place.
LEMMA BeforeBounded ==
  ASSUME NEW b \in Books
  PROVE  /\ IsFiniteSet(ChangedBefore(b))
         /\ Cardinality(ChangedBefore(b)) \in Nat
         /\ Cardinality(ChangedBefore(b)) <= b - 1
<1>1. N \in Nat /\ b \in 1..N
  BY ScannerConstantsOK DEF ScannerConstantsOK, Books
<1>2. IsFiniteSet(1..(b - 1)) /\ Cardinality(1..(b - 1)) = b - 1
  <2>1. /\ IsFiniteSet(1..(b - 1))
        /\ Cardinality(1..(b - 1)) = IF 1 > b - 1 THEN 0 ELSE (b - 1) - 1 + 1
    BY <1>1, FS_Interval
  <2>2. QED
    BY <1>1, <2>1
<1>3. ChangedBefore(b) \in SUBSET (1..(b - 1))
  BY <1>1 DEF ChangedBefore, Books
<1>4. /\ IsFiniteSet(ChangedBefore(b))
      /\ Cardinality(ChangedBefore(b)) <= Cardinality(1..(b - 1))
  BY <1>2, <1>3, FS_Subset
<1>5. Cardinality(ChangedBefore(b)) \in Nat
  BY <1>4, FS_CardinalityType
<1>6. QED
  BY <1>2, <1>4, <1>5

\* A report is kept unless as many changes as the array holds came before it.
LEMMA KeptIffRoom ==
  ASSUME TypeOK, NEW obs \in [Books -> Layers], PollBooks(obs), NEW b \in Books,
         Changed(b)
  PROVE  b \in Kept(obs) <=> ~FindsFull(b)
<1> DEFINE S == {c \in Reporting(obs) : c <= b}
<1>1. S = ChangedBefore(b) \cup {b}
  <2>1. \A c \in Books : c \in Reporting(obs) <=> Changed(c)
    BY ReportsChanges DEF Reporting
  <2>2. Reporting(obs) \subseteq Books
    BY DEF Reporting
  <2>3. Books \subseteq Int
    BY ScannerConstantsOK DEF ScannerConstantsOK, Books
  <2>4. ASSUME NEW c \in Books
        PROVE  c \in S <=> c \in ChangedBefore(b) \cup {b}
    <3>1. c \in Int /\ b \in Int
      BY <2>3
    <3>2. c \in S <=> Changed(c) /\ c <= b
      BY <2>1
    <3>3. c \in ChangedBefore(b) <=> Changed(c) /\ c < b
      BY DEF ChangedBefore
    <3>4. c <= b <=> c < b \/ c = b
      BY <3>1
    <3>5. QED
      BY <3>2, <3>3, <3>4
  <2>5. S \subseteq Books /\ ChangedBefore(b) \cup {b} \subseteq Books
    BY <2>2 DEF ChangedBefore
  <2>6. QED
    BY <2>4, <2>5
<1>2. b \notin ChangedBefore(b)
  BY ScannerConstantsOK DEF ScannerConstantsOK, Books, ChangedBefore
<1>3. Cardinality(S) = Cardinality(ChangedBefore(b)) + 1
  <2>1. IsFiniteSet(ChangedBefore(b))
    BY BeforeBounded
  <2>2. Cardinality(ChangedBefore(b) \cup {b}) = Cardinality(ChangedBefore(b)) + 1
    BY <1>2, <2>1, FS_AddElement
  <2>3. QED
    BY <1>1, <2>2
<1>4. b \in Reporting(obs)
  BY ReportsChanges DEF Reporting
<1>5. b \in Kept(obs) <=> Cardinality(ChangedBefore(b)) + 1 <= MaxEvents
  BY <1>3, <1>4 DEF Kept
<1>6. QED
  BY <1>5, BeforeBounded, ScannerConstantsOK DEF FindsFull, ScannerConstantsOK

\* Only the last event of a full array is told the layer of another book, and
\* only if a later report found the array full.
LEMMA ForeignOnlyWhenFull ==
  ASSUME TypeOK, NEW obs \in [Books -> Layers], PollBooks(obs),
         NEW b \in Kept(obs), Expected(b, obs) # book_layer[b]
  PROVE  FillsUp(b) /\ \E c \in Books : FindsFull(c)
<1> DEFINE L == Last(Reporting(obs))
           After == {c \in Reporting(obs) : b < c}
<1>1. /\ b \in Reporting(obs) /\ Reporting(obs) \in SUBSET Books
      /\ Kept(obs) \in SUBSET Books /\ b \in Books /\ Books \subseteq Int
  BY ScannerConstantsOK DEF Kept, Reporting, Books, ScannerConstantsOK
<1>2. L \in Reporting(obs) /\ \A c \in Reporting(obs) : c <= L
  BY <1>1, LastExists
<1>3. b = Last(Kept(obs)) /\ L # b
  BY DEF Expected
<1>4. \A c \in Kept(obs) : c <= b
  BY <1>1, <1>3, LastExists
<1>5. L \in After
  <2>1. b <= L /\ L \in Int /\ b \in Int
    BY <1>1, <1>2
  <2>2. b < L
    BY <1>3, <2>1
  <2>3. QED
    BY <1>2, <2>2
<1>6. After \in SUBSET Books
  BY <1>1
<1>7. PICK n \in After : \A c \in After : n <= c
  <2> HIDE DEF After
  <2> QED
    BY <1>5, <1>6, FirstExists
<1>8. n \in Books /\ n \in Reporting(obs) /\ b < n
  BY <1>1, <1>7
<1>9. Changed(b) /\ Changed(n)
  BY <1>1, <1>8, ReportsChanges DEF Reporting
<1>10. n \notin Kept(obs)
  BY <1>1, <1>4, <1>8
<1>11. FindsFull(n) /\ ~FindsFull(b)
  BY <1>1, <1>8, <1>9, <1>10, KeptIffRoom
<1>12. ChangedBefore(n) = ChangedBefore(b) \cup {b}
  <2>1. \A c \in Books : c \in Reporting(obs) <=> Changed(c)
    BY ReportsChanges DEF Reporting
  <2>2. ASSUME NEW c \in Books, Changed(c), c < n PROVE c <= b
    BY <1>1, <1>7, <1>8, <2>1, <2>2
  <2>3. ASSUME NEW c \in Books
        PROVE  c \in ChangedBefore(n) <=> c \in ChangedBefore(b) \cup {b}
    <3>1. c \in Int /\ b \in Int /\ n \in Int
      BY <1>1, <1>8
    <3>2. /\ c \in ChangedBefore(b) <=> Changed(c) /\ c < b
          /\ c \in ChangedBefore(n) <=> Changed(c) /\ c < n
      BY DEF ChangedBefore
    <3>3. Changed(c) => (c < n <=> c < b \/ c = b)
      BY <1>8, <2>2, <3>1
    <3>4. QED
      BY <1>9, <3>2, <3>3
  <2>4. /\ ChangedBefore(n) \subseteq Books
        /\ ChangedBefore(b) \cup {b} \subseteq Books
    BY <1>1 DEF ChangedBefore
  <2>5. QED
    BY <2>3, <2>4
<1>13. b \notin ChangedBefore(b)
  BY <1>1 DEF ChangedBefore
<1>14. Cardinality(ChangedBefore(n)) = Cardinality(ChangedBefore(b)) + 1
  <2>1. IsFiniteSet(ChangedBefore(b))
    BY <1>1, BeforeBounded
  <2>2. QED
    BY <1>12, <1>13, <2>1, FS_AddElement
<1>15. Cardinality(ChangedBefore(b)) = MaxEvents - 1
  <2>1. Cardinality(ChangedBefore(b)) \in Nat /\ MaxEvents \in Nat
    BY <1>1, BeforeBounded, ScannerConstantsOK DEF ScannerConstantsOK
  <2>2. Cardinality(ChangedBefore(n)) >= MaxEvents
    BY <1>11 DEF FindsFull
  <2>3. ~(Cardinality(ChangedBefore(b)) >= MaxEvents)
    BY <1>9, <1>11 DEF FindsFull
  <2>4. QED
    BY <1>14, <2>1, <2>2, <2>3
<1>16. QED
  BY <1>8, <1>9, <1>11, <1>15 DEF FillsUp

\* The layer that an event calls the registered one is a layer.
LEMMA EventType ==
  ASSUME TypeOK, NEW obs \in [Books -> Layers], NEW b \in Kept(obs)
  PROVE  Event(b, obs) \in [book : Books, type : EventTypes, layer : Layers,
                            expected : Layers]
<1>1. b \in Reporting(obs) /\ b \in Books
  BY DEF Kept, Reporting
<1>2. Reporting(obs) \in SUBSET Books
  BY DEF Reporting
<1>3. Last(Reporting(obs)) \in Books
  BY <1>1, <1>2, LastExists
<1>4. Expected(b, obs) \in Layers
  BY <1>1, <1>3, ScannerConstantsOK DEF Expected, ScannerConstantsOK
<1>5. LayerAfter(b, obs[b]) \in Layers
  BY <1>1 DEF LayerAfter, TypeOK
<1>6. book_layer[b] \in Layers
  BY <1>1, ScannerConstantsOK DEF ScannerConstantsOK
<1>7. QED
  BY <1>1, <1>4, <1>5, <1>6 DEF Event, EventTypes

(***************************************************************************)
(* Types.                                                                  *)
(***************************************************************************)

LEMMA LeastType ==
  ASSUME NEW a \in Nat, NEW b \in Nat
  PROVE  Least(a, b) \in 0..b
BY DEF Least

\* scanner_poll keeps the types of what it remembers of each book.
LEMMA PollBooksType ==
  ASSUME TypeOK, NEW obs \in [Books -> Layers], PollBooks(obs)
  PROVE  /\ present' \in [Books -> BOOLEAN]
         /\ layer' \in [Books -> Layers]
         /\ seen' \in [Books -> 0..(ReturnConfirm - 1)]
         /\ miss' \in [Books -> 0..(MissingConfirm - 1)]
         /\ cand' \in [Books -> Layers]
         /\ streak' \in [Books -> 0..LayerConfirm]
         /\ reported' \in [Books -> 0..HoldOff]
<1> USE ScannerConstantsOK DEF ScannerConstantsOK
<1>1. present' \in [Books -> BOOLEAN]
  <2>1. \A b \in Books : NextPresent(b) \in BOOLEAN
    BY DEF NextPresent, Gone, Back, TypeOK
  <2>2. QED
    BY <2>1 DEF PollBooks
<1>2. layer' \in [Books -> Layers]
  BY DEF PollBooks, LayerAfter, TypeOK
<1>3. seen' \in [Books -> 0..(ReturnConfirm - 1)]
  <2>1. ASSUME NEW b \in Books PROVE NextSeen(b) \in 0..(ReturnConfirm - 1)
    BY DEF NextSeen, Back, SeenAfter, TypeOK
  <2>2. QED
    BY <2>1 DEF PollBooks
<1>4. miss' \in [Books -> 0..(MissingConfirm - 1)]
  <2>1. ASSUME NEW b \in Books PROVE NextMiss(b) \in 0..(MissingConfirm - 1)
    BY DEF NextMiss, Gone, TypeOK
  <2>2. QED
    BY <2>1 DEF PollBooks
<1>5. cand' \in [Books -> Layers]
  BY DEF PollBooks, TypeOK
<1>6. streak' \in [Books -> 0..LayerConfirm]
  <2>1. ASSUME NEW b \in Books PROVE Streak(b, obs[b]) \in 0..LayerConfirm
    <3>1. streak[b] + 1 \in Nat
      BY DEF TypeOK
    <3>2. Least(streak[b] + 1, LayerConfirm) \in 0..LayerConfirm
      BY <3>1, LeastType
    <3>3. QED
      BY <3>2 DEF Streak
  <2>2. QED
    BY <2>1 DEF PollBooks, TypeOK
<1>7. reported' \in [Books -> 0..HoldOff]
  BY DEF PollBooks, NextReported, TypeOK
<1>8. QED
  BY <1>1, <1>2, <1>3, <1>4, <1>5, <1>6, <1>7

\* The search for unknown tags keeps the types.
LEMMA PollUnknownType ==
  ASSUME TypeOK, NEW near \in SUBSET Tags, PollUnknown(near)
  PROVE  /\ detect_unknown' \in BOOLEAN
         /\ table' \in SUBSET Tags
         /\ heard' \in [Tags -> 0..Forget]
<1> USE ScannerConstantsOK DEF ScannerConstantsOK
<1>1. ASSUME NEW S \in SUBSET Tags, Hear(S)
      PROVE  table' \in SUBSET Tags /\ heard' \in [Tags -> 0..Forget]
  BY <1>1 DEF Hear, TypeOK
<1>2. CASE ~detect_unknown
  BY <1>2 DEF PollUnknown, unknownVars, TypeOK
<1>3. CASE detect_unknown
  <2>1. detect_unknown' \in BOOLEAN
    BY <1>3 DEF PollUnknown, TypeOK
  <2>2. \E S \in SUBSET Tags : Hear(S)
    <3>1. CASE Hear(near)
      BY <3>1
    <3>2. CASE \E t \in near : \E before \in SUBSET {u \in near : Recent(u)} :
                 Hear(before \cup {t})
      BY <3>2
    <3>3. QED
      BY <1>3, <3>1, <3>2 DEF PollUnknown
  <2>3. QED
    BY <1>1, <2>1, <2>2
<1>4. QED
  BY <1>2, <1>3

\* The consumer's view and the history keep their types.
LEMMA ConsumeType ==
  ASSUME TypeOK, NEW obs \in [Books -> Layers], Consume(obs), Remember(obs)
  PROVE  /\ view' \in [Books -> [present : BOOLEAN, layer : Layers, home : Layers]]
         /\ quiet' \in [Books -> 0..MissingConfirm]
         /\ reads' \in [Books -> 0..ReturnConfirm]
         /\ spoke' \in [Books -> Layers]
         /\ agree' \in [Books -> 0..LayerConfirm]
<1> USE ScannerConstantsOK DEF ScannerConstantsOK
<1>2. view' \in [Books -> [present : BOOLEAN, layer : Layers, home : Layers]]
  <2>1. ASSUME NEW b \in Books, Told(b, obs) # {}
        PROVE  /\ (CHOOSE e \in Told(b, obs) : TRUE).layer \in Layers
               /\ (CHOOSE e \in Told(b, obs) : TRUE).expected \in Layers
    <3>1. (CHOOSE e \in Told(b, obs) : TRUE) \in Told(b, obs)
      BY <2>1
    <3>2. QED
      BY <3>1, EventType DEF Told, Events
  <2>2. QED
    BY <2>1 DEF Consume, TypeOK
<1>3. quiet' \in [Books -> 0..MissingConfirm]
  BY LeastType DEF Remember, TypeOK
<1>4. reads' \in [Books -> 0..ReturnConfirm]
  BY LeastType DEF Remember, TypeOK
<1>5. spoke' \in [Books -> Layers]
  BY DEF Remember, TypeOK
<1>6. agree' \in [Books -> 0..LayerConfirm]
  BY LeastType DEF Remember, TypeOK
<1>7. QED
  BY <1>2, <1>3, <1>4, <1>5, <1>6

LEMMA TypeInit == Init => TypeOK
<1> SUFFICES ASSUME Init PROVE TypeOK
  OBVIOUS
<1> USE ScannerConstantsOK DEF ScannerConstantsOK, Init
<1>1. view \in [Books -> [present : BOOLEAN, layer : Layers, home : Layers]]
  OBVIOUS
<1>2. spoke \in [Books -> Layers] /\ cand \in [Books -> Layers]
  BY DEF Layers
<1>3. /\ reported \in [Books -> 0..HoldOff]
      /\ readAge \in [Books -> 0..(Fresh + 1)]
      /\ heard \in [Tags -> 0..Forget]
  OBVIOUS
<1>4. /\ seen \in [Books -> 0..(ReturnConfirm - 1)]
      /\ miss \in [Books -> 0..(MissingConfirm - 1)]
      /\ streak \in [Books -> 0..LayerConfirm]
  OBVIOUS
<1>5. /\ quiet \in [Books -> 0..MissingConfirm]
      /\ reads \in [Books -> 0..ReturnConfirm]
      /\ agree \in [Books -> 0..LayerConfirm]
  OBVIOUS
<1>6. QED
  BY <1>1, <1>2, <1>3, <1>4, <1>5 DEF TypeOK

LEMMA TypeStep == TypeOK /\ [Next]_vars => TypeOK'
<1> SUFFICES ASSUME TypeOK, [Next]_vars PROVE TypeOK'
  OBVIOUS
<1> USE ScannerConstantsOK DEF ScannerConstantsOK
<1>1. CASE Poll
  <2>1. readAge' \in [Books -> 0..(Fresh + 1)]
    BY <1>1 DEF Poll, TypeOK
  <2>2. PICK obs \in [Books -> Layers] :
          PollBooks(obs) /\ Consume(obs) /\ Remember(obs) /\ RememberLoss
    BY <1>1 DEF Poll
  <2>3. PICK near \in SUBSET Tags : PollUnknown(near)
    BY <1>1 DEF Poll
  <2>4. unheard' \in SUBSET Books /\ mixed' \in SUBSET Books
    BY <2>2 DEF RememberLoss
  <2>5. QED
    BY <2>1, <2>2, <2>3, <2>4, PollBooksType, PollUnknownType, ConsumeType
       DEF TypeOK
<1>2. CASE AskUnknown
  BY <1>2 DEF AskUnknown, TypeOK, streakVars, historyVars
<1>4. CASE Second
  <2>1. reported' \in [Books -> 0..HoldOff]
    BY <1>4, LeastType DEF Second, TypeOK
  <2>2. readAge' \in [Books -> 0..(Fresh + 1)]
    <3>1. \A b \in Books : readAge[b] + 1 \in Nat
      BY DEF TypeOK
    <3>2. \A b \in Books :
            Least(readAge[b] + 1, Fresh + 1) \in 0..(Fresh + 1)
      BY <3>1, LeastType
    <3>3. QED
      BY <1>4, <3>2 DEF Second
  <2>3. heard' \in [Tags -> 0..Forget]
    BY <1>4, LeastType DEF Second, TypeOK
  <2>4. QED
    BY <1>4, <2>1, <2>2, <2>3 DEF Second, TypeOK, historyVars
<1>5. CASE UNCHANGED vars
  BY <1>5 DEF TypeOK, vars, streakVars, historyVars, unknownVars
<1>6. QED
  BY <1>1, <1>2, <1>4, <1>5 DEF Next

\* The state of the scanner stays within its types: no streak outgrows the
\* threshold that it is compared with.
THEOREM TypeCorrect == Spec => []TypeOK
<1>1. QED
  BY TypeInit, TypeStep, PTL DEF Spec

(***************************************************************************)
(* The view of the consumer.                                               *)
(***************************************************************************)

\* What one poll tells about a book is what has become of it; what it does not
\* tell, and where it mixes up two books, is remembered.
LEMMA PollView ==
  ASSUME TypeOK, ViewInSync, NEW obs \in [Books -> Layers], PollBooks(obs),
         Consume(obs), RememberLoss
  PROVE  ViewInSync'
<1> SUFFICES ASSUME NEW b \in Books
             PROVE  /\ b \notin unheard' => view'[b].present = present'[b]
                    /\ b \notin unheard' /\ present'[b] => view'[b].layer = layer'[b]
                    /\ b \notin mixed' => view'[b].home = book_layer[b]
                    /\ b <= MaxEvents => b \notin unheard'
                    /\ b < MaxEvents => b \notin mixed'
  BY DEF ViewInSync
<1> USE DEF Layers
<1>1. /\ present'[b] = NextPresent(b)
      /\ layer'[b] = IF Found(b) THEN LayerAfter(b, obs[b]) ELSE layer[b]
  BY DEF PollBooks
<1>2. /\ b \notin unheard => view[b].present = present[b]
      /\ b \notin unheard /\ present[b] => view[b].layer = layer[b]
      /\ b \notin mixed => view[b].home = book_layer[b]
      /\ b <= MaxEvents => b \notin unheard
      /\ b < MaxEvents => b \notin mixed
  BY DEF ViewInSync
<1>3. present[b] \in BOOLEAN
  BY DEF TypeOK
<1>4. /\ b \in unheard' <=> IF Changed(b) THEN FindsFull(b) ELSE b \in unheard
      /\ b \in mixed' <=> IF Changed(b) /\ ~FindsFull(b)
                            THEN FillsUp(b) /\ \E c \in Books : FindsFull(c)
                            ELSE b \in mixed
  BY DEF RememberLoss
<1>5. \A c : Event(c, obs).book = c
  BY DEF Event
<1>6. /\ b <= MaxEvents => ~FindsFull(b)
      /\ b < MaxEvents => ~FillsUp(b)
  <2>1. b \in Int /\ MaxEvents \in Int
    BY ScannerConstantsOK DEF ScannerConstantsOK, Books
  <2>2. QED
    BY <2>1, BeforeBounded DEF FindsFull, FillsUp
<1>7. b \in Kept(obs) <=> Changed(b) /\ ~FindsFull(b)
  <2>1. b \in Kept(obs) => Changed(b)
    BY ReportsChanges DEF Kept, Reporting
  <2>2. QED
    BY <2>1, KeptIffRoom
<1>8. CASE b \in Kept(obs)
  <2>1. Told(b, obs) = {Event(b, obs)}
    BY <1>5, <1>8 DEF Told, Events
  <2>2. (CHOOSE e \in Told(b, obs) : TRUE) = Event(b, obs)
    BY <2>1
  <2>3. view'[b] = [present |-> Event(b, obs).type = "RETURNED",
                    layer |-> Event(b, obs).layer,
                    home |-> Event(b, obs).expected]
    BY <2>1, <2>2 DEF Consume
  <2>4. b \notin mixed' => view'[b].home = book_layer[b]
    <3>1. view'[b].home = Expected(b, obs)
      BY <2>3 DEF Event
    <3>2. QED
      BY <1>4, <1>7, <1>8, <3>1, ForeignOnlyWhenFull
  <2>5. CASE Gone(b)
    <3>1. Event(b, obs).type # "RETURNED"
      BY <2>5 DEF Event
    <3>2. ~present'[b]
      BY <1>1, <2>5 DEF NextPresent
    <3>3. view'[b].present = FALSE
      <4>1. (Event(b, obs).type = "RETURNED") = FALSE
        BY <3>1
      <4>2. view'[b] = [present |-> FALSE, layer |-> Event(b, obs).layer,
                        home |-> Event(b, obs).expected]
        BY <2>3, <4>1, Zenon
      <4>3. QED
        BY <4>2
    <3>4. present'[b] = FALSE
      BY <1>1, <2>5 DEF NextPresent
    <3>5. QED
      BY <1>2, <1>4, <1>6, <1>7, <1>8, <2>4, <3>3, <3>4
  <2>6. CASE ~Gone(b)
    <3>1. Back(b) \/ Moved(b, obs[b])
      BY <1>8, <2>6 DEF Reports, Kept, Reporting
    <3>2. Found(b)
      BY <3>1 DEF Back, Moved
    <3>3. present'[b] = TRUE
      BY <1>1, <1>3, <2>6, <3>1 DEF NextPresent, Moved
    <3>4. /\ Event(b, obs).type = "RETURNED"
          /\ Event(b, obs).layer = LayerAfter(b, obs[b])
      BY <2>6 DEF Event
    <3>5. view'[b].present = TRUE
      <4>1. (Event(b, obs).type = "RETURNED") = TRUE
        BY <3>4
      <4>2. view'[b] = [present |-> TRUE, layer |-> Event(b, obs).layer,
                        home |-> Event(b, obs).expected]
        BY <2>3, <4>1, Zenon
      <4>3. QED
        BY <4>2
    <3>6. view'[b].layer = layer'[b]
      BY <1>1, <2>3, <3>2, <3>4
    <3>7. QED
      BY <1>2, <1>4, <1>6, <1>7, <1>8, <2>4, <3>3, <3>5, <3>6
  <2>7. QED
    BY <2>5, <2>6
<1>9. CASE b \notin Kept(obs)
  <2>1. Told(b, obs) = {}
    BY <1>5, <1>9 DEF Told, Events
  <2>2. view'[b] = view[b]
    BY <2>1 DEF Consume
  <2>3. ~Changed(b) => present'[b] = present[b] /\ (present[b] => layer'[b] = layer[b])
    BY DEF Changed
  <2>4. Changed(b) => FindsFull(b)
    BY <1>7, <1>9
  <2>5. QED
    BY <1>2, <1>4, <1>6, <2>2, <2>3, <2>4
<1>10. QED
  BY <1>8, <1>9

\* For any number of books and any size of the event array, a consumer that only
\* follows the events of the scanner knows which books are there, on which layer
\* and where they belong, except for what the events that found the array full
\* would have told it; the first books of the table never lose one.
THEOREM ViewIsConsistent == Spec => []ViewConsistent
<1>1. Init => ViewInSync
  BY DEF Init, ViewInSync
<1>2. TypeOK /\ ViewInSync /\ [Next]_vars => ViewInSync'
  <2> SUFFICES ASSUME TypeOK, ViewInSync, [Next]_vars PROVE ViewInSync'
    OBVIOUS
  <2>1. CASE Poll
    BY <2>1, PollView DEF Poll
  <2>2. CASE UNCHANGED <<present, layer, view, unheard, mixed>>
    BY <2>2 DEF ViewInSync
  <2>3. QED
    BY <2>1, <2>2 DEF Next, AskUnknown, Second, vars, historyVars
<1>3. QED
  BY <1>1, <1>2, TypeCorrect, PTL DEF Spec, ViewConsistent

(***************************************************************************)
(* The streaks: each is covered by what the antennas really read.          *)
(***************************************************************************)

\* A streak never claims more polls in a row than there were.
StreaksCovered ==
  \A b \in Books : /\ miss[b] <= quiet[b]
                   /\ seen[b] <= reads[b]
                   /\ streak[b] > 0 => cand[b] = spoke[b] /\ streak[b] <= agree[b]

\* A poll keeps the streaks covered, and what it changes is justified by the
\* polls that came before.
LEMMA PollStreaks ==
  ASSUME TypeOK, StreaksCovered, NEW obs \in [Books -> Layers], PollBooks(obs),
         Remember(obs), NEW b \in Books
  PROVE  /\ miss'[b] <= quiet'[b]
         /\ seen'[b] <= reads'[b]
         /\ streak'[b] > 0 => cand'[b] = spoke'[b] /\ streak'[b] <= agree'[b]
         /\ present[b] /\ ~present'[b] => quiet'[b] >= MissingConfirm
         /\ ~present[b] /\ present'[b]
              => reads'[b] >= ReturnConfirm /\ reported[b] >= HoldOff
         /\ layer'[b] # layer[b]
              => spoke'[b] = layer'[b] /\ agree'[b] >= LayerConfirm
<1> USE ScannerConstantsOK DEF ScannerConstantsOK
<1>1. /\ miss[b] \in 0..(MissingConfirm - 1) /\ quiet[b] \in 0..MissingConfirm
      /\ seen[b] \in 0..(ReturnConfirm - 1) /\ reads[b] \in 0..ReturnConfirm
      /\ streak[b] \in 0..LayerConfirm /\ agree[b] \in 0..LayerConfirm
      /\ reported[b] \in 0..HoldOff /\ present[b] \in BOOLEAN
  BY DEF TypeOK
<1>2. /\ miss[b] <= quiet[b]
      /\ seen[b] <= reads[b]
      /\ streak[b] > 0 => cand[b] = spoke[b] /\ streak[b] <= agree[b]
  BY DEF StreaksCovered
<1>3. /\ miss'[b] = NextMiss(b)
      /\ seen'[b] = NextSeen(b)
      /\ present'[b] = NextPresent(b)
  BY DEF PollBooks
<1>4. CASE Found(b)
  <2>1. /\ quiet'[b] = 0
        /\ reads'[b] = Least(reads[b] + 1, ReturnConfirm)
        /\ spoke'[b] = obs[b]
        /\ agree'[b] = IF obs[b] = spoke[b] THEN Least(agree[b] + 1, LayerConfirm)
                       ELSE 1
    BY <1>4 DEF Remember
  <2>2. /\ cand'[b] = obs[b]
        /\ streak'[b] = Streak(b, obs[b])
        /\ layer'[b] = LayerAfter(b, obs[b])
    BY <1>4 DEF PollBooks
  <2>3. miss'[b] = 0
    BY <1>3, <1>4 DEF NextMiss
  <2>4. ~Gone(b)
    BY <1>4 DEF Gone
  <2>5. Streak(b, obs[b]) <= agree'[b]
    BY <1>1, <1>2, <2>1 DEF Streak, Least
  <2>6. seen'[b] <= reads'[b]
    BY <1>1, <1>2, <1>3, <1>4, <2>1 DEF NextSeen, SeenAfter, Least
  <2>7. Back(b) => reads'[b] >= ReturnConfirm /\ reported[b] >= HoldOff
    BY <1>1, <1>2, <2>1 DEF Back, SeenAfter, Least
  <2>8. ~present[b] /\ present'[b] => Back(b)
    BY <1>3 DEF NextPresent
  <2>9. present[b] => present'[b]
    BY <1>3, <2>4 DEF NextPresent
  <2>10. layer'[b] # layer[b]
           => spoke'[b] = layer'[b] /\ agree'[b] >= LayerConfirm
    <3> SUFFICES ASSUME layer'[b] # layer[b]
                 PROVE  spoke'[b] = layer'[b] /\ agree'[b] >= LayerConfirm
      OBVIOUS
    <3>1. Streak(b, obs[b]) >= LayerConfirm /\ layer'[b] = obs[b]
      BY <2>2 DEF LayerAfter
    <3>2. agree'[b] \in Nat /\ Streak(b, obs[b]) \in Nat
      BY <1>1, <2>1 DEF Streak, Least
    <3>3. QED
      BY <2>1, <2>5, <3>1, <3>2
  <2>11. QED
    BY <2>1, <2>2, <2>3, <2>5, <2>6, <2>7, <2>8, <2>9, <2>10
<1>5. CASE ~Found(b)
  <2>1. /\ quiet'[b] = Least(quiet[b] + 1, MissingConfirm)
        /\ reads'[b] = 0
        /\ spoke'[b] = spoke[b]
        /\ agree'[b] = agree[b]
    BY <1>5 DEF Remember
  <2>2. seen'[b] = 0
    BY <1>3, <1>5 DEF NextSeen
  <2>3. ~Back(b)
    BY <1>5 DEF Back
  <2>4. miss'[b] <= quiet'[b]
    BY <1>1, <1>2, <1>3, <1>5, <2>1 DEF NextMiss, Least
  <2>5. streak'[b] > 0 => cand'[b] = spoke'[b] /\ streak'[b] <= agree'[b]
    BY <1>2, <1>5, <2>1 DEF PollBooks
  <2>6. Gone(b) => quiet'[b] >= MissingConfirm
    BY <1>1, <1>2, <2>1 DEF Gone, Least
  <2>7. present[b] /\ ~present'[b] => Gone(b)
    BY <1>3 DEF NextPresent
  <2>8. ~present[b] => ~present'[b]
    BY <1>3, <2>3 DEF NextPresent
  <2>9. layer'[b] = layer[b]
    BY <1>5 DEF PollBooks
  <2>10. QED
    BY <2>1, <2>2, <2>4, <2>5, <2>6, <2>7, <2>8, <2>9
<1>6. QED
  BY <1>4, <1>5

LEMMA StreaksStep == TypeOK /\ StreaksCovered /\ [Next]_vars => StreaksCovered'
<1> SUFFICES ASSUME TypeOK, StreaksCovered, [Next]_vars PROVE StreaksCovered'
  OBVIOUS
<1>1. CASE Poll
  BY <1>1, PollStreaks DEF Poll, StreaksCovered
<1>2. CASE UNCHANGED <<miss, seen, cand, streak, historyVars>>
  BY <1>2 DEF StreaksCovered, historyVars
<1>3. QED
  BY <1>1, <1>2 DEF Next, AskUnknown, Second, vars, streakVars

LEMMA StreaksAlways == Spec => []StreaksCovered
<1>1. Init => StreaksCovered
  BY DEF Init, StreaksCovered
<1>2. QED
  BY <1>1, StreaksStep, TypeCorrect, PTL DEF Spec

\* A book is reported missing only after missing_confirm polls in a row
\* without a fresh read.
THEOREM SilenceBeforeMissing == Spec => MissingNeedsSilence
<1>1. TypeOK /\ StreaksCovered /\ [Next]_vars
        => [\A b \in Books : present[b] /\ ~present'[b]
              => quiet'[b] >= MissingConfirm]_vars
  BY PollStreaks DEF Next, Poll, AskUnknown, Second, vars
<1>2. QED
  BY <1>1, TypeCorrect, StreaksAlways, PTL DEF Spec, MissingNeedsSilence

\* A book is reported back only after return_confirm polls in a row that read
\* it, and never within the hold-off of its last report.
THEOREM ReadsBeforeReturn == Spec => ReturnNeedsReads
<1>1. TypeOK /\ StreaksCovered /\ [Next]_vars
        => [\A b \in Books : ~present[b] /\ present'[b]
              => reads'[b] >= ReturnConfirm /\ reported[b] >= HoldOff]_vars
  BY PollStreaks DEF Next, Poll, AskUnknown, Second, vars
<1>2. QED
  BY <1>1, TypeCorrect, StreaksAlways, PTL DEF Spec, ReturnNeedsReads

\* The layer of a book changes only after layer_change_confirm reads in a row
\* that spoke for the new one.
THEOREM AgreementBeforeMove == Spec => LayerNeedsAgreement
<1>1. TypeOK /\ StreaksCovered /\ [Next]_vars
        => [\A b \in Books : layer'[b] # layer[b]
              => spoke'[b] = layer'[b] /\ agree'[b] >= LayerConfirm]_vars
  BY PollStreaks DEF Next, Poll, AskUnknown, Second, vars
<1>2. QED
  BY <1>1, TypeCorrect, StreaksAlways, PTL DEF Spec, LayerNeedsAgreement

\* No event is made by fewer polls than the parameters ask for.
THEOREM EventsAreConfirmed == Spec => EventsConfirmed
BY SilenceBeforeMissing, ReadsBeforeReturn, AgreementBeforeMove DEF EventsConfirmed

(***************************************************************************)
(* The other half of the filter: nothing makes the scanner miss a silence. *)
(***************************************************************************)

\* Of a book that is present no poll without a read has gone uncounted.
SilenceCounted == \A b \in Books : present[b] => quiet[b] <= miss[b]

\* A book that is present was read in one of the last missing_confirm polls.
PresentIsHeard == \A b \in Books : present[b] => quiet[b] < MissingConfirm

LEMMA SilenceStep == TypeOK /\ SilenceCounted /\ [Next]_vars => SilenceCounted'
<1> SUFFICES ASSUME TypeOK, SilenceCounted, [Next]_vars PROVE SilenceCounted'
  OBVIOUS
<1>1. CASE Poll
  <2> SUFFICES ASSUME NEW b \in Books, present'[b] PROVE quiet'[b] <= miss'[b]
    BY DEF SilenceCounted
  <2>1. PICK obs \in [Books -> Layers] : PollBooks(obs) /\ Remember(obs)
    BY <1>1 DEF Poll
  <2>2. /\ miss'[b] = NextMiss(b)
        /\ (present[b] \/ Back(b)) /\ ~Gone(b)
        /\ quiet'[b] = IF Found(b) THEN 0 ELSE Least(quiet[b] + 1, MissingConfirm)
    BY <2>1 DEF PollBooks, NextPresent, Remember
  <2>3. CASE Found(b)
    BY <2>2, <2>3 DEF NextMiss
  <2>4. CASE ~Found(b)
    <3>1. present[b] /\ miss'[b] = miss[b] + 1
      BY <2>2, <2>4 DEF Back, NextMiss
    <3>2. quiet[b] <= miss[b] /\ quiet[b] \in Nat /\ miss[b] \in Nat
      BY <3>1 DEF SilenceCounted, TypeOK
    <3>3. MissingConfirm \in Nat
      BY ScannerConstantsOK DEF ScannerConstantsOK
    <3>4. QED
      BY <2>2, <2>4, <3>1, <3>2, <3>3 DEF Least
  <2>5. QED
    BY <2>3, <2>4
<1>2. CASE UNCHANGED <<present, quiet, miss>>
  BY <1>2 DEF SilenceCounted
<1>3. QED
  BY <1>1, <1>2 DEF Next, AskUnknown, Second, vars, streakVars, historyVars

\* A book whose tag has not been read for missing_confirm polls in a row is not
\* taken to be present, whatever was read and reported before.
THEOREM SilenceIsNoticed == Spec => []PresentIsHeard
<1>1. Init => SilenceCounted
  BY DEF Init, SilenceCounted
<1>2. TypeOK /\ SilenceCounted => PresentIsHeard
  BY ScannerConstantsOK DEF TypeOK, SilenceCounted, PresentIsHeard, ScannerConstantsOK
<1>3. QED
  BY <1>1, <1>2, SilenceStep, TypeCorrect, PTL DEF Spec

=============================================================================
