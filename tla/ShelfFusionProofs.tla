------------------------- MODULE ShelfFusionProofs -------------------------
(***************************************************************************)
(* Proofs about ShelfFusion, for every set of books and boards and for     *)
(* every threshold.                                                        *)
(***************************************************************************)
EXTENDS ShelfFusion, TLAPS

(***************************************************************************)
(* One book: what every outcome has in common.                             *)
(***************************************************************************)

BookType == [shelf : Rows, present : BOOLEAN, actual : Layers,
             missing : {NotMissing} \cup 0..Stale]

\* The record has what the scanner has, or a layer change is pending.
Follows(k, p) ==
  k.present => k.shelf.present /\ (k.shelf.layer = k.actual \/ p = k.actual)

\* What a step may make of a book.
Fine(b, k) ==
  /\ k \in BookType
  /\ shelf[b].present /\ ~k.shelf.present => ~present[b]
  /\ ~shelf[b].present /\ k.shelf.present => k.present
  /\ k.shelf.layer # shelf[b].layer /\ k.shelf.present => k.actual = k.shelf.layer
  /\ Follows(Kept(b), pending[b]) => Follows(k, pending[b])
  /\ k.missing \in {missing[b], NotMissing} \/ (k.missing = 0 /\ ~k.present)

LEMMA BookTypes ==
  ASSUME TypeOK, NEW b \in Books
  PROVE  /\ shelf[b] \in Rows /\ shelf[b].layer \in Layers /\ shelf[b].present \in BOOLEAN
         /\ before[b].layer \in Layers
         /\ actual[b] \in Layers /\ present[b] \in BOOLEAN
         /\ missing[b] \in {NotMissing} \cup 0..Stale
BY DEF TypeOK, Rows

LEMMA KeptFine ==
  ASSUME TypeOK, NEW b \in Books
  PROVE  Fine(b, Kept(b))
BY BookTypes DEF Fine, Kept, Book, BookType

LEMMA RemovedFine ==
  ASSUME TypeOK, NEW b \in Books, ~present[b]
  PROVE  Fine(b, Removed(b))
BY BookTypes, FusionConstantsOK
   DEF FusionConstantsOK, Fine, Follows, Removed, Book, Off, BookType, Rows

LEMMA RestoredFine ==
  ASSUME TypeOK, NEW b \in Books
  PROVE  Fine(b, Restored(b))
BY BookTypes DEF Fine, Follows, Restored, Book, On, BookType, Rows

LEMMA InsertedFine ==
  ASSUME TypeOK, NEW b \in Books, NEW target \in Layers
  PROVE  Fine(b, Inserted(b, target)) /\ Fine(b, Beside(b, target))
BY BookTypes, KeptFine DEF Fine, Follows, Inserted, Beside, Book, On, BookType, Rows

LEMMA ReplacedFine ==
  ASSUME TypeOK, NEW b \in Books, ~present[b]
  PROVE  Fine(b, Replaced(b))
BY BookTypes DEF Fine, Follows, Replaced, Book, Off, BookType, Rows

LEMMA RelayeredFine ==
  ASSUME TypeOK, NEW b \in Books, present[b]
  PROVE  Fine(b, Relayered(b))
BY BookTypes DEF Fine, Follows, Relayered, Book, On, BookType, Rows

LEMMA MissedFine ==
  ASSUME TypeOK, NEW b \in Books, ~present[b]
  PROVE  Fine(b, Missed(b))
BY BookTypes, FusionConstantsOK
   DEF FusionConstantsOK, Fine, Follows, Missed, MissingSince, Book, Kept, BookType

LEMMA AfterReturnFine ==
  ASSUME TypeOK, NEW b \in Books, present[b]
  PROVE  Fine(b, AfterReturn(b))
BY BookTypes DEF Fine, Follows, AfterReturn, Book, Kept, On, BookType, Rows

\* What a step does to all books.
FineStep ==
  /\ shelf' \in [Books -> Rows]
  /\ present' \in [Books -> BOOLEAN]
  /\ actual' \in [Books -> Layers]
  /\ missing' \in [Books -> {NotMissing} \cup 0..Stale]
  /\ \A b \in Books :
       /\ shelf[b].present /\ ~shelf'[b].present => ~present[b]
       /\ ~shelf[b].present /\ shelf'[b].present => present'[b]
       /\ shelf'[b].layer # shelf[b].layer /\ shelf'[b].present
            => actual'[b] = shelf'[b].layer
       /\ Follows(Kept(b), pending[b]) => Follows(Kept(b)', pending[b])
       /\ missing'[b] \in {missing[b], NotMissing} \/ (missing'[b] = 0 /\ ~present'[b])

LEMMA SetFine ==
  ASSUME NEW new, SetBooks(new), \A b \in Books : Fine(b, new[b])
  PROVE  FineStep
<1>1. \A b \in Books : /\ new[b].shelf \in Rows /\ new[b].present \in BOOLEAN
                       /\ new[b].actual \in Layers
                       /\ new[b].missing \in {NotMissing} \cup 0..Stale
  BY DEF Fine, BookType
<1>2. /\ shelf' \in [Books -> Rows]
      /\ present' \in [Books -> BOOLEAN]
      /\ actual' \in [Books -> Layers]
      /\ missing' \in [Books -> {NotMissing} \cup 0..Stale]
  BY <1>1 DEF SetBooks
<1>3. ASSUME NEW b \in Books
      PROVE  /\ shelf'[b] = new[b].shelf /\ present'[b] = new[b].present
             /\ actual'[b] = new[b].actual /\ missing'[b] = new[b].missing
  BY DEF SetBooks
<1>4. ASSUME NEW b \in Books, Follows(new[b], pending[b])
      PROVE  Follows(Kept(b)', pending[b])
  BY <1>3, <1>4 DEF Follows, Kept, Book
<1>5. ASSUME NEW b \in Books
      PROVE  /\ shelf[b].present /\ ~shelf'[b].present => ~present[b]
             /\ ~shelf[b].present /\ shelf'[b].present => present'[b]
             /\ shelf'[b].layer # shelf[b].layer /\ shelf'[b].present
                  => actual'[b] = shelf'[b].layer
             /\ missing'[b] \in {missing[b], NotMissing} \/ (missing'[b] = 0 /\ ~present'[b])
  <2>1. Fine(b, new[b])
    OBVIOUS
  <2>2. QED
    BY <1>3, <2>1 DEF Fine
<1>6. ASSUME NEW b \in Books, Follows(Kept(b), pending[b])
      PROVE  Follows(Kept(b)', pending[b])
  BY <1>4, <1>6 DEF Fine
<1>7. QED
  BY <1>2, <1>5, <1>6 DEF FineStep

LEMMA SameFine ==
  ASSUME TypeOK, UNCHANGED bookVars
  PROVE  FineStep
<1>1. SetBooks([b \in Books |-> Kept(b)])
  BY DEF SetBooks, Kept, Book, bookVars, TypeOK
<1>2. \A b \in Books : Fine(b, [c \in Books |-> Kept(c)][b])
  BY KeptFine
<1>3. QED
  BY <1>1, <1>2, SetFine

(***************************************************************************)
(* The handlers that write the record.                                     *)
(***************************************************************************)

LEMMA TargetType ==
  ASSUME NEW d \in ChangedBoards, TypeOK, NEW l \in Layers
  PROVE  TargetLayer(d, l) \in Layers
BY FusionConstantsOK DEF FusionConstantsOK, TargetLayer, ChangedBoards, TypeOK

LEMMA CommitFine ==
  ASSUME TypeOK, OpCommit
  PROVE  FineStep
<1>1. PICK d \in ChangedBoards : 
        \E here \in IF d \in seen_removed THEN SUBSET Books ELSE {{}} :
          \/ CommitMoves(d)
          \/ CommitOneGone(d, here)
          \/ CommitOneCome(d)
          \/ CommitExchange(d, here)
          \/ CommitSeveral(d)
  BY DEF OpCommit
<1>2. PICK here \in IF d \in seen_removed THEN SUBSET Books ELSE {{}} :
          \/ CommitMoves(d)
          \/ CommitOneGone(d, here)
          \/ CommitOneCome(d)
          \/ CommitExchange(d, here)
          \/ CommitSeveral(d)
  BY <1>1
<1>3. CASE CommitMoves(d)
  <2>1. \A b \in Books : Fine(b, [c \in Books |-> Kept(c)][b])
    BY KeptFine
  <2>2. QED
    BY <1>3, <2>1, SetFine DEF CommitMoves
<1>4. CASE CommitOneGone(d, here)
  <2>1. PICK r \in Gone :
          \/ SetBooks([b \in Books |-> IF b = r THEN Restored(r) ELSE Kept(b)])
          \/ SetBooks([b \in Books |-> IF b = r THEN Removed(r) ELSE Kept(b)])
    BY <1>4 DEF CommitOneGone
  <2>2. r \in Books /\ ~present[r]
    BY DEF Gone
  <2>3. \A b \in Books : Fine(b, [c \in Books |-> IF c = r THEN Restored(r) ELSE Kept(c)][b])
    BY KeptFine, RestoredFine
  <2>4. \A b \in Books : Fine(b, [c \in Books |-> IF c = r THEN Removed(r) ELSE Kept(c)][b])
    BY <2>2, KeptFine, RemovedFine
  <2>5. QED
    BY <2>1, <2>3, <2>4, SetFine
<1>5. CASE CommitOneCome(d)
  <2>1. PICK a \in Come :
          LET target == TargetLayer(d, actual[a])
          IN  SetBooks([b \in Books |-> IF b = a THEN Inserted(a, target)
                                        ELSE Beside(b, target)])
    BY <1>5 DEF CommitOneCome
  <2> DEFINE target == TargetLayer(d, actual[a])
  <2>2. target \in Layers
    BY BookTypes, TargetType DEF Come
  <2> HIDE DEF target
  <2>3. \A b \in Books : Fine(b, [c \in Books |-> IF c = a THEN Inserted(a, target)
                                                  ELSE Beside(c, target)][b])
    BY <2>2, InsertedFine
  <2>4. SetBooks([b \in Books |-> IF b = a THEN Inserted(a, target) ELSE Beside(b, target)])
    BY <2>1 DEF target
  <2>5. QED
    BY <2>3, <2>4, SetFine
<1>6. CASE CommitExchange(d, here)
  <2>1. PICK r \in Gone, a \in Come :
          LET overlooked == r \notin here /\ MissIsRecent(r)
              target == TargetLayer(d, IF overlooked THEN actual[a] ELSE before[r].layer)
          IN  SetBooks([b \in Books |->
                IF b = a THEN Inserted(a, target)
                ELSE IF b = r THEN IF overlooked THEN Restored(r) ELSE Replaced(r)
                ELSE Beside(b, target)])
    BY <1>6 DEF CommitExchange
  <2> DEFINE overlooked == r \notin here /\ MissIsRecent(r)
             target == TargetLayer(d, IF overlooked THEN actual[a] ELSE before[r].layer)
             new == [b \in Books |->
                       IF b = a THEN Inserted(a, target)
                       ELSE IF b = r THEN IF overlooked THEN Restored(r) ELSE Replaced(r)
                       ELSE Beside(b, target)]
  <2>2. r \in Books /\ ~present[r] /\ a \in Books
    BY DEF Gone, Come
  <2>3. (IF overlooked THEN actual[a] ELSE before[r].layer) \in Layers
    BY <2>2, BookTypes
  <2>4. target \in Layers
    BY <2>3, TargetType
  <2>5. SetBooks(new)
    BY <2>1
  <2> HIDE DEF target, overlooked
  <2>6. \A b \in Books : Fine(b, new[b])
    BY <2>2, <2>4, InsertedFine, RestoredFine, ReplacedFine
  <2>7. QED
    BY <2>5, <2>6, SetFine
<1>7. CASE CommitSeveral(d)
  <2>1. ASSUME NEW b \in Books
        PROVE  Fine(b, Several(b, d))
    <3>1. b \in Moved => present[b]
      BY DEF Moved
    <3>2. TakenOut(b, d) => ~present[b]
      BY DEF TakenOut, Gone
    <3>3. QED
      BY <3>1, <3>2, KeptFine, RemovedFine, RestoredFine, RelayeredFine DEF Several
  <2>2. SetBooks([b \in Books |-> Several(b, d)])
    BY <1>7 DEF CommitSeveral
  <2>3. \A b \in Books : Fine(b, [c \in Books |-> Several(c, d)][b])
    BY <2>1
  <2>4. QED
    BY <2>2, <2>3, SetFine
<1>8. QED
  BY <1>2, <1>3, <1>4, <1>5, <1>6, <1>7

(***************************************************************************)
(* Types.                                                                  *)
(***************************************************************************)

\* The events of a tick agree with what the scanner has.
EventsOK ==
  pc = "events" => \A b \in Books : /\ events[b] = "MISSING" => ~present[b]
                                    /\ events[b] = "RETURNED" => present[b]

Inv == TypeOK /\ EventsOK

LEMMA LeastType ==
  ASSUME NEW a \in Nat, NEW n \in Nat
  PROVE  Least(a, n) \in 0..n
BY DEF Least

LEMMA PendingType ==
  ASSUME TypeOK, NEW new, SetPending(new),
         \A b \in Books : new[b] \in (Layers \cup {None}) \X (0..LayerSettle)
  PROVE  /\ pending' \in [Books -> Layers \cup {None}]
         /\ waited' \in [Books -> 0..LayerSettle]
BY DEF SetPending

LEMMA ScheduleType ==
  ASSUME TypeOK, NEW b \in Books, NEW l \in Layers
  PROVE  /\ Schedule(b, l) \in (Layers \cup {None}) \X (0..LayerSettle)
         /\ Cleared \in (Layers \cup {None}) \X (0..LayerSettle)
         /\ <<pending[b], waited[b]>> \in (Layers \cup {None}) \X (0..LayerSettle)
BY FusionConstantsOK DEF FusionConstantsOK, TypeOK, Schedule, Cleared

\* The histories keep their types.
LEMMA AwayType ==
  ASSUME TypeOK, RememberAway
  PROVE  away' \in [Books -> 0..Stale]
BY FusionConstantsOK DEF FusionConstantsOK, RememberAway, TypeOK

LEMMA TakeBackType ==
  ASSUME TypeOK, TakeBack
  PROVE  untold' \subseteq Books /\ away' \in [Books -> 0..Stale]
BY AwayType DEF TakeBack, TypeOK

LEMMA InitType == Init => Inv
<1> SUFFICES ASSUME Init PROVE Inv
  OBVIOUS
<1>1. \A b \in Books : (CHOOSE l \in Layers : TRUE) \in Layers
  BY DEF Init, Rows
<1>2. before \in [Books -> Rows]
  BY <1>1 DEF Off, Rows, Init
<1>3. /\ shelf \in [Books -> Rows] /\ present \in [Books -> BOOLEAN]
      /\ actual \in [Books -> Layers]
  BY DEF Rows, Init
<1>4. missing \in [Books -> {NotMissing} \cup 0..Stale]
  BY DEF Init
<1>5. /\ pending \in [Books -> Layers \cup {None}] /\ waited \in [Books -> 0..LayerSettle]
      /\ recent \in [Boards -> 0..(IrRecent + 1)] /\ emptied \in [Boards -> SUBSET Books]
      /\ events \in [Books -> {"none", "MISSING", "RETURNED"}]
  BY FusionConstantsOK DEF FusionConstantsOK, Init
<1>6. quiet \in 0..LayerSettle /\ mode \in Modes /\ pc = "idle" /\ pc \in Phases
  <2>1. mode \in Modes
    BY FusionConstantsOK DEF FusionConstantsOK, Init
  <2>2. quiet \in 0..LayerSettle
    BY FusionConstantsOK DEF FusionConstantsOK, Init
  <2>3. QED
    BY <2>1, <2>2 DEF Init, Phases
<1>7. /\ op_active \in BOOLEAN /\ ir_changed \in BOOLEAN
       /\ gapped \subseteq Boards /\ filled \subseteq Boards
       /\ seen_removed \subseteq Boards /\ seen_added \subseteq Boards
  BY DEF Init
<1>8. /\ sent \subseteq Books \X Publications /\ proven \subseteq Books
      /\ unheard \subseteq Books /\ untold \subseteq Books
      /\ away \in [Books -> 0..Stale]
  BY FusionConstantsOK DEF FusionConstantsOK, Init
<1>9. signal \in [Books -> Layers \cup {Unread}]
  BY DEF Init
<1>10. TypeOK
  BY <1>2, <1>3, <1>4, <1>5, <1>6, <1>7, <1>8, <1>9 DEF TypeOK
<1>11. QED
  BY <1>6, <1>10 DEF Inv, EventsOK

LEMMA PollType ==
  ASSUME Inv, Poll
  PROVE  Inv'
<1> USE DEF Inv
<1>1. \A b \in Books : Report(b) \in {"none", "MISSING", "RETURNED"}
  BY DEF Report, TypeOK
<1>2. events' \in [Books -> {"none", "MISSING", "RETURNED"}]
  BY <1>1 DEF Poll
<1>3. present' \in [Books -> BOOLEAN]
  BY DEF Poll
<1>4. actual' \in [Books -> Layers]
  BY DEF Poll, TypeOK
<1>6. gapped' \subseteq Boards /\ filled' \subseteq Boards /\ ir_changed' \in BOOLEAN
  BY DEF Poll, IrScan, TypeOK
<1>5. away' \in [Books -> 0..Stale]
  BY AwayType DEF Poll
<1>7. TypeOK'
  BY <1>2, <1>3, <1>4, <1>5, <1>6
     DEF Poll, TypeOK, Phases, pendVars, windowVars, gapVars
<1>8. ASSUME NEW b \in Books
      PROVE  /\ events'[b] = "MISSING" => ~present'[b]
             /\ events'[b] = "RETURNED" => present'[b]
  <2>1. events'[b] = Report(b) /\ present'[b] = (signal[b] # Unread)
    BY DEF Poll
  <2>2. signal[b] \in Layers \cup {Unread} /\ Unread \notin Layers
    BY FusionConstantsOK DEF FusionConstantsOK, TypeOK, Unread
  <2>3. CASE signal[b] = Unread
    <3>1. Report(b) # "RETURNED"
      BY <2>2, <2>3 DEF Report
    <3>2. QED
      BY <2>1, <2>3, <3>1
  <2>4. CASE signal[b] \in Layers
    <3>1. Report(b) # "MISSING"
      BY <2>2, <2>4 DEF Report
    <3>2. present'[b]
      BY <2>1, <2>2, <2>4
    <3>3. QED
      BY <2>1, <3>1, <3>2
  <2>5. QED
    BY <2>2, <2>3, <2>4
<1>9. QED
  BY <1>7, <1>8 DEF EventsOK

LEMMA ProcessEventsFine ==
  ASSUME Inv, ProcessEvents
  PROVE  FineStep /\ Inv'
<1> USE DEF Inv
<1>1. ASSUME NEW b \in Books
      PROVE  Fine(b, AfterEvent(b))
  <2>1. events[b] \in {"none", "MISSING", "RETURNED"}
    BY DEF TypeOK
  <2>2. /\ events[b] = "MISSING" => ~present[b]
        /\ events[b] = "RETURNED" => present[b]
    BY DEF ProcessEvents, EventsOK
  <2>3. CASE events[b] = "MISSING"
    BY <2>2, <2>3, RemovedFine, MissedFine DEF AfterEvent
  <2>4. CASE events[b] = "RETURNED"
    BY <2>2, <2>4, AfterReturnFine DEF AfterEvent
  <2>5. CASE events[b] = "none"
    BY <2>5, KeptFine DEF AfterEvent
  <2>6. QED
    BY <2>1, <2>3, <2>4, <2>5
<1>2. SetBooks([b \in Books |-> AfterEvent(b)])
  BY DEF ProcessEvents
<1>3. \A b \in Books : Fine(b, [c \in Books |-> AfterEvent(c)][b])
  BY <1>1
<1>4. FineStep
  BY <1>2, <1>3, SetFine
<1>5. ASSUME NEW b \in Books
      PROVE  [c \in Books |-> PendingAfterEvent(c)][b]
               \in (Layers \cup {None}) \X (0..LayerSettle)
  BY BookTypes, ScheduleType DEF PendingAfterEvent
<1>6. /\ pending' \in [Books -> Layers \cup {None}]
      /\ waited' \in [Books -> 0..LayerSettle]
  BY <1>5, PendingType DEF ProcessEvents
<1>7. sent' \subseteq Books \X Publications /\ proven' \subseteq Books
  BY DEF ProcessEvents, Publish, Publications
<1>8. events' \in [Books -> {"none", "MISSING", "RETURNED"}]
  BY DEF ProcessEvents
<1>11. /\ away' \in [Books -> 0..Stale]
       /\ unheard' \subseteq Books /\ untold' \subseteq Books
  BY AwayType DEF ProcessEvents, TypeOK
<1>9. TypeOK'
  BY <1>4, <1>6, <1>7, <1>8, <1>11
     DEF FineStep, ProcessEvents, TypeOK, Phases, irVars, windowVars, gapVars
<1>10. QED
  BY <1>4, <1>9 DEF ProcessEvents, EventsOK

LEMMA CommitTypes ==
  ASSUME TypeOK, OpCommit
  PROVE  /\ emptied' \in [Boards -> SUBSET Books]
         /\ sent' \subseteq Books \X Publications
         /\ proven' \subseteq Books
<1> USE DEF Publish, Publications, Reposition
<1>1. emptied \in [Boards -> SUBSET Books]
  BY DEF TypeOK
<1>2. PICK d \in ChangedBoards : 
        \E here \in IF d \in seen_removed THEN SUBSET Books ELSE {{}} :
          \/ CommitMoves(d)
          \/ CommitOneGone(d, here)
          \/ CommitOneCome(d)
          \/ CommitExchange(d, here)
          \/ CommitSeveral(d)
  BY DEF OpCommit
<1>3. PICK here \in IF d \in seen_removed THEN SUBSET Books ELSE {{}} :
          \/ CommitMoves(d)
          \/ CommitOneGone(d, here)
          \/ CommitOneCome(d)
          \/ CommitExchange(d, here)
          \/ CommitSeveral(d)
  BY <1>2
<1>4. Gone \subseteq Books /\ Come \subseteq Books
  BY DEF Gone, Come
<1>5. CASE CommitMoves(d)
  BY <1>5 DEF CommitMoves
<1>6. CASE CommitOneGone(d, here)
  BY <1>1, <1>4, <1>6 DEF CommitOneGone
<1>7. CASE CommitOneCome(d)
  BY <1>4, <1>7 DEF CommitOneCome
<1>8. CASE CommitExchange(d, here)
  BY <1>4, <1>8 DEF CommitExchange
<1>9. CASE CommitSeveral(d)
  BY <1>1, <1>4, <1>9 DEF CommitSeveral
<1>10. QED
  BY <1>3, <1>5, <1>6, <1>7, <1>8, <1>9

LEMMA OpWindowFine ==
  ASSUME Inv, OpWindow
  PROVE  FineStep /\ Inv'
<1> USE DEF Inv
<1>1. /\ FineStep
      /\ before' \in [Books -> Rows]
      /\ op_active' \in BOOLEAN /\ quiet' \in 0..LayerSettle
      /\ gapped' \subseteq Boards /\ filled' \subseteq Boards /\ ir_changed' \in BOOLEAN
      /\ seen_removed' \subseteq Boards /\ seen_added' \subseteq Boards
      /\ recent' \in [Boards -> 0..(IrRecent + 1)]
      /\ emptied' \in [Boards -> SUBSET Books]
      /\ sent' \subseteq Books \X Publications /\ proven' \subseteq Books
  <2>1. CASE SeeChange /\ sent' = {} /\ proven' = {} /\ UNCHANGED bookVars
    <3>1. FineStep
      BY <2>1, SameFine
    <3>2. before' \in [Books -> Rows]
      BY <2>1 DEF SeeChange, TypeOK
    <3>3. quiet' \in 0..LayerSettle /\ recent' \in [Boards -> 0..(IrRecent + 1)]
      BY <2>1, FusionConstantsOK DEF FusionConstantsOK, SeeChange, TypeOK
    <3>4. emptied' \in [Boards -> SUBSET Books]
      BY <2>1 DEF SeeChange, TypeOK
    <3>5. /\ op_active' \in BOOLEAN
          /\ gapped' \subseteq Boards /\ filled' \subseteq Boards /\ ir_changed' \in BOOLEAN
          /\ seen_removed' \subseteq Boards /\ seen_added' \subseteq Boards
      BY <2>1 DEF SeeChange, TypeOK
    <3>6. QED
      BY <2>1, <3>1, <3>2, <3>3, <3>4, <3>5
  <2>2. CASE OpCommit /\ CloseWindow
    <3>1. \A b \in Books : (CHOOSE l \in Layers : TRUE) \in Layers
      BY BookTypes
    <3>2. before' \in [Books -> Rows]
      BY <2>2, <3>1 DEF CloseWindow, Off, Rows
    <3>3. /\ op_active' \in BOOLEAN /\ quiet' \in 0..LayerSettle
          /\ gapped' \subseteq Boards /\ filled' \subseteq Boards /\ ir_changed' \in BOOLEAN
          /\ seen_removed' \subseteq Boards /\ seen_added' \subseteq Boards
          /\ recent' \in [Boards -> 0..(IrRecent + 1)]
      BY <2>2 DEF CloseWindow, TypeOK, irVars
    <3>4. QED
      BY <2>2, <3>2, <3>3, CommitFine, CommitTypes
  <2>3. CASE sent' = {} /\ proven' = {} /\ UNCHANGED <<bookVars, windowVars, irVars, gapVars>>
    <3>1. FineStep
      BY <2>3, SameFine
    <3>2. QED
      BY <2>3, <3>1 DEF TypeOK, windowVars, irVars, gapVars
  <2>4. QED
    BY <2>1, <2>2, <2>3 DEF OpWindow
<1>2. pc' \in Phases /\ pc' # "events"
  BY DEF OpWindow, Phases
<1>3. mode' \in Modes
  BY FusionConstantsOK DEF FusionConstantsOK, OpWindow, TypeOK
<1>4. TypeOK'
  <2>1. untold' \subseteq Books /\ away' \in [Books -> 0..Stale]
    BY TakeBackType DEF OpWindow
  <2>2. QED
    BY <1>1, <1>2, <1>3, <2>1 DEF FineStep, OpWindow, TypeOK, pendVars
<1>5. QED
  BY <1>1, <1>2, <1>4 DEF EventsOK

LEMMA ConfirmLayersFine ==
  ASSUME Inv, ConfirmLayers
  PROVE  FineStep /\ Inv'
<1> USE DEF Inv
<1>1. /\ FineStep
      /\ pending' \in [Books -> Layers \cup {None}]
      /\ waited' \in [Books -> 0..LayerSettle]
  <2>1. CASE UNCHANGED <<bookVars, pendVars>>
    BY <2>1, SameFine DEF TypeOK, pendVars
  <2>2. CASE /\ SetBooks([b \in Books |-> IF Confirmed(b) THEN Relayered(b) ELSE Kept(b)])
             /\ SetPending([b \in Books |-> AfterWait(b)])
    <3>1. ASSUME NEW b \in Books
          PROVE  Fine(b, [c \in Books |-> IF Confirmed(c) THEN Relayered(c) ELSE Kept(c)][b])
      BY KeptFine, RelayeredFine DEF Confirmed
    <3>2. ASSUME NEW b \in Books
          PROVE  [c \in Books |-> AfterWait(c)][b] \in (Layers \cup {None}) \X (0..LayerSettle)
      BY BookTypes, ScheduleType DEF AfterWait
    <3>3. FineStep
      BY <2>2, <3>1, SetFine
    <3>4. QED
      BY <2>2, <3>2, <3>3, PendingType
  <2>3. QED
    BY <2>1, <2>2 DEF ConfirmLayers
<1>2. TypeOK'
  BY <1>1 DEF FineStep, ConfirmLayers, TypeOK, Phases, irVars, windowVars, gapVars, toldVars
<1>3. QED
  BY <1>1, <1>2 DEF ConfirmLayers, EventsOK

LEMMA ConfirmStaleFine ==
  ASSUME Inv, ConfirmStale
  PROVE  FineStep /\ Inv'
<1> USE DEF Inv
<1>1. FineStep /\ sent' \subseteq Books \X Publications /\ proven' \subseteq Books
  <2>1. CASE UNCHANGED bookVars /\ sent' = {} /\ proven' = {}
    BY <2>1, SameFine
  <2>2. CASE /\ SetBooks([b \in Books |->
                  IF GivenUp(b) THEN Removed(b)
                  ELSE IF Late(b) THEN Missed(b)
                  ELSE Kept(b)])
             /\ sent' = Publish({ b \in Books : GivenUp(b) }, "borrowed")
             /\ proven' = { b \in Books : GivenUp(b) /\ RecentGap(b) }
    <3>1. ASSUME NEW b \in Books
          PROVE  Fine(b, [c \in Books |-> IF GivenUp(c) THEN Removed(c)
                                          ELSE IF Late(c) THEN Missed(c)
                                          ELSE Kept(c)][b])
      BY KeptFine, MissedFine, RemovedFine DEF GivenUp, Late
    <3>2. QED
      BY <2>2, <3>1, SetFine DEF Publish, Publications
  <2>3. QED
    BY <2>1, <2>2 DEF ConfirmStale
<1>2. TypeOK'
  <2>1. untold' \subseteq Books /\ away' \in [Books -> 0..Stale]
    BY TakeBackType DEF ConfirmStale
  <2>2. QED
    BY <1>1, <2>1
       DEF FineStep, ConfirmStale, TypeOK, Phases, pendVars, irVars, windowVars, gapVars
<1>3. QED
  BY <1>1, <1>2 DEF ConfirmStale, EventsOK

LEMMA ReconcileFine ==
  ASSUME Inv, Reconcile
  PROVE  FineStep /\ Inv'
<1> USE DEF Inv
<1>1. FineStep
  BY SameFine DEF Reconcile
<1>2. emptied' \in [Boards -> SUBSET Books]
  BY DEF Reconcile, Reposition, TypeOK
<1>3. TypeOK'
  BY <1>1, <1>2
     DEF FineStep, Reconcile, TypeOK, Phases, pendVars, irVars, windowVars, toldVars
<1>4. QED
  BY <1>1, <1>3 DEF Reconcile, EventsOK

LEMMA SleepFine ==
  ASSUME Inv, FallAsleep \/ SleepScan \/ ChangeMode
  PROVE  FineStep /\ Inv'
<1> USE DEF Inv
<1>1. FineStep
  BY SameFine DEF FallAsleep, SleepScan, ChangeMode
<1>2. CASE FallAsleep
  <2>1. events' \in [Books -> {"none", "MISSING", "RETURNED"}]
    BY <1>2 DEF FallAsleep
  <2>4. unheard' \subseteq Books /\ untold' \subseteq Books
    BY <1>2 DEF FallAsleep, TypeOK
  <2>2. TypeOK'
    BY <1>1, <1>2, <2>1, <2>4
       DEF FineStep, FallAsleep, TypeOK, Phases, pendVars, windowVars, gapVars
  <2>3. QED
    BY <1>1, <1>2, <2>2 DEF FallAsleep, EventsOK
<1>3. CASE SleepScan
  <2>1. /\ gapped' \subseteq Boards /\ filled' \subseteq Boards /\ ir_changed' \in BOOLEAN
        /\ pc' \in {"window", "idle"}
    BY <1>3 DEF SleepScan, IrScan, TypeOK
  <2>2. TypeOK'
    BY <1>1, <1>3, <2>1
       DEF FineStep, SleepScan, TypeOK, Phases, pendVars, windowVars, gapVars, toldVars
  <2>3. QED
    BY <1>1, <2>1, <2>2 DEF EventsOK
<1>4. CASE ChangeMode
  <2>1. TypeOK'
    BY <1>1, <1>4
       DEF FineStep, ChangeMode, TypeOK, pendVars, irVars, windowVars, gapVars, toldVars
  <2>2. QED
    BY <1>1, <1>4, <2>1 DEF ChangeMode, EventsOK
<1>5. QED
  BY <1>2, <1>3, <1>4

LEMMA BetweenType ==
  ASSUME Inv, Reload \/ Reader \/ Second
  PROVE  Inv'
<1> USE DEF Inv
<1>1. CASE Reload
  <2>1. present' \in [Books -> BOOLEAN] /\ actual' \in [Books -> Layers]
    BY <1>1, BookTypes DEF Reload
  <2>4. untold' \subseteq Books /\ away' \in [Books -> 0..Stale]
    BY <1>1, TakeBackType DEF Reload
  <2>2. TypeOK'
    BY <1>1, <2>1, <2>4 DEF Reload, TypeOK, pendVars, irVars, windowVars, gapVars
  <2>3. QED
    BY <1>1, <2>2 DEF Reload, EventsOK
<1>2. CASE Reader
  <2>1. signal' \in [Books -> Layers \cup {Unread}]
    BY <1>2 DEF Reader, TypeOK
  <2>2. TypeOK'
    BY <1>2, <2>1
       DEF Reader, TypeOK, bookVars, pendVars, irVars, windowVars, gapVars, toldVars
  <2>3. QED
    BY <1>2, <2>2 DEF Reader, EventsOK
<1>3. CASE Second
  <2>1. missing' \in [Books -> {NotMissing} \cup 0..Stale]
    <3>1. ASSUME NEW b \in Books, missing[b] # NotMissing
          PROVE  Least(missing[b] + 1, Stale) \in 0..Stale
      <4>1. missing[b] + 1 \in Nat /\ Stale \in Nat
        BY <3>1, FusionConstantsOK DEF FusionConstantsOK, TypeOK
      <4>2. QED
        BY <4>1, LeastType
    <3>2. QED
      BY <1>3, <3>1 DEF Second
  <2>2. waited' \in [Books -> 0..LayerSettle]
    <3>1. ASSUME NEW b \in Books
          PROVE  Least(waited[b] + 1, LayerSettle) \in 0..LayerSettle
      <4>1. waited[b] + 1 \in Nat /\ LayerSettle \in Nat
        BY FusionConstantsOK DEF FusionConstantsOK, TypeOK
      <4>2. QED
        BY <4>1, LeastType
    <3>2. 0 \in 0..LayerSettle
      BY FusionConstantsOK DEF FusionConstantsOK
    <3>3. QED
      BY <1>3, <3>1, <3>2 DEF Second
  <2>3. quiet' \in 0..LayerSettle
    <3>1. quiet + 1 \in Nat /\ LayerSettle \in Nat
      BY FusionConstantsOK DEF FusionConstantsOK, TypeOK
    <3>2. QED
      BY <1>3, <3>1, LeastType DEF Second
  <2>4. recent' \in [Boards -> 0..(IrRecent + 1)]
    <3>1. ASSUME NEW d \in Boards
          PROVE  Least(recent[d] + 1, IrRecent + 1) \in 0..(IrRecent + 1)
      <4>1. recent[d] + 1 \in Nat /\ IrRecent + 1 \in Nat
        BY FusionConstantsOK DEF FusionConstantsOK, TypeOK
      <4>2. QED
        BY <4>1, LeastType
    <3>2. QED
      BY <1>3, <3>1 DEF Second
  <2>5. emptied' \in [Boards -> SUBSET Books]
    BY <1>3 DEF Second, TypeOK
  <2>6. away' \in [Books -> 0..Stale]
    <3>1. ASSUME NEW b \in Books
          PROVE  Least(away[b] + 1, Stale) \in 0..Stale /\ 0 \in 0..Stale
      <4>1. away[b] + 1 \in Nat /\ Stale \in Nat
        BY FusionConstantsOK DEF FusionConstantsOK, TypeOK
      <4>2. Least(away[b] + 1, Stale) \in 0..Stale
        BY <4>1, LeastType
      <4>3. 0 \in 0..Stale
        BY <4>1
      <4>4. QED
        BY <4>2, <4>3
    <3>2. QED
      BY <1>3, <3>1 DEF Second
  <2>7. TypeOK'
    BY <1>3, <2>1, <2>2, <2>3, <2>4, <2>5, <2>6 DEF Second, TypeOK, irVars
  <2>8. QED
    BY <1>3, <2>7 DEF Second, EventsOK
<1>4. QED
  BY <1>1, <1>2, <1>3

LEMMA StutterType ==
  ASSUME Inv, UNCHANGED vars
  PROVE  Inv'
<1>1. TypeOK'
  BY DEF Inv, TypeOK, vars, bookVars, pendVars, irVars, windowVars, gapVars, toldVars
<1>2. EventsOK'
  BY DEF Inv, EventsOK, vars, bookVars
<1>3. QED
  BY <1>1, <1>2 DEF Inv

LEMMA NextType ==
  ASSUME Inv, [Next]_vars
  PROVE  Inv'
<1>1. CASE Poll
  BY <1>1, PollType
<1>2. CASE ProcessEvents
  BY <1>2, ProcessEventsFine
<1>3. CASE OpWindow
  BY <1>3, OpWindowFine
<1>4. CASE ConfirmLayers
  BY <1>4, ConfirmLayersFine
<1>5. CASE ConfirmStale
  BY <1>5, ConfirmStaleFine
<1>6. CASE Reconcile
  BY <1>6, ReconcileFine
<1>7. CASE FallAsleep \/ SleepScan \/ ChangeMode
  BY <1>7, SleepFine
<1>8. CASE Reload \/ Reader \/ Second
  BY <1>8, BetweenType
<1>9. CASE UNCHANGED vars
  BY <1>9, StutterType
<1>10. QED
  BY <1>1, <1>2, <1>3, <1>4, <1>5, <1>6, <1>7, <1>8, <1>9 DEF Next, Tick

\* The invariant the other theorems rest on.
THEOREM Invariant == Spec => []Inv
<1>1. Inv /\ [Next]_vars => Inv'
  BY NextType
<1>2. QED
  BY InitType, <1>1, PTL DEF Spec

\* Every variable keeps its type, whatever the reader, the boards, the clock
\* and the commands do: no handler leaves a row, a timer or a window in a state
\* that the code does not know.
THEOREM TypeCorrect == Spec => []TypeOK
<1>1. Inv => TypeOK
  BY DEF Inv
<1>2. QED
  BY Invariant, <1>1, PTL

(***************************************************************************)
(* Action properties: what no handler ever does to the record.             *)
(***************************************************************************)

LEMMA StepIsFine ==
  ASSUME Inv, [Next]_vars
  PROVE  \A b \in Books :
           /\ shelf[b].present /\ ~shelf'[b].present => ~present[b]
           /\ ~shelf[b].present /\ shelf'[b].present => present'[b]
           /\ shelf'[b].layer # shelf[b].layer /\ shelf'[b].present
                => actual'[b] = shelf'[b].layer
<1>1. CASE FineStep
  BY <1>1 DEF FineStep
<1>2. CASE UNCHANGED shelf
  BY <1>2
<1>3. FineStep \/ UNCHANGED shelf
  <2>1. CASE ProcessEvents
    BY <2>1, ProcessEventsFine
  <2>2. CASE OpWindow
    BY <2>2, OpWindowFine
  <2>3. CASE ConfirmLayers
    BY <2>3, ConfirmLayersFine
  <2>4. CASE ConfirmStale
    BY <2>4, ConfirmStaleFine
  <2>5. CASE \/ Poll \/ FallAsleep \/ Reconcile \/ SleepScan \/ ChangeMode \/ Reload
             \/ Reader \/ Second
    BY <2>5 DEF Poll, FallAsleep, Reconcile, SleepScan, ChangeMode, Reload, Reader, Second,
                bookVars
  <2>6. CASE UNCHANGED vars
    BY <2>6 DEF vars, bookVars
  <2>7. QED
    BY <2>1, <2>2, <2>3, <2>4, <2>5, <2>6 DEF Next, Tick
<1>4. QED
  BY <1>1, <1>2, <1>3

\* Whichever of confirm_book_removed, restore_transient_missing,
\* op_insert_returned_book and op_commit writes a row: a book is written out
\* only while the scanner does not have it, and written back only when the
\* scanner has it.
THEOREM RecordCaused == Spec => RecordHasCause
<1>1. Inv /\ [Next]_vars
        => [\A b \in Books :
              /\ shelf[b].present /\ ~shelf'[b].present => ~present[b]
              /\ ~shelf[b].present /\ shelf'[b].present => present'[b]]_vars
  BY StepIsFine
<1>2. QED
  BY Invariant, <1>1, PTL DEF Spec, RecordHasCause

\* The layer that is written for a book on the shelf is always the one that
\* sc.actual_layer has, so the LED and the record never point at different
\* layers because of a write.
THEOREM LayerCaused == Spec => LayerHasCause
<1>1. Inv /\ [Next]_vars
        => [\A b \in Books :
              shelf'[b].layer # shelf[b].layer /\ shelf'[b].present
                => actual'[b] = shelf'[b].layer]_vars
  BY StepIsFine
<1>2. QED
  BY Invariant, <1>1, PTL DEF Spec, LayerHasCause

(***************************************************************************)
(* The handlers implement the abstract record.                             *)
(***************************************************************************)

Scanner == [b \in Books |-> [present |-> present[b], layer |-> actual[b]]]

LEMMA TypedRows ==
  ASSUME TypeOK
  PROVE  /\ shelf \in [Books -> Record!Entries]
         /\ Scanner \in [Books -> Record!Entries]
  BY DEF TypeOK, Rows, Record!Entries, Scanner

LEMMA StepWrites ==
  ASSUME Inv, Inv', [Next]_vars
  PROVE  Record!Write
<1>1. /\ shelf' \in [Books -> Record!Entries]
      /\ Scanner' \in [Books -> Record!Entries]
  BY TypedRows DEF Inv, TypeOK, Rows, Record!Entries, Scanner
<1>2. SUFFICES ASSUME NEW b \in Books
               PROVE  \/ Record!TakeOut(b) \/ Record!PutIn(b) \/ Record!Move(b)
                      \/ Record!Note(b) \/ Record!Keep(b)
  BY <1>1 DEF Record!Write, Scanner
<1>3. /\ shelf[b].present /\ ~shelf'[b].present => ~present[b]
      /\ ~shelf[b].present /\ shelf'[b].present => present'[b]
      /\ shelf'[b].layer # shelf[b].layer /\ shelf'[b].present
           => actual'[b] = shelf'[b].layer
  BY StepIsFine
<1>4. shelf[b] \in Record!Entries /\ shelf'[b] \in Record!Entries
  BY <1>1, TypedRows DEF Inv
<1>5. CASE shelf[b].present /\ ~shelf'[b].present
  BY <1>3, <1>5 DEF Record!TakeOut
<1>6. CASE ~shelf[b].present /\ shelf'[b].present
  BY <1>3, <1>6 DEF Record!PutIn
<1>7. CASE shelf[b].present /\ shelf'[b].present /\ shelf'[b].layer # shelf[b].layer
  BY <1>3, <1>7 DEF Record!Move
<1>8. CASE shelf[b].present /\ shelf'[b].present /\ shelf'[b].layer = shelf[b].layer
  <2>1. shelf'[b] = shelf[b]
    BY <1>4, <1>8 DEF Record!Entries
  <2> QED BY <2>1 DEF Record!Keep
<1>9. CASE ~shelf[b].present /\ ~shelf'[b].present
  BY <1>9 DEF Record!Note
<1> QED BY <1>5, <1>6, <1>7, <1>8, <1>9

\* Every step of the tick, the commands and the environment is a step of the
\* abstract record, or leaves it as it is: events, windows and timers only
\* decide when the record is written.
THEOREM RecordImplemented == Spec => RecordKept
<1>1. Init => Record!Init
  BY DEF Init, Record!Init, Record!Entries, Rows
<1>2. Inv /\ Inv' /\ [Next]_vars => Record!Write
  BY StepWrites
<1> QED BY <1>1, <1>2, Invariant, PTL DEF Spec, RecordKept, Record!Spec

(***************************************************************************)
(* The record follows the scanner.                                         *)
(***************************************************************************)

\* A book that the scanner has is on the record where the scanner has it, or a
\* change to that layer waits, or its event has not been processed yet, or never
\* was.
Followed ==
  \A b \in Books \ unheard :
    (pc = "events" /\ events[b] = "RETURNED") \/ Follows(Kept(b), pending[b])

LEMMA FollowedInit == Init => Followed
BY DEF Init, Followed, Follows, Kept, Book, None

LEMMA FollowedSame ==
  ASSUME Followed, pc # "events", FineStep, UNCHANGED <<pendVars, unheard>>
  PROVE  Followed'
BY DEF Followed, FineStep, pendVars

LEMMA FollowedNext ==
  ASSUME Inv, Followed, [Next]_vars
  PROVE  Followed'
<1>1. CASE Poll
  <2> SUFFICES ASSUME NEW b \in Books \ unheard, ~(events'[b] = "RETURNED")
               PROVE  Follows(Kept(b), pending[b])'
    BY <1>1 DEF Followed, Poll
  <2>1. Follows(Kept(b), pending[b])
    BY <1>1 DEF Followed, Poll
  <2>2. /\ events'[b] = Report(b) /\ pending'[b] = pending[b] /\ shelf'[b] = shelf[b]
        /\ present'[b] = (signal[b] # Unread)
        /\ signal[b] # Unread => actual'[b] = signal[b]
    BY <1>1 DEF Poll, pendVars
  <2>3. signal[b] \in Layers \cup {Unread} /\ Unread \notin Layers
    BY FusionConstantsOK DEF FusionConstantsOK, Inv, TypeOK, Unread
  <2>4. CASE signal[b] = Unread
    BY <2>2, <2>4 DEF Follows, Kept, Book
  <2>5. CASE signal[b] \in Layers
    <3>1. present[b] /\ actual[b] = signal[b]
      BY <2>2, <2>3, <2>5 DEF Report
    <3>2. shelf[b].present /\ (shelf[b].layer = actual[b] \/ pending[b] = actual[b])
      BY <2>1, <3>1 DEF Follows, Kept, Book
    <3>3. QED
      BY <2>2, <2>3, <2>5, <3>1, <3>2 DEF Follows, Kept, Book
  <2>6. QED
    BY <2>3, <2>4, <2>5
<1>2. CASE ProcessEvents
  <2> SUFFICES ASSUME NEW b \in Books, b \notin unheard'
               PROVE  Follows(Kept(b), pending[b])'
    BY DEF Followed
  <2>6. b \notin unheard \/ events[b] # "none"
    BY <1>2 DEF ProcessEvents
  <2>1. FineStep
    BY <1>2, ProcessEventsFine
  <2>2. pending'[b] = PendingAfterEvent(b)[1]
    BY <1>2 DEF ProcessEvents, SetPending
  <2>3. CASE events[b] = "RETURNED"
    <3>1. /\ shelf'[b] = On(shelf[b].layer) /\ actual'[b] = actual[b]
      BY <1>2, <2>3 DEF ProcessEvents, SetBooks, AfterEvent, AfterReturn, Book
    <3>2. shelf[b].layer # actual[b] => pending'[b] = actual[b]
      BY <2>2, <2>3 DEF PendingAfterEvent, Schedule
    <3>3. shelf'[b].present /\ shelf'[b].layer = shelf[b].layer
      BY <3>1 DEF On
    <3>4. QED
      BY <3>1, <3>2, <3>3 DEF Follows, Kept, Book
  <2>4. CASE events[b] # "RETURNED"
    <3>1. pending'[b] = pending[b]
      BY <2>2, <2>4 DEF PendingAfterEvent
    <3>4. b \notin unheard => Follows(Kept(b), pending[b])
      BY <2>4 DEF Followed
    <3>5. events[b] = "MISSING" => Follows(Kept(b), pending[b])
      BY <1>2 DEF Inv, EventsOK, ProcessEvents, Follows, Kept, Book
    <3>6. Follows(Kept(b), pending[b])
      BY <2>4, <2>6, <3>4, <3>5 DEF Inv, TypeOK
    <3>2. Follows(Kept(b)', pending[b])
      BY <2>1, <3>6 DEF FineStep
    <3>3. QED
      BY <3>1, <3>2
  <2>5. QED
    BY <2>3, <2>4
<1>3. CASE OpWindow
  BY <1>3, OpWindowFine, FollowedSame DEF OpWindow
<1>4. CASE ConfirmLayers
  <2> SUFFICES ASSUME NEW b \in Books \ unheard
               PROVE  Follows(Kept(b), pending[b])'
    BY <1>4 DEF Followed, ConfirmLayers, toldVars
  <2>1. FineStep
    BY <1>4, ConfirmLayersFine
  <2>2. Follows(Kept(b), pending[b])
    BY <1>4 DEF Followed, ConfirmLayers
  <2>3. CASE UNCHANGED <<bookVars, pendVars>>
    BY <2>2, <2>3 DEF bookVars, pendVars, Follows, Kept, Book
  <2>4. CASE /\ SetBooks([c \in Books |-> IF Confirmed(c) THEN Relayered(c) ELSE Kept(c)])
             /\ SetPending([c \in Books |-> AfterWait(c)])
    <3>1. pending'[b] = AfterWait(b)[1]
      BY <2>4 DEF SetPending
    <3>2. CASE Confirmed(b)
      <4>1. shelf'[b] = On(actual[b]) /\ actual'[b] = actual[b]
        BY <2>4, <3>2 DEF SetBooks, Relayered, Book
      <4>2. QED
        BY <4>1 DEF On, Follows, Kept, Book
    <3>3. CASE ~Confirmed(b)
      <4>1. shelf'[b] = shelf[b] /\ present'[b] = present[b] /\ actual'[b] = actual[b]
        BY <2>4, <3>3 DEF SetBooks, Kept, Book
      <4>2. ASSUME present[b]
            PROVE  shelf[b].layer = actual[b] \/ pending'[b] = actual[b]
        <5>1. CASE ~Due(b)
          BY <2>2, <3>1, <4>2, <5>1 DEF AfterWait, Follows, Kept, Book
        <5>2. CASE Due(b) /\ actual[b] = pending[b]
          BY <3>3, <4>2, <5>2 DEF Confirmed, On
        <5>3. CASE actual[b] # pending[b]
          BY <2>2, <4>2, <5>3 DEF Follows, Kept, Book
        <5>4. QED
          BY <5>1, <5>2, <5>3
      <4>3. present[b] => shelf[b].present
        BY <2>2 DEF Follows, Kept, Book
      <4>4. QED
        BY <4>1, <4>2, <4>3 DEF Follows, Kept, Book
    <3>4. QED
      BY <3>2, <3>3
  <2>5. QED
    BY <1>4, <2>3, <2>4 DEF ConfirmLayers
<1>5. CASE ConfirmStale
  BY <1>5, ConfirmStaleFine, FollowedSame DEF ConfirmStale
<1>6. CASE Reconcile
  BY <1>6, ReconcileFine, FollowedSame DEF Reconcile, toldVars
<1>7. CASE SleepScan \/ ChangeMode
  BY <1>7, SleepFine, FollowedSame DEF SleepScan, ChangeMode, toldVars
<1>8. CASE FallAsleep
  <2> SUFFICES ASSUME NEW b \in Books, b \notin unheard'
               PROVE  Follows(Kept(b), pending[b])'
    BY DEF Followed
  <2>1. UNCHANGED <<bookVars, pendVars>> /\ pc = "events"
    BY <1>8 DEF FallAsleep, bookVars, pendVars
  <2>2. \/ events[b] = "none" /\ b \notin unheard
        \/ events[b] = "MISSING"
    BY <1>8 DEF FallAsleep, Inv, TypeOK
  <2>3. Follows(Kept(b), pending[b])
    BY <2>1, <2>2 DEF Followed, Inv, EventsOK, Follows, Kept, Book
  <2>4. QED
    BY <2>1, <2>3 DEF bookVars, pendVars, Follows, Kept, Book
<1>9. CASE Reload
  BY <1>9, BookTypes DEF Inv, Reload, Followed, Follows, Kept, Book, pendVars
<1>10. CASE Reader \/ Second
  BY <1>10 DEF Reader, Second, Followed, Follows, Kept, Book, bookVars, pendVars, toldVars
<1>11. CASE UNCHANGED vars
  BY <1>11 DEF vars, Followed, Follows, Kept, Book, bookVars, pendVars, toldVars
<1>12. QED
  BY <1>1, <1>2, <1>3, <1>4, <1>5, <1>6, <1>7, <1>8, <1>9, <1>10, <1>11 DEF Next, Tick

\* In every mode: no book that the scanner has is off the record at the end of a
\* tick, and none is on it on another layer with no layer change pending, but for
\* those whose last event was dropped by the tick that fell asleep.
\* process_events, op_commit, restore_transient_missing and
\* confirm_pending_layer_changes leave no gap between them, and a book that was
\* left behind is caught up with by its next event.
THEOREM RecordFollowed == Spec => []RecordFollows
<1>1. Inv /\ Followed /\ [Next]_vars => Followed'
  BY FollowedNext
<1>2. Inv /\ Followed => RecordFollows
  <2> SUFFICES ASSUME Inv, Followed, pc = "idle", NEW b \in Books \ unheard, present[b]
               PROVE  /\ shelf[b].present
                      /\ shelf[b].layer # actual[b] => pending[b] # None
    BY DEF RecordFollows
  <2>1. actual[b] # None
    BY BookTypes, FusionConstantsOK DEF FusionConstantsOK, Inv, None
  <2>2. QED
    BY <2>1 DEF Followed, Follows, Kept, Book
<1>3. QED
  BY FollowedInit, Invariant, <1>1, <1>2, PTL DEF Spec

(***************************************************************************)
(* How long a book is missed before it is taken out without a gap.         *)
(***************************************************************************)

LEMMA CommitTimed ==
  ASSUME Inv, OpCommit, NEW b \in Books, <<b, "borrowed">> \in sent', b \notin proven'
  PROVE  missing[b] >= Recent
<1> USE DEF Publish, MissIsRecent
<1>1. ~MissIsRecent(b) => missing[b] >= Recent
  BY FusionConstantsOK DEF FusionConstantsOK, Inv, TypeOK, NotMissing
<1>2. PICK d \in ChangedBoards : 
        \E here \in IF d \in seen_removed THEN SUBSET Books ELSE {{}} :
          \/ CommitMoves(d)
          \/ CommitOneGone(d, here)
          \/ CommitOneCome(d)
          \/ CommitExchange(d, here)
          \/ CommitSeveral(d)
  BY DEF OpCommit
<1>3. PICK here \in IF d \in seen_removed THEN SUBSET Books ELSE {{}} :
          \/ CommitMoves(d)
          \/ CommitOneGone(d, here)
          \/ CommitOneCome(d)
          \/ CommitExchange(d, here)
          \/ CommitSeveral(d)
  BY <1>2
<1>4. CASE CommitMoves(d)
  BY <1>4 DEF CommitMoves
<1>5. CASE CommitOneGone(d, here)
  BY <1>1, <1>5 DEF CommitOneGone
<1>6. CASE CommitOneCome(d)
  BY <1>6 DEF CommitOneCome
<1>7. CASE CommitExchange(d, here)
  BY <1>7 DEF CommitExchange
<1>8. CASE CommitSeveral(d)
  <2>1. TakenOut(b, d) /\ ~RecentGap(b)
    BY <1>8 DEF CommitSeveral
  <2>2. QED
    BY <1>1, <2>1 DEF TakenOut
<1>9. QED
  BY <1>3, <1>4, <1>5, <1>6, <1>7, <1>8

\* What a step publishes as borrowed is taken out of the record and of the
\* scanner's table, and the time of its miss starts anew.
Borrows ==
  \A b \in Books : <<b, "borrowed">> \in sent' => missing'[b] = 0 /\ ~present'[b]

LEMMA CommitBorrows ==
  ASSUME Inv, OpCommit
  PROVE  Borrows
<1> SUFFICES ASSUME NEW b \in Books, <<b, "borrowed">> \in sent'
             PROVE  missing'[b] = 0 /\ ~present'[b]
  BY DEF Borrows
<1> USE DEF Publish
<1>1. SetBooks([c \in Books |-> IF c = b THEN Removed(b) ELSE Kept(c)])
        => missing'[b] = 0 /\ ~present'[b]
  BY DEF SetBooks, Removed, Book
<1>2. PICK d \in ChangedBoards : 
        \E here \in IF d \in seen_removed THEN SUBSET Books ELSE {{}} :
          \/ CommitMoves(d)
          \/ CommitOneGone(d, here)
          \/ CommitOneCome(d)
          \/ CommitExchange(d, here)
          \/ CommitSeveral(d)
  BY DEF OpCommit
<1>3. PICK here \in IF d \in seen_removed THEN SUBSET Books ELSE {{}} :
          \/ CommitMoves(d)
          \/ CommitOneGone(d, here)
          \/ CommitOneCome(d)
          \/ CommitExchange(d, here)
          \/ CommitSeveral(d)
  BY <1>2
<1>4. CASE CommitMoves(d)
  BY <1>4 DEF CommitMoves
<1>5. CASE CommitOneGone(d, here)
  BY <1>1, <1>5 DEF CommitOneGone
<1>6. CASE CommitOneCome(d)
  BY <1>6 DEF CommitOneCome
<1>7. CASE CommitExchange(d, here)
  BY <1>7 DEF CommitExchange
<1>8. CASE CommitSeveral(d)
  <2>1. TakenOut(b, d)
    BY <1>8 DEF CommitSeveral
  <2>2. b \notin Moved
    BY <2>1 DEF TakenOut, Gone, Moved
  <2>3. Several(b, d) = Removed(b)
    BY <2>1, <2>2 DEF Several
  <2>4. QED
    BY <1>8, <2>3 DEF CommitSeveral, SetBooks, Removed, Book
<1>9. QED
  BY <1>3, <1>4, <1>5, <1>6, <1>7, <1>8

LEMMA WindowBorrows ==
  ASSUME Inv, OpWindow
  PROVE  Borrows
BY CommitBorrows DEF OpWindow, Borrows

LEMMA StaleBorrows ==
  ASSUME Inv, ConfirmStale
  PROVE  Borrows
<1> SUFFICES ASSUME NEW b \in Books, <<b, "borrowed">> \in sent'
             PROVE  missing'[b] = 0 /\ ~present'[b]
  BY DEF Borrows
<1>1. GivenUp(b)
  BY DEF ConfirmStale, Publish
<1>2. SetBooks([c \in Books |-> IF GivenUp(c) THEN Removed(c)
                                ELSE IF Late(c) THEN Missed(c)
                                ELSE Kept(c)])
  BY DEF ConfirmStale
<1>3. QED
  BY <1>1, <1>2 DEF SetBooks, Removed, Book

\* The time of a miss that the fusion was told of never claims more than the
\* scanner has been without the book, and it does not run while the scanner has
\* the book, unless the event that stops it waits.
Timed ==
  \A b \in Books \ untold : missing[b] # NotMissing =>
    \/ pc = "events" /\ events[b] = "RETURNED"
    \/ missing[b] <= away[b] /\ ~present[b]

LEMMA TimedInit == Init => Timed
BY DEF Init, Timed

\* The steps that may take a book back or publish it, after the events.
LEMMA TimedTakeBack ==
  ASSUME Inv, Inv', Timed, pc # "events", FineStep, Borrows, TakeBack
  PROVE  Timed'
<1> SUFFICES ASSUME NEW b \in Books, b \notin untold', missing'[b] # NotMissing
             PROVE  missing'[b] <= away'[b] /\ ~present'[b]
  BY DEF Timed
<1>1. missing'[b] \in 0..Stale /\ missing[b] \in {NotMissing} \cup 0..Stale
  BY DEF Inv, TypeOK
<1>2. away'[b] = IF present'[b] THEN 0 ELSE IF shelf'[b].present THEN away[b] ELSE Stale
  BY DEF TakeBack, RememberAway
<1>3. /\ away[b] \in 0..Stale /\ Stale \in Nat /\ present[b] \in BOOLEAN
      /\ present'[b] \in BOOLEAN
  BY FusionConstantsOK DEF FusionConstantsOK, Inv, TypeOK
<1>4. \/ missing'[b] = 0 /\ ~present'[b]
      \/ missing'[b] = missing[b] /\ missing[b] # NotMissing
  BY DEF FineStep
<1>5. CASE missing'[b] = 0 /\ ~present'[b]
  BY <1>2, <1>3, <1>5
<1>6. CASE missing'[b] = missing[b] /\ missing[b] # NotMissing /\ ~(missing'[b] = 0 /\ ~present'[b])
  <2>1. <<b, "borrowed">> \notin sent'
    BY <1>6 DEF Borrows
  <2>2. b \notin untold
    BY <2>1 DEF TakeBack
  <2>3. missing[b] <= away[b] /\ ~present[b]
    BY <1>6, <2>2 DEF Timed
  <2>4. ~present'[b]
    BY <1>6, <2>3 DEF TakeBack
  <2>5. QED
    BY <1>1, <1>2, <1>3, <1>6, <2>3, <2>4
<1>7. QED
  BY <1>4, <1>5, <1>6

LEMMA TimedNext ==
  ASSUME Inv, Inv', Timed, [Next]_vars
  PROVE  Timed'
<1> USE DEF Timed
<1>1. CASE Poll
  <2> SUFFICES ASSUME NEW b \in Books \ untold, missing[b] # NotMissing
               PROVE  \/ events'[b] = "RETURNED"
                      \/ missing[b] <= away'[b] /\ ~present'[b]
    BY <1>1 DEF Poll
  <2>1. missing[b] <= away[b] /\ ~present[b]
    BY <1>1 DEF Poll
  <2>2. /\ events'[b] = Report(b) /\ present'[b] = (signal[b] # Unread)
        /\ away'[b] = IF present'[b] THEN 0 ELSE IF shelf'[b].present THEN away[b] ELSE Stale
    BY <1>1 DEF Poll, RememberAway
  <2>3. signal[b] \in Layers \cup {Unread} /\ Unread \notin Layers
    BY FusionConstantsOK DEF FusionConstantsOK, Inv, TypeOK, Unread
  <2>4. missing[b] \in 0..Stale /\ away[b] \in 0..Stale /\ Stale \in Nat
    BY FusionConstantsOK DEF FusionConstantsOK, Inv, TypeOK
  <2>5. CASE signal[b] = Unread
    <3>1. ~present'[b]
      BY <2>2, <2>5
    <3>2. away'[b] = away[b] \/ away'[b] = Stale
      BY <2>2, <3>1
    <3>3. QED
      BY <2>1, <2>4, <3>1, <3>2
  <2>6. CASE signal[b] \in Layers
    BY <2>1, <2>2, <2>3, <2>6 DEF Report
  <2>7. QED
    BY <2>3, <2>5, <2>6
<1>2. CASE ProcessEvents
  <2> SUFFICES ASSUME NEW b \in Books, b \notin untold', missing'[b] # NotMissing
               PROVE  missing'[b] <= away'[b] /\ ~present'[b]
    OBVIOUS
  <2>1. b \notin untold \/ events[b] = "RETURNED" \/ b \in proven'
    BY <1>2 DEF ProcessEvents
  <2>2. /\ missing'[b] = AfterEvent(b).missing /\ present'[b] = AfterEvent(b).present
        /\ shelf'[b] = AfterEvent(b).shelf
        /\ away'[b] = IF present'[b] THEN 0 ELSE IF shelf'[b].present THEN away[b] ELSE Stale
    BY <1>2 DEF ProcessEvents, SetBooks, RememberAway
  <2>3. /\ missing[b] \in {NotMissing} \cup 0..Stale /\ away[b] \in 0..Stale
        /\ Stale \in Nat /\ present[b] \in BOOLEAN
        /\ events[b] \in {"none", "MISSING", "RETURNED"}
    BY FusionConstantsOK DEF FusionConstantsOK, Inv, TypeOK
  <2>4. events[b] # "RETURNED"
    BY <2>2 DEF AfterEvent, AfterReturn, Book
  <2>5. CASE b \in proven'
    <3>1. AfterEvent(b) = Removed(b)
      BY <1>2, <2>5 DEF ProcessEvents, AfterEvent
    <3>2. missing'[b] = 0 /\ present'[b] = FALSE
      BY <2>2, <3>1 DEF Removed, Book
    <3>3. QED
      BY <2>2, <2>3, <3>2
  <2>6. CASE b \notin proven' /\ events[b] = "MISSING"
    <3>1. AfterEvent(b) = Missed(b)
      BY <1>2, <2>6 DEF ProcessEvents, AfterEvent
    <3>2. missing'[b] = MissingSince(b) /\ present'[b] = present[b]
      BY <2>2, <3>1 DEF Missed, Book
    <3>3. ~present[b]
      BY <1>2, <2>6 DEF ProcessEvents, Inv, EventsOK
    <3>4. missing[b] # NotMissing => missing[b] <= away[b]
      BY <2>1, <2>4, <2>6
    <3>5. QED
      BY <2>2, <2>3, <3>2, <3>3, <3>4 DEF MissingSince
  <2>7. CASE events[b] = "none"
    <3>1. AfterEvent(b) = Kept(b)
      BY <2>7 DEF AfterEvent
    <3>2. missing'[b] = missing[b] /\ present'[b] = present[b]
      BY <2>2, <3>1 DEF Kept, Book
    <3>3. b \notin untold
      BY <1>2, <2>1, <2>4, <2>7 DEF ProcessEvents
    <3>4. missing[b] <= away[b] /\ ~present[b]
      BY <2>7, <3>2, <3>3
    <3>5. QED
      BY <2>2, <2>3, <3>2, <3>4
  <2>8. QED
    BY <2>3, <2>4, <2>5, <2>6, <2>7
<1>3. CASE OpWindow
  BY <1>3, OpWindowFine, WindowBorrows, TimedTakeBack DEF OpWindow
<1>4. CASE ConfirmStale
  BY <1>4, ConfirmStaleFine, StaleBorrows, TimedTakeBack DEF ConfirmStale
<1>5. CASE ConfirmLayers
  <2> SUFFICES ASSUME NEW b \in Books \ untold, missing'[b] # NotMissing
               PROVE  missing'[b] <= away[b] /\ ~present'[b]
    BY <1>5 DEF ConfirmLayers, toldVars
  <2>1. missing'[b] = missing[b] /\ present'[b] = present[b]
    BY <1>5 DEF ConfirmLayers, SetBooks, Relayered, Kept, Book, bookVars, Inv, TypeOK
  <2>2. QED
    BY <1>5, <2>1 DEF ConfirmLayers
<1>6. CASE FallAsleep
  BY <1>6 DEF FallAsleep, bookVars
<1>7. CASE Reload
  <2> SUFFICES ASSUME NEW b \in Books, b \notin untold', missing'[b] # NotMissing
               PROVE  missing'[b] <= away'[b] /\ ~present'[b]
    OBVIOUS
  <2>1. missing'[b] = missing[b] /\ shelf' = shelf /\ sent' = {} /\ pc = "idle"
    BY <1>7 DEF Reload
  <2>2. b \notin untold /\ (~present[b] => ~present'[b])
    BY <1>7, <2>1 DEF Reload, TakeBack
  <2>3. missing[b] <= away[b] /\ ~present[b]
    BY <2>1, <2>2
  <2>4. away'[b] = IF present'[b] THEN 0 ELSE IF shelf'[b].present THEN away[b] ELSE Stale
    BY <1>7 DEF Reload, TakeBack, RememberAway
  <2>5. missing[b] \in 0..Stale /\ away[b] \in 0..Stale /\ Stale \in Nat
    BY <2>1, FusionConstantsOK DEF FusionConstantsOK, Inv, TypeOK
  <2>6. QED
    BY <2>1, <2>2, <2>3, <2>4, <2>5
<1>8. CASE Second
  <2> SUFFICES ASSUME NEW b \in Books \ untold, missing'[b] # NotMissing
               PROVE  missing'[b] <= away'[b] /\ ~present[b]
    BY <1>8 DEF Second
  <2>1. /\ missing[b] # NotMissing /\ missing'[b] = Least(missing[b] + 1, Stale)
        /\ away'[b] = IF present[b] THEN 0 ELSE Least(away[b] + 1, Stale)
    BY <1>8 DEF Second
  <2>2. missing[b] <= away[b] /\ ~present[b]
    BY <1>8, <2>1 DEF Second
  <2>3. missing[b] \in 0..Stale /\ away[b] \in 0..Stale /\ Stale \in Nat
    BY <2>1, FusionConstantsOK DEF FusionConstantsOK, Inv, TypeOK
  <2>4. QED
    BY <2>1, <2>2, <2>3 DEF Least
<1>9. CASE Reconcile \/ SleepScan \/ ChangeMode \/ Reader
  BY <1>9 DEF Reconcile, SleepScan, ChangeMode, Reader, bookVars, toldVars
<1>10. CASE UNCHANGED vars
  BY <1>10 DEF vars, bookVars, toldVars
<1>11. QED
  BY <1>1, <1>2, <1>3, <1>4, <1>5, <1>6, <1>7, <1>8, <1>9, <1>10 DEF Next, Tick

LEMMA StepTimed ==
  ASSUME Inv, Timed, Next, NEW b \in Books, <<b, "borrowed">> \in sent',
         b \notin proven', b \notin untold
  PROVE  away[b] >= IF pc = "stale" THEN Stale ELSE Recent
<1>1. /\ missing[b] \in {NotMissing} \cup 0..Stale /\ away[b] \in 0..Stale
      /\ Stale \in Nat /\ Recent \in Nat
  BY FusionConstantsOK DEF FusionConstantsOK, Inv, TypeOK
<1>2. pc # "events" /\ missing[b] # NotMissing => missing[b] <= away[b]
  BY DEF Timed
<1>3. CASE ProcessEvents
  BY <1>3 DEF ProcessEvents, Publish
<1>4. CASE OpWindow
  <2>1. missing[b] >= Recent /\ pc # "stale"
    BY <1>4, CommitTimed DEF OpWindow
  <2>2. QED
    BY <1>1, <1>2, <1>4, <2>1 DEF NotMissing, OpWindow
<1>5. CASE ConfirmStale
  <2>1. missing[b] >= Stale /\ pc = "stale"
    BY <1>5 DEF ConfirmStale, Publish, GivenUp
  <2>2. QED
    BY <1>1, <1>2, <2>1 DEF NotMissing
<1>6. CASE \/ Poll \/ FallAsleep \/ ConfirmLayers \/ Reconcile \/ SleepScan
           \/ ChangeMode \/ Reload \/ Reader \/ Second
  BY <1>6 DEF Poll, FallAsleep, ConfirmLayers, Reconcile, SleepScan, ChangeMode, Reload,
              Reader, Second
<1>7. QED
  BY <1>3, <1>4, <1>5, <1>6 DEF Next, Tick

\* A book is published as borrowed only because a board saw a gap, or after the
\* scanner has been without it for the recent-miss time (op_commit, with one
\* book or several) or the longer one (confirm_stale_uhf_missing).  The one
\* exception are the books that the fusion took back by itself.
THEOREM MissTimed == Spec => MissNeedsTime
<1>1. Inv /\ Inv' /\ Timed /\ [Next]_vars => Timed'
  BY TimedNext
<1>2. Inv /\ Timed /\ [Next]_vars
        => [\A b \in Books :
              <<b, "borrowed">> \in sent' /\ b \notin proven' /\ b \notin untold
              => away[b] >= IF pc = "stale" THEN Stale ELSE Recent]_vars
  BY StepTimed
<1>3. QED
  BY TimedInit, Invariant, <1>1, <1>2, PTL DEF Spec, MissNeedsTime

=============================================================================
