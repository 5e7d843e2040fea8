---------------------------- MODULE ShelfFusion ----------------------------
(***************************************************************************)
(* How src/src/fsm/fsm.c turns what it is told into the record of the      *)
(* shelf: the scanner says which tags it reads, the infrared boards say    *)
(* where something was taken out or put in, and the table shelf_state says *)
(* which books are there and on which layer.                               *)
(*                                                                         *)
(* A tick of the machine is the sequence Poll, ProcessEvents, OpWindow,    *)
(* ConfirmLayers, ConfirmStale and Reconcile; pc says which is next.       *)
(* Commands, the change of the mode and the clock come between two ticks.  *)
(* Which mode the machine is in is decided elsewhere (module FsmMode), and *)
(* so is when the scanner reports a change (module UhfScanner): here the   *)
(* scanner reports at once, and the environment changes what it reads at   *)
(* any time.                                                               *)
(*                                                                         *)
(* Positions in centimetres are not kept.  Whether the gap a board saw     *)
(* lies where a book was is a free choice, made when the gap is seen and   *)
(* made again when the positions are computed anew.                        *)
(***************************************************************************)
EXTENDS Integers, FiniteSets

CONSTANTS
  Books,
  Layers,                    \* a subset of {0, 1}, upper and lower
  book_layer,                \* the layer each book is registered on
  UpperBoards, LowerBoards,  \* the infrared boards of each layer
  Reloads,                   \* whether other books are registered or deleted
  Modes,                     \* the modes entered: ACTIVE, and SLEEP, FIND or not
  Settle,                    \* FSM_OP_SETTLE_SEC
  LayerSettle,               \* FSM_LAYER_CHANGE_SETTLE_SEC
  Recent,                    \* a miss is recent for so many seconds
  IrRecent,                  \* a gap is recent for so many seconds
  Stale                      \* a miss that old is believed without a gap

Boards == UpperBoards \cup LowerBoards
LayerOf(d) == IF d \in UpperBoards THEN 0 ELSE 1

ASSUME FusionConstantsOK ==
  /\ Layers \subseteq {0, 1}
  /\ book_layer \in [Books -> Layers]
  /\ UpperBoards \cap LowerBoards = {}
  /\ \A d \in Boards : LayerOf(d) \in Layers
  /\ Reloads \in BOOLEAN
  /\ Modes \subseteq {"ACTIVE", "SLEEP", "FIND"} /\ "ACTIVE" \in Modes
  /\ Settle \in Nat \ {0}
  /\ LayerSettle \in Nat /\ Settle <= LayerSettle
  /\ Recent \in Nat /\ IrRecent \in Nat /\ Stale \in Nat
  /\ Recent <= IrRecent /\ IrRecent <= Stale

Unread == 2        \* no antenna reads the tag
None == 2          \* no layer change is pending
NotMissing == -1   \* missing_since is 0
NoBoard == "none"

VARIABLES
  signal,            \* what the antennas read of each tag: its layer, or Unread
  present, actual,   \* sc.is_present, sc.actual_layer
  shelf,             \* the rows of shelf_state: present and layer
  missing,           \* age of missing_since
  pending, waited,   \* layer_pending_value, age of t_layer_pending
  before,            \* op_before_present, op_before_layer
  op_active, quiet,  \* the window, and the age of op_last_ir_change
  gapped, filled,    \* boards with ir_prev_bitmap and ir_bitmap apart
  ir_changed,
  seen_removed, seen_added,  \* boards with bits of op_seen_removed_ir, op_seen_added_ir
  recent,            \* age of t_recent_removed_ir of each board
  emptied,           \* the books whose place overlaps the gap of each board
  mode, pc,
  events,            \* the events of this tick
  sent,              \* history: the events that the last step published
  proven,            \* history: the books it took out because of a gap
  unheard,           \* history: the books whose RETURNED was never processed
  untold,            \* history: the books that came back with the time of a miss
                     \* running, and without a RETURNED that was processed
  away               \* history: seconds for which the scanner has not had a book of
                     \* the record; one that is off it is away for good

bookVars == <<present, actual, shelf, missing>>
pendVars == <<pending, waited>>
irVars == <<gapped, filled, ir_changed>>
windowVars == <<before, op_active, quiet, seen_removed, seen_added>>
gapVars == <<recent, emptied>>
toldVars == <<unheard, untold, away>>
vars == <<signal, bookVars, pendVars, irVars, windowVars, gapVars, mode, pc,
          events, sent, proven, toldVars>>

Least(a, b) == IF a < b THEN a ELSE b

Rows == [present : BOOLEAN, layer : Layers]
Phases == {"idle", "events", "window", "layers", "stale", "reconcile"}
Publications == {"borrowed", "returned"}

TypeOK ==
  /\ signal \in [Books -> Layers \cup {Unread}]
  /\ present \in [Books -> BOOLEAN] /\ actual \in [Books -> Layers]
  /\ shelf \in [Books -> Rows]
  /\ missing \in [Books -> {NotMissing} \cup 0..Stale]
  /\ pending \in [Books -> Layers \cup {None}]
  /\ waited \in [Books -> 0..LayerSettle]
  /\ before \in [Books -> Rows]
  /\ op_active \in BOOLEAN /\ quiet \in 0..LayerSettle
  /\ gapped \subseteq Boards /\ filled \subseteq Boards
  /\ ir_changed \in BOOLEAN
  /\ seen_removed \subseteq Boards /\ seen_added \subseteq Boards
  /\ recent \in [Boards -> 0..(IrRecent + 1)]
  /\ emptied \in [Boards -> SUBSET Books]
  /\ mode \in Modes
  /\ pc \in Phases
  /\ events \in [Books -> {"none", "MISSING", "RETURNED"}]
  /\ sent \subseteq Books \X Publications
  /\ proven \subseteq Books
  /\ unheard \subseteq Books /\ untold \subseteq Books
  /\ away \in [Books -> 0..Stale]

(***************************************************************************)
(* What happens to one book, as a record of its new fields.                *)
(***************************************************************************)
Book(row, has, where, since) ==
  [shelf |-> row, present |-> has, actual |-> where, missing |-> since]

On(l) == [present |-> TRUE, layer |-> l]
Off(l) == [present |-> FALSE, layer |-> l]

Kept(b) == Book(shelf[b], present[b], actual[b], missing[b])

\* confirm_book_removed
Removed(b) == Book(Off(shelf[b].layer), FALSE, actual[b], 0)

\* restore_transient_missing: missing_since stays.
Restored(b) == Book(On(before[b].layer), TRUE, before[b].layer, missing[b])

\* op_insert_returned_book, for the book itself and for the books that the
\* record has on its layer.
Inserted(b, target) == Book(On(target), TRUE, target, missing[b])

Beside(b, target) ==
  IF shelf[b] = On(target) THEN Inserted(b, target) ELSE Kept(b)

\* one out, one in: the book that went
Replaced(b) == Book(Off(before[b].layer), present[b], actual[b], missing[b])

\* the book that is read on another layer at the end of the window
Relayered(b) == Book(On(actual[b]), present[b], actual[b], missing[b])

SetBooks(new) ==
  /\ shelf' = [b \in Books |-> new[b].shelf]
  /\ present' = [b \in Books |-> new[b].present]
  /\ actual' = [b \in Books |-> new[b].actual]
  /\ missing' = [b \in Books |-> new[b].missing]

Publish(S, event) == { <<b, event>> : b \in S }

(***************************************************************************)
(* Evidence.                                                               *)
(***************************************************************************)

\* recent_removed_ir_matches_book
RecentGap(b) ==
  \E d \in Boards : /\ LayerOf(d) = shelf[b].layer
                    /\ recent[d] <= IrRecent
                    /\ b \in emptied[d]

\* Mutant: off by one.
MissIsRecentLess(b) == missing[b] < Recent - 1

\* uhf_missing_is_recent: a miss that has no time yet is recent.
MissIsRecent(b) == missing[b] < Recent

\* The age of a miss that is compared without a look at whether there is one.
MissIsOld(b) == missing[b] = NotMissing \/ missing[b] >= IrRecent

\* The positions are computed anew: what the gaps overlap is open again.
Reposition ==
  \E e \in [Boards -> SUBSET Books] :
    /\ \A d \in Boards : recent[d] > IrRecent => e[d] = {}
    /\ emptied' = e

(***************************************************************************)
(* The tick: scanner_poll and ir_scan.                                     *)
(***************************************************************************)
Report(b) ==
  CASE signal[b] = Unread -> IF present[b] THEN "MISSING" ELSE "none"
    [] signal[b] \in Layers ->
         IF present[b] /\ actual[b] = signal[b] THEN "none" ELSE "RETURNED"

\* ir_scan: a board that is steady is compared with its last steady bitmap,
\* one that fails or flickers keeps the difference it had.
IrScan(steady, g, a) ==
  /\ gapped' = (gapped \ steady) \cup g
  /\ filled' = (filled \ steady) \cup a
  /\ ir_changed' = (g \cup a # {})

RememberAway ==
  away' = [b \in Books |-> IF present'[b] THEN 0
                           ELSE IF shelf'[b].present THEN away[b] ELSE Stale]

Poll ==
  /\ pc = "idle" /\ mode # "SLEEP"
  /\ events' = [b \in Books |-> Report(b)]
  /\ present' = [b \in Books |-> signal[b] # Unread]
  /\ actual' = [b \in Books |-> IF signal[b] = Unread THEN actual[b] ELSE signal[b]]
  /\ \E steady \in SUBSET Boards : \E g, a \in SUBSET steady : IrScan(steady, g, a)
  /\ pc' = "events"
  /\ sent' = {} /\ proven' = {}
  /\ UNCHANGED <<signal, shelf, missing, pendVars, windowVars, gapVars, mode,
                 unheard, untold>>
  /\ RememberAway

\* The tick that goes to sleep ends here: its events are never processed.
FallAsleep ==
  /\ pc = "events" /\ mode = "ACTIVE" /\ "SLEEP" \in Modes
  /\ mode' = "SLEEP"
  /\ pc' = "idle"
  /\ events' = [b \in Books |-> "none"]
  /\ ir_changed' = FALSE
  /\ sent' = {} /\ proven' = {}
  /\ unheard' = { b \in Books : IF events[b] = "none" THEN b \in unheard
                                 ELSE events[b] = "RETURNED" }
  /\ untold' = untold \cup
                 { b \in Books : events[b] = "RETURNED" /\ missing[b] # NotMissing }
  /\ UNCHANGED <<signal, bookVars, pendVars, gapped, filled, windowVars,
                 gapVars, away>>

(***************************************************************************)
(* process_events                                                          *)
(***************************************************************************)
MissingSince(b) == IF missing[b] = NotMissing THEN 0 ELSE missing[b]

\* Mutant: a book that is back is not written into the record.
AfterReturnUnwritten(b) == Book(shelf[b], present[b], actual[b], NotMissing)

\* The layer of the record stays, until the new one is confirmed.
AfterReturn(b) == Book(On(shelf[b].layer), present[b], actual[b], NotMissing)

Missed(b) == Book(shelf[b], present[b], actual[b], MissingSince(b))

AfterEvent(b) ==
  CASE events[b] = "MISSING" -> IF RecentGap(b) THEN Removed(b) ELSE Missed(b)
    [] events[b] = "RETURNED" -> AfterReturn(b)
    [] events[b] = "none" -> Kept(b)

\* schedule_layer_change, clear_layer_change
Schedule(b, layer) ==
  IF pending[b] = layer THEN <<layer, waited[b]>> ELSE <<layer, 0>>

Cleared == <<None, 0>>

PendingAfterEvent(b) ==
  IF events[b] # "RETURNED" THEN <<pending[b], waited[b]>>
  ELSE IF shelf[b].layer # actual[b] THEN Schedule(b, actual[b])
  ELSE Cleared

SetPending(new) ==
  /\ pending' = [b \in Books |-> new[b][1]]
  /\ waited' = [b \in Books |-> new[b][2]]

ProcessEvents ==
  /\ pc = "events"
  /\ SetBooks([b \in Books |-> AfterEvent(b)])
  /\ SetPending([b \in Books |-> PendingAfterEvent(b)])
  /\ proven' = { b \in Books : events[b] = "MISSING" /\ RecentGap(b) }
  /\ sent' = Publish(proven', "borrowed")
  /\ events' = [b \in Books |-> "none"]
  /\ pc' = "window"
  /\ unheard' = { b \in unheard : events[b] = "none" }
  /\ untold' = { b \in untold : events[b] # "RETURNED" /\ b \notin proven' }
  /\ RememberAway
  /\ UNCHANGED <<signal, irVars, windowVars, gapVars, mode>>

(***************************************************************************)
(* op_window_update and op_commit                                          *)
(***************************************************************************)

\* The window opens with the first change, and every change is kept in it.
SeeChange ==
  /\ op_active' = TRUE
  /\ before' = IF op_active THEN before ELSE shelf
  /\ seen_removed' = (IF op_active THEN seen_removed ELSE {}) \cup gapped
  /\ seen_added' = (IF op_active THEN seen_added ELSE {}) \cup filled
  /\ recent' = [d \in Boards |-> IF d \in gapped THEN 0 ELSE recent[d]]
  /\ \E e \in [gapped -> SUBSET Books] :
       emptied' = [d \in Boards |-> IF d \in gapped THEN e[d] ELSE emptied[d]]
  /\ quiet' = 0
  /\ ir_changed' = FALSE
  /\ UNCHANGED <<gapped, filled>>

\* Mutant: what the scanner has now is not looked at.
GoneUnlooked == { b \in Books : before[b].present }

Gone == { b \in Books : before[b].present /\ ~present[b] }

Come == { b \in Books : ~before[b].present /\ present[b] }

Moved == { b \in Books : before[b].present /\ present[b] /\ actual[b] # before[b].layer }

\* op_changed_board: the one with the most changed bits, unless every board that changed has
\* failed since.
ChangedBoards == (seen_removed \cup seen_added) \cup {NoBoard}

TargetLayer(d, other) == IF d = NoBoard THEN other ELSE LayerOf(d)

\* Nothing reads op_before outside a window: it is forgotten here.
CloseWindow ==
  /\ op_active' = FALSE
  /\ before' = [b \in Books |-> Off(CHOOSE l \in Layers : TRUE)]
  /\ seen_removed' = {} /\ seen_added' = {}
  /\ UNCHANGED <<quiet, irVars, recent>>

\* Nobody came or went: the positions follow the antennas or stay.
CommitMoves(d) ==
  /\ Gone = {} /\ Come = {} /\ Moved = {}
  /\ SetBooks([b \in Books |-> Kept(b)])
  /\ Reposition
  /\ sent' = {} /\ proven' = {}

\* One book is gone.  here: the gap of this window is where it was.
CommitOneGone(d, here) ==
  \E r \in Gone :
    /\ Gone = {r} /\ Come = {}
    /\ LET proof == r \in here \/ RecentGap(r)
       IN  IF ~proof /\ MissIsRecent(r)
           THEN /\ SetBooks([b \in Books |-> IF b = r THEN Restored(r) ELSE Kept(b)])
                /\ sent' = {} /\ proven' = {}
                /\ UNCHANGED emptied
           ELSE /\ SetBooks([b \in Books |-> IF b = r THEN Removed(r) ELSE Kept(b)])
                /\ sent' = Publish({r}, "borrowed")
                /\ proven' = IF proof THEN {r} ELSE {}
                /\ Reposition

CommitOneCome(d) ==
  \E a \in Come :
    /\ Gone = {} /\ Come = {a}
    /\ LET target == TargetLayer(d, actual[a])
       IN  SetBooks([b \in Books |-> IF b = a THEN Inserted(a, target)
                                     ELSE Beside(b, target)])
    /\ sent' = Publish({a}, "returned")
    /\ proven' = {}
    /\ Reposition

\* One book is gone and one has come: a miss without a gap is overlooked,
\* otherwise the one is taken to replace the other.
CommitExchange(d, here) ==
  \E r \in Gone, a \in Come :
    /\ Gone = {r} /\ Come = {a}
    /\ LET overlooked == r \notin here /\ MissIsRecent(r)
           target == TargetLayer(d, IF overlooked THEN actual[a] ELSE before[r].layer)
       IN  /\ SetBooks([b \in Books |->
                IF b = a THEN Inserted(a, target)
                ELSE IF b = r THEN IF overlooked THEN Restored(r) ELSE Replaced(r)
                ELSE Beside(b, target)])
           /\ sent' = IF overlooked THEN {} ELSE Publish({a}, "returned")
           /\ proven' = {r} \cap here
    /\ Reposition

\* Several went or came, or some are read on another layer: each of those that
\* went is taken out or overlooked for itself, those that came are put back
\* when a board saw something put in.
TakenOut(b, d) ==
  /\ b \in Gone /\ Cardinality(Gone) > 1
  /\ (~MissIsRecent(b) \/ (d \notin seen_removed /\ RecentGap(b) /\ MissIsOld(b)))

Overlooked(b, d) == b \in Gone /\ Cardinality(Gone) > 1 /\ ~TakenOut(b, d)

PutBack(b, d) ==
  /\ b \in Come /\ Cardinality(Come) > 1
  /\ d \in seen_added
  /\ Cardinality(Gone) > 1 => d \in seen_removed

Several(b, d) ==
  IF b \in Moved THEN Relayered(b)
  ELSE IF TakenOut(b, d) THEN Removed(b)
  ELSE IF Overlooked(b, d) \/ PutBack(b, d) THEN Restored(b)
  ELSE Kept(b)

CommitSeveral(d) ==
  /\ \/ Cardinality(Gone) > 1
     \/ Cardinality(Come) > 1
     \/ (Gone = {} /\ Come = {} /\ Moved # {})
  /\ SetBooks([b \in Books |-> Several(b, d)])
  /\ sent' = Publish({ b \in Books : TakenOut(b, d) }, "borrowed")
               \cup Publish({ b \in Books : PutBack(b, d) }, "returned")
  /\ proven' = { b \in Books : TakenOut(b, d) /\ RecentGap(b) }
  /\ IF \E b \in Books : b \in Moved \/ PutBack(b, d)
     THEN Reposition ELSE UNCHANGED emptied

OpCommit ==
  \E d \in ChangedBoards :
  \E here \in IF d \in seen_removed THEN SUBSET Books ELSE {{}} :
    \/ CommitMoves(d)
    \/ CommitOneGone(d, here)
    \/ CommitOneCome(d)
    \/ CommitExchange(d, here)
    \/ CommitSeveral(d)

\* Mutant: the second in which the window settles must not be missed.
SettledNow == op_active /\ quiet = Settle

Settled == op_active /\ quiet >= Settle

\* History: the books that a step gives back to the scanner by itself.  The time
\* of a miss starts anew with a borrowing.
TakeBack ==
  /\ untold' = (untold \ { b \in Books : <<b, "borrowed">> \in sent' }) \cup
       { b \in Books : ~present[b] /\ present'[b] /\ missing[b] # NotMissing }
  /\ RememberAway

OpWindow ==
  /\ pc = "window"
  /\ \/ /\ ir_changed
        /\ SeeChange
        /\ sent' = {} /\ proven' = {}
        /\ UNCHANGED bookVars
     \/ /\ ~ir_changed /\ Settled
        /\ OpCommit
        /\ CloseWindow
     \/ /\ ~ir_changed /\ ~Settled
        /\ sent' = {} /\ proven' = {}
        /\ UNCHANGED <<bookVars, windowVars, irVars, gapVars>>
  /\ pc' = IF mode = "ACTIVE" THEN "layers" ELSE "idle"
  /\ mode' = IF mode = "SLEEP" THEN "ACTIVE" ELSE mode
  /\ TakeBack
  /\ UNCHANGED <<signal, pendVars, events, unheard>>

(***************************************************************************)
(* confirm_pending_layer_changes                                           *)
(***************************************************************************)
Due(b) == pending[b] # None /\ waited[b] >= LayerSettle

\* The scanner has the book on the layer that waits, the record has not.
Confirmed(b) ==
  /\ Due(b) /\ present[b] /\ actual[b] = pending[b]
  /\ shelf[b] # On(pending[b])

AfterWait(b) ==
  IF ~Due(b) THEN <<pending[b], waited[b]>>
  ELSE IF present[b] /\ actual[b] # pending[b] /\ actual[b] # book_layer[b]
  THEN Schedule(b, actual[b])
  ELSE Cleared

ConfirmLayers ==
  /\ pc = "layers"
  /\ IF op_active \/ quiet < LayerSettle
     THEN UNCHANGED <<bookVars, pendVars>>
     ELSE /\ SetBooks([b \in Books |-> IF Confirmed(b) THEN Relayered(b) ELSE Kept(b)])
          /\ SetPending([b \in Books |-> AfterWait(b)])
  /\ pc' = "stale"
  /\ sent' = {} /\ proven' = {}
  /\ UNCHANGED <<signal, irVars, windowVars, gapVars, mode, events,
                 toldVars>>

(***************************************************************************)
(* confirm_stale_uhf_missing and ir_reconcile_with_shelf_state             *)
(***************************************************************************)
Late(b) == shelf[b].present /\ ~present[b]

\* Mutant: without a gap no book is given up.
GivenUpOnGap(b) == Late(b) /\ missing[b] # NotMissing /\ RecentGap(b)

GivenUp(b) ==
  Late(b) /\ missing[b] # NotMissing /\ (RecentGap(b) \/ missing[b] >= Stale)

ConfirmStale ==
  /\ pc = "stale"
  /\ IF op_active
     THEN /\ UNCHANGED bookVars
          /\ sent' = {} /\ proven' = {}
     ELSE /\ SetBooks([b \in Books |->
               IF GivenUp(b) THEN Removed(b)
               ELSE IF Late(b) THEN Missed(b)
               ELSE Kept(b)])
          /\ sent' = Publish({ b \in Books : GivenUp(b) }, "borrowed")
          /\ proven' = { b \in Books : GivenUp(b) /\ RecentGap(b) }
  /\ pc' = "reconcile"
  /\ TakeBack
  /\ UNCHANGED <<signal, pendVars, irVars, windowVars, gapVars, mode, events,
                 unheard>>

Reconcile ==
  /\ pc = "reconcile"
  /\ IF op_active THEN UNCHANGED emptied ELSE Reposition
  /\ pc' = "idle"
  /\ sent' = {} /\ proven' = {}
  /\ UNCHANGED <<signal, bookVars, pendVars, irVars, windowVars, recent, mode,
                 events, toldVars>>

\* In SLEEP only the boards are looked at, and a change wakes the machine
\* (the end of OpWindow).
SleepScan ==
  /\ pc = "idle" /\ mode = "SLEEP"
  /\ \E steady \in SUBSET Boards : \E g, a \in SUBSET steady :
       /\ IrScan(steady, g, a)
       /\ pc' = IF g \cup a # {} THEN "window" ELSE "idle"
  /\ sent' = {} /\ proven' = {}
  /\ UNCHANGED <<signal, bookVars, pendVars, windowVars, gapVars, mode,
                 events, toldVars>>

(***************************************************************************)
(* Between two ticks.                                                      *)
(***************************************************************************)

\* A command or the radar changes the mode.
ChangeMode ==
  /\ pc = "idle"
  /\ mode' \in Modes \ {mode}
  /\ sent' = {} /\ proven' = {}
  /\ UNCHANGED <<signal, bookVars, pendVars, irVars, windowVars, gapVars,
                 pc, events, toldVars>>

\* Another book is registered or deleted: scanner_init reads the record again,
\* and nothing else is reset.
Reload ==
  /\ pc = "idle" /\ Reloads
  /\ present' = [b \in Books |-> shelf[b].present]
  /\ actual' = [b \in Books |-> shelf[b].layer]
  /\ sent' = {} /\ proven' = {}
  /\ unheard' = {}
  /\ UNCHANGED <<signal, shelf, missing, pendVars, irVars, windowVars,
                 gapVars, mode, pc, events>>
  /\ TakeBack

Reader ==
  /\ pc = "idle"
  /\ \E b \in Books : \E s \in Layers \cup {Unread} :
       /\ s # signal[b]
       /\ signal' = [signal EXCEPT ![b] = s]
  /\ sent' = {} /\ proven' = {}
  /\ UNCHANGED <<bookVars, pendVars, irVars, windowVars, gapVars, mode,
                 pc, events, toldVars>>

\* A gap that is not recent any more is forgotten.
Second ==
  /\ pc = "idle"
  /\ missing' = [b \in Books |-> IF missing[b] = NotMissing THEN NotMissing
                                  ELSE Least(missing[b] + 1, Stale)]
  /\ waited' = [b \in Books |-> IF pending[b] = None THEN 0
                                 ELSE Least(waited[b] + 1, LayerSettle)]
  /\ quiet' = Least(quiet + 1, LayerSettle)
  /\ recent' = [d \in Boards |-> Least(recent[d] + 1, IrRecent + 1)]
  /\ emptied' = [d \in Boards |-> IF recent'[d] > IrRecent THEN {} ELSE emptied[d]]
  /\ away' = [b \in Books |-> IF present[b] THEN 0 ELSE Least(away[b] + 1, Stale)]
  /\ sent' = {} /\ proven' = {}
  /\ UNCHANGED <<signal, present, actual, shelf, pending, before,
                 op_active, seen_removed, seen_added, irVars, mode, pc, events,
                 unheard, untold>>

\* The end of baseline: the scanner has taken the record over.
Init ==
  /\ signal \in [Books -> Layers \cup {Unread}]
  /\ shelf \in [Books -> Rows]
  /\ present = [b \in Books |-> shelf[b].present]
  /\ actual = [b \in Books |-> shelf[b].layer]
  /\ missing = [b \in Books |-> NotMissing]
  /\ pending = [b \in Books |-> None]
  /\ waited = [b \in Books |-> 0]
  /\ before = [b \in Books |-> Off(CHOOSE l \in Layers : TRUE)]
  /\ op_active = FALSE
  /\ quiet = LayerSettle
  /\ gapped = {} /\ filled = {}
  /\ ir_changed = FALSE
  /\ seen_removed = {} /\ seen_added = {}
  /\ recent = [d \in Boards |-> IrRecent + 1]
  /\ emptied = [d \in Boards |-> {}]
  /\ mode = "ACTIVE"
  /\ pc = "idle"
  /\ events = [b \in Books |-> "none"]
  /\ sent = {} /\ proven = {}
  /\ unheard = {} /\ untold = {}
  /\ away = [b \in Books |-> IF present[b] THEN 0 ELSE Stale]

Tick ==
  \/ Poll \/ FallAsleep \/ ProcessEvents \/ OpWindow \/ ConfirmLayers
  \/ ConfirmStale \/ Reconcile \/ SleepScan

Next == Tick \/ ChangeMode \/ Reload \/ Reader \/ Second

Spec == Init /\ [][Next]_vars

\* The machine keeps ticking, and the clock goes on between its ticks.
FairSpec == Spec /\ WF_vars(Tick) /\ SF_vars(Second)

(***************************************************************************)
(* Properties.                                                             *)
(***************************************************************************)
Quiet == ~ir_changed /\ gapped = {} /\ filled = {}

\* Between two ticks a book that the scanner has is on the record, and if the
\* record has it on another layer a layer change is pending.  The one way to be
\* left behind is the tick that falls asleep, which drops the book's event: the
\* record then follows again with the next event of the book that is processed,
\* or with a reload.
RecordFollows ==
  pc = "idle" => \A b \in Books \ unheard :
    present[b] => /\ shelf[b].present
                  /\ shelf[b].layer # actual[b] => pending[b] # None

\* A book leaves the record only while the scanner does not have it, and comes
\* onto it only in a step after which the scanner has it.
RecordHasCause ==
  [][\A b \in Books :
       /\ shelf[b].present /\ ~shelf'[b].present => ~present[b]
       /\ ~shelf[b].present /\ shelf'[b].present => present'[b]]_vars

\* The record never names a layer on which the scanner does not have the book.
LayerHasCause ==
  [][\A b \in Books :
       shelf'[b].layer # shelf[b].layer /\ shelf'[b].present
         => actual'[b] = shelf'[b].layer]_vars

Record == INSTANCE ShelfRecord WITH
  row <- shelf,
  has <- [b \in Books |-> [present |-> present[b], layer |-> actual[b]]]

\* The handlers implement the abstract record: no order of events, windows,
\* gaps, timers, reloads and mode changes takes out a book that the scanner
\* has, puts in one that it has not, or names a layer where it is not.
RecordKept == Record!Spec

TakenReachesRecord ==
  \A b \in Books :
    <>[](mode = "ACTIVE" /\ Quiet /\ signal[b] = Unread) => <>[](~shelf[b].present)

PutReachesRecord ==
  \A b \in Books : \A l \in Layers :
    <>[](mode = "ACTIVE" /\ Quiet /\ signal[b] = l)
      => <>[](shelf[b] = On(l) \/ b \in unheard)

\* With quiet boards and an awake machine, a book whose tag stays unread leaves
\* the record, even if the event that it was missed was lost, and one that is
\* read on one layer only ends up on the record there, however it was before and
\* however often the machine slept, unless the tick that fell asleep dropped the
\* event that would have said so.
RecordCatchesUp == TakenReachesRecord /\ PutReachesRecord

\* A window that opened is committed.
WindowCloses ==
  <>[](mode = "ACTIVE" /\ Quiet) => <>[](~op_active)

\* No book is published as borrowed right after the scanner has lost it, unless
\* a board saw its place empty: not by the commit of a window within Recent
\* seconds, not by the timer within Stale.  That is so for a book of which the
\* fusion was told that it came back; one that it took back by itself (a miss
\* overlooked, a neighbour inserted, a reload, a report dropped by the tick that
\* falls asleep) keeps the time of its old miss.
MissNeedsTime ==
  [][\A b \in Books : <<b, "borrowed">> \in sent' /\ b \notin proven' /\ b \notin untold
       => away[b] >= IF pc = "stale" THEN Stale ELSE Recent]_vars
=============================================================================
