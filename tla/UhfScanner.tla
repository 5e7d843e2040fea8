----------------------------- MODULE UhfScanner -----------------------------
(***************************************************************************)
(* The scanner of src/src/uhf/uhf_scanner.c: it turns the tags that two    *)
(* antennas read into the events MISSING, RETURNED and UNKNOWN, with       *)
(* streaks of polls that filter a bad read.                                *)
(*                                                                         *)
(* One action is one scanner_poll, together with the consumer's            *)
(* process_events that follows it in the same tick of the machine.  Which  *)
(* layer the evidence of a poll speaks for is an input here (module        *)
(* LayerVote models how it is weighed).  Stored times are ages, as in      *)
(* FsmMode; a streak is capped at the threshold it is compared with.       *)
(***************************************************************************)
EXTENDS Integers, FiniteSets

CONSTANTS
  N,               \* sc.book_count
  book_layer,      \* the layer each book is registered on
  Tags,            \* tags that are no book's
  MaxEvents,       \* SCANNER_MAX_EVENTS: the events of a poll, the unknown tags
  MissingConfirm,  \* missing_confirm
  ReturnConfirm,   \* return_confirm
  LayerConfirm,    \* layer_change_confirm
  HoldOff,         \* seconds after MISSING in which no read counts
  Fresh,           \* a tag read that many seconds ago still counts as read
  Forget           \* seconds after which an unknown tag is new again

Books == 1..N
Layers == {0, 1}   \* upper, lower

ASSUME ScannerConstantsOK ==
  /\ N \in Nat
  /\ book_layer \in [Books -> Layers]
  /\ MaxEvents \in Nat \ {0}
  /\ MissingConfirm \in Nat \ {0}
  /\ ReturnConfirm \in Nat \ {0}
  /\ LayerConfirm \in Nat \ {0}
  /\ HoldOff \in Nat
  /\ Fresh \in Nat
  /\ Forget \in Nat

VARIABLES
  present, layer,  \* is_present, actual_layer
  seen, miss,      \* seen_streak, miss_streak
  cand, streak,    \* layer_candidate, layer_candidate_streak
  reported,        \* age of missing_reported_at
  readAge,         \* age of the driver's last_seen of the book's tag, up to
                   \* the first at which it does not count
  detect_unknown,
  table, heard,    \* unknown_epc, ages of unknown_seen
  view,            \* what the consumer of the events believes: presence, layer,
                   \* and home, the layer it takes for the registered one
  quiet, reads,    \* history: polls in a row without, with a valid read
  spoke, agree,    \* history: the layer of the last valid read, reads in a row
                   \* that spoke for it
  unheard,         \* history: books whose last change found the array full
  mixed            \* history: books whose last event was the last of an array
                   \* that a later book of the same poll found full

streakVars == <<seen, miss, cand, streak, reported>>
unknownVars == <<detect_unknown, table, heard>>
historyVars == <<quiet, reads, spoke, agree, unheard, mixed>>
vars == <<present, layer, streakVars, readAge, unknownVars, view, historyVars>>

Least(a, b) == IF a < b THEN a ELSE b

EventTypes == {"MISSING", "RETURNED"}

TypeOK ==
  /\ present \in [Books -> BOOLEAN]
  /\ layer \in [Books -> Layers]
  /\ seen \in [Books -> 0..(ReturnConfirm - 1)]
  /\ miss \in [Books -> 0..(MissingConfirm - 1)]
  /\ cand \in [Books -> Layers]
  /\ streak \in [Books -> 0..LayerConfirm]
  /\ reported \in [Books -> 0..HoldOff]
  /\ readAge \in [Books -> 0..(Fresh + 1)]
  /\ detect_unknown \in BOOLEAN
  /\ table \in SUBSET Tags
  /\ heard \in [Tags -> 0..Forget]
  /\ view \in [Books -> [present : BOOLEAN, layer : Layers, home : Layers]]
  /\ quiet \in [Books -> 0..MissingConfirm]
  /\ reads \in [Books -> 0..ReturnConfirm]
  /\ spoke \in [Books -> Layers]
  /\ agree \in [Books -> 0..LayerConfirm]
  /\ unheard \in SUBSET Books
  /\ mixed \in SUBSET Books

(***************************************************************************)
(* scanner_poll, the part of one book.  o is the layer the evidence of     *)
(* this poll speaks for.                                                   *)
(***************************************************************************)

\* Mutant: a tag that was ever read still counts as read.
FoundAlways(b) == readAge'[b] <= Fresh + 1

Found(b) == readAge'[b] <= Fresh

Streak(b, o) == IF o = cand[b] THEN Least(streak[b] + 1, LayerConfirm) ELSE 1

LayerAfter(b, o) == IF Streak(b, o) >= LayerConfirm THEN o ELSE layer[b]

\* Reads within two seconds of MISSING do not count.
SeenAfter(b) == IF reported[b] < HoldOff THEN 0 ELSE seen[b] + 1

Back(b) == Found(b) /\ ~present[b] /\ SeenAfter(b) >= ReturnConfirm

Gone(b) == ~Found(b) /\ present[b] /\ miss[b] + 1 >= MissingConfirm

Moved(b, o) == Found(b) /\ present[b] /\ LayerAfter(b, o) # layer[b]

\* Mutant: a book that moves while it is there is not reported.
ReportsGoneAndBack(b, o) == Gone(b) \/ Back(b)

Reports(b, o) == Gone(b) \/ Back(b) \/ Moved(b, o)

NextSeen(b) == IF ~Found(b) THEN 0
               ELSE IF present[b] THEN seen[b]
               ELSE IF Back(b) THEN 0 ELSE SeenAfter(b)

\* Mutant: a read does not end the streak of missed polls.
MissKept(b) == IF Found(b) \/ ~present[b] THEN miss[b]
               ELSE IF Gone(b) THEN 0 ELSE miss[b] + 1

NextMiss(b) == IF Found(b) THEN 0
               ELSE IF ~present[b] THEN miss[b]
               ELSE IF Gone(b) THEN 0 ELSE miss[b] + 1

NextPresent(b) == (present[b] \/ Back(b)) /\ ~Gone(b)

NextReported(b) == IF Gone(b) THEN 0 ELSE IF Back(b) THEN HoldOff ELSE reported[b]

PollBooks(obs) ==
  /\ present'  = [b \in Books |-> NextPresent(b)]
  /\ layer'    = [b \in Books |-> IF Found(b) THEN LayerAfter(b, obs[b]) ELSE layer[b]]
  /\ seen'     = [b \in Books |-> NextSeen(b)]
  /\ miss'     = [b \in Books |-> NextMiss(b)]
  /\ cand'     = [b \in Books |-> IF Found(b) THEN obs[b]
                                  ELSE IF Gone(b) THEN book_layer[b] ELSE cand[b]]
  /\ streak'   = [b \in Books |-> IF Found(b) THEN Streak(b, obs[b])
                                  ELSE IF Gone(b) THEN 0 ELSE streak[b]]
  /\ reported' = [b \in Books |-> NextReported(b)]

(***************************************************************************)
(* emit_event: the books are visited in the order of the table, and an     *)
(* event that finds the array full is dropped.  The expected layer is then *)
(* written into the last element, whose-ever it is.                        *)
(***************************************************************************)
Reporting(obs) == { b \in Books : Reports(b, obs[b]) }

\* Mutant: a full array loses its oldest event.
KeptNewest(obs) ==
  { b \in Reporting(obs) : Cardinality({c \in Reporting(obs) : c >= b}) <= MaxEvents }

Kept(obs) ==
  { b \in Reporting(obs) : Cardinality({c \in Reporting(obs) : c <= b}) <= MaxEvents }

Last(S) == CHOOSE b \in S : \A c \in S : c <= b

Expected(b, obs) ==
  IF b = Last(Kept(obs)) THEN book_layer[Last(Reporting(obs))] ELSE book_layer[b]

Event(b, obs) ==
  [book |-> b,
   type |-> IF Gone(b) THEN "MISSING" ELSE "RETURNED",
   layer |-> IF Gone(b) THEN book_layer[b] ELSE LayerAfter(b, obs[b]),
   expected |-> Expected(b, obs)]

\* events[0 .. event_count-1], of which process_events has seen the last when
\* the tick ends.
Events(obs) == { Event(b, obs) : b \in Kept(obs) }

(***************************************************************************)
(* Unknown tags, looked for one at a time.                                 *)
(***************************************************************************)
Recent(t) == t \in table /\ heard[t] < Forget

\* unknown_recent, for the tags in S: a full table takes no new tag, and the
\* time of one that it holds is refreshed.
Hear(S) ==
  LET new == S \ table
  IN  \E added \in SUBSET new :
        /\ Cardinality(table) + Cardinality(added) <= MaxEvents
        /\ added # new => Cardinality(table) + Cardinality(added) = MaxEvents
        /\ table' = table \cup added
        /\ heard' = [t \in Tags |-> IF t \in S \cap table' THEN 0 ELSE heard[t]]

\* near are the unknown tags an antenna has read.  The order in which they are
\* looked at is the antennas'.  The search is over with the first new tag, even
\* if its event found the array full.
PollUnknown(near) ==
  IF ~detect_unknown THEN UNCHANGED unknownVars
  ELSE \/ /\ \A t \in near : Recent(t)
          /\ Hear(near)
          /\ UNCHANGED detect_unknown
       \/ \E t \in near : \E before \in SUBSET {u \in near : Recent(u)} :
            /\ ~Recent(t)
            /\ Hear(before \cup {t})
            /\ detect_unknown' = FALSE

(***************************************************************************)
(* The consumer: the machine's process_events believes what it is told.    *)
(***************************************************************************)
Told(b, obs) == { e \in Events(obs) : e.book = b }

Consume(obs) ==
  view' = [b \in Books |->
             IF Told(b, obs) = {} THEN view[b]
             ELSE LET e == CHOOSE e \in Told(b, obs) : TRUE
                  IN  [present |-> e.type = "RETURNED", layer |-> e.layer,
                       home |-> e.expected]]

\* History: what a poll changed about the books, and which of the changes came
\* after as many others as the array holds.
Changed(b) == present'[b] # present[b] \/ (present[b] /\ layer'[b] # layer[b])

ChangedBefore(b) == { c \in Books : c < b /\ Changed(c) }

FindsFull(b) == Changed(b) /\ Cardinality(ChangedBefore(b)) >= MaxEvents

FillsUp(b) == Changed(b) /\ Cardinality(ChangedBefore(b)) = MaxEvents - 1

RememberLoss ==
  /\ unheard' = { b \in Books : IF Changed(b) THEN FindsFull(b) ELSE b \in unheard }
  /\ mixed' = { b \in Books :
                  IF Changed(b) /\ ~FindsFull(b)
                    THEN FillsUp(b) /\ \E c \in Books : FindsFull(c)
                    ELSE b \in mixed }

Remember(obs) ==
  /\ quiet' = [b \in Books |-> IF Found(b) THEN 0
                               ELSE Least(quiet[b] + 1, MissingConfirm)]
  /\ reads' = [b \in Books |-> IF Found(b) THEN Least(reads[b] + 1, ReturnConfirm)
                               ELSE 0]
  /\ spoke' = [b \in Books |-> IF Found(b) THEN obs[b] ELSE spoke[b]]
  /\ agree' = [b \in Books |->
                 IF ~Found(b) THEN agree[b]
                 ELSE IF obs[b] = spoke[b] THEN Least(agree[b] + 1, LayerConfirm)
                 ELSE 1]

Poll ==
  /\ \E read \in SUBSET Books :
       readAge' = [b \in Books |-> IF b \in read THEN 0 ELSE readAge[b]]
  /\ \E obs \in [Books -> Layers] :
       /\ \A b \in Books : ~Found(b) => obs[b] = layer[b]   \* not looked at
       /\ PollBooks(obs)
       /\ Consume(obs)
       /\ Remember(obs)
       /\ RememberLoss
  /\ \E near \in SUBSET Tags : PollUnknown(near)

(***************************************************************************)
(* The machine and the environment.                                        *)
(***************************************************************************)

\* ADD_START, and ADD_CANCEL or the end of the registration.
AskUnknown ==
  /\ detect_unknown' = ~detect_unknown
  /\ UNCHANGED <<present, layer, streakVars, readAge, table, heard,
                 view, historyVars>>

Second ==
  /\ reported' = [b \in Books |-> Least(reported[b] + 1, HoldOff)]
  /\ readAge' = [b \in Books |-> Least(readAge[b] + 1, Fresh + 1)]
  /\ heard' = [t \in Tags |-> Least(heard[t] + 1, Forget)]
  /\ UNCHANGED <<present, layer, seen, miss, cand, streak,
                 detect_unknown, table, view, historyVars>>

\* scanner_init: the shelf state of the database is what was known last.  The
\* consumer starts from the same database.
Init ==
  /\ present \in [Books -> BOOLEAN]
  /\ layer \in [Books -> Layers]
  /\ seen = [b \in Books |-> 0]
  /\ miss = [b \in Books |-> 0]
  /\ cand = [b \in Books |-> 0]
  /\ streak = [b \in Books |-> 0]
  /\ reported = [b \in Books |-> HoldOff]
  /\ readAge = [b \in Books |-> Fresh + 1]
  /\ detect_unknown = FALSE
  /\ table = {}
  /\ heard = [t \in Tags |-> Forget]
  /\ view = [b \in Books |-> [present |-> present[b], layer |-> layer[b],
                             home |-> book_layer[b]]]
  /\ quiet = [b \in Books |-> 0]
  /\ reads = [b \in Books |-> 0]
  /\ spoke = [b \in Books |-> 0]
  /\ agree = [b \in Books |-> 0]
  /\ unheard = {} /\ mixed = {}

Next == Poll \/ AskUnknown \/ Second

Spec == Init /\ [][Next]_vars

\* The machine polls in every tick of ACTIVE and FIND, and the clock goes on.
FairSpec == Spec /\ WF_vars(Poll) /\ WF_vars(Second)

(***************************************************************************)
(* Properties.                                                             *)
(***************************************************************************)

\* A consumer that only follows the events knows which books are there, on
\* which layer they are and on which they belong, whatever the order of reads,
\* misses and moves.  It is wrong about the place of a book only if the book's
\* last change found the event array full, and about where it belongs only if
\* its last event was the last that such an array held; neither happens to the
\* first books of the table, and both are over with the book's next event.
ViewInSync ==
  \A b \in Books :
    /\ b \notin unheard => view[b].present = present[b]
    /\ b \notin unheard /\ present[b] => view[b].layer = layer[b]
    /\ b \notin mixed => view[b].home = book_layer[b]
    /\ b <= MaxEvents => b \notin unheard
    /\ b < MaxEvents => b \notin mixed

\* The same, with every streak, age and table of its type.
ViewConsistent == TypeOK /\ ViewInSync

\* A book is reported missing only after that many polls in a row found no
\* fresh read of its tag: one read in between starts the count again.
MissingNeedsSilence ==
  [][\A b \in Books : present[b] /\ ~present'[b] => quiet'[b] >= MissingConfirm]_vars

\* A book is reported back only after that many polls in a row found one, and
\* not right after it was reported missing.
ReturnNeedsReads ==
  [][\A b \in Books : ~present[b] /\ present'[b]
       => reads'[b] >= ReturnConfirm /\ reported[b] >= HoldOff]_vars

\* The layer of a book changes only when that many reads in a row, whatever
\* polls without a read lie between them, spoke for the new one.
LayerNeedsAgreement ==
  [][\A b \in Books : layer'[b] # layer[b]
       => spoke'[b] = layer'[b] /\ agree'[b] >= LayerConfirm]_vars

\* All three: one bad poll never makes an event.
EventsConfirmed == MissingNeedsSilence /\ ReturnNeedsReads /\ LayerNeedsAgreement

GoneIsNoticed ==
  \A b \in Books : <>[](readAge[b] > Fresh) => <>[](~present[b])

BackIsNoticed ==
  \A b \in Books : <>[](readAge[b] <= Fresh) => <>[](present[b])

\* A book that is not read any more ends up missing, and one that is read
\* again and again ends up present.
ChangesAreNoticed == GoneIsNoticed /\ BackIsNoticed

=============================================================================
