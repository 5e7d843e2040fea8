---------------------------- MODULE ShelfRecord ----------------------------
(***************************************************************************)
(* What the record of the shelf promises, whatever sensors and timers      *)
(* decide when it is written: the table shelf_state of src/src/db/db.h     *)
(* against what the scanner has.  A book is taken out only while the       *)
(* scanner does not have it, put in only if the scanner has it, and moved  *)
(* only to the layer on which the scanner has it.  ShelfFusion implements  *)
(* this with events, windows and timers.                                   *)
(***************************************************************************)
CONSTANTS Books, Layers

VARIABLES row,  \* the record: whether each book is there, and its layer
          has   \* the same as the scanner has it

Entries == [present : BOOLEAN, layer : Layers]

Init == /\ row \in [Books -> Entries]
        /\ has \in [Books -> Entries]

\* The antennas read something else.
Sense == /\ has' \in [Books -> Entries]
         /\ UNCHANGED row

TakeOut(b) == /\ row[b].present
              /\ ~has[b].present
              /\ ~row'[b].present

PutIn(b) == /\ ~row[b].present
            /\ row'[b].present
            /\ has'[b].present
            /\ row'[b].layer \in {row[b].layer, has'[b].layer}

Move(b) == /\ row[b].present
           /\ row'[b].present
           /\ row'[b].layer = has'[b].layer

\* A book that is not there: its row may remember another layer.
Note(b) == ~row[b].present /\ ~row'[b].present

Keep(b) == row'[b] = row[b]

\* One handler writes the rows of any books, and may tell the scanner.
Write == /\ row' \in [Books -> Entries]
         /\ has' \in [Books -> Entries]
         /\ \A b \in Books :
              TakeOut(b) \/ PutIn(b) \/ Move(b) \/ Note(b) \/ Keep(b)

Spec == Init /\ [][Sense \/ Write]_<<row, has>>
=============================================================================
