---------------------------- MODULE MCUhfScanner ----------------------------
(***************************************************************************)
(* A small scanner: two books that belong on different layers, and an      *)
(* event array that holds one event.                                       *)
(***************************************************************************)
EXTENDS UhfScanner

MCBookLayer == [b \in 1..2 |-> b - 1]

=============================================================================
