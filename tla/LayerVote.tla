------------------------------ MODULE LayerVote ------------------------------
(***************************************************************************)
(* How scanner_poll of src/src/uhf/uhf_scanner.c decides on which layer a  *)
(* book stands: the reads of this poll, a decaying score of the reads of   *)
(* earlier polls and the signal strengths are weighed against each other,  *)
(* and the winner has to repeat itself before the layer of the book        *)
(* changes.  One book, as the books do not influence each other.           *)
(***************************************************************************)
EXTENDS Integers

CONSTANTS
  Deltas,        \* the numbers of reads an antenna may add in one poll
  DeltaCap,      \* the most that count in one poll
  LayerConfirm,  \* layer_change_confirm
  Echo,          \* polls for which the largest score speaks on by itself
  SteadyPolls    \* polls after which one-sided reads have won

Upper == 0
Lower == 1
Layers == {Upper, Lower}
Unheard == 2     \* neither signal is 10 stronger than the other

\* The largest score: most reads, poll after poll, keep it where it is.
ScoreCap == ((DeltaCap - 1) * 10) \div 3 + 1

\* What is left of it after so many polls without a read.
Fade[n \in Nat] == IF n = 0 THEN ScoreCap ELSE (Fade[n - 1] * 70) \div 100

ASSUME VoteConstantsOK ==
  /\ DeltaCap \in Nat \ {0}
  /\ Deltas \subseteq 0..DeltaCap
  /\ LayerConfirm \in Nat \ {0}
  /\ Echo \in Nat /\ Fade[Echo + 1] < 6
  /\ SteadyPolls \in Nat /\ SteadyPolls >= LayerConfirm + Echo

VARIABLES
  book_layer,    \* the registered layer
  score,         \* layer_score
  layer,         \* actual_layer
  cand, streak,  \* layer_candidate, layer_candidate_streak
  silent         \* history: valid reads in a row without each antenna, since the
                 \* book was last reported missing

vars == <<book_layer, score, layer, cand, streak, silent>>

Least(a, b) == IF a < b THEN a ELSE b
Other(d) == 1 - d

TypeOK ==
  /\ book_layer \in Layers
  /\ score \in [Layers -> 0..ScoreCap]
  /\ layer \in Layers
  /\ cand \in Layers
  /\ streak \in 0..LayerConfirm
  /\ silent \in [Layers -> 0..SteadyPolls]

(***************************************************************************)
(* What the antennas may say of the tag in one poll.  A tag counts as seen *)
(* for a second after its last read, so it may be seen with no new read;   *)
(* each antenna keeps its last signal strength.                            *)
(***************************************************************************)
Evidence ==
  { e \in [seen : SUBSET Layers, delta : [Layers -> Deltas], louder : Layers \cup {Unheard}] :
      \A d \in Layers : e.delta[d] > 0 => d \in e.seen }

Leader(n) == IF n[Lower] > n[Upper] THEN Lower ELSE Upper

\* Mutant: the upper antenna wins a close race.
ByScoreUpper(s, fallback) ==
  LET d == Leader(s)
  IN  IF /\ s[Upper] + s[Lower] >= 6
         /\ \/ s[d] >= s[Other(d)] + 6 \/ d = Upper
            \/ s[d] >= 6 /\ s[d] * 100 >= (s[Upper] + s[Lower]) * 70
        THEN d ELSE fallback

\* choose_layer_from_reads
ByScore(s, fallback) ==
  LET d == Leader(s)
      total == s[Upper] + s[Lower]
  IN  IF /\ total >= 6
         /\ \/ s[d] >= s[Other(d)] + 6
            \/ s[d] >= 6 /\ s[d] * 100 >= total * 70
        THEN d ELSE fallback

\* choose_layer_from_rssi
ByRssi(e, fallback) ==
  IF e.seen \in {{Upper}, {Lower}} THEN CHOOSE d \in Layers : d \in e.seen
  ELSE IF e.seen = Layers /\ e.louder # Unheard THEN e.louder
  ELSE fallback

\* choose_layer_from_evidence: the reads of this poll, then the score, then
\* the signal; a source that agrees with the fallback gives way to the next.
ByEvidence(delta, score_layer, rssi_layer, fallback) ==
  LET d == Leader(delta)
      total == delta[Upper] + delta[Lower]
      delta_layer ==
        IF /\ total >= 4
           /\ \/ delta[d] >= delta[Other(d)] + 3
              \/ delta[d] * 100 >= total * 70
          THEN d ELSE fallback
  IN  IF delta_layer # fallback THEN delta_layer
      ELSE IF score_layer # fallback THEN score_layer
      ELSE rssi_layer

\* Mutant: the score does not decay.
DecayNever(s, e) ==
  [d \in Layers |-> Least(s[d] + e.delta[d], ScoreCap)]

Decay(s, e) == [d \in Layers |-> (s[d] * 70) \div 100 + e.delta[d]]

Observed(s, e, current) ==
  ByEvidence(e.delta, ByScore(Decay(s, e), current), ByRssi(e, current), current)

Streak(o) == IF o = cand THEN Least(streak + 1, LayerConfirm) ELSE 1

\* A poll in which the tag counts as read.
PollFound ==
  \E e \in Evidence :
    LET o == Observed(score, e, layer)
    IN  /\ e.seen # {}
        /\ score' = Decay(score, e)
        /\ cand' = o
        /\ streak' = Streak(o)
        /\ layer' = IF streak' >= LayerConfirm THEN o ELSE layer
        /\ silent' = [d \in Layers |-> IF d \in e.seen THEN 0
                                       ELSE Least(silent[d] + 1, SteadyPolls)]
        /\ UNCHANGED book_layer

\* A poll in which no antenna read it: the score decays, and the poll that
\* reports the book missing clears what was known of its layer.
PollUnread ==
  /\ \/ /\ score' = [d \in Layers |-> (score[d] * 70) \div 100]
        /\ UNCHANGED <<cand, streak, silent>>
     \/ /\ score' = [d \in Layers |-> 0]
        /\ cand' = book_layer
        /\ streak' = 0
        /\ silent' = [d \in Layers |-> 0]
  /\ UNCHANGED <<book_layer, layer>>

Init ==
  /\ book_layer \in Layers
  /\ score = [d \in Layers |-> 0]
  /\ layer \in Layers
  /\ cand = Upper
  /\ streak = 0
  /\ silent = [d \in Layers |-> 0]

Next == PollFound \/ PollUnread

Spec == Init /\ [][Next]_vars

(***************************************************************************)
(* Properties.                                                             *)
(***************************************************************************)

\* A book that only one antenna reads, poll after poll, is on the layer of
\* that antenna, whatever the score of earlier reads says.
SteadyLayerWins ==
  \A d \in Layers : silent[Other(d)] >= SteadyPolls => layer = d

\* The weighing has no favourite: with the antennas exchanged, the result is
\* the other layer.
Swap(n) == [d \in Layers |-> n[Other(d)]]

SwapEvidence(e) ==
  [seen |-> {Other(d) : d \in e.seen}, delta |-> Swap(e.delta),
   louder |-> IF e.louder = Unheard THEN Unheard ELSE Other(e.louder)]

NoFavourite ==
  \A e \in Evidence :
    e.seen # {} => Observed(Swap(score), SwapEvidence(e), Other(layer))
                     = Other(Observed(score, e, layer))

\* The layer never changes to that of an antenna which has not read the tag for
\* longer than the score of a burst lasts, whatever the candidate's streak is
\* made of.
ChangeIsStable ==
  [][layer' # layer => silent'[layer'] <= Echo]_vars

=============================================================================
