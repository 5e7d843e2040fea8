--------------------------- MODULE LayerVoteProofs ---------------------------
(***************************************************************************)
(* The weighing of reads, score and signal treats the two antennas alike,  *)
(* and in the end follows the only one that reads, for any numbers of      *)
(* reads and after any sequence of polls.                                  *)
(***************************************************************************)
EXTENDS LayerVote, WellFoundedInduction, TLAPS

\* What the symmetry needs to know of a state.
VoteTyped == score \in [Layers -> Nat] /\ layer \in Layers /\ book_layer \in Layers

LEMMA LayerFacts ==
  /\ Layers = {0, 1} /\ Upper = 0 /\ Lower = 1
  /\ \A d \in Layers : Other(d) \in Layers /\ Other(Other(d)) = d /\ Other(d) # d
  BY DEF Layers, Upper, Lower, Other

LEMMA LeaderIsALayer == \A n : Leader(n) \in Layers
  BY DEF Leader, Layers

\* Only a tie is decided by the order of the antennas.
LEMMA LeaderSwapped ==
  ASSUME NEW n \in [Layers -> Nat], n[Upper] # n[Lower]
  PROVE  Leader(Swap(n)) = Other(Leader(n))
<1>1. Swap(n)[Upper] = n[Lower] /\ Swap(n)[Lower] = n[Upper]
  BY LayerFacts DEF Swap, Other
<1>2. n[Upper] \in Nat /\ n[Lower] \in Nat
  BY LayerFacts
<1> QED BY <1>1, <1>2 DEF Leader, Other, Upper, Lower

\* The reads of this poll, and the score of earlier ones, have no favourite:
\* in a tie neither margin is reached.
LEMMA ScoreSwapped ==
  ASSUME NEW s \in [Layers -> Nat], NEW f \in Layers
  PROVE  ByScore(Swap(s), Other(f)) = Other(ByScore(s, f))
<1>1. /\ Swap(s)[Upper] = s[Lower] /\ Swap(s)[Lower] = s[Upper]
      /\ s[Upper] \in Nat /\ s[Lower] \in Nat
  BY LayerFacts DEF Swap, Other
<1>2. CASE s[Upper] = s[Lower]
  <2>1. ByScore(s, f) = f
    BY <1>1, <1>2 DEF ByScore, Leader, Other, Upper, Lower
  <2>2. ByScore(Swap(s), Other(f)) = Other(f)
    BY <1>1, <1>2 DEF ByScore, Leader, Other, Upper, Lower
  <2> QED BY <2>1, <2>2
<1>3. CASE s[Upper] > s[Lower]
  <2>1. Leader(s) = Upper /\ Leader(Swap(s)) = Lower
    BY <1>1, <1>3 DEF Leader
  <2> QED BY <1>1, <2>1 DEF ByScore, Other, Upper, Lower
<1>4. CASE s[Upper] < s[Lower]
  <2>1. Leader(s) = Lower /\ Leader(Swap(s)) = Upper
    BY <1>1, <1>4 DEF Leader
  <2> QED BY <1>1, <2>1 DEF ByScore, Other, Upper, Lower
<1> QED BY <1>1, <1>2, <1>3, <1>4

LEMMA EvidenceSwapped ==
  ASSUME NEW n \in [Layers -> Nat], NEW f \in Layers, NEW s \in Layers, NEW r \in Layers
  PROVE  ByEvidence(Swap(n), Other(s), Other(r), Other(f)) = Other(ByEvidence(n, s, r, f))
<1>1. /\ Swap(n)[Upper] = n[Lower] /\ Swap(n)[Lower] = n[Upper]
      /\ n[Upper] \in Nat /\ n[Lower] \in Nat
  BY LayerFacts DEF Swap, Other
<1>2. s \in {0, 1} /\ r \in {0, 1} /\ f \in {0, 1}
  BY LayerFacts
<1>3. CASE n[Upper] = n[Lower]
  BY <1>1, <1>2, <1>3 DEF ByEvidence, Leader, Other, Upper, Lower
<1>4. CASE n[Upper] > n[Lower]
  <2>1. Leader(n) = Upper /\ Leader(Swap(n)) = Lower
    BY <1>1, <1>4 DEF Leader
  <2> QED BY <1>1, <1>2, <2>1 DEF ByEvidence, Other, Upper, Lower
<1>5. CASE n[Upper] < n[Lower]
  <2>1. Leader(n) = Lower /\ Leader(Swap(n)) = Upper
    BY <1>1, <1>5 DEF Leader
  <2> QED BY <1>1, <1>2, <2>1 DEF ByEvidence, Other, Upper, Lower
<1> QED BY <1>1, <1>3, <1>4, <1>5

LEMMA SignalSwapped ==
  ASSUME NEW e \in Evidence, NEW f \in Layers
  PROVE  ByRssi(SwapEvidence(e), Other(f)) = Other(ByRssi(e, f))
<1> DEFINE x == SwapEvidence(e)
<1>1. /\ x.seen = {Other(d) : d \in e.seen}
      /\ x.louder = IF e.louder = Unheard THEN Unheard ELSE Other(e.louder)
      /\ e.seen \in SUBSET Layers /\ e.louder \in Layers \cup {Unheard}
  BY DEF SwapEvidence, Evidence
<1> HIDE DEF x
<1>2. Other(0) = 1 /\ Other(1) = 0 /\ Upper = 0 /\ Lower = 1 /\ Layers = {0, 1} /\ Unheard = 2
  BY DEF Other, Upper, Lower, Layers, Unheard
<1>3. CASE e.seen = {0}
  <2>1. x.seen = {1}
    BY <1>1, <1>2, <1>3
  <2>2. ByRssi(e, f) = 0
    BY <1>2, <1>3 DEF ByRssi
  <2>3. ByRssi(x, Other(f)) = 1
    BY <1>2, <2>1 DEF ByRssi
  <2> QED BY <2>2, <2>3, <1>2 DEF x
<1>4. CASE e.seen = {1}
  <2>1. x.seen = {0}
    BY <1>1, <1>2, <1>4
  <2>2. ByRssi(e, f) = 1
    BY <1>2, <1>4 DEF ByRssi
  <2>3. ByRssi(x, Other(f)) = 0
    BY <1>2, <2>1 DEF ByRssi
  <2> QED BY <2>2, <2>3, <1>2 DEF x
<1>5. CASE e.seen = {0, 1}
  <2>1. x.seen = {0, 1}
    BY <1>1, <1>2, <1>5
  <2>2. ByRssi(e, f) = IF e.louder # Unheard THEN e.louder ELSE f
    BY <1>2, <1>5 DEF ByRssi
  <2>3. ByRssi(x, Other(f)) = IF x.louder # Unheard THEN x.louder ELSE Other(f)
    BY <1>2, <2>1 DEF ByRssi
  <2> QED BY <2>2, <2>3, <1>1, <1>2 DEF x
<1>6. CASE e.seen = {}
  <2>1. x.seen = {}
    BY <1>1, <1>6
  <2>2. ByRssi(e, f) = f
    BY <1>2, <1>6 DEF ByRssi
  <2>3. ByRssi(x, Other(f)) = Other(f)
    BY <1>2, <2>1 DEF ByRssi
  <2> QED BY <2>2, <2>3 DEF x
<1> QED BY <1>1, <1>2, <1>3, <1>4, <1>5, <1>6

\* The decay works on each antenna alone.
LEMMA DecayTyped ==
  ASSUME NEW s \in [Layers -> Nat], NEW e \in Evidence
  PROVE  Decay(s, e) \in [Layers -> Nat] /\ e.delta \in [Layers -> Nat]
<1>1. e.delta \in [Layers -> Nat]
  <2>1. e.delta \in [Layers -> Deltas]
    BY DEF Evidence
  <2>2. Deltas \subseteq Nat
    BY VoteConstantsOK
  <2> QED BY <2>1, <2>2
<1>2. ASSUME NEW k \in Nat, NEW j \in Nat PROVE (k * 70) \div 100 + j \in Nat
  OBVIOUS
<1> QED BY <1>1, <1>2 DEF Decay

LEMMA DecaySwapped ==
  ASSUME NEW s \in [Layers -> Nat], NEW e \in Evidence
  PROVE  Decay(Swap(s), SwapEvidence(e)) = Swap(Decay(s, e))
  BY LayerFacts DEF Decay, Swap, SwapEvidence

LEMMA ByScoreIsALayer ==
  ASSUME NEW s, NEW f \in Layers PROVE ByScore(s, f) \in Layers
  BY LeaderIsALayer DEF ByScore

LEMMA ByRssiIsALayer ==
  ASSUME NEW e \in Evidence, NEW f \in Layers PROVE ByRssi(e, f) \in Layers
<1>1. e.louder \in Layers \cup {Unheard}
  BY DEF Evidence
<1>2. CASE e.seen \in {{Upper}, {Lower}}
  <2>1. \E d \in Layers : d \in e.seen
    BY <1>2 DEF Layers
  <2> QED BY <1>2, <2>1 DEF ByRssi
<1>3. CASE e.seen \notin {{Upper}, {Lower}}
  BY <1>1, <1>3 DEF ByRssi
<1> QED BY <1>2, <1>3

LEMMA ObservedIsALayer ==
  ASSUME NEW s, NEW e \in Evidence, NEW f \in Layers
  PROVE  Observed(s, e, f) \in Layers
  BY ByScoreIsALayer, ByRssiIsALayer, LeaderIsALayer DEF Observed, ByEvidence

LEMMA ObservedSwapped ==
  ASSUME NEW s \in [Layers -> Nat], NEW e \in Evidence, NEW f \in Layers
  PROVE  Observed(Swap(s), SwapEvidence(e), Other(f)) = Other(Observed(s, e, f))
<1> DEFINE t == Decay(s, e)
           r == ByRssi(e, f)
           v == ByScore(t, f)
<1>1. t \in [Layers -> Nat] /\ e.delta \in [Layers -> Nat]
  BY DecayTyped
<1>2. /\ Decay(Swap(s), SwapEvidence(e)) = Swap(t)
      /\ ByRssi(SwapEvidence(e), Other(f)) = Other(r)
      /\ SwapEvidence(e).delta = Swap(e.delta)
  BY DecaySwapped, SignalSwapped DEF SwapEvidence
<1> HIDE DEF t
<1>3. ByScore(Swap(t), Other(f)) = Other(v) /\ v \in Layers /\ r \in Layers
  BY <1>1, ScoreSwapped, ByScoreIsALayer, ByRssiIsALayer
<1> HIDE DEF r, v
<1>4. Observed(s, e, f) = ByEvidence(e.delta, v, r, f)
  BY DEF Observed, t, r, v
<1>5. Observed(Swap(s), SwapEvidence(e), Other(f))
        = ByEvidence(Swap(e.delta), Other(v), Other(r), Other(f))
  BY <1>2, <1>3 DEF Observed
<1> QED BY <1>1, <1>3, <1>4, <1>5, EvidenceSwapped

LEMMA VoteTypedNext == VoteTyped /\ [Next]_vars => VoteTyped'
<1> SUFFICES ASSUME VoteTyped, [Next]_vars PROVE VoteTyped'
  OBVIOUS
<1>1. CASE PollFound
  <2>1. PICK e \in Evidence :
          /\ score' = Decay(score, e)
          /\ layer' \in {Observed(score, e, layer), layer}
    BY <1>1 DEF PollFound
  <2> QED BY <1>1, <2>1, DecayTyped, ObservedIsALayer DEF VoteTyped, PollFound
<1>2. CASE PollUnread
  <2>1. \A k \in Nat : (k * 70) \div 100 \in Nat
    OBVIOUS
  <2> QED BY <1>2, <2>1 DEF PollUnread, VoteTyped
<1>3. CASE UNCHANGED vars
  BY <1>3 DEF vars, VoteTyped
<1> QED BY <1>1, <1>2, <1>3 DEF Next

\* choose_layer_from_evidence prefers neither antenna, whatever was read
\* before and whatever is read now.
THEOREM VoteHasNoFavourite == Spec => []NoFavourite
<1>1. Init => VoteTyped
  BY DEF Init, VoteTyped
<1>2. VoteTyped => NoFavourite
  BY ObservedSwapped DEF VoteTyped, NoFavourite
<1> QED BY <1>1, <1>2, VoteTypedNext, PTL DEF Spec

(***************************************************************************)
(* Induction over the polls since the last read of an antenna, with the    *)
(* property as a set, and what it says of a score that fades.              *)
(***************************************************************************)
Below == {p \in Nat \X Nat : p[1] < p[2]}

LEMMA NatSetInduction ==
  ASSUME NEW S, 0 \in S, \A n \in Nat : n \in S => n + 1 \in S
  PROVE  \A n \in Nat : n \in S
<1> SUFFICES ASSUME Nat \ S # {} PROVE FALSE
  OBVIOUS
<1>1. IsWellFoundedOn(Below, Nat)
  BY NatLessThanWellFounded DEF OpToRel, Below
<1>2. PICK n \in Nat \ S : \A m \in Nat \ S : ~(<<m, n>> \in Below)
  BY <1>1, WFMin
<1>3. \A m \in Nat \ S : ~(m < n)
  BY <1>2 DEF Below
<1>4. n - 1 \in Nat
  BY <1>2
<1> QED BY <1>2, <1>3, <1>4

LEMMA ScoreCapFacts ==
  /\ ScoreCap \in Nat
  /\ \A s \in 0..ScoreCap : \A k \in 0..DeltaCap : (s * 70) \div 100 + k \in 0..ScoreCap
<1>1. DeltaCap \in Nat \ {0}
  BY VoteConstantsOK
<1> QED BY <1>1 DEF ScoreCap

LEMMA FadeUnfolds ==
  /\ Fade[0] = ScoreCap
  /\ \A n \in Nat : Fade[n + 1] = (Fade[n] * 70) \div 100
<1> DEFINE Step(v, n) == (v * 70) \div 100
<1>1. NatInductiveDefHypothesis(Fade, ScoreCap, Step)
  BY DEF NatInductiveDefHypothesis, Fade
<1>2. NatInductiveDefConclusion(Fade, ScoreCap, Step)
  <2> HIDE DEF Step
  <2> QED BY <1>1, NatInductiveDef
<1>3. Fade = [n \in Nat |-> IF n = 0 THEN ScoreCap ELSE (Fade[n - 1] * 70) \div 100]
  BY <1>2 DEF NatInductiveDefConclusion
<1>4. ASSUME NEW n \in Nat PROVE Fade[n + 1] = (Fade[n] * 70) \div 100
  <2>1. n + 1 \in Nat /\ n + 1 # 0 /\ (n + 1) - 1 = n
    OBVIOUS
  <2> QED BY <1>3, <2>1
<1> QED BY <1>3, <1>4

LEMMA FadeFacts ==
  /\ \A n \in Nat : Fade[n] \in 0..ScoreCap
  /\ \A n \in Nat : Fade[n + 1] <= Fade[n]
<1> DEFINE S == {n \in Nat : Fade[n] \in 0..ScoreCap}
<1>1. \A v \in 0..ScoreCap : (v * 70) \div 100 \in 0..ScoreCap /\ (v * 70) \div 100 <= v
  BY ScoreCapFacts
<1>2. 0 \in S
  BY FadeUnfolds, ScoreCapFacts
<1>3. \A n \in Nat : n \in S => n + 1 \in S
  BY <1>1, FadeUnfolds
<1>4. \A n \in Nat : n \in S
  <2> HIDE DEF S
  <2> QED BY <1>2, <1>3, NatSetInduction
<1> QED BY <1>1, <1>4, FadeUnfolds

\* After Echo polls nothing that is left of a score decides any more.
LEMMA FadedForGood == \A n \in Nat : n > Echo => Fade[n] < 6
<1> DEFINE S == {m \in Nat : Fade[Echo + 1 + m] < 6}
<1>1. Echo \in Nat /\ Fade[Echo + 1] < 6
  BY VoteConstantsOK
<1>2. 0 \in S
  BY <1>1
<1>3. ASSUME NEW m \in Nat, m \in S PROVE m + 1 \in S
  <2>1. Echo + 1 + m \in Nat /\ Echo + 1 + (m + 1) = (Echo + 1 + m) + 1
    BY <1>1
  <2>2. Fade[Echo + 1 + (m + 1)] <= Fade[Echo + 1 + m]
    BY <2>1, FadeFacts
  <2>3. Fade[Echo + 1 + m] \in Nat /\ Fade[Echo + 1 + (m + 1)] \in Nat
    BY <2>1, <1>1, FadeFacts, ScoreCapFacts
  <2> QED BY <1>3, <2>2, <2>3
<1>4. \A m \in Nat : m \in S
  <2> HIDE DEF S
  <2> QED BY <1>2, <1>3, NatSetInduction
<1> SUFFICES ASSUME NEW n \in Nat, n > Echo PROVE Fade[n] < 6
  OBVIOUS
<1>5. n - (Echo + 1) \in Nat /\ Echo + 1 + (n - (Echo + 1)) = n
  BY <1>1
<1> QED BY <1>4, <1>5

(***************************************************************************)
(* The only antenna that reads.                                            *)
(***************************************************************************)

\* Its reads, its score and its signal decide, unless the layer is its own
\* already and the other antenna's score is high enough to speak against it.
LEMMA OneSided ==
  ASSUME NEW s \in [Layers -> Nat], NEW e \in Evidence, NEW d \in Layers, NEW f \in Layers,
         e.seen = {d},
         f = d => Decay(s, e)[Other(d)] < 6
  PROVE  Observed(s, e, f) = d
<1> DEFINE t == Decay(s, e)
           n == e.delta
           v == ByScore(t, f)
<1>1. t \in [Layers -> Nat] /\ n \in [Layers -> Nat]
  BY DecayTyped
<1>2. n[Other(d)] = 0
  <2>1. Other(d) \in Layers /\ Other(d) \notin e.seen
    BY LayerFacts
  <2>2. ~(n[Other(d)] > 0)
    BY <2>1 DEF Evidence
  <2> QED BY <1>1, <2>1, <2>2
<1>3. ByRssi(e, f) = d
  BY LayerFacts DEF ByRssi
<1>4. f \in {d, Other(d)} /\ d # Other(d)
  BY LayerFacts DEF Other
<1> HIDE DEF t, n
<1>5. v \in {d, f}
  <2>1. CASE f = Other(d)
    <3>1. v \in Layers
      BY ByScoreIsALayer
    <3> QED BY <2>1, <3>1, LayerFacts DEF Other
  <2>2. CASE f = d
    <3>1. t[Other(d)] < 6 /\ t[d] \in Nat /\ t[Other(d)] \in Nat
      BY <1>1, <2>2, LayerFacts DEF t
    <3>2. CASE Leader(t) = Other(d)
      <4>1. t[d] <= t[Other(d)]
        BY <1>1, <3>1, <3>2, LayerFacts DEF Leader, Other
      <4>2. ~(t[Other(d)] >= t[Other(Other(d))] + 6) /\ ~(t[Other(d)] >= 6)
        BY <3>1, LayerFacts
      <4> QED BY <3>2, <4>2 DEF ByScore
    <3>3. CASE Leader(t) # Other(d)
      <4>1. Leader(t) = d
        BY <3>3, LeaderIsALayer, LayerFacts DEF Other
      <4> QED BY <4>1 DEF ByScore
    <3> QED BY <3>2, <3>3
  <2> QED BY <1>4, <2>1, <2>2
<1>6. ByEvidence(n, v, d, f) = d
  <2>1. n[d] \in Nat /\ n[Other(d)] = 0
    BY <1>1, <1>2 DEF n
  <2>2. CASE Leader(n) = d
    BY <1>5, <2>2 DEF ByEvidence
  <2>3. CASE Leader(n) # d
    <3>1. n[Upper] = 0 /\ n[Lower] = 0
      BY <2>1, <2>3, LayerFacts DEF Leader, Other
    <3> QED BY <1>5, <3>1 DEF ByEvidence
  <2> QED BY <2>2, <2>3
<1> QED BY <1>3, <1>6 DEF Observed, t, n, v

\* The state of one antenna pair after k polls in which only d read: what is
\* left of the other score, and how far the way back to d has come.
Quiet(d) == silent[Other(d)]

ScoresFade ==
  /\ score \in [Layers -> Nat] /\ silent \in [Layers -> 0..SteadyPolls]
  /\ \A d \in Layers : score[d] <= Fade[silent[d]]

Returning ==
  /\ cand \in Layers /\ streak \in 0..LayerConfirm
  /\ \A d \in Layers : Quiet(d) > Echo =>
       \/ layer = d
       \/ cand = d /\ streak >= Quiet(d) - Echo /\ streak < LayerConfirm

VoteInv == VoteTyped /\ ScoresFade /\ Returning

LEMMA VoteConstants ==
  /\ LayerConfirm \in Nat \ {0} /\ Echo \in Nat /\ SteadyPolls \in Nat
  /\ SteadyPolls >= LayerConfirm + Echo
  /\ \A d \in Layers : \A e \in Evidence : e.delta[d] \in 0..DeltaCap
<1>1. Deltas \subseteq 0..DeltaCap
  BY VoteConstantsOK
<1> QED BY <1>1, VoteConstantsOK DEF Evidence

LEMMA VoteInit == Init => VoteInv
<1> SUFFICES ASSUME Init PROVE VoteInv
  OBVIOUS
<1>1. \A d \in Layers : silent[d] = 0 /\ score[d] = 0
  BY DEF Init
<1>2. 0 <= Fade[0] /\ 0 \in 0..SteadyPolls /\ 0 \in 0..LayerConfirm
  BY FadeUnfolds, ScoreCapFacts, VoteConstants
<1>3. ScoresFade
  BY <1>1, <1>2 DEF Init, ScoresFade
<1>4. Returning
  BY <1>1, <1>2, LayerFacts, VoteConstants DEF Init, Returning, Quiet
<1> QED BY <1>3, <1>4 DEF Init, VoteInv, VoteTyped

\* One poll makes a score at most what Fade says of one more poll.
LEMMA OnePoll ==
  ASSUME NEW s \in Nat, NEW k \in 0..SteadyPolls, s <= Fade[k], NEW x \in 0..DeltaCap
  PROVE  /\ (s * 70) \div 100 \in Nat
         /\ (s * 70) \div 100 <= Fade[k]
         /\ (s * 70) \div 100 <= Fade[Least(k + 1, SteadyPolls)]
         /\ (s * 70) \div 100 + x \in Nat
         /\ (s * 70) \div 100 + x <= Fade[0]
<1>1. k \in Nat /\ SteadyPolls \in Nat
  BY VoteConstants
<1>2. /\ Fade[k] \in 0..ScoreCap /\ Fade[0] = ScoreCap /\ ScoreCap \in Nat
      /\ Fade[k + 1] = (Fade[k] * 70) \div 100
  BY <1>1, FadeUnfolds, FadeFacts, ScoreCapFacts
<1>3. (s * 70) \div 100 \in Nat /\ (s * 70) \div 100 <= s
  OBVIOUS
<1>4. s \in 0..ScoreCap
  BY <1>2
<1>5. (s * 70) \div 100 + x \in 0..ScoreCap
  BY <1>4, ScoreCapFacts
<1>6. \A u, w \in Nat : u <= w => (u * 70) \div 100 <= (w * 70) \div 100
  OBVIOUS
<1>7. (s * 70) \div 100 <= Fade[k + 1]
  BY <1>2, <1>6
<1>8. (s * 70) \div 100 <= Fade[k]
  BY <1>2, <1>3
<1>9. Least(k + 1, SteadyPolls) \in {k, k + 1}
  BY <1>1 DEF Least
<1> QED BY <1>2, <1>3, <1>5, <1>7, <1>8, <1>9

LEMMA FadeFound ==
  ASSUME VoteInv, NEW e \in Evidence,
         score' = Decay(score, e),
         silent' = [d \in Layers |-> IF d \in e.seen THEN 0
                                     ELSE Least(silent[d] + 1, SteadyPolls)]
  PROVE  ScoresFade'
<1>1. score' \in [Layers -> Nat]
  BY DecayTyped DEF VoteInv, ScoresFade
<1>2. silent' \in [Layers -> 0..SteadyPolls]
  BY VoteConstants DEF VoteInv, ScoresFade, Least
<1>3. ASSUME NEW d \in Layers PROVE score'[d] <= Fade[silent'[d]]
  <2> DEFINE s == score[d]
             k == silent[d]
             x == e.delta[d]
  <2>1. s \in Nat /\ k \in 0..SteadyPolls /\ s <= Fade[k] /\ x \in 0..DeltaCap
    BY VoteConstants DEF VoteInv, ScoresFade
  <2>2. score'[d] = (s * 70) \div 100 + x
    BY DEF Decay
  <2>3. CASE d \in e.seen
    <3>1. silent'[d] = 0
      BY <2>3
    <3> HIDE DEF s, k, x
    <3> QED BY <2>1, <2>2, <3>1, OnePoll
  <2>4. CASE d \notin e.seen
    <3>1. silent'[d] = Least(k + 1, SteadyPolls) /\ ~(x > 0)
      BY <2>4 DEF Evidence
    <3>2. x = 0
      BY <2>1, <3>1
    <3> HIDE DEF s, k, x
    <3> QED BY <2>1, <2>2, <3>1, <3>2, OnePoll
  <2> QED BY <2>3, <2>4
<1> QED BY <1>1, <1>2, <1>3 DEF ScoresFade

\* While only d reads, and the other antenna has been silent for Echo polls.
LEMMA OnlyOneReads ==
  ASSUME VoteInv, NEW e \in Evidence, e.seen # {}, NEW d \in Layers,
         silent' = [l \in Layers |-> IF l \in e.seen THEN 0
                                     ELSE Least(silent[l] + 1, SteadyPolls)],
         silent'[Other(d)] > Echo
  PROVE  Observed(score, e, layer) = d
<1> DEFINE o == Other(d)
<1>1. o \in Layers /\ e.seen \subseteq Layers /\ o # d
  BY LayerFacts DEF Evidence
<1>2. o \notin e.seen
  <2>1. ~(0 > Echo)
    BY VoteConstants
  <2> QED BY <1>1, <2>1
<1>3. e.seen = {d}
  BY <1>1, <1>2, LayerFacts DEF Other
<1>4. Decay(score, e)[o] < 6
  <2>1. /\ score[o] \in Nat /\ silent[o] \in 0..SteadyPolls /\ score[o] <= Fade[silent[o]]
        /\ 0 \in 0..DeltaCap
    BY <1>1, VoteConstantsOK DEF VoteInv, ScoresFade
  <2>2. (score[o] * 70) \div 100 <= Fade[silent'[o]]
    BY <1>1, <1>2, <2>1, OnePoll
  <2>3. e.delta[o] \in Nat /\ ~(e.delta[o] > 0)
    BY <1>1, <1>2, VoteConstants DEF Evidence
  <2>4. Decay(score, e)[o] = (score[o] * 70) \div 100
    BY <1>1, <2>1, <2>3 DEF Decay
  <2>5. silent'[o] \in Nat
    BY <1>1, <2>1, VoteConstants DEF Least
  <2>6. Fade[silent'[o]] < 6 /\ Fade[silent'[o]] \in Nat
    BY <2>5, FadedForGood, FadeFacts, ScoreCapFacts
  <2>7. (score[o] * 70) \div 100 \in Nat
    BY <2>1
  <2> QED BY <2>2, <2>4, <2>6, <2>7
<1>5. score \in [Layers -> Nat] /\ layer \in Layers
  BY DEF VoteInv, VoteTyped
<1> QED BY <1>3, <1>4, <1>5, OneSided

LEMMA FoundReturns ==
  ASSUME VoteInv, PollFound PROVE Returning'
<1>1. PICK e \in Evidence :
        /\ e.seen # {}
        /\ cand' = Observed(score, e, layer)
        /\ streak' = Streak(Observed(score, e, layer))
        /\ layer' = IF streak' >= LayerConfirm THEN Observed(score, e, layer) ELSE layer
        /\ silent' = [d \in Layers |-> IF d \in e.seen THEN 0
                                       ELSE Least(silent[d] + 1, SteadyPolls)]
  BY DEF PollFound
<1>2. cand' \in Layers
  BY <1>1, ObservedIsALayer DEF VoteInv, VoteTyped
<1>3. streak \in 0..LayerConfirm /\ LayerConfirm \in Nat \ {0}
  BY VoteConstants DEF VoteInv, Returning
<1>4. streak' \in 1..LayerConfirm
  BY <1>1, <1>3 DEF Streak, Least
<1>5. ASSUME NEW d \in Layers, Quiet(d)' > Echo, layer' # d
      PROVE  cand' = d /\ streak' >= Quiet(d)' - Echo /\ streak' < LayerConfirm
  <2>1. silent'[Other(d)] > Echo
    BY <1>5 DEF Quiet
  <2>2. cand' = d
    BY <1>1, <2>1, OnlyOneReads
  <2>3. streak' < LayerConfirm /\ layer' = layer
    BY <1>1, <1>3, <1>4, <1>5, <2>2
  <2>4. /\ silent[Other(d)] \in Nat /\ SteadyPolls \in Nat /\ Echo \in Nat
        /\ silent'[Other(d)] <= silent[Other(d)] + 1
        /\ silent'[Other(d)] \in Nat
    BY <1>1, LayerFacts, VoteConstants DEF VoteInv, ScoresFade, Least
  <2>5. CASE silent[Other(d)] > Echo
    <3>1. cand = d /\ streak >= silent[Other(d)] - Echo
      BY <1>5, <2>3, <2>5 DEF VoteInv, Returning, Quiet
    <3>2. streak' = streak + 1
      BY <1>1, <1>3, <2>2, <2>3, <3>1 DEF Streak, Least
    <3> QED BY <1>3, <2>2, <2>3, <2>4, <3>1, <3>2 DEF Quiet
  <2>6. CASE ~(silent[Other(d)] > Echo)
    BY <1>4, <2>2, <2>3, <2>4, <2>6 DEF Quiet
  <2> QED BY <2>5, <2>6
<1> QED BY <1>2, <1>3, <1>4, <1>5 DEF Returning

LEMMA UnreadKeeps ==
  ASSUME VoteInv, PollUnread PROVE ScoresFade' /\ Returning'
<1>1. CASE UNCHANGED <<cand, streak, silent>> /\ score' = [d \in Layers |-> (score[d] * 70) \div 100]
  <2>1. ASSUME NEW d \in Layers
        PROVE  score'[d] \in Nat /\ score'[d] <= Fade[silent[d]]
    <3>1. /\ score[d] \in Nat /\ silent[d] \in 0..SteadyPolls /\ score[d] <= Fade[silent[d]]
          /\ 0 \in 0..DeltaCap
      BY VoteConstantsOK DEF VoteInv, ScoresFade
    <3> QED BY <1>1, <3>1, OnePoll
  <2>2. ScoresFade'
    BY <1>1, <2>1 DEF VoteInv, ScoresFade
  <2>3. Returning'
    BY <1>1 DEF PollUnread, VoteInv, Returning, Quiet
  <2> QED BY <2>2, <2>3
<1>2. CASE /\ score' = [d \in Layers |-> 0] /\ cand' = book_layer /\ streak' = 0
           /\ silent' = [d \in Layers |-> 0]
  <2>1. 0 <= Fade[0] /\ 0 \in 0..SteadyPolls /\ 0 \in 0..LayerConfirm /\ ~(0 > Echo)
    BY FadeUnfolds, ScoreCapFacts, VoteConstants
  <2>2. ScoresFade'
    BY <1>2, <2>1 DEF ScoresFade
  <2>3. Returning'
    BY <1>2, <2>1, LayerFacts DEF Returning, Quiet, VoteInv, VoteTyped
  <2> QED BY <2>2, <2>3
<1> QED BY <1>1, <1>2 DEF PollUnread

LEMMA VoteNext == VoteInv /\ [Next]_vars => VoteInv'
<1> SUFFICES ASSUME VoteInv, [Next]_vars PROVE VoteInv'
  OBVIOUS
<1>1. VoteTyped'
  BY VoteTypedNext DEF VoteInv
<1>2. CASE PollFound
  <2>1. ScoresFade'
    BY <1>2, FadeFound DEF PollFound
  <2> QED BY <1>1, <1>2, <2>1, FoundReturns DEF VoteInv
<1>3. CASE PollUnread
  BY <1>1, <1>3, UnreadKeeps DEF VoteInv
<1>4. CASE UNCHANGED vars
  BY <1>1, <1>4 DEF vars, VoteInv, ScoresFade, Returning, Quiet
<1> QED BY <1>2, <1>3, <1>4 DEF Next

LEMMA VoteInvariant == Spec => []VoteInv
<1> QED BY VoteInit, VoteNext, PTL DEF Spec

\* A book that one antenna reads is on its layer once the polls it takes for a
\* burst to fade and for the change to be confirmed have passed.
THEOREM OneSidedReadsWin == Spec => []SteadyLayerWins
<1>1. VoteInv => SteadyLayerWins
  <2> SUFFICES ASSUME VoteInv, NEW d \in Layers, Quiet(d) >= SteadyPolls, layer # d
               PROVE  FALSE
    BY DEF SteadyLayerWins, Quiet
  <2>1. Quiet(d) \in 0..SteadyPolls
    BY LayerFacts DEF VoteInv, ScoresFade, Quiet
  <2>2. Quiet(d) > Echo
    BY <2>1, VoteConstants
  <2>3. streak >= Quiet(d) - Echo /\ streak < LayerConfirm /\ streak \in Nat
    BY <2>2, VoteConstants DEF VoteInv, Returning
  <2> QED BY <2>1, <2>3, VoteConstants
<1> QED BY <1>1, VoteInvariant, PTL

\* No streak, however it came about, moves a book to the layer of an antenna
\* that has not read it for longer than a burst of its reads lasts.
THEOREM ChangesAreHeard == Spec => ChangeIsStable
<1>1. VoteInv /\ [Next]_vars => [layer' # layer => silent'[layer'] <= Echo]_vars
  <2> SUFFICES ASSUME VoteInv, Next, layer' # layer, ~(silent'[layer'] <= Echo)
               PROVE  FALSE
    OBVIOUS
  <2>1. PollFound
    BY DEF Next, PollUnread
  <2>2. PICK e \in Evidence :
          /\ e.seen # {}
          /\ layer' \in {Observed(score, e, layer), layer}
          /\ silent' = [d \in Layers |-> IF d \in e.seen THEN 0
                                         ELSE Least(silent[d] + 1, SteadyPolls)]
    BY <2>1 DEF PollFound
  <2>3. layer \in Layers /\ layer' = Observed(score, e, layer) /\ layer' \in Layers
    BY <2>2, ObservedIsALayer DEF VoteInv, VoteTyped
  <2>4. layer' = Other(layer) /\ Other(layer) \in Layers
    BY <2>3, LayerFacts DEF Other
  <2>5. silent'[layer'] \in Nat /\ Echo \in Nat
    BY <2>2, <2>3, VoteConstants DEF VoteInv, ScoresFade, Least
  <2>6. silent'[Other(layer)] > Echo
    BY <2>4, <2>5
  <2>7. Observed(score, e, layer) = layer
    BY <2>2, <2>3, <2>6, OnlyOneReads
  <2> QED BY <2>3, <2>7
<1> QED BY <1>1, VoteInvariant, PTL DEF Spec, ChangeIsStable

\* The constants of the code: bursts of at most 40 reads count, and their score
\* speaks on for 8 polls.  That is longer than the 6 polls that confirm a
\* change.
THEOREM BurstsOfTheCode ==
  ASSUME DeltaCap = 40 PROVE Fade[8] >= 6 /\ Fade[9] < 6
<1>1. Fade[0] = 131
  BY FadeUnfolds DEF ScoreCap
<1>2. \A n \in Nat : Fade[n + 1] = (Fade[n] * 70) \div 100
  BY FadeUnfolds
<1>3. Fade[1] = 91 /\ Fade[2] = 63 /\ Fade[3] = 44
  <2>1. Fade[0 + 1] = 91
    BY <1>1, <1>2
  <2>2. Fade[1 + 1] = 63
    BY <1>2, <2>1
  <2>3. Fade[2 + 1] = 44
    BY <1>2, <2>2
  <2> QED BY <2>1, <2>2, <2>3
<1>4. Fade[4] = 30 /\ Fade[5] = 21 /\ Fade[6] = 14
  <2>1. Fade[3 + 1] = 30
    BY <1>2, <1>3
  <2>2. Fade[4 + 1] = 21
    BY <1>2, <2>1
  <2>3. Fade[5 + 1] = 14
    BY <1>2, <2>2
  <2> QED BY <2>1, <2>2, <2>3
<1>5. Fade[7] = 9 /\ Fade[8] = 6 /\ Fade[9] = 4
  <2>1. Fade[6 + 1] = 9
    BY <1>2, <1>4
  <2>2. Fade[7 + 1] = 6
    BY <1>2, <2>1
  <2>3. Fade[8 + 1] = 4
    BY <1>2, <2>2
  <2> QED BY <2>1, <2>2, <2>3
<1> QED BY <1>5
=============================================================================
