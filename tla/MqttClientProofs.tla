-------------------------- MODULE MqttClientProofs --------------------------
(***************************************************************************)
(* Proofs about MqttClient: what the client takes out of the stream is the *)
(* stream that was sent, for every size of the buffer, of a recv and of    *)
(* the loop.                                                               *)
(***************************************************************************)
EXTENDS MqttClient, SequenceTheorems, NaturalsInduction, WellFoundedInduction, TLAPS

Unit == [kind : Kinds, n : Nat, part : {1, 2}]

\* What StreamIntact says of a stream s whose first message is g + 1, when t
\* messages have been sent, and that nothing of them is missing.
Ahead(s, g, t) ==
  /\ g <= t
  /\ InFrame(s)
  /\ InOrder(s)
  /\ Numbers(s) \subseteq g + 1 .. t
  /\ \A n \in Numbers(s) : g + 1 .. n \subseteq Numbers(s)

Full(s, g, t) == Len(s) % 2 = 0 /\ g + 1 .. t \subseteq Numbers(s)

LEMMA WholeFacts ==
  ASSUME NEW u \in Unit, NEW v \in Unit
  PROVE  Whole(u, v) <=> u.part = 1 /\ v.part = 2 /\ v.kind = u.kind /\ v.n = u.n
BY DEF Whole, Unit

LEMMA HeadFacts ==
  ASSUME NEW s \in Seq(Unit), NEW i \in Heads(s)
  PROVE  i \in 1..Len(s) /\ i \in Nat /\ s[i] \in Unit /\ s[i].n \in Nat
<1>1. i \in 1..Len(s)
  BY DEF Heads
<1>2. s[i] \in Unit
  BY <1>1
<1> QED BY <1>1, <1>2 DEF Unit

(***************************************************************************)
(* A stream loses its end, its first packet, or gains a packet.            *)
(***************************************************************************)
LEMMA AheadOfPrefix ==
  ASSUME NEW s \in Seq(Unit), NEW p \in Seq(Unit), NEW g \in Nat, NEW t \in Nat,
         Ahead(s, g, t), Len(p) <= Len(s), \A i \in 1..Len(p) : p[i] = s[i]
  PROVE  Ahead(p, g, t)
<1>1. Heads(p) = {i \in Heads(s) : i <= Len(p)}
  <2>1. \A i \in 1..Len(p) : i \in 1..Len(s) /\ i <= Len(p)
    OBVIOUS
  <2>2. \A i \in 1..Len(s) : i <= Len(p) => i \in 1..Len(p)
    OBVIOUS
  <2> QED BY <2>1, <2>2 DEF Heads
<1>2. \A i \in Heads(p) : p[i].n = s[i].n /\ s[i].n \in Nat /\ i \in Nat
  BY <1>1, HeadFacts DEF Heads
<1>3. InFrame(p)
  <2> SUFFICES ASSUME NEW i \in 1..Len(p)
               PROVE  IF i % 2 = 1 THEN p[i].part = 1 ELSE Whole(p[i - 1], p[i])
    BY DEF InFrame
  <2>1. i \in 1..Len(s) /\ p[i] = s[i]
    OBVIOUS
  <2>2. IF i % 2 = 1 THEN s[i].part = 1 ELSE Whole(s[i - 1], s[i])
    BY <2>1 DEF Ahead, InFrame
  <2>3. ASSUME i % 2 # 1 PROVE p[i - 1] = s[i - 1]
    <3>1. i # 1
      BY <2>3
    <3>2. i - 1 \in 1..Len(p)
      BY <3>1
    <3> QED BY <3>2
  <2> QED BY <2>1, <2>2, <2>3
<1>4. InOrder(p)
  BY <1>1, <1>2 DEF Ahead, InOrder
<1>5. Numbers(p) \subseteq Numbers(s)
  BY <1>1, <1>2 DEF Numbers
<1>6. ASSUME NEW n \in Numbers(p), NEW m \in g + 1 .. n PROVE m \in Numbers(p)
  <2>1. PICK i \in Heads(p) : n = p[i].n
    BY DEF Numbers
  <2>2. m \in Numbers(s)
    BY <1>5 DEF Ahead
  <2>3. PICK j \in Heads(s) : m = s[j].n
    BY <2>2 DEF Numbers
  <2>4. j \in Nat /\ i \in Nat /\ m \in Nat /\ n \in Nat /\ i \in Heads(s)
    BY <1>1, <1>2, <1>5, <2>1, <2>3, HeadFacts
  <2>5. ~(i < j)
    BY <1>2, <2>1, <2>3, <2>4 DEF Ahead, InOrder
  <2>6. j \in Heads(p)
    BY <1>1, <2>1, <2>3, <2>4, <2>5
  <2> QED BY <1>2, <2>3, <2>6 DEF Numbers
<1> QED BY <1>3, <1>4, <1>5, <1>6 DEF Ahead

\* The first packet is gone: every index moves by two.
LEMMA FirstPacketGone ==
  ASSUME NEW s \in Seq(Unit), NEW p \in Seq(Unit), NEW g \in Nat, NEW t \in Nat,
         Ahead(s, g, t), Len(s) >= 2, Len(p) = Len(s) - 2,
         \A i \in 1..Len(p) : p[i] = s[i + 2]
  PROVE  /\ s[1].part = 1 /\ Whole(s[1], s[2])
         /\ Heads(p) = {i \in 1..Len(p) : i + 2 \in Heads(s)}
         /\ \A i \in Heads(s) : i # 1 => i - 2 \in Heads(p)
         /\ InFrame(p) /\ InOrder(p)
<1>1. s[1].part = 1 /\ Whole(s[1], s[2])
  BY DEF Ahead, InFrame
<1>2. Heads(p) = {i \in 1..Len(p) : i + 2 \in Heads(s)}
  BY DEF Heads
<1>3. s[2].part = 2
  BY <1>1, WholeFacts
<1>4. ASSUME NEW i \in Heads(s), i # 1 PROVE i - 2 \in Heads(p)
  <2>1. i \in 1..Len(s) /\ i # 2
    BY <1>3 DEF Heads
  <2>2. i - 2 \in 1..Len(p) /\ (i - 2) + 2 = i
    BY <1>4, <2>1
  <2> QED BY <1>2, <2>2
<1>5. InFrame(p)
  <2> SUFFICES ASSUME NEW i \in 1..Len(p)
               PROVE  IF i % 2 = 1 THEN p[i].part = 1 ELSE Whole(p[i - 1], p[i])
    BY DEF InFrame
  <2>1. i + 2 \in 1..Len(s) /\ (i + 2) % 2 = i % 2
    OBVIOUS
  <2>2. IF (i + 2) % 2 = 1 THEN s[i + 2].part = 1 ELSE Whole(s[(i + 2) - 1], s[i + 2])
    BY <2>1 DEF Ahead, InFrame
  <2>3. CASE i % 2 = 1
    BY <2>1, <2>2, <2>3
  <2>4. CASE i % 2 # 1
    <3>1. i # 1
      BY <2>4
    <3>2. i - 1 \in 1..Len(p) /\ (i - 1) + 2 = (i + 2) - 1
      BY <3>1
    <3>3. p[i - 1] = s[(i + 2) - 1]
      BY <3>2
    <3> QED BY <2>1, <2>2, <2>4, <3>3
  <2> QED BY <2>3, <2>4
<1>6. InOrder(p)
  <2> SUFFICES ASSUME NEW i \in Heads(p), NEW j \in Heads(p), i < j
               PROVE  p[i].n < p[j].n
    BY DEF InOrder
  <2>1. i \in 1..Len(p) /\ j \in 1..Len(p) /\ i + 2 \in Heads(s) /\ j + 2 \in Heads(s)
    BY <1>2
  <2>2. i + 2 < j + 2
    BY <2>1
  <2>3. s[i + 2].n < s[j + 2].n
    BY <2>1, <2>2 DEF Ahead, InOrder
  <2> QED BY <2>1, <2>3
<1> QED BY <1>1, <1>2, <1>4, <1>5, <1>6

\* It was no message: the same messages stand in what is left.
LEMMA OtherPacketGone ==
  ASSUME NEW s \in Seq(Unit), NEW p \in Seq(Unit), NEW g \in Nat, NEW t \in Nat,
         Ahead(s, g, t), Len(s) >= 2, Len(p) = Len(s) - 2,
         \A i \in 1..Len(p) : p[i] = s[i + 2],
         s[1].kind # "message"
  PROVE  Ahead(p, g, t) /\ (Full(s, g, t) => Full(p, g, t))
<1>1. /\ s[1].part = 1
      /\ Heads(p) = {i \in 1..Len(p) : i + 2 \in Heads(s)}
      /\ \A i \in Heads(s) : i # 1 => i - 2 \in Heads(p)
      /\ InFrame(p) /\ InOrder(p)
  BY FirstPacketGone
<1>2. 1 \notin Heads(s)
  BY DEF Heads
<1>3. \A i \in Heads(p) : i + 2 \in Heads(s) /\ p[i].n = s[i + 2].n
  BY <1>1
<1>4. \A i \in Heads(s) : i - 2 \in Heads(p) /\ p[i - 2].n = s[i].n
  <2> SUFFICES ASSUME NEW i \in Heads(s)
               PROVE  i - 2 \in Heads(p) /\ p[i - 2].n = s[i].n
    OBVIOUS
  <2>1. i - 2 \in Heads(p) /\ i \in Nat
    BY <1>1, <1>2, HeadFacts
  <2>2. i - 2 \in 1..Len(p) /\ (i - 2) + 2 = i
    BY <2>1, HeadFacts
  <2> QED BY <2>1, <2>2
<1>5. Numbers(p) = Numbers(s)
  BY <1>3, <1>4 DEF Numbers
<1>6. Len(s) % 2 = 0 => Len(p) % 2 = 0
  OBVIOUS
<1> QED BY <1>1, <1>5, <1>6 DEF Ahead, Full

\* It was a message: then the one called back is the next.
LEMMA MessageGone ==
  ASSUME NEW s \in Seq(Unit), NEW p \in Seq(Unit), NEW g \in Nat, NEW t \in Nat,
         Ahead(s, g, t), Len(s) >= 2, Len(p) = Len(s) - 2,
         \A i \in 1..Len(p) : p[i] = s[i + 2],
         s[1].kind = "message"
  PROVE  /\ s[1].n = g + 1
         /\ Ahead(p, g + 1, t) /\ (Full(s, g, t) => Full(p, g + 1, t))
<1>1. /\ s[1].part = 1
      /\ Heads(p) = {i \in 1..Len(p) : i + 2 \in Heads(s)}
      /\ \A i \in Heads(s) : i # 1 => i - 2 \in Heads(p)
      /\ InFrame(p) /\ InOrder(p)
  BY FirstPacketGone
<1>2. 1 \in Heads(s)
  BY <1>1 DEF Heads
<1>3. \A i \in Heads(p) : i + 2 \in Heads(s) /\ p[i].n = s[i + 2].n /\ 1 < i + 2
  BY <1>1
<1>4. \A i \in Heads(s) : i # 1 => i - 2 \in Heads(p) /\ p[i - 2].n = s[i].n
  <2> SUFFICES ASSUME NEW i \in Heads(s), i # 1
               PROVE  i - 2 \in Heads(p) /\ p[i - 2].n = s[i].n
    OBVIOUS
  <2>1. i - 2 \in Heads(p) /\ i \in Nat
    BY <1>1, HeadFacts
  <2>2. i - 2 \in 1..Len(p) /\ (i - 2) + 2 = i
    BY <2>1, HeadFacts
  <2> QED BY <2>1, <2>2
<1>5. s[1].n \in Numbers(s) /\ s[1].n \in g + 1 .. t /\ s[1].n \in Nat
  BY <1>2, HeadFacts DEF Numbers, Ahead
<1>6. \A i \in Heads(s) : i # 1 => s[1].n < s[i].n
  <2> SUFFICES ASSUME NEW i \in Heads(s), i # 1
               PROVE  s[1].n < s[i].n
    OBVIOUS
  <2>1. 1 < i
    BY HeadFacts
  <2> QED BY <1>2, <2>1 DEF Ahead, InOrder
<1>7. s[1].n = g + 1
  <2>1. g + 1 \in g + 1 .. s[1].n
    BY <1>5
  <2>2. g + 1 \in Numbers(s)
    BY <1>5, <2>1 DEF Ahead
  <2>3. PICK i \in Heads(s) : s[i].n = g + 1
    BY <2>2 DEF Numbers
  <2> QED BY <1>5, <1>6, <2>3
<1>8. Numbers(p) = Numbers(s) \ {g + 1}
  <2>1. ASSUME NEW i \in Heads(p) PROVE p[i].n \in Numbers(s) \ {g + 1}
    <3>1. i + 2 \in Heads(s) /\ i + 2 # 1 /\ p[i].n = s[i + 2].n
      BY <1>3
    <3>2. s[1].n < s[i + 2].n
      BY <1>6, <3>1
    <3> QED BY <1>7, <3>1, <3>2 DEF Numbers
  <2>2. ASSUME NEW i \in Heads(s), s[i].n # g + 1 PROVE s[i].n \in Numbers(p)
    <3>1. i # 1
      BY <1>7, <2>2
    <3> QED BY <1>4, <3>1 DEF Numbers
  <2> QED BY <2>1, <2>2 DEF Numbers
<1>9. /\ g + 1 <= t
      /\ Numbers(p) \subseteq (g + 1) + 1 .. t
  BY <1>5, <1>8 DEF Ahead
<1>10. ASSUME NEW n \in Numbers(p) PROVE (g + 1) + 1 .. n \subseteq Numbers(p)
  <2>1. (g + 1) + 1 .. n \subseteq g + 1 .. n /\ g + 1 \notin (g + 1) + 1 .. n
    BY <1>9
  <2>2. n \in Numbers(s)
    BY <1>8
  <2> QED BY <1>8, <2>1, <2>2 DEF Ahead
<1>11. Full(s, g, t) => Full(p, g + 1, t)
  <2>1. (g + 1) + 1 .. t \subseteq g + 1 .. t /\ g + 1 \notin (g + 1) + 1 .. t
    OBVIOUS
  <2>2. Len(s) % 2 = 0 => Len(p) % 2 = 0
    OBVIOUS
  <2> QED BY <1>8, <2>1, <2>2 DEF Full
<1> QED BY <1>1, <1>7, <1>9, <1>10, <1>11 DEF Ahead

\* A packet more at the end: the two units behind the last.
LEMMA PacketMore ==
  ASSUME NEW s \in Seq(Unit), NEW q \in Seq(Unit), NEW g \in Nat, NEW t \in Nat,
         Ahead(s, g, t), Len(s) % 2 = 0, Len(q) = Len(s) + 2,
         \A i \in 1..Len(s) : q[i] = s[i],
         q[Len(s) + 1].part = 1, Whole(q[Len(s) + 1], q[Len(s) + 2])
  PROVE  /\ InFrame(q) /\ Len(q) % 2 = 0
         /\ Heads(q) = IF q[Len(s) + 1].kind = "message"
                       THEN Heads(s) \cup {Len(s) + 1} ELSE Heads(s)
         /\ \A i \in Heads(s) : q[i].n = s[i].n
<1>1. Len(s) \in Nat /\ Len(s) + 1 \in 1..Len(q) /\ Len(s) + 2 \in 1..Len(q)
  OBVIOUS
<1>2. q[Len(s) + 1] \in Unit /\ q[Len(s) + 2] \in Unit
  BY <1>1
<1>3. q[Len(s) + 2].part = 2
  BY <1>2, WholeFacts
<1>4. \A i \in 1..Len(q) : i \in 1..Len(s) \/ i = Len(s) + 1 \/ i = Len(s) + 2
  OBVIOUS
<1>5. \A i \in 1..Len(s) : i \in 1..Len(q)
  OBVIOUS
<1>6. InFrame(q)
  <2> SUFFICES ASSUME NEW i \in 1..Len(q)
               PROVE  IF i % 2 = 1 THEN q[i].part = 1 ELSE Whole(q[i - 1], q[i])
    BY DEF InFrame
  <2>1. CASE i \in 1..Len(s)
    <3>1. IF i % 2 = 1 THEN s[i].part = 1 ELSE Whole(s[i - 1], s[i])
      BY <2>1 DEF Ahead, InFrame
    <3>2. CASE i % 2 = 1
      BY <2>1, <3>1, <3>2
    <3>3. CASE i % 2 # 1
      <4>1. i # 1
        BY <3>3
      <4>2. i - 1 \in 1..Len(s)
        BY <2>1, <4>1
      <4> QED BY <2>1, <3>1, <3>3, <4>2
    <3> QED BY <3>2, <3>3
  <2>2. CASE i = Len(s) + 1
    BY <1>1, <2>2
  <2>3. CASE i = Len(s) + 2
    <3>1. i % 2 # 1 /\ i - 1 = Len(s) + 1
      BY <1>1, <2>3
    <3> QED BY <2>3, <3>1
  <2> QED BY <1>4, <2>1, <2>2, <2>3
<1>7. Heads(q) = IF q[Len(s) + 1].kind = "message"
                 THEN Heads(s) \cup {Len(s) + 1} ELSE Heads(s)
  <2>1. \A i \in 1..Len(s) : i \in Heads(q) <=> i \in Heads(s)
    BY <1>5 DEF Heads
  <2>2. Len(s) + 2 \notin Heads(q)
    BY <1>3 DEF Heads
  <2>3. Len(s) + 1 \in Heads(q) <=> q[Len(s) + 1].kind = "message"
    BY <1>1 DEF Heads
  <2>4. Heads(q) \subseteq 1..Len(q) /\ Heads(s) \subseteq 1..Len(s)
    BY DEF Heads
  <2>5. Heads(q) \subseteq Heads(s) \cup {Len(s) + 1} /\ Heads(s) \subseteq Heads(q)
    BY <1>4, <2>1, <2>2, <2>4
  <2>6. Len(s) + 1 \notin Heads(s)
    BY <2>4
  <2>7. CASE q[Len(s) + 1].kind = "message"
    BY <2>3, <2>5, <2>7
  <2>8. CASE q[Len(s) + 1].kind # "message"
    <3>1. Len(s) + 1 \notin Heads(q)
      BY <2>3, <2>8
    <3>2. Heads(q) = Heads(s)
      BY <2>5, <3>1
    <3> QED BY <2>8, <3>2
  <2> QED BY <2>7, <2>8
<1>8. \A i \in Heads(s) : q[i].n = s[i].n
  BY DEF Heads
<1>9. Len(q) % 2 = 0
  OBVIOUS
<1> QED BY <1>6, <1>7, <1>8, <1>9

LEMMA OtherPacketMore ==
  ASSUME NEW s \in Seq(Unit), NEW q \in Seq(Unit), NEW g \in Nat, NEW t \in Nat,
         Ahead(s, g, t), Full(s, g, t), Len(q) = Len(s) + 2,
         \A i \in 1..Len(s) : q[i] = s[i],
         q[Len(s) + 1].part = 1, Whole(q[Len(s) + 1], q[Len(s) + 2]),
         q[Len(s) + 1].kind # "message"
  PROVE  Ahead(q, g, t) /\ Full(q, g, t)
<1>1. /\ InFrame(q) /\ Len(q) % 2 = 0
      /\ Heads(q) = Heads(s)
      /\ \A i \in Heads(s) : q[i].n = s[i].n
  BY PacketMore DEF Full
<1>2. Numbers(q) = Numbers(s)
  BY <1>1 DEF Numbers
<1>3. InOrder(q)
  BY <1>1 DEF Ahead, InOrder
<1> QED BY <1>1, <1>2, <1>3 DEF Ahead, Full

LEMMA MessageMore ==
  ASSUME NEW s \in Seq(Unit), NEW q \in Seq(Unit), NEW g \in Nat, NEW t \in Nat,
         Ahead(s, g, t), Full(s, g, t), Len(q) = Len(s) + 2,
         \A i \in 1..Len(s) : q[i] = s[i],
         q[Len(s) + 1].part = 1, Whole(q[Len(s) + 1], q[Len(s) + 2]),
         q[Len(s) + 1].kind = "message", q[Len(s) + 1].n = t + 1
  PROVE  Ahead(q, g, t + 1) /\ Full(q, g, t + 1)
<1>1. /\ InFrame(q) /\ Len(q) % 2 = 0
      /\ Heads(q) = Heads(s) \cup {Len(s) + 1}
      /\ \A i \in Heads(s) : q[i].n = s[i].n
  BY PacketMore DEF Full
<1>2. Numbers(q) = Numbers(s) \cup {t + 1}
  BY <1>1 DEF Numbers
<1>3. Numbers(s) = g + 1 .. t
  BY DEF Ahead, Full
<1>4. Numbers(q) = g + 1 .. t + 1
  BY <1>2, <1>3 DEF Ahead
<1>5. InOrder(q)
  <2> SUFFICES ASSUME NEW i \in Heads(q), NEW j \in Heads(q), i < j
               PROVE  q[i].n < q[j].n
    BY DEF InOrder
  <2>1. CASE j \in Heads(s)
    <3>1. i \in Heads(s)
      <4>1. j \in 1..Len(s)
        BY <2>1, HeadFacts
      <4>2. i # Len(s) + 1
        BY <4>1
      <4> QED BY <1>1, <4>2
    <3> QED BY <1>1, <2>1, <3>1 DEF Ahead, InOrder
  <2>2. CASE j = Len(s) + 1
    <3>1. i \in Heads(s)
      BY <1>1, <2>2
    <3>2. s[i].n \in g + 1 .. t
      BY <1>3, <3>1 DEF Numbers
    <3>3. q[i].n \in g + 1 .. t /\ q[j].n = t + 1
      BY <1>1, <2>2, <3>1, <3>2
    <3> QED BY <3>3
  <2> QED BY <1>1, <2>1, <2>2
<1> QED BY <1>1, <1>4, <1>5 DEF Ahead, Full

(***************************************************************************)
(* The loop of mqtt_poll: what one packet preserves, all of them preserve. *)
(***************************************************************************)
Below == {p \in Nat \X Nat : p[1] < p[2]}

LEMMA NatSetInduction ==
  ASSUME NEW S, 0 \in S, \A n \in Nat : n \in S => n + 1 \in S
  PROVE  \A n \in Nat : n \in S
<1> SUFFICES ASSUME Nat \ S # {} PROVE FALSE
  OBVIOUS
<1>1. IsWellFoundedOn(Below, Nat)
  BY NatLessThanWellFounded DEF OpToRel, Below
<1>2. PICK n \in Nat \ S : \A m \in Nat \ S : ~(<<m, n>> \in Below)
  BY <1>1, WFMin
<1>3. \A m \in Nat \ S : ~(m < n)
  BY <1>2 DEF Below
<1>4. n - 1 \in Nat
  BY <1>2
<1> QED BY <1>2, <1>3, <1>4

LEMMA LoopKeeps ==
  ASSUME NEW S, NEW r \in S, \A s \in S : HandlePacket(s) \subseteq S
  PROVE  HandlePackets(r) \subseteq S
<1> DEFINE Step(v, i) == UNION {HandlePacket(s) : s \in v}
           after[i \in 0..MaxLoops] ==
             IF i = 0 THEN {r} ELSE UNION {HandlePacket(s) : s \in after[i - 1]}
           Kept == {i \in Nat : i <= MaxLoops => after[i] \subseteq S}
<1>1. MaxLoops \in Nat /\ 0 \in Nat
  BY ConstantsOK
<1>2. HandlePackets(r) = after[MaxLoops]
  BY DEF HandlePackets
<1>3. FiniteNatInductiveDefHypothesis(after, {r}, Step, 0, MaxLoops)
  BY DEF FiniteNatInductiveDefHypothesis
<1>4. FiniteNatInductiveDefConclusion(after, {r}, Step, 0, MaxLoops)
  <2> HIDE DEF Step, after
  <2> QED BY <1>1, <1>3, FiniteNatInductiveDef
<1>5. after = [i \in 0..MaxLoops |-> IF i = 0 THEN {r} ELSE Step(after[i - 1], i)]
  BY <1>4 DEF FiniteNatInductiveDefConclusion
<1> HIDE DEF after
<1>6. after[0] = {r}
  BY <1>1, <1>5
<1>7. ASSUME NEW i \in Nat, i + 1 <= MaxLoops
      PROVE  after[i + 1] = UNION {HandlePacket(s) : s \in after[i]}
  <2>1. i + 1 \in 0..MaxLoops /\ i + 1 # 0 /\ (i + 1) - 1 = i
    BY <1>1, <1>7
  <2> QED BY <1>5, <2>1
<1>8. 0 \in Kept
  BY <1>6
<1>9. \A i \in Nat : i \in Kept => i + 1 \in Kept
  <2> SUFFICES ASSUME NEW i \in Nat, i \in Kept, i + 1 <= MaxLoops
               PROVE  after[i + 1] \subseteq S
    OBVIOUS
  <2>1. i <= MaxLoops
    BY <1>1
  <2>2. after[i] \subseteq S
    BY <2>1
  <2> QED BY <1>7, <2>2
<1>10. \A i \in Nat : i \in Kept
  <2> HIDE DEF Kept
  <2> QED BY <1>8, <1>9, NatSetInduction
<1> QED BY <1>1, <1>2, <1>10

(***************************************************************************)
(* One packet.                                                             *)
(***************************************************************************)
Readings == [rx : Seq(Unit), connected : BOOLEAN, got : Nat]

LEMMA ConsumedFacts ==
  ASSUME NEW r \in Readings, Len(r.rx) >= 2
  PROVE  /\ Consumed(r, 2) = [rx |-> SubSeq(r.rx, 3, Len(r.rx)),
                              connected |-> r.connected, got |-> r.got]
         /\ SubSeq(r.rx, 3, Len(r.rx)) \in Seq(Unit)
         /\ Len(SubSeq(r.rx, 3, Len(r.rx))) = Len(r.rx) - 2
         /\ \A i \in 1..Len(r.rx) - 2 : SubSeq(r.rx, 3, Len(r.rx))[i] = r.rx[i + 2]
<1>1. r.rx \in Seq(Unit) /\ Len(r.rx) \in Nat
  BY DEF Readings
<1>2. Consumed(r, 2) = [rx |-> SubSeq(r.rx, 3, Len(r.rx)),
                        connected |-> r.connected, got |-> r.got]
  <2>1. Consumed(r, 2) = [r EXCEPT !.rx = SubSeq(r.rx, 3, Len(r.rx))]
    <3>1. 2 + 1 = 3
      OBVIOUS
    <3>2. Consumed(r, 2) = [r EXCEPT !.rx = SubSeq(r.rx, 2 + 1, Len(r.rx))]
      BY DEF Consumed
    <3> QED BY <3>1, <3>2
  <2>2. \A y : [r EXCEPT !.rx = y] =
               [rx |-> y, connected |-> r.connected, got |-> r.got]
    BY DEF Readings
  <2> QED BY <2>1, <2>2
<1>3. \A i \in 3..Len(r.rx) : r.rx[i] \in Unit
  BY <1>1
<1>4. /\ SubSeq(r.rx, 3, Len(r.rx)) \in Seq(Unit)
      /\ Len(SubSeq(r.rx, 3, Len(r.rx))) =
           IF 3 <= Len(r.rx) THEN Len(r.rx) - 3 + 1 ELSE 0
      /\ \A i \in 1..Len(r.rx) - 3 + 1 :
           SubSeq(r.rx, 3, Len(r.rx))[i] = r.rx[3 + i - 1]
  BY <1>1, <1>3, SubSeqProperties
<1> QED BY <1>1, <1>2, <1>4

LEMMA HandledTyped ==
  ASSUME NEW r \in Readings PROVE HandlePacket(r) \subseteq Readings
<1>1. r.rx \in Seq(Unit) /\ Len(r.rx) \in Nat /\ r.connected \in BOOLEAN /\ r.got \in Nat
  BY DEF Readings
<1>2. CASE Len(r.rx) < 2
  BY <1>2 DEF HandlePacket
<1>3. CASE Len(r.rx) >= 2 /\ r.rx[1].part = 1
  <2>1. r.rx[1] \in Unit
    BY <1>1, <1>3
  <2>2. r.rx[1].n \in Nat
    BY <2>1 DEF Unit
  <2> DEFINE rest == Consumed(r, 2)
  <2>3. rest \in Readings
    <3>1. \A y \in Seq(Unit) :
            [rx |-> y, connected |-> r.connected, got |-> r.got] \in Readings
      BY <1>1 DEF Readings
    <3> QED BY <1>3, <3>1, ConsumedFacts
  <2>4. /\ \A c \in BOOLEAN : [rest EXCEPT !.connected = c] \in Readings
        /\ [rest EXCEPT !.got = r.rx[1].n] \in Readings
    <3> HIDE DEF rest
    <3> QED BY <2>2, <2>3 DEF Readings
  <2>5. Handled(r) \subseteq Readings
    BY <2>3, <2>4 DEF Handled
  <2> QED BY <1>3, <2>5 DEF HandlePacket
<1>4. CASE Len(r.rx) >= 2 /\ r.rx[1].part # 1
  <2>1. <<>> \in Seq(Unit)
    OBVIOUS
  <2>2. \A c \in BOOLEAN : [r EXCEPT !.rx = <<>>, !.connected = c] \in Readings
    BY <2>1 DEF Readings
  <2>3. Misread(r) \subseteq Readings
    BY <2>2 DEF Misread
  <2> QED BY <1>4, <2>3 DEF HandlePacket
<1> QED BY <1>1, <1>2, <1>3, <1>4

\* Two units less in the buffer are two units less in the whole stream.
LEMMA StreamShifts ==
  ASSUME NEW b \in Seq(Unit), NEW y \in Seq(Unit), NEW w \in Seq(Unit),
         Len(b) >= 2, Len(y) = Len(b) - 2,
         \A i \in 1..Len(b) - 2 : y[i] = b[i + 2]
  PROVE  /\ b \o w \in Seq(Unit) /\ y \o w \in Seq(Unit)
         /\ Len(b \o w) >= 2 /\ Len(y \o w) = Len(b \o w) - 2
         /\ \A i \in 1..Len(y \o w) : (y \o w)[i] = (b \o w)[i + 2]
         /\ (b \o w)[1] = b[1] /\ (b \o w)[2] = b[2]
<1>1. Len(b) \in Nat /\ Len(y) \in Nat /\ Len(w) \in Nat
  OBVIOUS
<1>2. /\ b \o w \in Seq(Unit) /\ Len(b \o w) = Len(b) + Len(w)
      /\ \A i \in 1..Len(b) + Len(w) :
           (b \o w)[i] = IF i <= Len(b) THEN b[i] ELSE w[i - Len(b)]
  BY ConcatProperties
<1>3. /\ y \o w \in Seq(Unit) /\ Len(y \o w) = Len(y) + Len(w)
      /\ \A i \in 1..Len(y) + Len(w) :
           (y \o w)[i] = IF i <= Len(y) THEN y[i] ELSE w[i - Len(y)]
  BY ConcatProperties
<1>4. ASSUME NEW i \in 1..Len(y) + Len(w) PROVE (y \o w)[i] = (b \o w)[i + 2]
  <2>1. i + 2 \in 1..Len(b) + Len(w)
    BY <1>1
  <2>2. (b \o w)[i + 2] = IF i + 2 <= Len(b) THEN b[i + 2] ELSE w[(i + 2) - Len(b)]
    BY <1>2, <2>1
  <2>3. (y \o w)[i] = IF i <= Len(y) THEN y[i] ELSE w[i - Len(y)]
    BY <1>3
  <2>4. (i + 2 <= Len(b) <=> i <= Len(y)) /\ (i + 2) - Len(b) = i - Len(y)
    BY <1>1
  <2>5. i <= Len(y) => y[i] = b[i + 2]
    BY <1>1
  <2> QED BY <2>2, <2>3, <2>4, <2>5
<1>5. (b \o w)[1] = b[1] /\ (b \o w)[2] = b[2]
  BY <1>1, <1>2
<1>6. Len(b \o w) >= 2 /\ Len(y \o w) = Len(b \o w) - 2
  BY <1>1, <1>2, <1>3
<1> QED BY <1>2, <1>3, <1>4, <1>5, <1>6

LEMMA HandledAhead ==
  ASSUME NEW r \in Readings, NEW w \in Seq(Unit), NEW t \in Nat,
         Ahead(r.rx \o w, r.got, t), NEW x \in HandlePacket(r)
  PROVE  /\ Ahead(x.rx \o w, x.got, t)
         /\ Full(r.rx \o w, r.got, t) => Full(x.rx \o w, x.got, t)
         /\ x.got = IF Len(r.rx) >= 2 /\ r.rx[1].kind = "message" THEN r.got + 1 ELSE r.got
<1>1. r.rx \in Seq(Unit) /\ Len(r.rx) \in Nat /\ r.got \in Nat
  BY DEF Readings
<1>2. CASE Len(r.rx) < 2
  BY <1>1, <1>2 DEF HandlePacket
<1>3. CASE Len(r.rx) >= 2
  <2> DEFINE s == r.rx \o w
             y == SubSeq(r.rx, 3, Len(r.rx))
             p == y \o w
  <2>1. /\ Consumed(r, 2) = [rx |-> y, connected |-> r.connected, got |-> r.got]
        /\ y \in Seq(Unit) /\ Len(y) = Len(r.rx) - 2
        /\ \A i \in 1..Len(r.rx) - 2 : y[i] = r.rx[i + 2]
    BY <1>3, ConsumedFacts
  <2>2. /\ s \in Seq(Unit) /\ p \in Seq(Unit)
        /\ Len(s) >= 2 /\ Len(p) = Len(s) - 2
        /\ \A i \in 1..Len(p) : p[i] = s[i + 2]
        /\ s[1] = r.rx[1] /\ s[2] = r.rx[2]
    <3> HIDE DEF y
    <3> QED BY <1>1, <1>3, <2>1, StreamShifts
  <2>3. Ahead(s, r.got, t)
    OBVIOUS
  <2>4. s[1].part = 1 /\ Whole(s[1], s[2])
    <3> HIDE DEF s, p
    <3> QED BY <1>1, <2>2, <2>3, FirstPacketGone
  <2>5. x \in Handled(r) /\ Whole(r.rx[1], r.rx[2])
    BY <1>1, <1>3, <2>2, <2>4 DEF HandlePacket
  <2>6. CASE s[1].kind = "message"
    <3>1. x = [Consumed(r, 2) EXCEPT !.got = r.rx[1].n]
      BY <2>2, <2>5, <2>6 DEF Handled
    <3>2. x.rx = y /\ x.got = s[1].n
      BY <2>1, <2>2, <3>1
    <3>3. /\ s[1].n = r.got + 1
          /\ Ahead(p, r.got + 1, t)
          /\ Full(s, r.got, t) => Full(p, r.got + 1, t)
      <4> HIDE DEF s, p
      <4> QED BY <1>1, <2>2, <2>3, <2>6, MessageGone
    <3> QED BY <1>3, <2>2, <2>6, <3>2, <3>3
  <2>7. CASE s[1].kind # "message"
    <3>1. x = Consumed(r, 2) \/ \E c \in BOOLEAN : x = [Consumed(r, 2) EXCEPT !.connected = c]
      BY <2>2, <2>5, <2>7 DEF Handled
    <3>2. x.rx = y /\ x.got = r.got
      BY <2>1, <3>1
    <3>3. Ahead(p, r.got, t) /\ (Full(s, r.got, t) => Full(p, r.got, t))
      <4> HIDE DEF s, p
      <4> QED BY <1>1, <2>2, <2>3, <2>7, OtherPacketGone
    <3> QED BY <2>2, <2>7, <3>2, <3>3
  <2> QED BY <2>6, <2>7
<1> QED BY <1>1, <1>2, <1>3

\* handle_packet only ever shortens the buffer.
LEMMA HandledShortens ==
  ASSUME NEW r \in Readings, NEW x \in HandlePacket(r)
  PROVE  Len(x.rx) <= Len(r.rx)
<1>1. r.rx \in Seq(Unit) /\ Len(r.rx) \in Nat
  BY DEF Readings
<1>2. CASE Len(r.rx) < 2
  BY <1>1, <1>2 DEF HandlePacket
<1>3. CASE Len(r.rx) >= 2 /\ r.rx[1].part = 1
  <2>1. x \in Handled(r)
    BY <1>1, <1>3 DEF HandlePacket
  <2>2. /\ Consumed(r, 2) = [rx |-> SubSeq(r.rx, 3, Len(r.rx)),
                             connected |-> r.connected, got |-> r.got]
        /\ Len(SubSeq(r.rx, 3, Len(r.rx))) = Len(r.rx) - 2
    BY <1>3, ConsumedFacts
  <2>3. \/ x = Consumed(r, 2)
        \/ \E c \in BOOLEAN : x = [Consumed(r, 2) EXCEPT !.connected = c]
        \/ x = [Consumed(r, 2) EXCEPT !.got = r.rx[1].n]
    BY <2>1 DEF Handled
  <2>4. x.rx = SubSeq(r.rx, 3, Len(r.rx))
    BY <2>2, <2>3
  <2> QED BY <1>1, <2>2, <2>4
<1>4. CASE Len(r.rx) >= 2 /\ r.rx[1].part # 1
  <2>1. x = r \/ \E c \in BOOLEAN : x = [r EXCEPT !.rx = <<>>, !.connected = c]
    BY <1>1, <1>4 DEF HandlePacket, Misread
  <2>2. x.rx = r.rx \/ x.rx = <<>>
    BY <2>1 DEF Readings
  <2> QED BY <1>1, <2>2
<1> QED BY <1>1, <1>2, <1>3, <1>4

(***************************************************************************)
(* One recv, and one or all of the packets it completes.                   *)
(***************************************************************************)
\* A piece of the stream may be cut off and be glued on again.
LEMMA PiecesJoin ==
  ASSUME NEW a \in Seq(Unit), NEW d \in Seq(Unit), NEW e \in Seq(Unit),
         NEW b \in Seq(Unit), NEW n \in Seq(Unit), b = a \o d, n = d \o e
  PROVE  b \o e = a \o n
<1> DEFINE p == b \o e
           q == a \o n
<1>1. Len(a) \in Nat /\ Len(d) \in Nat /\ Len(e) \in Nat
  OBVIOUS
<1>2. /\ Len(b) = Len(a) + Len(d)
      /\ \A i \in 1..Len(a) + Len(d) : b[i] = IF i <= Len(a) THEN a[i] ELSE d[i - Len(a)]
  BY ConcatProperties
<1>3. /\ Len(n) = Len(d) + Len(e)
      /\ \A i \in 1..Len(d) + Len(e) : n[i] = IF i <= Len(d) THEN d[i] ELSE e[i - Len(d)]
  BY ConcatProperties
<1>4. /\ p \in Seq(Unit) /\ Len(p) = Len(b) + Len(e)
      /\ \A i \in 1..Len(b) + Len(e) : p[i] = IF i <= Len(b) THEN b[i] ELSE e[i - Len(b)]
  BY ConcatProperties
<1>5. /\ q \in Seq(Unit) /\ Len(q) = Len(a) + Len(n)
      /\ \A i \in 1..Len(a) + Len(n) : q[i] = IF i <= Len(a) THEN a[i] ELSE n[i - Len(a)]
  BY ConcatProperties
<1> HIDE DEF p, q
<1>6. Len(p) = Len(q) /\ Len(p) = Len(a) + Len(d) + Len(e)
  BY <1>1, <1>2, <1>3, <1>4, <1>5
<1>7. ASSUME NEW i \in 1..Len(p) PROVE p[i] = q[i]
  <2>1. i \in 1..Len(b) + Len(e) /\ i \in 1..Len(a) + Len(n) /\ i \in Nat
    BY <1>1, <1>2, <1>3, <1>6
  <2>2. CASE i <= Len(a)
    <3>1. i <= Len(b) /\ i \in 1..Len(a) + Len(d)
      BY <1>1, <1>2, <2>1, <2>2
    <3> QED BY <1>2, <1>4, <1>5, <2>1, <2>2, <3>1
  <2>3. CASE ~(i <= Len(a)) /\ i <= Len(b)
    <3>1. /\ i \in 1..Len(a) + Len(d)
          /\ i - Len(a) \in 1..Len(d) + Len(e) /\ i - Len(a) <= Len(d)
      BY <1>1, <1>2, <2>1, <2>3
    <3>2. p[i] = b[i] /\ b[i] = d[i - Len(a)]
      BY <1>2, <1>4, <2>1, <2>3, <3>1
    <3>3. q[i] = n[i - Len(a)] /\ n[i - Len(a)] = d[i - Len(a)]
      BY <1>3, <1>5, <2>1, <2>3, <3>1
    <3> QED BY <3>2, <3>3
  <2>4. CASE ~(i <= Len(b))
    <3>1. /\ ~(i <= Len(a)) /\ i - Len(a) \in 1..Len(d) + Len(e)
          /\ ~(i - Len(a) <= Len(d)) /\ (i - Len(a)) - Len(d) = i - Len(b)
      BY <1>1, <1>2, <1>6, <2>1, <2>4
    <3>2. p[i] = e[i - Len(b)]
      BY <1>4, <2>1, <2>4
    <3>3. q[i] = n[i - Len(a)] /\ n[i - Len(a)] = e[i - Len(b)]
      BY <1>3, <1>5, <2>1, <3>1
    <3> QED BY <3>2, <3>3
  <2> QED BY <2>2, <2>3, <2>4
<1>8. p = q
  BY <1>4, <1>5, <1>6, <1>7, SeqEqual
<1> QED BY <1>8 DEF p, q

LEMMA ReceivedFacts ==
  ASSUME rx \in Seq(Unit), net \in Seq(Unit), NEW k \in 1..Least(Chunk, Len(net)),
         Len(rx) <= Capacity
  PROVE  /\ SubSeq(net, k + 1, Len(net)) \in Seq(Unit)
         /\ Len(SubSeq(net, k + 1, Len(net))) <= Len(net)
         /\ Received(k) \in Seq(Unit) /\ Len(Received(k)) <= Capacity
         /\ Fits(k) => Received(k) \o SubSeq(net, k + 1, Len(net)) = rx \o net
<1>1. /\ Len(net) \in Nat /\ Len(rx) \in Nat /\ Chunk \in Nat /\ Capacity \in Nat
      /\ k \in 1..Len(net) /\ k \in Nat
  BY ConstantsOK DEF Least
<1>2. \A i \in 1..Len(net) : net[i] \in Unit
  OBVIOUS
<1>3. SubSeq(net, 1, k) \in Seq(Unit) /\ Len(SubSeq(net, 1, k)) = k
  BY <1>1, <1>2, SubSeqProperties
<1>4. /\ SubSeq(net, k + 1, Len(net)) \in Seq(Unit)
      /\ Len(SubSeq(net, k + 1, Len(net))) <= Len(net)
  <2>1. k + 1 \in Int /\ Len(net) \in Int /\ \A i \in k + 1 .. Len(net) : net[i] \in Unit
    BY <1>1, <1>2
  <2>2. /\ SubSeq(net, k + 1, Len(net)) \in Seq(Unit)
        /\ Len(SubSeq(net, k + 1, Len(net))) =
             IF k + 1 <= Len(net) THEN Len(net) - (k + 1) + 1 ELSE 0
    BY <2>1, SubSeqProperties
  <2> QED BY <1>1, <2>2
<1>5. rx \o SubSeq(net, 1, k) \in Seq(Unit) /\ Len(rx \o SubSeq(net, 1, k)) = Len(rx) + k
  BY <1>3, ConcatProperties
<1>6. Received(k) \in Seq(Unit) /\ Len(Received(k)) <= Capacity
  BY <1>1, <1>5 DEF Received, Fits
<1>7. SubSeq(net, 1, k) \o SubSeq(net, k + 1, Len(net)) = net
  <2>1. 1 \in 1..Len(net) + 1 /\ k \in 1 - 1 .. Len(net) /\ Len(net) \in k .. Len(net)
    BY <1>1
  <2>2. SubSeq(net, 1, k) \o SubSeq(net, k + 1, Len(net)) = SubSeq(net, 1, Len(net))
    BY <2>1, ConcatAdjacentSubSeq
  <2> QED BY <2>2, SubSeqFull
<1>8. Fits(k) => Received(k) \o SubSeq(net, k + 1, Len(net)) = rx \o net
  <2> DEFINE d == SubSeq(net, 1, k)
             e == SubSeq(net, k + 1, Len(net))
  <2>1. d \in Seq(Unit) /\ e \in Seq(Unit) /\ net = d \o e
    BY <1>3, <1>4, <1>7
  <2>2. ASSUME Fits(k) PROVE Received(k) = rx \o d
    BY <2>2 DEF Received
  <2> HIDE DEF d, e
  <2>3. Fits(k) => Received(k) \o e = rx \o net
    <3> DEFINE c == Received(k)
    <3>1. c \in Seq(Unit)
      BY <1>6
    <3> HIDE DEF c
    <3>2. ASSUME Fits(k) PROVE c \o e = rx \o net
      <4>1. c = rx \o d
        BY <2>2, <3>2 DEF c
      <4> QED BY <2>1, <3>1, <4>1, PiecesJoin
    <3> QED BY <3>2 DEF c
  <2> QED BY <2>3 DEF e
<1> QED BY <1>4, <1>6, <1>8

\* The readings that take nothing away from what is ahead, w being what is
\* still on its way, t what has been sent, and open whether more may come.
Good(w, t, open) ==
  {r \in Readings : /\ Ahead(r.rx \o w, r.got, t)
                    /\ open => Full(r.rx \o w, r.got, t)}

\* In a stream that is ahead, handle_packet calls a message back if one is at
\* the front of rx_buf and then the very next one, and no other packet is taken
\* for a message; what it leaves is ahead again.
THEOREM CallbacksInOrder ==
  ASSUME NEW w \in Seq(Unit), NEW t \in Nat, NEW open \in BOOLEAN,
         NEW r \in Good(w, t, open), NEW x \in HandlePacket(r)
  PROVE  /\ x \in Good(w, t, open)
         /\ x.got = IF Len(r.rx) >= 2 /\ r.rx[1].kind = "message" THEN r.got + 1 ELSE r.got
BY HandledTyped, HandledAhead DEF Good

Short(b) == {r \in Readings : Len(r.rx) <= b}

LEMMA ReadsAreGood ==
  ASSUME NEW w \in Seq(Unit), NEW t \in Nat, NEW open \in BOOLEAN, NEW r \in Good(w, t, open)
  PROVE  HandlePacket(r) \subseteq Good(w, t, open) /\ HandlePackets(r) \subseteq Good(w, t, open)
<1>1. \A s \in Good(w, t, open) : HandlePacket(s) \subseteq Good(w, t, open)
  BY HandledTyped, HandledAhead DEF Good
<1> QED BY <1>1, LoopKeeps

LEMMA ReadsAreShort ==
  ASSUME NEW b \in Nat, NEW r \in Short(b)
  PROVE  HandlePacket(r) \subseteq Short(b) /\ HandlePackets(r) \subseteq Short(b)
<1>1. ASSUME NEW s \in Short(b), NEW x \in HandlePacket(s) PROVE x \in Short(b)
  <2>1. x \in Readings /\ s \in Readings /\ Len(x.rx) <= Len(s.rx) /\ Len(s.rx) <= b
    BY HandledTyped, HandledShortens DEF Short
  <2>2. Len(x.rx) \in Nat /\ Len(s.rx) \in Nat
    BY <2>1 DEF Readings
  <2> QED BY <2>1, <2>2 DEF Short
<1> QED BY <1>1, LoopKeeps

(***************************************************************************)
(* The invariant.  A connection counts from Connect on, also while the     *)
(* CONNACK is waited for: what was sent since then is ahead, whole.        *)
(***************************************************************************)
ClientTyped ==
  /\ pc \in {"run", "connack"} /\ connected \in BOOLEAN
  /\ rx \in Seq(Unit) /\ Len(rx) <= Capacity
  /\ pingAge \in 0..Keepalive /\ retryAge \in 0..RetryAfter

LinkTyped ==
  /\ wifi \in {"absent", "down", "up"} /\ tcp \in {"none", "open", "broken"}
  /\ net \in Seq(Unit)
  /\ owed \in Nat /\ session \in {"none", "asked", "up"}
  /\ sent \in 0..MaxMsgs /\ cuts \in 0..MaxCuts

HistTyped == got \in Nat /\ clean \in BOOLEAN

ClientInvTyped == ClientTyped /\ LinkTyped /\ HistTyped

Waits == pc = "connack" => ~connected

Live == clean /\ (pc = "connack" \/ connected) =>
          /\ Ahead(rx \o net, got, sent)
          /\ tcp = "open" => Full(rx \o net, got, sent)

StreamInv == ClientInvTyped /\ Waits /\ Live

LEMMA MqttConstants ==
  /\ MaxLoops \in Nat \ {0} /\ Chunk \in Nat /\ Capacity \in Nat
  /\ Keepalive \in Nat /\ RetryAfter \in Nat
  /\ Greeting \in Nat /\ MaxMsgs \in Nat /\ MaxOwed \in Nat
  /\ MaxNet \in Nat /\ MaxCuts \in Nat
BY ConstantsOK

LEMMA NothingAhead ==
  ASSUME NEW g \in Nat PROVE Ahead(<<>> \o <<>>, g, g) /\ Full(<<>> \o <<>>, g, g)
<1>1. <<>> \in Seq(Unit) /\ Len(<<>>) = 0 /\ <<>> \o <<>> = <<>>
  BY EmptySeq, ConcatEmptySeq
<1>2. Heads(<<>>) = {}
  BY <1>1 DEF Heads
<1>3. Numbers(<<>>) = {} /\ InOrder(<<>>) /\ InFrame(<<>>)
  BY <1>1, <1>2 DEF Numbers, InOrder, InFrame
<1>4. g + 1 .. g = {} /\ g <= g /\ 0 % 2 = 0
  OBVIOUS
<1> QED BY <1>1, <1>3, <1>4 DEF Ahead, Full

LEMMA StreamInit == Init => StreamInv
<1> SUFFICES ASSUME Init PROVE StreamInv
  OBVIOUS
<1>1. <<>> \in Seq(Unit) /\ Len(<<>>) = 0
  BY EmptySeq
<1>2. ClientInvTyped
  <2>1. pc = "run" /\ connected = FALSE /\ rx = <<>> /\ net = <<>>
    BY DEF Init
  <2>2. ClientTyped
    <3>1. rx \in Seq(Unit) /\ Len(rx) <= Capacity
      BY <1>1, <2>1, MqttConstants
    <3>2. pingAge \in 0..Keepalive /\ retryAge \in 0..RetryAfter
      BY MqttConstants DEF Init
    <3> QED BY <2>1, <3>1, <3>2 DEF ClientTyped
  <2>3. LinkTyped
    BY <1>1, <2>1, MqttConstants DEF Init, LinkTyped
  <2> QED BY <2>2, <2>3 DEF Init, ClientInvTyped, HistTyped
<1>3. Waits /\ Live
  BY DEF Init, Waits, Live
<1> QED BY <1>2, <1>3 DEF StreamInv

\* What a read does, whether one packet is handled or as many as there are.
LEMMA ReadStep ==
  ASSUME StreamInv, pc = "connack" \/ connected,
         NEW k \in 1..Least(Chunk, Len(net)), Receive(k),
         NEW x \in HandlePacket(Reading(Received(k)))
                   \cup HandlePackets(Reading(Received(k))),
         Becomes(x), sent' = sent
  PROVE  /\ rx' \in Seq(Unit) /\ Len(rx') <= Capacity /\ connected' \in BOOLEAN
         /\ net' \in Seq(Unit) /\ HistTyped'
         /\ connected' = x.connected
         /\ clean' => /\ Ahead(rx' \o net', got', sent')
                      /\ tcp = "open" => Full(rx' \o net', got', sent')
<1> DEFINE b == Received(k)
           w == SubSeq(net, k + 1, Len(net))
           open == tcp = "open"
<1>1. /\ rx \in Seq(Unit) /\ net \in Seq(Unit) /\ Len(rx) <= Capacity
      /\ connected \in BOOLEAN /\ got \in Nat /\ sent \in Nat /\ clean \in BOOLEAN
      /\ Capacity \in Nat
  BY MqttConstants DEF StreamInv, ClientInvTyped, ClientTyped, LinkTyped, HistTyped
<1>2. /\ w \in Seq(Unit) /\ b \in Seq(Unit) /\ Len(b) <= Capacity
      /\ Fits(k) => b \o w = rx \o net
  BY <1>1, ReceivedFacts
<1>3. net' = w /\ clean' = (clean /\ Fits(k))
  BY DEF Receive
<1>4. Reading(b) = [rx |-> b, connected |-> connected, got |-> got]
  BY DEF Reading
<1> HIDE DEF b, w, open
<1>5. Reading(b) \in Readings
  BY <1>1, <1>2, <1>4 DEF Readings
<1>6. Reading(b) \in Short(Capacity)
  BY <1>2, <1>4, <1>5 DEF Short
<1>7. x \in Short(Capacity)
  BY <1>1, <1>6, ReadsAreShort DEF b
<1>8. x \in Readings /\ Len(x.rx) <= Capacity
  BY <1>7 DEF Short
<1>9. /\ rx' = x.rx /\ connected' = x.connected /\ x.rx \in Seq(Unit)
      /\ x.connected \in BOOLEAN /\ x.got \in Nat
      /\ got' = IF clean' THEN x.got ELSE got
  BY <1>8 DEF Becomes, Readings
<1>10. HistTyped'
  BY <1>1, <1>3, <1>9 DEF HistTyped, Fits
<1>11. ASSUME clean'
       PROVE  Ahead(x.rx \o w, x.got, sent) /\ (open => Full(x.rx \o w, x.got, sent))
  <2>1. clean /\ b \o w = rx \o net
    BY <1>2, <1>3, <1>11
  <2>2. /\ Ahead(b \o w, got, sent)
        /\ open => Full(b \o w, got, sent)
    BY <2>1 DEF StreamInv, Live, open
  <2>3. open \in BOOLEAN
    BY DEF open
  <2>4. Reading(b) \in Good(w, sent, open)
    BY <1>4, <1>5, <2>2 DEF Good
  <2>5. x \in Good(w, sent, open)
    BY <1>1, <1>2, <2>3, <2>4, ReadsAreGood DEF b
  <2> QED BY <2>5 DEF Good
<1>12. clean' => /\ Ahead(rx' \o net', got', sent')
                 /\ tcp = "open" => Full(rx' \o net', got', sent')
  BY <1>3, <1>9, <1>11 DEF open
<1> QED BY <1>1, <1>2, <1>3, <1>8, <1>9, <1>10, <1>12

\* What the broker sends stands whole behind everything that is ahead.
LEMMA SendFacts ==
  ASSUME rx \in Seq(Unit), net \in Seq(Unit), NEW kind \in Kinds, NEW n \in Nat,
         Send(Packet(kind, n)), rx' = rx
  PROVE  /\ net' \in Seq(Unit)
         /\ rx \o net \in Seq(Unit) /\ rx' \o net' \in Seq(Unit)
         /\ Len(rx' \o net') = Len(rx \o net) + 2
         /\ \A i \in 1..Len(rx \o net) : (rx' \o net')[i] = (rx \o net)[i]
         /\ (rx' \o net')[Len(rx \o net) + 1] = [kind |-> kind, n |-> n, part |-> 1]
         /\ (rx' \o net')[Len(rx \o net) + 1].part = 1
         /\ Whole((rx' \o net')[Len(rx \o net) + 1], (rx' \o net')[Len(rx \o net) + 2])
<1> DEFINE u == [kind |-> kind, n |-> n, part |-> 1]
           v == [kind |-> kind, n |-> n, part |-> 2]
           packet == <<u, v>>
           s == rx \o net
           q == rx' \o net'
<1>1. u \in Unit /\ v \in Unit /\ u.part = 1 /\ Whole(u, v)
  <2>1. u \in Unit /\ v \in Unit
    BY DEF Unit
  <2> QED BY <2>1, WholeFacts
<1>2. packet \in Seq(Unit) /\ Len(packet) = 2 /\ packet[1] = u /\ packet[2] = v
  <2> HIDE DEF u, v
  <2> QED BY <1>1
<1>3. net' = net \o packet
  BY DEF Send, Packet
<1> HIDE DEF packet
<1>4. /\ net' \in Seq(Unit) /\ Len(net') = Len(net) + 2
      /\ \A i \in 1..Len(net) + 2 :
           net'[i] = IF i <= Len(net) THEN net[i] ELSE packet[i - Len(net)]
  <2>1. /\ net \o packet \in Seq(Unit) /\ Len(net \o packet) = Len(net) + Len(packet)
        /\ \A i \in 1..Len(net) + Len(packet) :
             (net \o packet)[i] = IF i <= Len(net) THEN net[i] ELSE packet[i - Len(net)]
    BY <1>2, ConcatProperties
  <2>2. Len(packet) = 2
    BY <1>2
  <2> QED BY <1>3, <2>1, <2>2
<1>5. Len(rx) \in Nat /\ Len(net) \in Nat
  OBVIOUS
<1>6. /\ s \in Seq(Unit) /\ Len(s) = Len(rx) + Len(net)
      /\ \A i \in 1..Len(rx) + Len(net) :
           s[i] = IF i <= Len(rx) THEN rx[i] ELSE net[i - Len(rx)]
  BY ConcatProperties
<1>7. /\ q \in Seq(Unit) /\ Len(q) = Len(rx) + (Len(net) + 2)
      /\ \A i \in 1..Len(rx) + (Len(net) + 2) :
           q[i] = IF i <= Len(rx) THEN rx[i] ELSE net'[i - Len(rx)]
  <2>1. /\ rx \o net' \in Seq(Unit) /\ Len(rx \o net') = Len(rx) + Len(net')
        /\ \A i \in 1..Len(rx) + Len(net') :
             (rx \o net')[i] = IF i <= Len(rx) THEN rx[i] ELSE net'[i - Len(rx)]
    <3>1. net' \in Seq(Unit)
      BY <1>4
    <3> QED BY <3>1, ConcatProperties
  <2>2. q = rx \o net' /\ Len(net') = Len(net) + 2
    BY <1>4
  <2> HIDE DEF q
  <2> QED BY <2>1, <2>2
<1> HIDE DEF u, v, s, q
<1>8. ASSUME NEW i \in 1..Len(s) PROVE q[i] = s[i]
  <2>1. i \in 1..Len(rx) + (Len(net) + 2) /\ i \in 1..Len(rx) + Len(net)
    BY <1>5, <1>6
  <2>2. CASE i <= Len(rx)
    BY <1>6, <1>7, <2>1, <2>2
  <2>3. CASE ~(i <= Len(rx))
    <3>1. i - Len(rx) \in 1..Len(net) + 2 /\ i - Len(rx) <= Len(net)
      BY <1>5, <2>1, <2>3
    <3> QED BY <1>4, <1>6, <1>7, <2>1, <2>3, <3>1
  <2> QED BY <2>2, <2>3
<1>9. ASSUME NEW j \in 1..2 PROVE q[Len(s) + j] = packet[j]
  <2>1. /\ Len(s) + j \in 1..Len(rx) + (Len(net) + 2) /\ ~(Len(s) + j <= Len(rx))
        /\ (Len(s) + j) - Len(rx) = Len(net) + j
        /\ Len(net) + j \in 1..Len(net) + 2 /\ ~(Len(net) + j <= Len(net))
        /\ (Len(net) + j) - Len(net) = j
    BY <1>5, <1>6
  <2> QED BY <1>4, <1>7, <2>1
<1>10. q[Len(s) + 1] = u /\ q[Len(s) + 2] = v
  BY <1>2, <1>9
<1>11. Len(q) = Len(s) + 2
  BY <1>5, <1>6, <1>7
<1> QED BY <1>1, <1>4, <1>6, <1>7, <1>8, <1>10, <1>11 DEF s, q, u

LEMMA SendOther ==
  ASSUME StreamInv, NEW kind \in Kinds \ {"message"}, NEW n \in Nat,
         tcp = "open", Send(Packet(kind, n)),
         UNCHANGED <<pc, connected, rx, sent, histVars>>
  PROVE  net' \in Seq(Unit) /\ Live'
<1>1. rx \in Seq(Unit) /\ net \in Seq(Unit) /\ rx' = rx /\ got \in Nat /\ sent \in Nat
  BY MqttConstants DEF StreamInv, ClientInvTyped, ClientTyped, LinkTyped, HistTyped
<1>2. /\ net' \in Seq(Unit)
      /\ rx \o net \in Seq(Unit) /\ rx' \o net' \in Seq(Unit)
      /\ Len(rx' \o net') = Len(rx \o net) + 2
      /\ \A i \in 1..Len(rx \o net) : (rx' \o net')[i] = (rx \o net)[i]
      /\ (rx' \o net')[Len(rx \o net) + 1] = [kind |-> kind, n |-> n, part |-> 1]
      /\ (rx' \o net')[Len(rx \o net) + 1].part = 1
      /\ Whole((rx' \o net')[Len(rx \o net) + 1], (rx' \o net')[Len(rx \o net) + 2])
  BY <1>1, SendFacts
<1>3. ASSUME clean, pc = "connack" \/ connected
      PROVE  Ahead(rx' \o net', got, sent) /\ Full(rx' \o net', got, sent)
  <2> DEFINE s == rx \o net
             q == rx' \o net'
  <2>1. Ahead(s, got, sent) /\ Full(s, got, sent)
    BY <1>3 DEF StreamInv, Live
  <2>2. /\ s \in Seq(Unit) /\ q \in Seq(Unit) /\ Len(q) = Len(s) + 2
        /\ \A i \in 1..Len(s) : q[i] = s[i]
        /\ q[Len(s) + 1].part = 1 /\ Whole(q[Len(s) + 1], q[Len(s) + 2])
        /\ q[Len(s) + 1].kind # "message"
    BY <1>2
  <2> HIDE DEF s, q
  <2>3. Ahead(q, got, sent) /\ Full(q, got, sent)
    BY <1>1, <2>1, <2>2, OtherPacketMore
  <2> QED BY <2>3 DEF q
<1>4. Live'
  BY <1>3 DEF Live, histVars
<1> QED BY <1>2, <1>4

LEMMA SendMessage ==
  ASSUME StreamInv, tcp = "open", sent' = sent + 1, Send(Packet("message", sent')),
         UNCHANGED <<pc, connected, rx, histVars>>
  PROVE  net' \in Seq(Unit) /\ Live'
<1>1. rx \in Seq(Unit) /\ net \in Seq(Unit) /\ rx' = rx /\ got \in Nat /\ sent \in Nat
      /\ sent' \in Nat
  BY MqttConstants DEF StreamInv, ClientInvTyped, ClientTyped, LinkTyped, HistTyped
<1>2. /\ net' \in Seq(Unit)
      /\ rx \o net \in Seq(Unit) /\ rx' \o net' \in Seq(Unit)
      /\ Len(rx' \o net') = Len(rx \o net) + 2
      /\ \A i \in 1..Len(rx \o net) : (rx' \o net')[i] = (rx \o net)[i]
      /\ (rx' \o net')[Len(rx \o net) + 1] = [kind |-> "message", n |-> sent', part |-> 1]
      /\ (rx' \o net')[Len(rx \o net) + 1].part = 1
      /\ Whole((rx' \o net')[Len(rx \o net) + 1], (rx' \o net')[Len(rx \o net) + 2])
  BY <1>1, SendFacts DEF Kinds
<1>3. ASSUME clean, pc = "connack" \/ connected
      PROVE  Ahead(rx' \o net', got, sent') /\ Full(rx' \o net', got, sent')
  <2> DEFINE s == rx \o net
             q == rx' \o net'
  <2>1. Ahead(s, got, sent) /\ Full(s, got, sent)
    BY <1>3 DEF StreamInv, Live
  <2>2. /\ s \in Seq(Unit) /\ q \in Seq(Unit) /\ Len(q) = Len(s) + 2
        /\ \A i \in 1..Len(s) : q[i] = s[i]
        /\ q[Len(s) + 1].part = 1 /\ Whole(q[Len(s) + 1], q[Len(s) + 2])
        /\ q[Len(s) + 1].kind = "message" /\ q[Len(s) + 1].n = sent + 1
    BY <1>2
  <2> HIDE DEF s, q
  <2>3. Ahead(q, got, sent + 1) /\ Full(q, got, sent + 1)
    BY <1>1, <2>1, <2>2, MessageMore
  <2> QED BY <2>3 DEF q
<1>4. Live'
  BY <1>3 DEF Live, histVars
<1> QED BY <1>2, <1>4

\* A cut leaves a beginning of what was on its way.
LEMMA CutKeeps ==
  ASSUME StreamInv, NEW k \in 0..Len(net), net' = SubSeq(net, 1, k),
         tcp' = "broken", UNCHANGED <<pc, connected, rx, sent, histVars>>
  PROVE  net' \in Seq(Unit) /\ Live'
<1>1. rx \in Seq(Unit) /\ net \in Seq(Unit) /\ rx' = rx /\ got \in Nat /\ sent \in Nat
  BY MqttConstants DEF StreamInv, ClientInvTyped, ClientTyped, LinkTyped, HistTyped
<1>2. Len(rx) \in Nat /\ Len(net) \in Nat /\ k \in Nat /\ k <= Len(net)
  BY <1>1
<1>3. /\ net' \in Seq(Unit) /\ Len(net') = k
      /\ \A i \in 1..k : net'[i] = net[i]
  <2>1. \A i \in 1..k : net[i] \in Unit
    BY <1>1, <1>2
  <2>2. /\ SubSeq(net, 1, k) \in Seq(Unit)
        /\ Len(SubSeq(net, 1, k)) = IF 1 <= k THEN k - 1 + 1 ELSE 0
        /\ \A i \in 1..k - 1 + 1 : SubSeq(net, 1, k)[i] = net[1 + i - 1]
    BY <1>2, <2>1, SubSeqProperties
  <2>3. k - 1 + 1 = k /\ \A i \in 1..k : 1 + i - 1 = i
    BY <1>2
  <2> QED BY <1>2, <2>2, <2>3
<1> DEFINE s == rx \o net
           q == rx \o net'
<1>4. /\ s \in Seq(Unit) /\ Len(s) = Len(rx) + Len(net)
      /\ \A i \in 1..Len(rx) + Len(net) :
           s[i] = IF i <= Len(rx) THEN rx[i] ELSE net[i - Len(rx)]
  BY <1>1, ConcatProperties
<1>5. /\ q \in Seq(Unit) /\ Len(q) = Len(rx) + Len(net')
      /\ \A i \in 1..Len(rx) + Len(net') :
           q[i] = IF i <= Len(rx) THEN rx[i] ELSE net'[i - Len(rx)]
  <2>1. net' \in Seq(Unit)
    BY <1>3
  <2> QED BY <1>1, <2>1, ConcatProperties
<1> HIDE DEF s, q
<1>6. Len(q) <= Len(s)
  BY <1>2, <1>3, <1>4, <1>5
<1>7. ASSUME NEW i \in 1..Len(q) PROVE q[i] = s[i]
  <2>1. i \in 1..Len(rx) + Len(net') /\ i \in 1..Len(rx) + Len(net)
    BY <1>2, <1>3, <1>4, <1>5, <1>6
  <2>2. CASE i <= Len(rx)
    BY <1>4, <1>5, <2>1, <2>2
  <2>3. CASE ~(i <= Len(rx))
    <3>1. i - Len(rx) \in 1..k
      BY <1>2, <1>3, <2>1, <2>3
    <3> QED BY <1>3, <1>4, <1>5, <2>1, <2>3, <3>1
  <2> QED BY <2>2, <2>3
<1>8. ASSUME clean, pc = "connack" \/ connected
      PROVE  Ahead(rx' \o net', got, sent)
  <2>1. Ahead(s, got, sent)
    BY <1>8 DEF StreamInv, Live, s
  <2>2. Ahead(q, got, sent)
    BY <1>1, <1>4, <1>5, <1>6, <1>7, <2>1, AheadOfPrefix
  <2> QED BY <1>1, <2>2 DEF q
<1>9. Live'
  BY <1>8 DEF Live, histVars
<1> QED BY <1>3, <1>9

(***************************************************************************)
(* One lemma per group of actions.                                         *)
(***************************************************************************)
LEMMA KeepAliveTyped ==
  ASSUME StreamInv, NEW c, KeepAlive(c)
  PROVE  pingAge' \in 0..Keepalive /\ owed' \in Nat
BY MqttConstants DEF StreamInv, ClientInvTyped, ClientTyped, LinkTyped, KeepAlive

LEMMA PollReadKeeps == StreamInv /\ PollRead => StreamInv'
<1> SUFFICES ASSUME StreamInv, PollRead PROVE StreamInv'
  OBVIOUS
<1>1. PICK k \in 1..Least(Chunk, Len(net)) :
        /\ Receive(k)
        /\ \E r \in HandlePackets(Reading(Received(k))) : Becomes(r) /\ KeepAlive(r.connected)
  BY DEF PollRead
<1>2. PICK x \in HandlePackets(Reading(Received(k))) : Becomes(x) /\ KeepAlive(x.connected)
  BY <1>1
<1>3. /\ pc = "run" /\ connected
      /\ UNCHANGED <<pc, retryAge, wifi, tcp, session, sent, cuts>>
  BY DEF PollRead, Polls
<1>4. /\ rx' \in Seq(Unit) /\ Len(rx') <= Capacity /\ connected' \in BOOLEAN
      /\ net' \in Seq(Unit) /\ HistTyped'
      /\ clean' => /\ Ahead(rx' \o net', got', sent')
                   /\ tcp = "open" => Full(rx' \o net', got', sent')
  BY <1>1, <1>2, <1>3, ReadStep
<1>5. pingAge' \in 0..Keepalive /\ owed' \in Nat
  BY <1>2, KeepAliveTyped
<1>6. ClientTyped' /\ LinkTyped'
  BY <1>3, <1>4, <1>5 DEF StreamInv, ClientInvTyped, ClientTyped, LinkTyped
<1>7. Waits' /\ Live'
  BY <1>3, <1>4 DEF Waits, Live
<1> QED BY <1>4, <1>6, <1>7 DEF StreamInv, ClientInvTyped

LEMMA ConnackReadKeeps == StreamInv /\ ConnackRead => StreamInv'
<1> SUFFICES ASSUME StreamInv, ConnackRead PROVE StreamInv'
  OBVIOUS
<1>1. PICK k \in 1..Least(Chunk, Len(net)) :
        /\ Receive(k)
        /\ \E r \in HandlePacket(Reading(Received(k))) :
             /\ Becomes(r)
             /\ IF r.connected
                THEN /\ pc' = "run"
                     /\ pingAge' = 0
                     /\ owed' = IF tcp = "open" THEN Greeting ELSE 0
                ELSE UNCHANGED <<pc, pingAge, owed>>
  BY DEF ConnackRead
<1>2. PICK x \in HandlePacket(Reading(Received(k))) :
        /\ Becomes(x)
        /\ IF x.connected
           THEN /\ pc' = "run"
                /\ pingAge' = 0
                /\ owed' = IF tcp = "open" THEN Greeting ELSE 0
           ELSE UNCHANGED <<pc, pingAge, owed>>
  BY <1>1
<1>3. pc = "connack" /\ UNCHANGED <<retryAge, wifi, tcp, session, sent, cuts>>
  BY DEF ConnackRead
<1>4. /\ rx' \in Seq(Unit) /\ Len(rx') <= Capacity /\ connected' \in BOOLEAN
      /\ net' \in Seq(Unit) /\ HistTyped'
      /\ connected' = x.connected
      /\ clean' => /\ Ahead(rx' \o net', got', sent')
                   /\ tcp = "open" => Full(rx' \o net', got', sent')
  BY <1>1, <1>2, <1>3, ReadStep
<1>5. pingAge' \in 0..Keepalive /\ owed' \in Nat /\ pc' \in {"run", "connack"}
  BY <1>2, <1>3, MqttConstants DEF StreamInv, ClientInvTyped, ClientTyped, LinkTyped
<1>6. ClientTyped' /\ LinkTyped'
  BY <1>3, <1>4, <1>5 DEF StreamInv, ClientInvTyped, ClientTyped, LinkTyped
<1>7. Waits'
  BY <1>2, <1>3, <1>4 DEF Waits
<1>8. Live'
  BY <1>3, <1>4 DEF Live
<1> QED BY <1>4, <1>6, <1>7, <1>8 DEF StreamInv, ClientInvTyped

\* No connection is left to say anything of.
LEMMA ClosingKeeps ==
  StreamInv /\ (PollBroken \/ ConnectFails \/ ConnackTimeout \/ Restart) => StreamInv'
<1> SUFFICES ASSUME StreamInv, PollBroken \/ ConnectFails \/ ConnackTimeout \/ Restart
             PROVE  StreamInv'
  OBVIOUS
<1>1. <<>> \in Seq(Unit) /\ Len(<<>>) = 0
  BY EmptySeq
<1>2. ClientInvTyped
  BY DEF StreamInv
<1>3. CASE PollBroken
  <2>1. ClientInvTyped'
    BY <1>1, <1>2, <1>3 DEF PollBroken, Hangup, Closed, histVars, ClientInvTyped,
         ClientTyped, LinkTyped, HistTyped
  <2>2. pc' = "run" /\ ~connected'
    BY <1>3 DEF PollBroken, Polls, Hangup
  <2> QED BY <2>1, <2>2 DEF StreamInv, Waits, Live
<1>4. CASE ConnectFails
  <2>1. ClientInvTyped'
    BY <1>1, <1>2, <1>4, MqttConstants DEF ConnectFails, Closed, histVars, ClientInvTyped,
         ClientTyped, LinkTyped, HistTyped
  <2>2. pc' = "run" /\ ~connected'
    BY <1>4 DEF ConnectFails, MayConnect
  <2> QED BY <2>1, <2>2 DEF StreamInv, Waits, Live
<1>5. CASE ConnackTimeout
  <2>1. ClientInvTyped'
    BY <1>1, <1>2, <1>5 DEF ConnackTimeout, Closed, histVars, ClientInvTyped,
         ClientTyped, LinkTyped, HistTyped
  <2>2. pc' = "run" /\ ~connected'
    BY <1>5 DEF ConnackTimeout, StreamInv, Waits
  <2> QED BY <2>1, <2>2 DEF StreamInv, Waits, Live
<1>6. CASE Restart
  <2>1. pc' = "run" /\ connected' = FALSE /\ rx' = <<>> /\ net' = <<>>
    BY <1>6 DEF Restart, Closed
  <2>2. ClientTyped'
    <3>1. rx' \in Seq(Unit) /\ Len(rx') <= Capacity
      BY <1>1, <2>1, MqttConstants
    <3>2. pingAge' \in 0..Keepalive /\ retryAge' \in 0..RetryAfter
      BY <1>6, MqttConstants DEF Restart
    <3> QED BY <2>1, <3>1, <3>2 DEF ClientTyped
  <2>3. LinkTyped' /\ HistTyped'
    BY <1>1, <1>2, <1>6, <2>1, MqttConstants
       DEF Restart, Closed, histVars, ClientInvTyped, LinkTyped, HistTyped
  <2> QED BY <2>1, <2>2, <2>3 DEF StreamInv, ClientInvTyped, Waits, Live
<1> QED BY <1>3, <1>4, <1>5, <1>6

LEMMA ConnectKeeps == StreamInv /\ Connect => StreamInv'
<1> SUFFICES ASSUME StreamInv, Connect PROVE StreamInv'
  OBVIOUS
<1>1. <<>> \in Seq(Unit) /\ Len(<<>>) = 0
  BY EmptySeq
<1>2. ClientInvTyped
  BY DEF StreamInv
<1>3. ClientInvTyped'
  BY <1>1, <1>2, MqttConstants DEF Connect, ClientInvTyped, ClientTyped, LinkTyped, HistTyped
<1>4. Waits'
  BY DEF Connect, MayConnect, Waits
<1>5. ASSUME clean' PROVE Ahead(rx' \o net', got', sent') /\ Full(rx' \o net', got', sent')
  <2>1. rx' = <<>> /\ net' = <<>> /\ got' = sent /\ sent' = sent /\ sent \in Nat
    <3>1. sent \in Nat
      BY <1>2, MqttConstants DEF ClientInvTyped, LinkTyped
    <3>2. clean' = (rx = <<>>)
      BY DEF Connect
    <3>3. rx = <<>>
      BY Zenon, <1>5, <3>2
    <3> QED BY <3>1, <3>3 DEF Connect
  <2> QED BY <2>1, NothingAhead
<1> QED BY <1>3, <1>4, <1>5 DEF StreamInv, Live

\* Neither the stream nor what was read of it changes.
LEMMA AsideKeeps ==
  StreamInv /\ (PollIdle \/ WifiLost \/ WifiBack \/ Second \/ UNCHANGED vars) => StreamInv'
<1> SUFFICES ASSUME StreamInv,
                    PollIdle \/ WifiLost \/ WifiBack \/ Second \/ UNCHANGED vars
             PROVE  StreamInv'
  OBVIOUS
<1>1. ClientInvTyped
  BY DEF StreamInv
<1>2. UNCHANGED <<pc, connected, rx, net, tcp, sent, got, clean>>
  BY DEF PollIdle, WifiLost, WifiBack, Second, vars, clientVars, linkVars, histVars
<1>3. pingAge' \in 0..Keepalive /\ retryAge' \in 0..RetryAfter
  <2>1. CASE PollIdle
    BY <1>1, <2>1, KeepAliveTyped DEF PollIdle, ClientInvTyped, ClientTyped
  <2>2. CASE Second
    BY <1>1, <2>2, MqttConstants DEF Second, Older, Least, ClientInvTyped, ClientTyped
  <2>3. CASE WifiLost \/ WifiBack \/ UNCHANGED vars
    BY <1>1, <2>3 DEF WifiLost, WifiBack, vars, clientVars, ClientInvTyped, ClientTyped
  <2> QED BY <2>1, <2>2, <2>3
<1>4. /\ wifi' \in {"absent", "down", "up"} /\ owed' \in Nat
      /\ session' \in {"none", "asked", "up"} /\ cuts' \in 0..MaxCuts
  <2>1. CASE PollIdle
    BY <1>1, <2>1, KeepAliveTyped DEF PollIdle, ClientInvTyped, LinkTyped
  <2>2. CASE WifiLost
    BY <1>1, <2>2, MqttConstants DEF WifiLost, ClientInvTyped, LinkTyped
  <2>3. CASE WifiBack \/ Second \/ UNCHANGED vars
    BY <1>1, <2>3 DEF WifiBack, Second, vars, linkVars, ClientInvTyped, LinkTyped
  <2> QED BY <2>1, <2>2, <2>3
<1>5. ClientInvTyped'
  BY <1>1, <1>2, <1>3, <1>4 DEF ClientInvTyped, ClientTyped, LinkTyped, HistTyped
<1>6. Waits' /\ Live'
  BY <1>2 DEF StreamInv, Waits, Live
<1> QED BY <1>5, <1>6 DEF StreamInv

LEMMA BrokerKeeps == StreamInv /\ (Accept \/ Refuse \/ Answer \/ Publish) => StreamInv'
<1> SUFFICES ASSUME StreamInv, Accept \/ Refuse \/ Answer \/ Publish PROVE StreamInv'
  OBVIOUS
<1>1. ClientInvTyped /\ Waits
  BY DEF StreamInv
<1>2. /\ UNCHANGED <<pc, connected, rx, pingAge, retryAge>>
      /\ UNCHANGED <<wifi, cuts, histVars>>
      /\ tcp = "open"
  BY DEF Accept, Refuse, Answer, Publish, clientVars
<1>3. ClientTyped' /\ HistTyped' /\ Waits'
  BY <1>1, <1>2 DEF ClientInvTyped, ClientTyped, HistTyped, histVars, Waits
<1>4. /\ tcp' \in {"none", "open", "broken"} /\ owed' \in Nat
      /\ session' \in {"none", "asked", "up"} /\ sent' \in 0..MaxMsgs
  <2>1. CASE Accept \/ Refuse
    BY <1>1, <2>1 DEF Accept, Refuse, ClientInvTyped, LinkTyped
  <2>2. CASE Answer
    BY <1>1, <2>2 DEF Answer, ClientInvTyped, LinkTyped
  <2>3. CASE Publish
    BY <1>1, <2>3, MqttConstants DEF Publish, ClientInvTyped, LinkTyped
  <2> QED BY <2>1, <2>2, <2>3
<1>5. net' \in Seq(Unit) /\ Live'
  <2>1. CASE Accept \/ Refuse \/ Answer
    <3>1. sent' = sent
      BY <2>1 DEF Accept, Refuse, Answer
    <3>2. \E kind \in Kinds \ {"message"} : Send(Packet(kind, 0))
      BY <2>1 DEF Accept, Refuse, Answer, Kinds
    <3>3. 0 \in Nat
      OBVIOUS
    <3> QED BY <1>2, <3>1, <3>2, <3>3, SendOther
  <2>2. CASE Publish
    <3>1. sent' = sent + 1 /\ Send(Packet("message", sent'))
      BY <2>2 DEF Publish
    <3> QED BY <1>2, <3>1, SendMessage
  <2> QED BY <2>1, <2>2
<1>6. LinkTyped'
  BY <1>1, <1>2, <1>4, <1>5 DEF ClientInvTyped, LinkTyped
<1> QED BY <1>3, <1>5, <1>6 DEF StreamInv, ClientInvTyped

LEMMA CutStepKeeps == StreamInv /\ Cut => StreamInv'
<1> SUFFICES ASSUME StreamInv, Cut PROVE StreamInv'
  OBVIOUS
<1>1. ClientInvTyped /\ Waits
  BY DEF StreamInv
<1>2. PICK k \in 0..Len(net) : net' = SubSeq(net, 1, k)
  BY DEF Cut
<1>3. /\ UNCHANGED <<pc, connected, rx, pingAge, retryAge>>
      /\ UNCHANGED <<wifi, sent, histVars>>
      /\ tcp' = "broken" /\ owed' = 0 /\ session' = "none" /\ cuts' \in 0..MaxCuts
  BY <1>1, MqttConstants DEF Cut, clientVars, ClientInvTyped, LinkTyped
<1>4. ClientTyped' /\ HistTyped' /\ Waits'
  BY <1>1, <1>3 DEF ClientInvTyped, ClientTyped, HistTyped, histVars, Waits
<1>5. net' \in Seq(Unit) /\ Live'
  BY <1>2, <1>3, CutKeeps
<1>6. LinkTyped'
  BY <1>1, <1>3, <1>5 DEF ClientInvTyped, LinkTyped
<1> QED BY <1>4, <1>5, <1>6 DEF StreamInv, ClientInvTyped

LEMMA StreamNext == StreamInv /\ [Next]_vars => StreamInv'
BY PollReadKeeps, ConnackReadKeeps, ClosingKeeps, ConnectKeeps, AsideKeeps, BrokerKeeps,
   CutStepKeeps DEF Next

LEMMA StreamInvariant == Spec => []StreamInv
BY StreamInit, StreamNext, PTL DEF Spec

\* For every size of the buffer, of a recv and of the loop: as long as the
\* connection is clean, what the client has still to read is the stream from
\* the next message on, in whole packets, and nothing of it is missing.
THEOREM FramingSurvives == Spec => []StreamIntact
<1>1. StreamInv => StreamIntact
  BY DEF StreamInv, Live, Ahead, Full, StreamIntact
<1> QED BY <1>1, StreamInvariant, PTL

\* rx_buf is never written beyond its end, whatever the stream is, also when
\* it was misread: a recv that does not fit is dropped, and handle_packet
\* only takes away.
THEOREM BufferIsLargeEnough == Spec => [](Len(rx) <= Capacity)
<1>1. StreamInv => Len(rx) <= Capacity
  BY DEF StreamInv, ClientInvTyped, ClientTyped
<1> QED BY <1>1, StreamInvariant, PTL
=============================================================================
