------------------------ MODULE StreamDeliveryProofs ------------------------
(***************************************************************************)
(* Proofs about StreamDelivery.  The argument goes from one range to all   *)
(* streams: what ordered delivery does to the ranges of one stream         *)
(* (Delivers); what a stream is between two steps, still going or over     *)
(* (Open, Over), with the endpoint's account of it (Sound, Going); that    *)
(* every step is a write, a delivery to one stream or nothing to them      *)
(* (StepKinds); and the sets of bytes that the counters of the association *)
(* stand for (BytesInv).                                                   *)
(***************************************************************************)
EXTENDS StreamDelivery, FiniteSetTheorems, SequenceTheorems, NaturalsInduction,
        WellFoundedInduction, TLAPS

-----------------------------------------------------------------------------
(* Ranges.                                                                 *)

Frames == [offset : Nat, len : Nat, fin : BOOLEAN]

\* What the frames of one stream are to each other: none is without meaning,
\* and of two the earlier ends before the later begins and is not the last.
InOrder(W) ==
  /\ W \in SUBSET Frames
  /\ \A f \in W : f.len > 0 \/ f.fin
  /\ \A f, g \in W : f # g => \/ EndOf(f) <= g.offset /\ ~f.fin
                              \/ EndOf(g) <= f.offset /\ ~g.fin

\* The ranges R wait for a cursor at c: each is what is left of a frame.
Remnants(W, c, R) == \A i \in R : \E f \in W : c <= EndOf(f) /\ i = After(f, c)

\* As it is between two deliveries: none of them is used up.
Waiting(W, c, R) == \A i \in R : \E f \in W : c < EndOf(f) /\ i = After(f, c)

Held(R) == UNION {Bytes(i) : i \in R}

\* A set of natural numbers has a least element.
LEMMA LeastNumber ==
  ASSUME NEW S \in SUBSET Nat, S # {}
  PROVE  \E n \in S : \A m \in S : n <= m
<1>1. \E x \in S : \A y \in S : ~(<<y, x>> \in OpToRel(<, Nat))
  BY NatLessThanWellFounded, WFMin
<1>2. PICK f \in S : \A y \in S : ~(<<y, f>> \in OpToRel(<, Nat))
  BY <1>1
<1>3. ASSUME NEW m \in S PROVE f <= m
  <2>1. m \in Nat /\ f \in Nat
    OBVIOUS
  <2>2. m < f => <<m, f>> \in OpToRel(<, Nat)
    BY <2>1 DEF OpToRel
  <2>3. ~(m < f)
    BY <1>2, <2>2, Zenon
  <2> QED
    BY <2>1, <2>3
<1> QED
  BY <1>3

\* What is left of a frame.
LEMMA AfterFacts ==
  ASSUME NEW f \in Frames, NEW c \in Nat, c <= EndOf(f)
  PROVE  /\ After(f, c) \in Frames
         /\ After(f, c).offset >= c
         /\ After(f, c).offset >= f.offset
         /\ c <= f.offset => After(f, c) = f
         /\ c > f.offset => After(f, c).offset = c
         /\ EndOf(After(f, c)) = EndOf(f)
         /\ After(f, c).fin = f.fin
         /\ Bytes(After(f, c)) = {b \in Bytes(f) : b >= c}
         /\ \A d \in Nat : c <= d /\ d <= EndOf(f) => After(After(f, c), d) = After(f, d)
  BY DEF After, EndOf, Bytes, Frames

\* Two frames of a stream share no byte and no place, and the last is last.
LEMMA FramesApart ==
  ASSUME NEW W, InOrder(W), NEW f \in W, NEW g \in W, f # g
  PROVE  /\ Bytes(f) \cap Bytes(g) = {}
         /\ f.offset # g.offset
         /\ g.fin => EndOf(f) <= g.offset /\ f.offset < g.offset
         /\ f.offset < g.offset => EndOf(f) <= g.offset
         /\ EndOf(f) = EndOf(g) => f.fin # g.fin
  BY DEF InOrder, EndOf, Bytes, Frames

\* Waiting ranges are frames themselves, lie behind the cursor and do not
\* overlap.
LEMMA RemnantsApart ==
  ASSUME NEW W, InOrder(W), NEW c \in Nat, NEW R, Remnants(W, c, R)
  PROVE  /\ R \in SUBSET Frames
         /\ \A i \in R : i.offset >= c /\ EndOf(i) >= c
         /\ \A i, j \in R : i # j => Bytes(i) \cap Bytes(j) = {}
         /\ \A i \in R : Bytes(i) \in SUBSET Nat
         /\ Held(R) \in SUBSET Nat
<1>1. ASSUME NEW i \in R
      PROVE  i \in Frames /\ i.offset >= c /\ EndOf(i) >= c /\ Bytes(i) \in SUBSET Nat
  <2>1. PICK f \in W : c <= EndOf(f) /\ i = After(f, c)
    BY DEF Remnants
  <2>2. f \in Frames
    BY DEF InOrder
  <2>3. i \in Frames /\ i.offset >= c /\ EndOf(i) >= c
    BY <2>1, <2>2, AfterFacts
  <2>4. QED BY <2>3 DEF Bytes, EndOf, Frames
<1>2. ASSUME NEW i \in R, NEW j \in R, i # j
      PROVE  Bytes(i) \cap Bytes(j) = {}
  <2>1. PICK f \in W : c <= EndOf(f) /\ i = After(f, c)
    BY DEF Remnants
  <2>2. PICK g \in W : c <= EndOf(g) /\ j = After(g, c)
    BY DEF Remnants
  <2>3. f # g /\ f \in Frames /\ g \in Frames
    BY <1>2, <2>1, <2>2 DEF InOrder
  <2>4. Bytes(f) \cap Bytes(g) = {}
    BY <2>3, FramesApart
  <2>5. QED BY <2>1, <2>2, <2>3, <2>4, AfterFacts
<1>3. Held(R) \in SUBSET Nat
  BY <1>1 DEF Held
<1>4. QED BY <1>1, <1>2, <1>3

\* The retained ranges reach to the first position behind the cursor that
\* none of them holds.
LEMMA ReachFacts ==
  ASSUME NEW o, o.consumed \in Nat, o.retained \in SUBSET Frames,
         NEW m \in Nat, \A i \in o.retained : EndOf(i) <= m
  PROVE  /\ Reach(o) \in Nat
         /\ Reach(o) >= o.consumed
         /\ Reach(o) \notin Held(o.retained)
         /\ o.consumed .. Reach(o) - 1 \subseteq Held(o.retained)
         /\ o.consumed <= m => Reach(o) <= m
<1> DEFINE c == o.consumed
           H == Held(o.retained)
           S == {x \in Nat : x >= c /\ x \notin H}
           P(x) == x >= c /\ x \notin H /\ c .. x - 1 \subseteq H
           E == {c} \cup {EndOf(i) : i \in o.retained}
<1>1. \A b \in H : b < m
  BY DEF Held, Bytes, EndOf, Frames
<1>2. S # {}
  <2>1. CASE c <= m
    BY <1>1, <2>1
  <2>2. CASE m < c
    <3>1. c \notin H
      BY <1>1, <2>2
    <3>2. QED BY <3>1
  <2>3. QED BY <2>1, <2>2
<1>3. PICK n \in S : \A k \in S : n <= k
  BY <1>2, LeastNumber
<1>4. c .. n - 1 \subseteq H
  <2>1. ASSUME NEW b \in c .. n - 1, b \notin H PROVE FALSE
    <3>1. b \in S
      BY <2>1
    <3>2. QED BY <1>3, <3>1
  <2>2. QED BY <2>1
<1>5. n \in E
  <2>1. CASE n = c
    BY <2>1
  <2>2. CASE n # c
    <3>1. n - 1 \in H
      BY <1>3, <1>4, <2>2
    <3>2. PICK i \in o.retained : n - 1 \in Bytes(i)
      BY <3>1 DEF Held
    <3>3. n \notin Bytes(i)
      BY <1>3 DEF Held
    <3>4. n = EndOf(i)
      BY <3>2, <3>3 DEF Bytes, EndOf, Frames
    <3>5. QED BY <3>4
  <2>3. QED BY <2>1, <2>2
<1>6. P(n)
  BY <1>3, <1>4
<1>7. Reach(o) = CHOOSE x \in E : P(x)
  BY Zenon DEF Reach, Held
<1>8. Reach(o) \in E /\ P(Reach(o))
  <2> HIDE DEF P, E
  <2>1. QED BY <1>5, <1>6, <1>7, Zenon
<1>9. \A x \in E : x \in Nat /\ (c <= m => x <= m)
  BY DEF EndOf, Frames
<1>10. QED BY <1>8, <1>9

\* Bytes are positions of their frame, in order.
LEMMA ByteFacts ==
  ASSUME NEW f \in Frames
  PROVE  /\ EndOf(f) \in Nat /\ f.offset <= EndOf(f)
         /\ \A b \in Bytes(f) : b \in Nat /\ f.offset <= b /\ b < EndOf(f)
         /\ \A b \in Int : f.offset <= b /\ b < EndOf(f) => b \in Bytes(f)
         /\ f.len > 0 <=> f.offset < EndOf(f)
         /\ f.len = 0 <=> f.offset = EndOf(f)
  BY DEF Bytes, EndOf, Frames

\* What the ranges hold is bounded, hence finite.
LEMMA HeldFinite ==
  ASSUME NEW R \in SUBSET Frames, NEW m \in Nat, \A i \in R : EndOf(i) <= m
  PROVE  IsFiniteSet(Held(R)) /\ Held(R) \subseteq 0 .. m
<1>1. Held(R) \subseteq 0 .. m
  BY ByteFacts DEF Held
<1>2. IsFiniteSet(0 .. m)
  BY FS_Interval
<1>3. QED BY <1>1, <1>2, FS_Subset

\* The bytes of a range that was found among the waiting ones are bytes of
\* its frame.
LEMMA HeldByFrame ==
  ASSUME NEW W, InOrder(W), NEW c \in Nat, NEW R, Remnants(W, c, R), NEW b \in Held(R)
  PROVE  \E g \in W : After(g, c) \in R /\ c <= EndOf(g) /\ b \in Bytes(g) /\ b >= c
                      /\ b \in Bytes(After(g, c))
<1>1. PICK i \in R : b \in Bytes(i)
  BY DEF Held
<1>2. PICK g \in W : c <= EndOf(g) /\ i = After(g, c)
  BY DEF Remnants
<1>3. g \in Frames
  BY DEF InOrder
<1>4. QED BY <1>1, <1>2, <1>3, AfterFacts

\* Outcome d of resume_copying, with the cursor at e and the ranges Q after it.
Resumed(c, R, room, o, d, e, Q) ==
  /\ d.took \in Nat /\ d.took <= room /\ d.stored = 0 /\ d.released = d.took
  /\ d.refused = FALSE /\ d.ended \in BOOLEAN
  /\ d.stream = [consumed |-> e, retained |-> Q]
  /\ e = c + d.took
  /\ e <= Reach(o) /\ (e < Reach(o) => d.took = room)
  /\ c .. e - 1 \subseteq Held(R)
  /\ d.ended <=> \E i \in R : i.fin /\ EndOf(i) = e
  /\ Q = {After(i, e) : i \in {i \in R : EndOf(i) > e}}

\* What resume_copying does to a stream: the application is given the bytes
\* from the cursor on, up to a gap, and what it was not given waits on.
LEMMA ResumeFacts ==
  ASSUME NEW W, InOrder(W), NEW c \in Nat, NEW R, Remnants(W, c, R), NEW room \in Nat,
         NEW m \in Nat, \A i \in R : EndOf(i) <= m,
         NEW o, o = [consumed |-> c, retained |-> R],
         NEW d, d = Resume(o, room), NEW e, e = d.stream.consumed, NEW Q, Q = d.stream.retained
  PROVE  Resumed(c, R, room, o, d, e, Q)
<1> DEFINE n == Min({room, Reach(o) - c})
<1>1. R \in SUBSET Frames
  BY RemnantsApart
<1>2. o.consumed = c /\ o.retained = R
  OBVIOUS
<1>3. Reach(o) \in Nat /\ Reach(o) >= c /\ c .. Reach(o) - 1 \subseteq Held(R)
  BY <1>1, <1>2, ReachFacts
<1>4. n \in Nat /\ n <= room /\ n <= Reach(o) - c /\ (n = room \/ n = Reach(o) - c)
  <2>1. \E x \in {room, Reach(o) - c} : \A y \in {room, Reach(o) - c} : x =< y
    BY <1>3
  <2>2. n \in {room, Reach(o) - c} /\ \A y \in {room, Reach(o) - c} : n =< y
    BY <2>1 DEF Min
  <2> HIDE DEF n
  <2>3. QED BY <1>3, <2>2
<1> HIDE DEF n
<1> DEFINE left == {After(i, c + n) : i \in {i \in R : EndOf(i) > c + n}}
           last == \E i \in R : i.fin /\ EndOf(i) = c + n
           next == [consumed |-> c + n, retained |-> left]
<1>5. d = Outcome(next, n, 0, n, last, FALSE)
  BY <1>2 DEF Resume, n
<1>6. /\ d.took = n /\ d.stored = 0 /\ d.released = n /\ d.refused = FALSE
      /\ d.ended = last /\ d.stream = next
  <2> HIDE DEF next, last
  <2>1. QED BY <1>5 DEF Outcome
<1>7. e = c + n /\ Q = {After(i, c + n) : i \in {i \in R : EndOf(i) > c + n}}
  BY <1>6
<1>8. c .. e - 1 \subseteq Held(R)
  BY <1>3, <1>4, <1>7
<1>9. d.stream = [consumed |-> e, retained |-> Q]
  BY <1>6, <1>7
<1>10. d.ended \in BOOLEAN /\ (d.ended <=> \E i \in R : i.fin /\ EndOf(i) = e)
  BY <1>6, <1>7
<1>11. e <= Reach(o) /\ (e < Reach(o) => d.took = room)
  BY <1>3, <1>4, <1>6, <1>7
<1>12. QED BY <1>4, <1>6, <1>7, <1>8, <1>9, <1>10, <1>11 DEF Resumed

\* Ranges R for a cursor at c have become ranges Q for one at e: nothing was
\* dropped that is still wanted, and the bytes in between are gone from them.
Advanced(W, c, R, e, Q) ==
  /\ \A j \in Q : \E g \in W : e < EndOf(g) /\ j = After(g, e) /\ After(g, c) \in R
  /\ \A g \in W : e < EndOf(g) /\ After(g, c) \in R => After(g, e) \in Q

\* What the application was not given waits on.
LEMMA AdvanceKeeps ==
  ASSUME NEW W, InOrder(W), NEW c \in Nat, NEW R, Remnants(W, c, R),
         NEW e \in Nat, c <= e,
         NEW Q, Q = {After(i, e) : i \in {i \in R : EndOf(i) > e}}
  PROVE  Advanced(W, c, R, e, Q)
<1>1. ASSUME NEW j \in Q
      PROVE  \E g \in W : e < EndOf(g) /\ j = After(g, e) /\ After(g, c) \in R
  <2>1. PICK i \in R : EndOf(i) > e /\ j = After(i, e)
    OBVIOUS
  <2>2. PICK g \in W : c <= EndOf(g) /\ i = After(g, c)
    BY DEF Remnants
  <2>3. g \in Frames
    BY DEF InOrder
  <2>4. EndOf(i) = EndOf(g) /\ EndOf(g) \in Nat
    BY <2>2, <2>3, AfterFacts, ByteFacts
  <2>5. After(i, e) = After(g, e)
    BY <2>1, <2>2, <2>3, <2>4, AfterFacts
  <2>6. QED BY <2>1, <2>2, <2>4, <2>5
<1>2. ASSUME NEW g \in W, e < EndOf(g), After(g, c) \in R
      PROVE  After(g, e) \in Q
  <2>1. g \in Frames /\ EndOf(g) \in Nat
    BY ByteFacts DEF InOrder
  <2>2. EndOf(After(g, c)) = EndOf(g) /\ After(After(g, c), e) = After(g, e)
    BY <1>2, <2>1, AfterFacts
  <2>3. QED BY <1>2, <2>2
<1>3. QED BY <1>1, <1>2 DEF Advanced

\* A cursor that moved over held bytes takes exactly these out of the ranges.
LEMMA AdvanceCounts ==
  ASSUME NEW W, InOrder(W), NEW c \in Nat, NEW R, Remnants(W, c, R),
         NEW e \in Nat, c <= e, c .. e - 1 \subseteq Held(R),
         NEW Q, Advanced(W, c, R, e, Q),
         NEW m \in Nat, \A i \in R : EndOf(i) <= m
  PROVE  /\ IsFiniteSet(Held(R)) /\ IsFiniteSet(Held(Q))
         /\ Cardinality(Held(R)) \in Nat /\ Cardinality(Held(Q)) \in Nat
         /\ Cardinality(Held(Q)) = Cardinality(Held(R)) - (e - c)
<1>1. R \in SUBSET Frames /\ Held(R) \in SUBSET Nat
  BY RemnantsApart
<1>2. IsFiniteSet(Held(R))
  BY <1>1, HeldFinite
<1>3. Held(Q) = Held(R) \ (c .. e - 1)
  <2>1. ASSUME NEW b \in Held(Q) PROVE b \in Held(R) /\ b \notin c .. e - 1
    <3>1. PICK j \in Q : b \in Bytes(j)
      BY DEF Held
    <3>2. PICK g \in W : e < EndOf(g) /\ j = After(g, e) /\ After(g, c) \in R
      BY DEF Advanced
    <3>3. g \in Frames /\ EndOf(g) \in Nat
      BY ByteFacts DEF InOrder
    <3>4. b \in Bytes(g) /\ b >= e /\ b \in Nat
      BY <3>1, <3>2, <3>3, AfterFacts, ByteFacts
    <3>5. b \in Bytes(After(g, c))
      BY <3>2, <3>3, <3>4, AfterFacts
    <3>6. QED BY <3>2, <3>4, <3>5 DEF Held
  <2>2. ASSUME NEW b \in Held(R), b \notin c .. e - 1 PROVE b \in Held(Q)
    <3>1. PICK g \in W : After(g, c) \in R /\ c <= EndOf(g) /\ b \in Bytes(g) /\ b >= c
      BY HeldByFrame
    <3>2. g \in Frames /\ b \in Nat /\ b < EndOf(g) /\ EndOf(g) \in Nat
      BY <3>1, ByteFacts DEF InOrder
    <3>3. b >= e
      BY <2>2, <3>1, <3>2
    <3>4. After(g, e) \in Q
      BY <3>1, <3>2, <3>3 DEF Advanced
    <3>5. b \in Bytes(After(g, e))
      BY <3>1, <3>2, <3>3, AfterFacts
    <3>6. QED BY <3>4, <3>5 DEF Held
  <2>3. QED BY <2>1, <2>2
<1>4. IsFiniteSet(c .. e - 1) /\ Cardinality(c .. e - 1) = e - c
  <2>1. PICK k \in Int : k = e - 1
    OBVIOUS
  <2>2. IsFiniteSet(c .. k) /\ Cardinality(c .. k) = IF c > k THEN 0 ELSE k - c + 1
    BY FS_Interval
  <2>3. QED BY <2>1, <2>2
<1>5. (c .. e - 1) \cap Held(R) = c .. e - 1
  OBVIOUS
<1>6. IsFiniteSet(Held(Q)) /\ Cardinality(Held(Q)) = Cardinality(Held(R)) - Cardinality(Held(R) \cap (c .. e - 1))
  BY <1>2, <1>3, FS_Difference
<1>7. Held(R) \cap (c .. e - 1) = c .. e - 1
  BY <1>5
<1>8. QED BY <1>2, <1>4, <1>6, <1>7, FS_CardinalityType

Ends(R, e) == \E i \in R : i.fin /\ EndOf(i) = e

\* Where the cursor e may stand, and when the stream ends there.
EndsRight(W, c, R, e, Q) ==
  /\ c < e => \E g \in W : After(g, c) \in R /\ e <= EndOf(g) /\ c < EndOf(g)
  /\ Ends(R, e) => /\ Q = {}
                   /\ \E g \in W : g.fin /\ EndOf(g) = e /\ After(g, c) \in R
  /\ ~Ends(R, e) =>
       \A g \in W : /\ g.fin /\ c <= EndOf(g)
                    /\ After(g, c) \in R \/ (g.len > 0 /\ c < EndOf(g))
                    => e < EndOf(g)

\* The stream ends exactly when the cursor comes to the end of its last
\* frame; then no range is left.
LEMMA AdvanceEnds ==
  ASSUME NEW W, InOrder(W), NEW c \in Nat, NEW R, Remnants(W, c, R),
         NEW e \in Nat, c <= e, c .. e - 1 \subseteq Held(R),
         NEW Q, Advanced(W, c, R, e, Q)
  PROVE  EndsRight(W, c, R, e, Q)
<1>1. ASSUME c < e PROVE \E g \in W : After(g, c) \in R /\ e <= EndOf(g) /\ c < EndOf(g)
  <2>1. e - 1 \in Held(R)
    BY <1>1
  <2>2. PICK g \in W : After(g, c) \in R /\ c <= EndOf(g) /\ e - 1 \in Bytes(g)
    BY <2>1, HeldByFrame
  <2>3. g \in Frames
    BY DEF InOrder
  <2>4. e <= EndOf(g)
    BY <2>2, <2>3, ByteFacts
  <2>5. EndOf(g) \in Nat
    BY <2>3, ByteFacts
  <2>6. QED BY <1>1, <2>2, <2>4, <2>5
<1>2. ASSUME Ends(R, e)
      PROVE  Q = {} /\ \E g \in W : g.fin /\ EndOf(g) = e /\ After(g, c) \in R
  <2>1. PICK i \in R : i.fin /\ EndOf(i) = e
    BY <1>2 DEF Ends
  <2>2. PICK g \in W : c <= EndOf(g) /\ i = After(g, c)
    BY DEF Remnants
  <2>3. g \in Frames
    BY DEF InOrder
  <2>4. g.fin /\ EndOf(g) = e
    BY <2>1, <2>2, <2>3, AfterFacts
  <2>5. ASSUME NEW j \in Q PROVE FALSE
    <3>1. PICK h \in W : e < EndOf(h)
      BY DEF Advanced
    <3>2. h # g /\ h \in Frames
      BY <2>4, <3>1 DEF InOrder
    <3>3. EndOf(h) <= g.offset
      BY <2>4, <3>2, FramesApart
    <3>4. QED BY <2>3, <2>4, <3>1, <3>2, <3>3, ByteFacts DEF Frames
  <2>6. QED BY <2>2, <2>4, <2>5
<1>3. ASSUME ~Ends(R, e), NEW g \in W, g.fin, c <= EndOf(g),
             After(g, c) \in R \/ (g.len > 0 /\ c < EndOf(g)),
             ~(e < EndOf(g))
      PROVE  FALSE
  <2>1. g \in Frames /\ EndOf(g) \in Nat
    BY ByteFacts DEF InOrder
  <2>2. CASE After(g, c) \in R
    <3>1. After(g, c).fin /\ EndOf(After(g, c)) = EndOf(g)
      BY <1>3, <2>1, AfterFacts
    <3>2. EndOf(g) < e
      BY <1>3, <2>1, <2>2, <3>1 DEF Ends
    <3>3. PICK h \in W : e <= EndOf(h)
      BY <1>1, <1>3, <2>1, <3>2
    <3>4. h \in Frames /\ EndOf(h) \in Nat
      BY ByteFacts DEF InOrder
    <3>5. h # g
      BY <2>1, <3>2, <3>3, <3>4
    <3>6. EndOf(h) <= g.offset
      BY <1>3, <3>5, FramesApart
    <3>7. QED BY <2>1, <3>2, <3>3, <3>4, <3>6, ByteFacts DEF Frames
  <2>3. CASE g.len > 0 /\ c < EndOf(g)
    <3>1. PICK b \in Nat : b = EndOf(g) - 1
      BY <2>1, <2>3
    <3>2. b \in c .. e - 1 /\ b \in Bytes(g)
      <4>1. b \in c .. e - 1
        BY <1>3, <2>1, <2>3, <3>1
      <4>2. g.offset < EndOf(g) /\ g.offset \in Nat
        BY <2>1, <2>3, ByteFacts DEF Frames
      <4>3. g.offset <= b /\ b < EndOf(g)
        BY <2>1, <3>1, <4>2
      <4>4. QED BY <2>1, <4>1, <4>3, ByteFacts
    <3>3. b \in Held(R)
      BY <3>2
    <3>4. PICK h \in W : After(h, c) \in R /\ b \in Bytes(h)
      BY <3>3, HeldByFrame
    <3>5. h = g
      BY <3>2, <3>4, FramesApart
    <3>6. QED BY <2>2, <3>4, <3>5
  <2>4. QED BY <1>3, <2>2, <2>3
<1>4. QED BY <1>1, <1>2, <1>3 DEF EndsRight

-----------------------------------------------------------------------------
(* One delivery.                                                           *)

\* A stream of frames W with its cursor at c and the ranges R behind it.
StreamForm(W, c, R) ==
  /\ InOrder(W) /\ c \in Nat /\ Waiting(W, c, R)
  /\ \E m \in Nat : \A i \in R : EndOf(i) <= m

\* Frame g was waiting or has just come.
Present(c, R, N, g) == g \in N \/ After(g, c) \in R

\* What a delivery that was given the frames N may do: outcome d leaves the
\* cursor at e with the ranges Q.
Delivery(W, c, R, N, d, e, Q) ==
  /\ d.stream = [consumed |-> e, retained |-> Q]
  /\ d.took \in Nat /\ d.stored \in Nat /\ d.released \in Nat
  /\ d.ended \in BOOLEAN /\ d.refused \in BOOLEAN
  /\ e = c + d.took
  /\ \A j \in Q : \E g \in W : e < EndOf(g) /\ j = After(g, e) /\ Present(c, R, N, g)
  /\ d.took > 0 => \E g \in W : Present(c, R, N, g) /\ e <= EndOf(g)
  /\ \A g \in W : e < EndOf(g) /\ After(g, c) \in R => After(g, e) \in Q
  /\ ~d.refused => \A f \in N : e < EndOf(f) => After(f, e) \in Q
  /\ d.refused => \E f \in N : f.len > 0
  /\ d.ended => /\ Q = {} /\ ~d.refused
                /\ \E g \in W : g.fin /\ EndOf(g) = e /\ Present(c, R, N, g)
                /\ d.took > 0 \/ \E f \in N : f.fin
  /\ ~d.ended =>
       \A g \in W : /\ g.fin /\ c <= EndOf(g)
                    /\ \/ After(g, c) \in R
                       \/ g.len > 0 /\ c < EndOf(g)
                       \/ g \in N /\ g.len = 0
                    => e < EndOf(g)
  /\ Cardinality(Held(R)) \in Nat
  /\ Cardinality(Held(Q)) = Cardinality(Held(R)) + d.stored - d.released

Delivers(W, c, R, N, d) == \E e \in Nat : \E Q : Delivery(W, c, R, N, d, e, Q)

\* The waiting ranges of a stream, and how to find a frame among them.
LEMMA FormFacts ==
  ASSUME NEW W, NEW c, NEW R, StreamForm(W, c, R)
  PROVE  /\ InOrder(W) /\ c \in Nat /\ W \in SUBSET Frames /\ R \in SUBSET Frames
         /\ Remnants(W, c, R)
         /\ \A i \in R : EndOf(i) > c
         /\ IsFiniteSet(Held(R)) /\ Cardinality(Held(R)) \in Nat
         /\ \A g \in W : c <= EndOf(g) /\ After(g, c) \in R => c < EndOf(g)
<1>1. InOrder(W) /\ c \in Nat /\ W \in SUBSET Frames
  BY DEF StreamForm, InOrder
<1>2. Remnants(W, c, R)
  <2>1. ASSUME NEW i \in R PROVE \E f \in W : c <= EndOf(f) /\ i = After(f, c)
    <3>1. PICK f \in W : c < EndOf(f) /\ i = After(f, c)
      BY DEF StreamForm, Waiting
    <3>2. f \in Frames
      BY <1>1
    <3>3. QED BY <1>1, <3>1, <3>2, ByteFacts
  <2>2. QED BY <2>1 DEF Remnants
<1>3. R \in SUBSET Frames
  BY <1>1, <1>2, RemnantsApart
<1>4. \A i \in R : EndOf(i) > c
  <2>1. ASSUME NEW i \in R PROVE EndOf(i) > c
    <3>1. PICK f \in W : c < EndOf(f) /\ i = After(f, c)
      BY DEF StreamForm, Waiting
    <3>2. f \in Frames /\ EndOf(f) \in Nat
      BY <1>1, ByteFacts
    <3>3. QED BY <1>1, <3>1, <3>2, AfterFacts
  <2>2. QED BY <2>1
<1>5. PICK m \in Nat : \A i \in R : EndOf(i) <= m
  BY DEF StreamForm
<1>6. IsFiniteSet(Held(R)) /\ Cardinality(Held(R)) \in Nat
  BY <1>3, <1>5, HeldFinite, FS_CardinalityType
<1>7. \A g \in W : c <= EndOf(g) /\ After(g, c) \in R => c < EndOf(g)
  BY <1>1, <1>4, AfterFacts
<1>8. QED BY <1>1, <1>2, <1>3, <1>4, <1>6, <1>7

\* A range with the place and the length of what is left of f is just that.
LEMMA SameRange ==
  ASSUME NEW W, NEW c, NEW R, StreamForm(W, c, R), NEW f \in W, c <= EndOf(f),
         NEW i \in R, i.offset = After(f, c).offset, i.len = After(f, c).len
  PROVE  i = After(f, c) /\ c < EndOf(f)
<1>1. c \in Nat /\ f \in Frames /\ i \in Frames
  BY FormFacts
<1>2. PICK g \in W : c < EndOf(g) /\ i = After(g, c)
  BY DEF StreamForm, Waiting
<1>3. g \in Frames
  BY FormFacts
<1>4. EndOf(g) = EndOf(f)
  <2>1. EndOf(i) = EndOf(After(f, c))
    BY DEF EndOf
  <2>2. EndOf(i) = EndOf(g)
    BY <1>1, <1>2, <1>3, AfterFacts, ByteFacts
  <2>3. QED BY <1>1, <2>1, <2>2, AfterFacts
<1>5. f = g
  <2>1. SUFFICES ASSUME f # g PROVE FALSE
    OBVIOUS
  <2>2. \/ EndOf(f) <= g.offset /\ ~f.fin
        \/ EndOf(g) <= f.offset /\ ~g.fin
    BY <2>1 DEF StreamForm, InOrder
  <2>3. QED BY <1>1, <1>2, <1>3, <1>4, <2>2 DEF After, EndOf, Frames, StreamForm, InOrder
<1>6. QED BY <1>2, <1>5

\* All of resume_copying in terms of the frames of the stream.
ResumedFrames(W, c, R, room, o, d, e, Q) ==
  /\ d.stream = [consumed |-> e, retained |-> Q]
  /\ d.took \in Nat /\ d.stored = 0 /\ d.released = d.took
  /\ d.refused = FALSE /\ d.ended \in BOOLEAN
  /\ e = c + d.took
  /\ d.ended <=> Ends(R, e)
  /\ Advanced(W, c, R, e, Q)
  /\ EndsRight(W, c, R, e, Q)
  /\ IsFiniteSet(Held(R)) /\ Cardinality(Held(R)) \in Nat
  /\ Cardinality(Held(Q)) = Cardinality(Held(R)) - d.took

\* The frames whose ranges were kept are kept, and the ends agree.
LEMMA ResumeSummary ==
  ASSUME NEW W, InOrder(W), NEW c \in Nat, NEW R, Remnants(W, c, R), NEW room \in Nat,
         \E m \in Nat : \A i \in R : EndOf(i) <= m,
         NEW o, o = [consumed |-> c, retained |-> R],
         NEW d, d = Resume(o, room)
  PROVE  \E e \in Nat : \E Q : ResumedFrames(W, c, R, room, o, d, e, Q)
<1>1. PICK m \in Nat : \A i \in R : EndOf(i) <= m
  OBVIOUS
<1>2. PICK e, Q : e = d.stream.consumed /\ Q = d.stream.retained
  OBVIOUS
<1>3. Resumed(c, R, room, o, d, e, Q)
  BY <1>1, <1>2, ResumeFacts
<1>4. e \in Nat /\ c <= e /\ e - c = d.took
  BY <1>3 DEF Resumed
<1>5. Advanced(W, c, R, e, Q)
  <2>1. Q = {After(i, e) : i \in {i \in R : EndOf(i) > e}}
    BY <1>3 DEF Resumed
  <2>2. QED BY <1>4, <2>1, AdvanceKeeps
<1>6. c .. e - 1 \subseteq Held(R)
  BY <1>3 DEF Resumed
<1>7. /\ IsFiniteSet(Held(R)) /\ Cardinality(Held(R)) \in Nat
      /\ Cardinality(Held(Q)) = Cardinality(Held(R)) - d.took
  BY <1>1, <1>4, <1>5, <1>6, AdvanceCounts
<1>8. EndsRight(W, c, R, e, Q)
  BY <1>4, <1>5, <1>6, AdvanceEnds
<1>9. d.ended <=> Ends(R, e)
  BY <1>3 DEF Ends, Resumed
<1>10. ResumedFrames(W, c, R, room, o, d, e, Q)
  BY <1>3, <1>5, <1>7, <1>8, <1>9 DEF ResumedFrames, Resumed
<1>11. QED BY <1>4, <1>10

\* Frame f lies before the cursor or what is left of it waits.
NothingNew(c, R, f) ==
  \/ EndOf(f) <= c /\ ~(f.len = 0 /\ f.fin /\ f.offset = c)
  \/ After(f, c) \in R /\ c < EndOf(f)

\* The application resumes, or a frame comes of which nothing is new.
LEMMA ResumeDelivers ==
  ASSUME NEW W, NEW c, NEW R, StreamForm(W, c, R), NEW room \in Nat,
         NEW o, o = [consumed |-> c, retained |-> R],
         NEW d, d = Resume(o, room),
         NEW N \in SUBSET W,
         \A f \in N : NothingNew(c, R, f)
  PROVE  Delivers(W, c, R, N, d)
<1>1. /\ InOrder(W) /\ c \in Nat /\ W \in SUBSET Frames /\ R \in SUBSET Frames
      /\ Remnants(W, c, R) /\ \A i \in R : EndOf(i) > c
      /\ \A g \in W : c <= EndOf(g) /\ After(g, c) \in R => c < EndOf(g)
  BY FormFacts
<1>2. \E m \in Nat : \A i \in R : EndOf(i) <= m
  BY DEF StreamForm
<1>3. PICK e \in Nat : \E Q : ResumedFrames(W, c, R, room, o, d, e, Q)
  BY <1>1, <1>2, ResumeSummary
<1>4. PICK Q : ResumedFrames(W, c, R, room, o, d, e, Q)
  BY <1>3
<1>5. /\ d.stream = [consumed |-> e, retained |-> Q]
      /\ d.took \in Nat /\ d.stored = 0 /\ d.released = d.took
      /\ d.refused = FALSE /\ d.ended \in BOOLEAN
      /\ e = c + d.took
      /\ d.ended <=> Ends(R, e)
      /\ Cardinality(Held(R)) \in Nat
      /\ Cardinality(Held(Q)) = Cardinality(Held(R)) - d.took
  BY <1>4 DEF ResumedFrames
<1>6. Advanced(W, c, R, e, Q) /\ EndsRight(W, c, R, e, Q)
  BY <1>4 DEF ResumedFrames
<1>7. \A g \in W : EndOf(g) \in Nat /\ g.offset \in Nat /\ g.len \in Nat
  BY <1>1, ByteFacts DEF Frames
<1>8. \A j \in Q : \E g \in W : e < EndOf(g) /\ j = After(g, e) /\ Present(c, R, N, g)
  BY <1>6 DEF Advanced, Present
<1>9. d.took > 0 => \E g \in W : Present(c, R, N, g) /\ e <= EndOf(g)
  BY <1>1, <1>5, <1>6 DEF EndsRight, Present
<1>10. \A g \in W : e < EndOf(g) /\ After(g, c) \in R => After(g, e) \in Q
  BY <1>6 DEF Advanced
<1>11. \A f \in N : e < EndOf(f) => After(f, e) \in Q
  BY <1>1, <1>5, <1>7, <1>10 DEF NothingNew
<1>12. ASSUME d.ended
       PROVE  /\ Q = {}
              /\ \E g \in W : g.fin /\ EndOf(g) = e /\ Present(c, R, N, g)
              /\ d.took > 0
  <2>1. Ends(R, e)
    BY <1>5, <1>12
  <2>2. PICK i \in R : EndOf(i) = e
    BY <2>1 DEF Ends
  <2>3. d.took > 0
    BY <1>1, <1>5, <2>2
  <2>4. QED BY <1>6, <2>1, <2>3 DEF EndsRight, Present
<1>13. ASSUME ~d.ended, NEW g \in W, g.fin, c <= EndOf(g),
              \/ After(g, c) \in R
              \/ g.len > 0 /\ c < EndOf(g)
              \/ g \in N /\ g.len = 0
       PROVE  e < EndOf(g)
  <2>1. ~Ends(R, e)
    BY <1>5, <1>13
  <2>2. CASE After(g, c) \in R \/ (g.len > 0 /\ c < EndOf(g))
    BY <1>6, <1>13, <2>1, <2>2 DEF EndsRight
  <2>3. CASE g \in N /\ g.len = 0
    <3>1. EndOf(g) = g.offset
      BY <1>1, <2>3, ByteFacts
    <3>2. After(g, c) \in R
      BY <1>1, <1>7, <1>13, <2>3, <3>1 DEF NothingNew
    <3>3. QED BY <2>2, <3>2
  <2>4. QED BY <1>13, <2>2, <2>3
<1>14. Delivery(W, c, R, N, d, e, Q)
  <2>1. d.stored \in Nat /\ d.released \in Nat /\ ~d.refused
    BY <1>5
  <2>2. Cardinality(Held(Q)) = Cardinality(Held(R)) + d.stored - d.released
    BY <1>5
  <2>3. QED BY <1>5, <1>8, <1>9, <1>10, <1>11, <1>12, <1>13, <2>1, <2>2 DEF Delivery
<1>15. QED BY <1>14 DEF Delivers

\* There was no capacity and the application was given nothing.
LEMMA RefusedDelivers ==
  ASSUME NEW W, NEW c, NEW R, StreamForm(W, c, R),
         NEW o, o = [consumed |-> c, retained |-> R],
         NEW f \in W, f.len > 0,
         NEW d, d = Refused(o, 0)
  PROVE  Delivery(W, c, R, {f}, d, c, R) /\ d.stored = 0
<1>1. /\ InOrder(W) /\ c \in Nat /\ W \in SUBSET Frames /\ R \in SUBSET Frames
      /\ Remnants(W, c, R) /\ Cardinality(Held(R)) \in Nat
      /\ \A g \in W : c <= EndOf(g) /\ After(g, c) \in R => c < EndOf(g)
  BY FormFacts
<1>2. /\ d.stream = [consumed |-> c, retained |-> R] /\ d.took = 0 /\ d.stored = 0
      /\ d.released = 0 /\ d.ended = FALSE /\ d.refused = TRUE
  BY DEF Refused, Outcome
<1>3. \A j \in R : \E g \in W : c < EndOf(g) /\ j = After(g, c) /\ Present(c, R, {f}, g)
  BY DEF StreamForm, Waiting, Present
<1>4. \A g \in W : EndOf(g) \in Nat /\ g.len \in Nat
  BY <1>1, ByteFacts DEF Frames
<1>5. ASSUME NEW g \in W, g.fin, c <= EndOf(g),
              \/ After(g, c) \in R
              \/ g.len > 0 /\ c < EndOf(g)
              \/ g \in {f} /\ g.len = 0
      PROVE  c < EndOf(g)
  BY <1>1, <1>4, <1>5
<1>6. Cardinality(Held(R)) = Cardinality(Held(R)) + d.stored - d.released
  BY <1>1, <1>2
<1>7. /\ d.took \in Nat /\ ~(d.took > 0) /\ d.stored \in Nat /\ d.released \in Nat
      /\ ~d.ended /\ d.refused /\ d.ended \in BOOLEAN /\ d.refused \in BOOLEAN
      /\ c = c + d.took
  <2>1. c \in Nat
    BY <1>1
  <2>2. d.took = 0 /\ d.stored = 0 /\ d.released = 0
    BY <1>2
  <2>3. /\ d.took \in Nat /\ ~(d.took > 0) /\ d.stored \in Nat /\ d.released \in Nat
        /\ c = c + d.took
    BY <2>1, <2>2
  <2>4. ~d.ended /\ d.refused /\ d.ended \in BOOLEAN /\ d.refused \in BOOLEAN
    BY <1>2, Zenon
  <2>5. QED BY <2>3, <2>4
<1>8. \E g \in {f} : g.len > 0
  OBVIOUS
<1>9. d.stream = [consumed |-> c, retained |-> R] /\ d.stored = 0 /\ Cardinality(Held(R)) \in Nat
  BY <1>1, <1>2
<1>10. QED BY <1>3, <1>5, <1>6, <1>7, <1>8, <1>9 DEF Delivery

\* Bytes of a range that overlaps none of R are added to what R holds.
LEMMA HeldGrows ==
  ASSUME NEW R, IsFiniteSet(Held(R)), NEW i \in Frames, \A j \in R : Bytes(i) \cap Bytes(j) = {}
  PROVE  /\ IsFiniteSet(Held(R \cup {i}))
         /\ Cardinality(Held(R \cup {i})) = Cardinality(Held(R)) + i.len
<1>1. Held(R \cup {i}) = Held(R) \cup Bytes(i) /\ Held(R) \cap Bytes(i) = {}
  BY DEF Held
<1>2. IsFiniteSet(Bytes(i)) /\ Cardinality(Bytes(i)) = i.len
  <2>1. PICK a \in Nat, n \in Nat : a = i.offset /\ n = i.len
    BY DEF Frames
  <2>2. PICK b \in Int : b = a + n - 1
    OBVIOUS
  <2>3. IsFiniteSet(a .. b) /\ Cardinality(a .. b) = IF a > b THEN 0 ELSE b - a + 1
    BY FS_Interval
  <2>4. Bytes(i) = a .. b
    BY <2>1, <2>2 DEF Bytes, EndOf
  <2>5. Cardinality(a .. b) = n
    BY <2>2, <2>3
  <2>6. QED BY <2>1, <2>3, <2>4, <2>5
<1>3. Cardinality(Held(R) \cup Bytes(i))
        = Cardinality(Held(R)) + Cardinality(Bytes(i)) - Cardinality(Held(R) \cap Bytes(i))
  BY <1>2, FS_Union
<1>4. IsFiniteSet(Held(R) \cup Bytes(i))
  BY <1>2, FS_Union
<1>5. Cardinality(Held(R) \cap Bytes(i)) = 0
  BY <1>1, FS_EmptySet
<1>6. Cardinality(Held(R)) \in Nat /\ i.len \in Nat
  BY FS_CardinalityType DEF Frames
<1>7. Cardinality(Held(R) \cup Bytes(i)) = Cardinality(Held(R)) + i.len
  BY <1>2, <1>3, <1>5, <1>6
<1>8. QED BY <1>1, <1>4, <1>7

\* A new range is put behind the gap, and the application goes on.
LEMMA RetainDelivers ==
  ASSUME NEW W, NEW c, NEW R, StreamForm(W, c, R), NEW room \in Nat,
         NEW f \in W, c <= EndOf(f), After(f, c) \notin R,
         NEW o, o = [consumed |-> c, retained |-> R \cup {After(f, c)}],
         NEW d, d = [Resume(o, room) EXCEPT !.stored = After(f, c).len]
  PROVE  Delivers(W, c, R, {f}, d)
<1> DEFINE new == After(f, c)
           G == R \cup {new}
           r == Resume(o, room)
<1>1. /\ InOrder(W) /\ c \in Nat /\ W \in SUBSET Frames /\ R \in SUBSET Frames
      /\ Remnants(W, c, R) /\ \A i \in R : EndOf(i) > c
      /\ IsFiniteSet(Held(R)) /\ Cardinality(Held(R)) \in Nat
      /\ \A g \in W : c <= EndOf(g) /\ After(g, c) \in R => c < EndOf(g)
  BY FormFacts
<1>2. \A g \in W : EndOf(g) \in Nat /\ g.offset \in Nat /\ g.len \in Nat
  BY <1>1, ByteFacts DEF Frames
<1>3. new \in Frames /\ new.fin = f.fin /\ EndOf(new) = EndOf(f)
  BY <1>1, AfterFacts
<1>4. Remnants(W, c, G)
  BY <1>1 DEF Remnants
<1>5. \E m \in Nat : \A i \in G : EndOf(i) <= m
  <2>1. PICK m \in Nat : \A i \in R : EndOf(i) <= m
    BY DEF StreamForm
  <2>2. EndOf(f) \in Nat
    BY <1>2
  <2>3. m + EndOf(f) \in Nat /\ \A i \in G : EndOf(i) <= m + EndOf(f)
    <3>1. \A i \in R : EndOf(i) \in Nat
      BY <1>1, ByteFacts
    <3>2. QED BY <1>3, <2>1, <2>2, <3>1
  <2>4. QED BY <2>3
<1>6. PICK e \in Nat : \E Q : ResumedFrames(W, c, G, room, o, r, e, Q)
  BY <1>1, <1>4, <1>5, ResumeSummary
<1>7. PICK Q : ResumedFrames(W, c, G, room, o, r, e, Q)
  BY <1>6
<1>8. /\ r.stream = [consumed |-> e, retained |-> Q]
      /\ r.took \in Nat /\ r.stored = 0 /\ r.released = r.took
      /\ r.refused = FALSE /\ r.ended \in BOOLEAN
      /\ e = c + r.took
      /\ r.ended <=> Ends(G, e)
      /\ Cardinality(Held(Q)) = Cardinality(Held(G)) - r.took
  BY <1>7 DEF ResumedFrames
<1>9. Advanced(W, c, G, e, Q) /\ EndsRight(W, c, G, e, Q)
  BY <1>7 DEF ResumedFrames
<1>10. /\ d.stream = [consumed |-> e, retained |-> Q]
       /\ d.took = r.took /\ d.released = r.took /\ d.refused = FALSE /\ d.ended = r.ended
       /\ d.stored = new.len
  <2>1. DOMAIN r = {"stream", "took", "stored", "released", "ended", "refused"}
    BY DEF Resume, Outcome
  <2> HIDE DEF r, new
  <2>2. d = [r EXCEPT !.stored = new.len]
    BY DEF r, new
  <2>3. QED BY <1>8, <2>1, <2>2
<1>11. \A g \in W : After(g, c) \in G /\ c <= EndOf(g) => Present(c, R, {f}, g)
  <2>1. ASSUME NEW g \in W, After(g, c) = new, c <= EndOf(g) PROVE g = f \/ After(g, c) \in R
    <3>1. SUFFICES ASSUME g # f PROVE FALSE
      OBVIOUS
    <3>2. \/ EndOf(f) <= g.offset /\ ~f.fin
          \/ EndOf(g) <= f.offset /\ ~g.fin
      BY <1>1, <3>1 DEF InOrder
    <3>3. f \in Frames /\ g \in Frames /\ (f.len > 0 \/ f.fin) /\ (g.len > 0 \/ g.fin)
      BY <1>1 DEF InOrder
    <3>4. QED BY <1>1, <2>1, <3>2, <3>3 DEF After, EndOf, Frames
  <2>2. QED BY <2>1 DEF Present
<1>12. \A j \in Q : \E g \in W : e < EndOf(g) /\ j = After(g, e) /\ Present(c, R, {f}, g)
  <2>1. ASSUME NEW j \in Q
        PROVE  \E g \in W : e < EndOf(g) /\ j = After(g, e) /\ Present(c, R, {f}, g)
    <3>1. PICK g \in W : e < EndOf(g) /\ j = After(g, e) /\ After(g, c) \in G
      BY <1>9 DEF Advanced
    <3>2. c <= EndOf(g)
      BY <1>1, <1>2, <1>8, <3>1
    <3>3. QED BY <1>11, <3>1, <3>2
  <2>2. QED BY <2>1
<1>13. d.took > 0 => \E g \in W : Present(c, R, {f}, g) /\ e <= EndOf(g)
  <2>1. SUFFICES ASSUME d.took > 0 PROVE \E g \in W : Present(c, R, {f}, g) /\ e <= EndOf(g)
    OBVIOUS
  <2>2. c < e
    BY <1>1, <1>8, <1>10, <2>1
  <2>3. PICK g \in W : After(g, c) \in G /\ e <= EndOf(g) /\ c < EndOf(g)
    BY <1>9, <2>2 DEF EndsRight
  <2>4. c <= EndOf(g)
    BY <1>1, <1>2, <2>3
  <2>5. QED BY <1>11, <2>3, <2>4
<1>14. \A g \in W : e < EndOf(g) /\ After(g, c) \in G => After(g, e) \in Q
  BY <1>9 DEF Advanced
<1>15. ASSUME d.ended
       PROVE  /\ Q = {}
              /\ \E g \in W : g.fin /\ EndOf(g) = e /\ Present(c, R, {f}, g)
              /\ d.took > 0 \/ f.fin
  <2>1. Ends(G, e)
    BY <1>8, <1>10, <1>15
  <2>2. PICK i \in G : EndOf(i) = e /\ i.fin
    BY <2>1 DEF Ends
  <2>3. d.took > 0 \/ f.fin
    <3>1. CASE i = new
      BY <1>3, <2>2, <3>1
    <3>2. CASE i \in R
      BY <1>1, <1>8, <1>10, <2>2, <3>2
    <3>3. QED BY <3>1, <3>2
  <2>4. PICK g \in W : g.fin /\ EndOf(g) = e /\ After(g, c) \in G
    BY <1>9, <2>1 DEF EndsRight
  <2>5. c <= EndOf(g)
    BY <1>1, <1>8, <2>4
  <2>6. QED BY <1>9, <1>11, <2>1, <2>3, <2>4, <2>5 DEF EndsRight
<1>16. ASSUME ~d.ended, NEW g \in W, g.fin, c <= EndOf(g),
              \/ After(g, c) \in R
              \/ g.len > 0 /\ c < EndOf(g)
              \/ g \in {f} /\ g.len = 0
       PROVE  e < EndOf(g)
  <2>1. ~Ends(G, e)
    BY <1>8, <1>10, <1>16
  <2>2. After(g, c) \in G \/ (g.len > 0 /\ c < EndOf(g))
    BY <1>16
  <2>3. QED BY <1>9, <1>16, <2>1, <2>2 DEF EndsRight
<1>17. Cardinality(Held(Q)) = Cardinality(Held(R)) + d.stored - d.released
  <2>1. \A j \in R : Bytes(new) \cap Bytes(j) = {}
    <3>1. \A i, j \in G : i # j => Bytes(i) \cap Bytes(j) = {}
      BY <1>1, <1>4, RemnantsApart
    <3>2. QED BY <3>1
  <2>2. Cardinality(Held(G)) = Cardinality(Held(R)) + new.len
    BY <1>1, <1>3, <2>1, HeldGrows
  <2>3. new.len \in Nat
    BY <1>3 DEF Frames
  <2>4. QED BY <1>1, <1>8, <1>10, <2>2, <2>3
<1>18. Delivery(W, c, R, {f}, d, e, Q)
  <2>1. d.stored \in Nat /\ d.released \in Nat /\ ~d.refused /\ d.took \in Nat
        /\ d.ended \in BOOLEAN /\ d.refused \in BOOLEAN
    BY <1>3, <1>8, <1>10 DEF Frames
  <2>2. e = c + d.took /\ d.stream = [consumed |-> e, retained |-> Q]
    BY <1>8, <1>10
  <2>3. \A g \in W : e < EndOf(g) /\ After(g, c) \in R => After(g, e) \in Q
    BY <1>14
  <2>4. \A g \in {f} : e < EndOf(g) => After(g, e) \in Q
    BY <1>14
  <2> HIDE DEF new, G, r
  <2>5. QED BY <1>1, <1>12, <1>13, <1>15, <1>16, <1>17, <2>1, <2>2, <2>3, <2>4 DEF Delivery
<1>19. QED BY <1>18 DEF Delivers

\* A frame f at the cursor, where no range waits: the ranges are whole frames
\* behind it, and f is not the last.
LEMMA Behind ==
  ASSUME NEW W, NEW c, NEW R, StreamForm(W, c, R), NEW f \in W, f.offset = c,
         \A i \in R : i.offset # c
  PROVE  /\ \A i \in R : i \in W /\ i # f /\ EndOf(f) <= i.offset /\ ~f.fin
         /\ \A x \in Nat : \A g \in W :
              c <= x /\ x <= EndOf(f) /\ x <= EndOf(g) => (After(g, x) \in R <=> g \in R)
         /\ f \notin R
<1>1. c \in Nat /\ W \in SUBSET Frames /\ R \in SUBSET Frames /\ InOrder(W)
  BY FormFacts
<1>2. ASSUME NEW i \in R
      PROVE  i \in W /\ i # f /\ EndOf(f) <= i.offset /\ ~f.fin
  <2>1. PICK g \in W : c < EndOf(g) /\ i = After(g, c)
    BY DEF StreamForm, Waiting
  <2>2. g # f
    BY <1>1, <2>1 DEF After
  <2>3. EndOf(f) <= g.offset /\ ~f.fin
    <3>1. \/ EndOf(f) <= g.offset /\ ~f.fin
          \/ EndOf(g) <= f.offset /\ ~g.fin
      BY <1>1, <2>2 DEF InOrder
    <3>2. g \in Frames /\ EndOf(g) \in Nat
      BY <1>1, ByteFacts
    <3>3. QED BY <1>1, <2>1, <3>1, <3>2
  <2>4. f \in Frames /\ g \in Frames /\ EndOf(f) \in Nat /\ c <= EndOf(f)
    BY <1>1, ByteFacts
  <2>5. c <= g.offset
    BY <1>1, <2>3, <2>4 DEF Frames
  <2>6. i = g
    BY <2>1, <2>5 DEF After
  <2>7. QED BY <2>2, <2>3, <2>6
<1>3. ASSUME NEW x \in Nat, NEW g \in W, c <= x, x <= EndOf(f), x <= EndOf(g), g \in R
      PROVE  After(g, x) \in R
  <2>1. EndOf(f) <= g.offset
    BY <1>2, <1>3
  <2>2. EndOf(f) \in Nat /\ g.offset \in Nat
    BY <1>1, ByteFacts DEF Frames
  <2>3. x <= g.offset
    BY <1>3, <2>1, <2>2
  <2>4. QED BY <1>3, <2>3 DEF After
<1>4. ASSUME NEW x \in Nat, NEW g \in W, c <= x, x <= EndOf(f), x <= EndOf(g), After(g, x) \in R
      PROVE  g \in R
  <2>1. PICK h \in R : h = After(g, x)
    BY <1>4
  <2>2. h \in W /\ EndOf(f) <= h.offset /\ ~f.fin
    BY <1>2
  <2>3. f \in Frames /\ g \in Frames /\ h \in Frames /\ EndOf(f) \in Nat
    BY <1>1, ByteFacts
  <2>4. CASE x <= g.offset
    BY <2>1, <2>4 DEF After
  <2>5. CASE g.offset < x
    <3>1. h.offset = x /\ EndOf(h) = EndOf(g) /\ h.fin = g.fin /\ x = EndOf(f)
      BY <1>4, <2>1, <2>2, <2>3, <2>5, AfterFacts DEF Frames
    <3>2. h.len > 0 \/ h.fin
      BY <1>1, <2>2 DEF InOrder
    <3>3. CASE g = f
      BY <2>2, <2>3, <3>1, <3>2, <3>3 DEF EndOf, Frames
    <3>4. CASE g # f
      <4>1. EndOf(f) <= g.offset \/ EndOf(g) <= f.offset
        BY <1>1, <3>4 DEF InOrder
      <4>2. f.len > 0
        BY <1>1, <2>2 DEF InOrder
      <4>3. QED BY <1>4, <2>3, <2>5, <3>1, <4>1, <4>2 DEF EndOf, Frames
    <3>5. QED BY <3>3, <3>4
  <2>6. QED BY <2>3, <2>4, <2>5 DEF Frames
<1>5. f \notin R
  BY <1>2
<1>6. QED BY <1>2, <1>3, <1>4, <1>5

\* The application took a whole frame and nothing waited behind it.
LEMMA WholeLastDelivers ==
  ASSUME NEW W, NEW c, NEW R, StreamForm(W, c, R), NEW f \in W, f.offset = c, R = {},
         NEW d, d.stream = [consumed |-> EndOf(f), retained |-> R], d.took = f.len,
         d.stored = 0, d.released = 0, d.ended = f.fin, d.refused = FALSE
  PROVE  Delivery(W, c, R, {f}, d, EndOf(f), R) /\ d.stored = 0
<1> DEFINE e == EndOf(f)
<1>1. c \in Nat /\ W \in SUBSET Frames /\ InOrder(W) /\ Cardinality(Held(R)) \in Nat
  BY FormFacts
<1>2. R = {}
  OBVIOUS
<1>3. /\ d.stream = [consumed |-> e, retained |-> R] /\ d.took = f.len /\ d.stored = 0
      /\ d.released = 0 /\ d.ended = f.fin /\ d.refused = FALSE
  OBVIOUS
<1>4. f \in Frames /\ f.len \in Nat /\ f.fin \in BOOLEAN /\ e \in Nat /\ e = c + f.len
  BY <1>1 DEF Frames, EndOf
<1>5. Present(c, R, {f}, f)
  BY DEF Present
<1>6. ASSUME ~d.ended, NEW g \in W, g.fin, c <= EndOf(g),
              \/ After(g, c) \in R
              \/ g.len > 0 /\ c < EndOf(g)
              \/ g \in {f} /\ g.len = 0
      PROVE  e < EndOf(g)
  <2>1. ~f.fin /\ g # f /\ g.len > 0
    BY <1>2, <1>3, <1>6
  <2>2. EndOf(f) <= g.offset
    BY <1>1, <1>6, <2>1, FramesApart
  <2>3. g \in Frames
    BY <1>1
  <2>4. QED BY <1>4, <2>1, <2>2, <2>3 DEF EndOf, Frames
<1>7. Cardinality(Held(R)) = Cardinality(Held(R)) + d.stored - d.released
  <2>1. d.stored = 0 /\ d.released = 0
    BY <1>3
  <2>2. Cardinality(Held(R)) \in Nat
    BY <1>1
  <2>3. QED BY <2>1, <2>2
<1>8. \A g \in {f} : e < EndOf(g) => After(g, e) \in R
  BY <1>4
<1>9. /\ d.took \in Nat /\ d.stored \in Nat /\ d.released \in Nat /\ e = c + d.took
  <2>1. d.took = f.len /\ d.stored = 0 /\ d.released = 0
    BY <1>3
  <2>2. QED BY <1>4, <2>1
<1>10. d.ended \in BOOLEAN /\ d.refused \in BOOLEAN /\ ~d.refused
  BY <1>3, <1>4, Zenon
<1>11. d.took > 0 => \E g \in W : Present(c, R, {f}, g) /\ e <= EndOf(g)
  BY <1>4, <1>5
<1>12. d.ended => \E g \in W : g.fin /\ EndOf(g) = e /\ Present(c, R, {f}, g)
  BY <1>3, <1>5
<1>13. d.ended => \E g \in {f} : g.fin
  BY <1>3
<1>14. \A g \in W : e < EndOf(g) /\ After(g, c) \in R => After(g, e) \in R
  BY <1>2
<1>15. \A j \in R : \E g \in W : e < EndOf(g) /\ j = After(g, e) /\ Present(c, R, {f}, g)
  BY <1>2
<1>16. Delivery(W, c, R, {f}, d, e, R)
  <2> HIDE DEF e
  <2>1. QED BY <1>1, <1>2, <1>3, <1>6, <1>7, <1>8, <1>9, <1>10, <1>11, <1>12, <1>13, <1>14, <1>15
           DEF Delivery
<1>17. QED BY <1>3, <1>16

\* The application took a whole frame that closes the gap before others, and
\* goes on with these.
LEMMA WholeMoreDelivers ==
  ASSUME NEW W, NEW c, NEW R, StreamForm(W, c, R), NEW f \in W, f.offset = c,
         \A i \in R : i.offset # c, ~f.fin, NEW k \in Nat,
         NEW o, o = [consumed |-> EndOf(f), retained |-> R],
         NEW r, r = Resume(o, k),
         NEW d, d.stream = r.stream, d.took = r.took + f.len, d.stored = r.stored,
         d.released = r.released, d.ended = r.ended, d.refused = r.refused
  PROVE  Delivers(W, c, R, {f}, d)
<1> DEFINE x == EndOf(f)
<1>1. /\ InOrder(W) /\ c \in Nat /\ W \in SUBSET Frames /\ R \in SUBSET Frames
      /\ Cardinality(Held(R)) \in Nat
      /\ \A g \in W : c <= EndOf(g) /\ After(g, c) \in R => c < EndOf(g)
  BY FormFacts
<1>2. \A g \in W : EndOf(g) \in Nat /\ g.offset \in Nat /\ g.len \in Nat /\ EndOf(g) = g.offset + g.len
  BY <1>1 DEF Frames, EndOf
<1>3. x \in Nat /\ c <= x /\ x = c + f.len /\ f.len \in Nat
  BY <1>1, <1>2
<1>4. /\ \A i \in R : i \in W /\ i # f /\ EndOf(f) <= i.offset
      /\ \A y \in Nat : \A g \in W :
           c <= y /\ y <= EndOf(f) /\ y <= EndOf(g) => (After(g, y) \in R <=> g \in R)
      /\ f \notin R
  BY Behind
<1>5. \A g \in W : x <= EndOf(g) => (After(g, x) \in R <=> After(g, c) \in R)
  BY <1>1, <1>2, <1>3, <1>4
<1>6. Remnants(W, x, R)
  <2>1. ASSUME NEW i \in R PROVE \E g \in W : x <= EndOf(g) /\ i = After(g, x)
    <3>1. i \in W /\ x <= i.offset
      BY <1>4
    <3>2. x <= EndOf(i) /\ i = After(i, x)
      BY <1>2, <1>3, <3>1 DEF After
    <3>3. QED BY <3>1, <3>2
  <2>2. QED BY <2>1 DEF Remnants
<1>7. \E m \in Nat : \A i \in R : EndOf(i) <= m
  BY DEF StreamForm
<1>8. PICK e \in Nat : \E Q : ResumedFrames(W, x, R, k, o, r, e, Q)
  BY <1>1, <1>3, <1>6, <1>7, ResumeSummary
<1>9. PICK Q : ResumedFrames(W, x, R, k, o, r, e, Q)
  BY <1>8
<1>10. /\ r.stream = [consumed |-> e, retained |-> Q]
       /\ r.took \in Nat /\ r.stored = 0 /\ r.released = r.took
       /\ r.refused = FALSE /\ r.ended \in BOOLEAN
       /\ e = x + r.took
       /\ r.ended <=> Ends(R, e)
       /\ Cardinality(Held(Q)) = Cardinality(Held(R)) - r.took
  BY <1>9 DEF ResumedFrames
<1>11. Advanced(W, x, R, e, Q) /\ EndsRight(W, x, R, e, Q)
  BY <1>9 DEF ResumedFrames
<1>12. /\ d.stream = [consumed |-> e, retained |-> Q]
       /\ d.took = r.took + f.len /\ d.released = r.took /\ d.refused = FALSE
       /\ d.ended = r.ended /\ d.stored = 0
  BY <1>10
<1> HIDE DEF x
<1>13. d.took \in Nat /\ e = c + d.took /\ d.released \in Nat /\ d.stored \in Nat
  BY <1>1, <1>3, <1>10, <1>12
<1>14. \A j \in Q : \E g \in W : e < EndOf(g) /\ j = After(g, e) /\ Present(c, R, {f}, g)
  <2>1. ASSUME NEW j \in Q
        PROVE  \E g \in W : e < EndOf(g) /\ j = After(g, e) /\ Present(c, R, {f}, g)
    <3>1. PICK g \in W : e < EndOf(g) /\ j = After(g, e) /\ After(g, x) \in R
      BY <1>11 DEF Advanced
    <3>2. x <= EndOf(g)
      BY <1>2, <1>3, <1>10, <3>1
    <3>3. QED BY <1>5, <3>1, <3>2 DEF Present
  <2>2. QED BY <2>1
<1>15. \E g \in W : Present(c, R, {f}, g) /\ e <= EndOf(g)
  <2>1. CASE x < e
    <3>1. PICK g \in W : After(g, x) \in R /\ e <= EndOf(g) /\ x < EndOf(g)
      BY <1>11, <2>1 DEF EndsRight
    <3>2. x <= EndOf(g)
      BY <1>2, <1>3, <3>1
    <3>3. QED BY <1>5, <3>1, <3>2 DEF Present
  <2>2. CASE ~(x < e)
    <3>1. e <= EndOf(f)
      BY <1>3, <2>2 DEF x
    <3>2. QED BY <3>1 DEF Present
  <2>3. QED BY <2>1, <2>2
<1>16. ASSUME NEW g \in W, e < EndOf(g), After(g, c) \in R
       PROVE  After(g, e) \in Q
  <2>1. x <= EndOf(g)
    BY <1>2, <1>3, <1>10, <1>16
  <2>2. After(g, x) \in R
    BY <1>5, <1>16, <2>1
  <2>3. QED BY <1>11, <1>16, <2>2 DEF Advanced
<1>17. \A g \in {f} : e < EndOf(g) => After(g, e) \in Q
  BY <1>3, <1>10 DEF x
<1>18. ASSUME d.ended
       PROVE  /\ Q = {}
              /\ \E g \in W : g.fin /\ EndOf(g) = e /\ Present(c, R, {f}, g)
              /\ d.took > 0
  <2>1. Ends(R, e)
    BY <1>10, <1>12, <1>18
  <2>2. PICK g \in W : g.fin /\ EndOf(g) = e /\ After(g, x) \in R
    BY <1>11, <2>1 DEF EndsRight
  <2>3. x <= EndOf(g)
    BY <1>3, <1>10, <2>2
  <2>4. Present(c, R, {f}, g)
    BY <1>5, <2>2, <2>3 DEF Present
  <2>5. f.len > 0
    BY <1>1, <1>2 DEF InOrder
  <2>6. d.took > 0
    BY <1>3, <1>10, <1>12, <2>5
  <2>7. QED BY <1>11, <2>1, <2>2, <2>4, <2>6 DEF EndsRight
<1>19. ASSUME ~d.ended, NEW g \in W, g.fin, c <= EndOf(g),
              \/ After(g, c) \in R
              \/ g.len > 0 /\ c < EndOf(g)
              \/ g \in {f} /\ g.len = 0
       PROVE  e < EndOf(g)
  <2>1. ~Ends(R, e)
    BY <1>10, <1>12, <1>19
  <2>2. g # f
    BY <1>19
  <2>3. EndOf(f) <= g.offset
    BY <1>1, <1>19, <2>2, FramesApart
  <2>4. x <= EndOf(g)
    BY <1>2, <1>3, <2>3 DEF x
  <2>5. After(g, x) \in R \/ (g.len > 0 /\ x < EndOf(g))
    <3>1. CASE After(g, c) \in R
      BY <1>5, <2>4, <3>1
    <3>2. CASE g.len > 0
      BY <1>2, <1>3, <2>3, <3>2 DEF x
    <3>3. QED BY <1>19, <2>2, <3>1, <3>2
  <2>6. QED BY <1>11, <1>19, <2>1, <2>4, <2>5 DEF EndsRight
<1>20. Cardinality(Held(Q)) = Cardinality(Held(R)) + d.stored - d.released
  BY <1>1, <1>10, <1>12
<1>21. Delivery(W, c, R, {f}, d, e, Q)
  <2>1. d.ended \in BOOLEAN /\ d.refused \in BOOLEAN /\ ~d.refused
    BY <1>10, <1>12, Zenon
  <2>2. d.stream = [consumed |-> e, retained |-> Q]
    BY <1>12
  <2>3. QED BY <1>1, <1>13, <1>14, <1>15, <1>16, <1>17, <1>18, <1>19, <1>20, <2>1, <2>2 DEF Delivery
<1>22. QED BY <1>21 DEF Delivers

\* What is left when the application took only the head of frame f, up to e.
TakesHead(W, c, R, f, k, e) ==
  /\ e < EndOf(f) /\ c <= e
  /\ After(f, e) \in Frames /\ After(f, e).len = f.len - k
  /\ After(f, e).offset = e /\ After(f, e) \notin R
  /\ \A j \in R : Bytes(After(f, e)) \cap Bytes(j) = {}
  /\ \A j \in R : j \in W /\ e < EndOf(j) /\ j = After(j, e) /\ Present(c, R, {f}, j)
  /\ \A g \in W : e < EndOf(g) /\ After(g, c) \in R => After(g, e) \in R
  /\ \A g \in W : /\ g.fin /\ c <= EndOf(g)
                  /\ \/ After(g, c) \in R
                     \/ g.len > 0 /\ c < EndOf(g)
                     \/ g \in {f} /\ g.len = 0
                  => e < EndOf(g)

\* The application took only the head of a frame: the ranges behind it stand
\* as they are for the moved cursor.
LEMMA HeadTaken ==
  ASSUME NEW W, NEW c, NEW R, StreamForm(W, c, R), NEW f \in W, f.offset = c,
         \A i \in R : i.offset # c, NEW k \in Nat, k < f.len,
         NEW e \in Nat, e = c + k
  PROVE  TakesHead(W, c, R, f, k, e)
<1>1. /\ InOrder(W) /\ c \in Nat /\ W \in SUBSET Frames /\ R \in SUBSET Frames
      /\ \A i \in R : EndOf(i) > c
      /\ \A g \in W : c <= EndOf(g) /\ After(g, c) \in R => c < EndOf(g)
  BY FormFacts
<1>2. \A g \in W : EndOf(g) \in Nat /\ g.offset \in Nat /\ g.len \in Nat /\ EndOf(g) = g.offset + g.len
  BY <1>1 DEF Frames, EndOf
<1>3. e < EndOf(f) /\ c <= e
  BY <1>1, <1>2
<1>4. /\ \A i \in R : i \in W /\ i # f /\ EndOf(f) <= i.offset /\ ~f.fin
      /\ \A y \in Nat : \A g \in W :
           c <= y /\ y <= EndOf(f) /\ y <= EndOf(g) => (After(g, y) \in R <=> g \in R)
      /\ f \notin R
  BY Behind
<1>5. f \in Frames /\ f.len \in Nat /\ f.offset \in Nat
  BY <1>1 DEF Frames
<1>6. /\ After(f, e) \in Frames /\ After(f, e).len = f.len - k /\ After(f, e).offset = e
  BY <1>1, <1>3, <1>5 DEF After, EndOf, Frames
<1>7. After(f, e) \notin R
  BY <1>2, <1>3, <1>4, <1>6
<1>8. \A j \in R : Bytes(After(f, e)) \cap Bytes(j) = {}
  <2>1. ASSUME NEW j \in R, NEW b \in Bytes(After(f, e)), b \in Bytes(j) PROVE FALSE
    <3>1. b \in Bytes(f)
      BY <1>2, <1>3, <1>5, AfterFacts
    <3>2. b < EndOf(f) /\ b \in Nat
      BY <1>5, <3>1, ByteFacts
    <3>3. j \in Frames /\ j.offset <= b /\ j.offset \in Nat
      BY <1>1, <2>1, ByteFacts DEF Frames
    <3>4. QED BY <1>2, <1>4, <3>2, <3>3
  <2>2. QED BY <2>1
<1>9. ASSUME NEW j \in R
      PROVE  j \in W /\ e < EndOf(j) /\ j = After(j, e) /\ Present(c, R, {f}, j)
  <2>1. j \in W /\ EndOf(f) <= j.offset
    BY <1>4
  <2>2. e < EndOf(j) /\ e <= j.offset /\ c <= j.offset
    BY <1>1, <1>2, <1>3, <2>1
  <2>3. QED BY <2>1, <2>2 DEF After, Present
<1>10. ASSUME NEW g \in W, e < EndOf(g), After(g, c) \in R PROVE After(g, e) \in R
  <2>1. c <= EndOf(g) /\ e <= EndOf(g) /\ e <= EndOf(f) /\ c <= EndOf(f)
    BY <1>1, <1>2, <1>3, <1>10
  <2>2. QED BY <1>1, <1>3, <1>4, <1>10, <2>1
<1>11. ASSUME NEW g \in W, g.fin, c <= EndOf(g),
              \/ After(g, c) \in R
              \/ g.len > 0 /\ c < EndOf(g)
              \/ g \in {f} /\ g.len = 0
       PROVE  e < EndOf(g)
  <2>1. CASE g = f
    BY <1>3, <2>1
  <2>2. CASE g # f
    <3>1. EndOf(f) <= g.offset
      BY <1>1, <1>11, <2>2, FramesApart
    <3>2. QED BY <1>2, <1>3, <3>1
  <2>3. QED BY <2>1, <2>2
<1>12. QED BY <1>3, <1>6, <1>7, <1>8, <1>9, <1>10, <1>11 DEF TakesHead

\* The rest of the frame waits.
LEMMA HeadDelivers ==
  ASSUME NEW W, NEW c, NEW R, StreamForm(W, c, R), NEW f \in W, f.offset = c,
         \A i \in R : i.offset # c, NEW k \in Nat, k < f.len,
         NEW e \in Nat, e = c + k,
         NEW Q, Q = R \cup {After(f, e)},
         NEW d, d.stream = [consumed |-> e, retained |-> Q], d.took = k,
         d.stored = After(f, e).len, d.released = 0, d.ended = FALSE, d.refused = FALSE
  PROVE  Delivery(W, c, R, {f}, d, e, Q)
<1>0. TakesHead(W, c, R, f, k, e)
  BY HeadTaken
<1>1. /\ c \in Nat /\ IsFiniteSet(Held(R)) /\ Cardinality(Held(R)) \in Nat
  BY FormFacts
<1>2. /\ e < EndOf(f) /\ c <= e
      /\ After(f, e) \in Frames /\ After(f, e).len = f.len - k
      /\ \A j \in R : Bytes(After(f, e)) \cap Bytes(j) = {}
      /\ \A j \in R : j \in W /\ e < EndOf(j) /\ j = After(j, e) /\ Present(c, R, {f}, j)
  BY <1>0 DEF TakesHead
<1>3. \A g \in W : e < EndOf(g) /\ After(g, c) \in R => After(g, e) \in Q
  BY <1>0 DEF TakesHead
<1>4. \A g \in W : /\ g.fin /\ c <= EndOf(g)
                   /\ \/ After(g, c) \in R
                      \/ g.len > 0 /\ c < EndOf(g)
                      \/ g \in {f} /\ g.len = 0
                   => e < EndOf(g)
  BY <1>0 DEF TakesHead
<1>5. Cardinality(Held(Q)) = Cardinality(Held(R)) + After(f, e).len
  BY <1>1, <1>2, HeldGrows
<1>6. After(f, e).len \in Nat
  BY <1>2 DEF Frames
<1>7. Cardinality(Held(Q)) = Cardinality(Held(R)) + d.stored - d.released
  BY <1>1, <1>5, <1>6
<1>8. \A j \in Q : \E g \in W : e < EndOf(g) /\ j = After(g, e) /\ Present(c, R, {f}, g)
  <2>1. ASSUME NEW j \in R
        PROVE  \E g \in W : e < EndOf(g) /\ j = After(g, e) /\ Present(c, R, {f}, g)
    BY <1>2
  <2>2. Present(c, R, {f}, f)
    BY DEF Present
  <2>3. QED BY <1>2, <2>1, <2>2
<1>9. \E g \in W : Present(c, R, {f}, g) /\ e <= EndOf(g)
  <2>1. f \in Frames
    BY FormFacts
  <2>2. e <= EndOf(f)
    BY <1>2, <2>1, ByteFacts
  <2>3. QED BY <2>2 DEF Present
<1>10. \A g \in {f} : e < EndOf(g) => After(g, e) \in Q
  OBVIOUS
<1>11. d.took \in Nat /\ d.stored \in Nat /\ d.released \in Nat /\ e = c + d.took
  BY <1>6
<1>12. d.ended \in BOOLEAN /\ d.refused \in BOOLEAN /\ ~d.refused /\ ~d.ended
  BY Zenon
<1>13. QED BY <1>1, <1>3, <1>4, <1>7, <1>8, <1>9, <1>10, <1>11, <1>12 DEF Delivery

\* The rest of the frame is refused: it was not acknowledged and comes again.
LEMMA HeadRefused ==
  ASSUME NEW W, NEW c, NEW R, StreamForm(W, c, R), NEW f \in W, f.offset = c,
         \A i \in R : i.offset # c, NEW k \in Nat, k < f.len,
         NEW e \in Nat, e = c + k,
         NEW d, d.stream = [consumed |-> e, retained |-> R], d.took = k,
         d.stored = 0, d.released = 0, d.ended = FALSE, d.refused = TRUE
  PROVE  Delivery(W, c, R, {f}, d, e, R)
<1>0. TakesHead(W, c, R, f, k, e)
  BY HeadTaken
<1>1. c \in Nat /\ Cardinality(Held(R)) \in Nat /\ f \in Frames
  BY FormFacts
<1>2. e < EndOf(f)
  BY <1>0 DEF TakesHead
<1>3. \A j \in R : j \in W /\ e < EndOf(j) /\ j = After(j, e) /\ Present(c, R, {f}, j)
  BY <1>0 DEF TakesHead
<1>4. \A g \in W : e < EndOf(g) /\ After(g, c) \in R => After(g, e) \in R
  BY <1>0 DEF TakesHead
<1>5. \A g \in W : /\ g.fin /\ c <= EndOf(g)
                   /\ \/ After(g, c) \in R
                      \/ g.len > 0 /\ c < EndOf(g)
                      \/ g \in {f} /\ g.len = 0
                   => e < EndOf(g)
  BY <1>0 DEF TakesHead
<1>6. Cardinality(Held(R)) = Cardinality(Held(R)) + d.stored - d.released
  BY <1>1
<1>7. \E g \in W : Present(c, R, {f}, g) /\ e <= EndOf(g)
  <2>1. e <= EndOf(f)
    BY <1>1, <1>2, ByteFacts
  <2>2. QED BY <2>1 DEF Present
<1>8. d.took \in Nat /\ d.stored \in Nat /\ d.released \in Nat /\ e = c + d.took
  OBVIOUS
<1>9. d.ended \in BOOLEAN /\ d.refused \in BOOLEAN /\ d.refused /\ ~d.ended
  BY Zenon
<1>10. \E g \in {f} : g.len > 0
  BY <1>1 DEF Frames
<1>11. \A j \in R : \E g \in W : e < EndOf(g) /\ j = After(g, e) /\ Present(c, R, {f}, g)
  BY <1>3
<1>12. QED BY <1>1, <1>4, <1>5, <1>6, <1>7, <1>8, <1>9, <1>10, <1>11 DEF Delivery

\* A frame that is not at the cursor, or finds a range there, is retained
\* first: receive_copying.
LEMMA RetainFacts ==
  ASSUME NEW W, NEW c, NEW R, StreamForm(W, c, R), NEW f \in W, NEW room \in Nat,
         NEW o, o = [consumed |-> c, retained |-> R],
         NEW memory \in BOOLEAN, NEW available \in Nat,
         f.offset # c \/ \E i \in R : i.offset = c,
         NEW d, d = Retain(o, f, room, memory, available)
  PROVE  Delivers(W, c, R, {f}, d) /\ d.stored <= available
<1> DEFINE new == After(f, c)
           grown == [consumed |-> c, retained |-> R \cup {new}]
           r == [Resume(grown, room) EXCEPT !.stored = new.len]
<1>1. c \in Nat /\ f \in Frames /\ f.len \in Nat /\ f.offset \in Nat /\ EndOf(f) \in Nat
      /\ EndOf(f) = f.offset + f.len
  BY FormFacts DEF Frames, EndOf
<1>2. o.consumed = c /\ o.retained = R /\ [o EXCEPT !.retained = @ \cup {new}] = grown
  OBVIOUS
<1>3. d = IF ~memory /\ f.len > 0 THEN Refused(o, 0)
          ELSE IF Old(o, f) THEN Resume(o, room)
          ELSE IF new.len > available THEN Refused(o, 0)
          ELSE r
  BY <1>2 DEF Retain
<1>4. CASE ~memory /\ f.len > 0
  <2>1. d = Refused(o, 0)
    BY <1>3, <1>4
  <2>2. Delivery(W, c, R, {f}, d, c, R) /\ d.stored = 0
    BY <1>4, <2>1, RefusedDelivers
  <2>3. QED BY <1>1, <2>2 DEF Delivers
<1>5. CASE ~(~memory /\ f.len > 0) /\ Old(o, f)
  <2>1. d = Resume(o, room)
    BY <1>3, <1>5
  <2>2. NothingNew(c, R, f)
    <3>1. CASE EndOf(f) <= c /\ ~(f.len = 0 /\ f.fin /\ f.offset = c)
      BY <3>1 DEF NothingNew
    <3>2. CASE ~(EndOf(f) <= c /\ ~(f.len = 0 /\ f.fin /\ f.offset = c))
      <4>1. PICK i \in R : i.offset = After(f, c).offset /\ i.len = After(f, c).len
        BY <1>2, <1>5, <3>2 DEF Old
      <4>2. c <= EndOf(f)
        BY <1>1, <3>2
      <4>3. QED BY <4>1, <4>2, SameRange DEF NothingNew
    <3>3. QED BY <3>1, <3>2
  <2>3. Delivers(W, c, R, {f}, d)
    <3>1. PICK N \in SUBSET W : N = {f}
      OBVIOUS
    <3>2. \A g \in N : NothingNew(c, R, g)
      BY <2>2, <3>1
    <3>3. Delivers(W, c, R, N, d)
      BY <2>1, <3>2, ResumeDelivers
    <3>4. QED BY <3>1, <3>3
  <2>4. d.stored = 0
    BY <2>1 DEF Resume, Outcome
  <2>5. QED BY <2>3, <2>4
<1>6. CASE ~(~memory /\ f.len > 0) /\ ~Old(o, f)
  <2>1. c <= EndOf(f) /\ (c < EndOf(f) \/ (f.len = 0 /\ f.offset = c))
    BY <1>1, <1>2, <1>6 DEF Old
  <2>2. new \notin R
    BY <1>2, <1>6 DEF Old
  <2>3. new \in Frames /\ new.len \in Nat
    BY <1>1, <2>1, AfterFacts DEF Frames
  <2>4. CASE new.len > available
    <3>1. d = Refused(o, 0)
      BY <1>3, <1>6, <2>4
    <3>2. f.len > 0
      <4>1. CASE c <= f.offset
        <5>1. new = f
          BY <4>1 DEF After
        <5>2. QED BY <2>3, <2>4, <5>1
      <4>2. CASE ~(c <= f.offset)
        BY <1>1, <2>1, <4>2
      <4>3. QED BY <4>1, <4>2
    <3>3. Delivery(W, c, R, {f}, d, c, R) /\ d.stored = 0
      BY <3>1, <3>2, RefusedDelivers
    <3>4. QED BY <1>1, <3>3 DEF Delivers
  <2>5. CASE ~(new.len > available)
    <3>1. d = r
      BY <1>3, <1>6, <2>5
    <3>2. PICK g : g = grown
      OBVIOUS
    <3>3. d = [Resume(g, room) EXCEPT !.stored = After(f, c).len]
      BY <3>1, <3>2
    <3>4. g = [consumed |-> c, retained |-> R \cup {After(f, c)}]
      BY <3>2
    <3>5. After(f, c) \notin R
      BY <2>2
    <3> HIDE DEF r, grown, new
    <3>6. Delivers(W, c, R, {f}, d)
      BY <2>1, <3>3, <3>4, <3>5, RetainDelivers
    <3>7. d.stored = After(f, c).len
      BY <3>3 DEF Resume, Outcome
    <3>8. d.stored <= available
      BY <2>3, <2>5, <3>7 DEF new
    <3>9. QED BY <3>6, <3>8
  <2>6. QED BY <2>4, <2>5
<1>7. QED BY <1>4, <1>5, <1>6

\* A frame at the cursor is handed to the application: try_receive_copying_range.
LEMMA DirectFacts ==
  ASSUME NEW W, NEW c, NEW R, StreamForm(W, c, R), NEW f \in W, NEW room \in Nat,
         NEW o, o = [consumed |-> c, retained |-> R],
         NEW memory \in BOOLEAN, NEW available \in Nat,
         f.offset = c, \A i \in R : i.offset # c,
         NEW d, d = IF room >= f.len THEN DirectWhole(o, f, room)
                    ELSE Direct(o, f, room, memory, available)
  PROVE  Delivers(W, c, R, {f}, d) /\ d.stored <= available
<1>1. c \in Nat /\ f \in Frames /\ f.len \in Nat /\ f.offset \in Nat /\ EndOf(f) \in Nat
      /\ EndOf(f) = f.offset + f.len
  BY FormFacts DEF Frames, EndOf
<1>2. o.consumed = c /\ o.retained = R
  OBVIOUS
<1>3. f.fin => R = {}
  BY Behind
<1>4. CASE room >= f.len
  <2> DEFINE next == [consumed |-> EndOf(f), retained |-> R]
             more == Resume(next, room - f.len)
  <2>1. next = [o EXCEPT !.consumed = EndOf(f)]
    OBVIOUS
  <2>2. d = IF f.fin \/ R = {} THEN Outcome(next, f.len, 0, 0, f.fin, FALSE)
            ELSE [more EXCEPT !.took = @ + f.len]
    BY <1>2, <1>4, <2>1 DEF DirectWhole
  <2>3. CASE f.fin \/ R = {}
    <3>1. d = Outcome(next, f.len, 0, 0, f.fin, FALSE)
      BY <2>2, <2>3
    <3>2. /\ d.stream = next /\ d.took = f.len /\ d.stored = 0
          /\ d.released = 0 /\ d.ended = f.fin /\ d.refused = FALSE
      BY <3>1 DEF Outcome
    <3>3. R = {}
      BY <1>3, <2>3
    <3>4. d.stream = [consumed |-> EndOf(f), retained |-> R]
      BY <3>2
    <3>5. Delivery(W, c, R, {f}, d, EndOf(f), R) /\ d.stored = 0
      BY <3>2, <3>3, <3>4, WholeLastDelivers
    <3>6. QED BY <1>1, <3>5 DEF Delivers
  <2>4. CASE ~(f.fin \/ R = {})
    <3>1. d = [more EXCEPT !.took = @ + f.len]
      BY <2>2, <2>4
    <3>2. PICK k \in Nat : k = room - f.len
      BY <1>1, <1>4
    <3>3. PICK g : g = next
      OBVIOUS
    <3>4. PICK r : r = Resume(g, k)
      OBVIOUS
    <3>5. d = [r EXCEPT !.took = @ + f.len]
      BY <3>1, <3>2, <3>3, <3>4
    <3>6. /\ d.stream = r.stream /\ d.took = r.took + f.len /\ d.stored = r.stored
          /\ d.released = r.released /\ d.ended = r.ended /\ d.refused = r.refused
      BY <3>4, <3>5 DEF Resume, Outcome
    <3>7. g = [consumed |-> EndOf(f), retained |-> R]
      BY <3>3
    <3>8. ~f.fin
      BY <2>4
    <3> HIDE DEF more, next
    <3>9. Delivers(W, c, R, {f}, d)
      BY <3>2, <3>4, <3>6, <3>7, <3>8, WholeMoreDelivers
    <3>10. d.stored = 0
      BY <3>4, <3>6 DEF Resume, Outcome
    <3>11. QED BY <3>9, <3>10
  <2>5. QED BY <2>3, <2>4
<1>5. CASE ~(room >= f.len)
  <2>1. room < f.len
    BY <1>1, <1>5
  <2>2. Min({room, f.len}) = room
    <3>1. \E x \in {room, f.len} : \A y \in {room, f.len} : x =< y
      BY <1>1, <2>1
    <3>2. Min({room, f.len}) \in {room, f.len} /\ \A y \in {room, f.len} : Min({room, f.len}) =< y
      BY <3>1 DEF Min
    <3>3. QED BY <1>1, <2>1, <3>2
  <2>3. PICK e \in Nat : e = c + room
    BY <1>1
  <2>4. e = f.offset + Min({room, f.len})
    BY <2>2, <2>3
  <2> DEFINE rest == After(f, e)
             Q == R \cup {rest}
  <2>5. TakesHead(W, c, R, f, room, e)
    BY <2>1, <2>3, HeadTaken
  <2>6. rest.offset = e /\ rest.len \in Nat /\ rest \in Frames
    BY <2>5 DEF TakesHead, Frames
  <2>7. [o EXCEPT !.consumed = rest.offset] = [consumed |-> e, retained |-> R]
    BY <2>6
  <2>8. d = IF rest.len <= available /\ memory
              THEN Outcome([consumed |-> e, retained |-> Q], room, rest.len, 0, FALSE, FALSE)
              ELSE Refused([consumed |-> e, retained |-> R], room)
    BY <1>2, <1>5, <2>2, <2>4, <2>6, <2>7 DEF Direct
  <2>9. CASE rest.len <= available /\ memory
    <3>1. d = Outcome([consumed |-> e, retained |-> Q], room, rest.len, 0, FALSE, FALSE)
      BY <2>8, <2>9
    <3> HIDE DEF rest, Q
    <3>2. /\ d.stream = [consumed |-> e, retained |-> Q] /\ d.took = room
          /\ d.stored = rest.len /\ d.released = 0 /\ d.ended = FALSE /\ d.refused = FALSE
      BY <3>1 DEF Outcome
    <3>3. Q = R \cup {After(f, e)} /\ d.stored = After(f, e).len
      BY <3>2 DEF Q, rest
    <3>4. Delivery(W, c, R, {f}, d, e, Q)
      BY <2>1, <2>3, <3>2, <3>3, HeadDelivers
    <3>5. d.stored <= available
      BY <2>9, <3>2
    <3>6. QED BY <3>4, <3>5 DEF Delivers
  <2>10. CASE ~(rest.len <= available /\ memory)
    <3>1. d = Refused([consumed |-> e, retained |-> R], room)
      BY <2>8, <2>10
    <3>2. /\ d.stream = [consumed |-> e, retained |-> R] /\ d.took = room
          /\ d.stored = 0 /\ d.released = 0 /\ d.ended = FALSE /\ d.refused = TRUE
      BY <3>1 DEF Refused, Outcome
    <3>3. Delivery(W, c, R, {f}, d, e, R)
      BY <2>1, <2>3, <3>2, HeadRefused
    <3>4. QED BY <3>2, <3>3 DEF Delivers
  <2>11. QED BY <2>9, <2>10
<1>6. QED BY <1>4, <1>5

\* One frame: whatever the room, the memory and the capacity, the outcome
\* is a delivery.
LEMMA DeliverFacts ==
  ASSUME NEW W, NEW c, NEW R, StreamForm(W, c, R), NEW f \in W, NEW room \in Nat,
         NEW o, o = [consumed |-> c, retained |-> R],
         NEW memory \in BOOLEAN, NEW available \in Nat,
         NEW d, d = Deliver(o, f, room, memory, available)
  PROVE  Delivers(W, c, R, {f}, d) /\ d.stored <= available
<1>1. o.consumed = c /\ o.retained = R
  OBVIOUS
<1>2. CASE f.offset # c \/ \E i \in R : i.offset = c
  <2>1. d = Retain(o, f, room, memory, available)
    BY <1>1, <1>2 DEF Deliver, RetainedAt
  <2>2. QED BY <1>2, <2>1, RetainFacts
<1>3. CASE ~(f.offset # c \/ \E i \in R : i.offset = c)
  <2>1. d = IF room >= f.len THEN DirectWhole(o, f, room)
            ELSE Direct(o, f, room, memory, available)
    BY <1>1, <1>3 DEF Deliver, RetainedAt
  <2>2. f.offset = c /\ \A i \in R : i.offset # c
    BY <1>3
  <2>3. QED BY <2>1, <2>2, DirectFacts
<1>4. QED BY <1>2, <1>3

-----------------------------------------------------------------------------
(* A stream and its account.                                               *)

\* The frames W of a stream of n bytes leave no gap, and the last ends it.
Covers(W, n) ==
  /\ n \in Nat
  /\ \A f \in W : EndOf(f) <= n /\ (f.fin => EndOf(f) = n)
  /\ n = 0 \/ \E f \in W : EndOf(f) = n
  /\ \A b \in Nat : b < n => \E f \in W : b \in Bytes(f)

\* The account of a stream of n bytes: r received, F whether the end was
\* seen, A the frames that were acknowledged.
Sound(W, n, A, r, F) ==
  /\ InOrder(W) /\ Covers(W, n)
  /\ r \in Nat /\ r <= n /\ F \in BOOLEAN
  /\ A \in SUBSET W
  /\ \A f \in A : EndOf(f) <= r /\ (f.fin => F)
  /\ F => r = n /\ \E f \in W : f.fin

\* The stream is not over: it is delivered up to c, and what was
\* acknowledged behind c waits in R.  An end that was seen is ahead; only
\* an empty one may stand at the cursor unseen.
Going(W, A, r, F, c, R) ==
  /\ c \in Nat /\ c <= r
  /\ Waiting(W, c, R)
  /\ \A i \in R : EndOf(i) <= r /\ (i.fin => F)
  /\ \A f \in A : c < EndOf(f) => After(f, c) \in R
  /\ \A f \in W : f.fin /\ (f.len > 0 \/ F) => c < EndOf(f)
  /\ \A f \in W : f.fin /\ f.len = 0 /\ F => f \in R

\* The account (r2, F2) after a delivery that was given the frames N, at
\* most one, and was (r, F) before.
Noted(W, A, N, r, F, r2, F2) ==
  /\ N \in SUBSET W /\ \A f, g \in N : f = g
  /\ r2 \in Nat /\ F2 \in BOOLEAN /\ r <= r2 /\ (F => F2)
  /\ r2 = r \/ \E f \in N : r2 = EndOf(f)
  /\ F2 => F \/ \E f \in N : f.fin
  /\ \A f \in N : EndOf(f) <= r2 /\ (f.fin => F2)

\* Frames and lengths of a stream are numbers.
LEMMA SoundFacts ==
  ASSUME NEW W, NEW n, NEW A, NEW r, NEW F, Sound(W, n, A, r, F)
  PROVE  /\ InOrder(W) /\ n \in Nat /\ W \in SUBSET Frames
         /\ \A f \in W : /\ f \in Frames /\ EndOf(f) \in Nat /\ f.offset \in Nat
                         /\ f.len \in Nat /\ f.fin \in BOOLEAN /\ EndOf(f) = f.offset + f.len
                         /\ EndOf(f) <= n /\ (f.fin => EndOf(f) = n)
<1>1. InOrder(W) /\ n \in Nat
  BY DEF Sound, Covers
<1>2. W \in SUBSET Frames
  BY <1>1 DEF InOrder
<1>3. \A f \in W : EndOf(f) <= n /\ (f.fin => EndOf(f) = n)
  BY DEF Sound, Covers
<1>4. \A f \in W : /\ f \in Frames /\ EndOf(f) \in Nat /\ f.offset \in Nat
                   /\ f.len \in Nat /\ f.fin \in BOOLEAN /\ EndOf(f) = f.offset + f.len
  BY <1>2 DEF Frames, EndOf
<1>5. QED BY <1>1, <1>2, <1>3, <1>4

\* A stream that goes on has the form that delivery needs.
LEMMA GoingForm ==
  ASSUME NEW W, NEW n, NEW A, NEW r, NEW F, Sound(W, n, A, r, F), NEW c, NEW R,
         Going(W, A, r, F, c, R)
  PROVE  StreamForm(W, c, R)
<1>1. InOrder(W) /\ r \in Nat
  BY DEF Sound
<1>2. QED BY <1>1 DEF Going, StreamForm

\* An account that has taken note of the frames is sound again.
LEMMA NotedSound ==
  ASSUME NEW W, NEW n, NEW A, NEW r, NEW F, Sound(W, n, A, r, F),
         NEW N, NEW r2, NEW F2, Noted(W, A, N, r, F, r2, F2),
         NEW B, A \subseteq B, B \subseteq A \cup N
  PROVE  Sound(W, n, B, r2, F2)
<1>1. \A f \in W : EndOf(f) \in Nat /\ EndOf(f) <= n /\ (f.fin => EndOf(f) = n)
  BY SoundFacts
<1>2. /\ InOrder(W) /\ Covers(W, n) /\ n \in Nat
      /\ r \in Nat /\ r <= n /\ F \in BOOLEAN /\ A \in SUBSET W
      /\ \A f \in A : EndOf(f) <= r /\ (f.fin => F)
      /\ F => r = n /\ \E f \in W : f.fin
  BY SoundFacts, ZenonT(30) DEF Sound
<1>3. /\ N \in SUBSET W
      /\ r2 \in Nat /\ F2 \in BOOLEAN /\ r <= r2 /\ (F => F2)
      /\ r2 = r \/ \E f \in N : r2 = EndOf(f)
      /\ F2 => F \/ \E f \in N : f.fin
      /\ \A f \in N : EndOf(f) <= r2 /\ (f.fin => F2)
  BY DEF Noted
<1>4. r2 <= n
  BY <1>1, <1>2, <1>3
<1>5. \A f \in B : f \in W /\ EndOf(f) <= r2 /\ (f.fin => F2)
  BY <1>1, <1>2, <1>3
<1>6. ASSUME F2 PROVE r2 = n /\ \E f \in W : f.fin
  BY <1>1, <1>2, <1>3, <1>4, <1>6
<1>7. QED BY <1>2, <1>3, <1>4, <1>5, <1>6 DEF Sound

\* What was present when a delivery began is within the account after it.
LEMMA PresentNoted ==
  ASSUME NEW W, NEW n, NEW A, NEW r, NEW F, Sound(W, n, A, r, F), NEW c, NEW R,
         Going(W, A, r, F, c, R),
         NEW N, NEW r2, NEW F2, Noted(W, A, N, r, F, r2, F2),
         NEW g \in W, c <= EndOf(g), Present(c, R, N, g)
  PROVE  EndOf(g) <= r2 /\ (g.fin => F2)
<1>1. g \in Frames /\ EndOf(g) \in Nat
  BY SoundFacts
<1>2. c \in Nat /\ \A i \in R : EndOf(i) <= r /\ (i.fin => F)
  BY DEF Going
<1>3. r2 \in Nat /\ r <= r2 /\ (F => F2) /\ \A f \in N : EndOf(f) <= r2 /\ (f.fin => F2)
  BY DEF Noted
<1>4. r \in Nat
  BY DEF Sound
<1>5. CASE g \in N
  BY <1>3, <1>5
<1>6. CASE After(g, c) \in R
  <2>1. EndOf(After(g, c)) = EndOf(g) /\ After(g, c).fin = g.fin
    BY <1>1, <1>2, AfterFacts
  <2>2. QED BY <1>1, <1>2, <1>3, <1>4, <1>6, <2>1
<1>7. QED BY <1>5, <1>6 DEF Present

\* The cursor stays within what was received.
LEMMA WithinReceived ==
  ASSUME NEW W, NEW n, NEW A, NEW r, NEW F, Sound(W, n, A, r, F), NEW c, NEW R,
         Going(W, A, r, F, c, R),
         NEW N, NEW r2, NEW F2, Noted(W, A, N, r, F, r2, F2),
         NEW d, NEW e \in Nat, NEW Q, Delivery(W, c, R, N, d, e, Q)
  PROVE  c <= e /\ e <= r2 /\ e = c + d.took /\ d.took \in Nat
<1>1. c \in Nat /\ c <= r /\ r \in Nat
  BY DEF Going, Sound
<1>2. r2 \in Nat /\ r <= r2
  BY DEF Noted
<1>3. /\ d.took \in Nat /\ e = c + d.took
      /\ d.took > 0 => \E g \in W : Present(c, R, N, g) /\ e <= EndOf(g)
  BY DEF Delivery
<1>4. CASE d.took > 0
  <2>1. PICK g \in W : Present(c, R, N, g) /\ e <= EndOf(g)
    BY <1>3, <1>4
  <2>2. EndOf(g) \in Nat
    BY SoundFacts
  <2>3. c <= EndOf(g)
    BY <1>1, <1>3, <2>1, <2>2
  <2>4. EndOf(g) <= r2
    BY <2>1, <2>3, PresentNoted
  <2>5. QED BY <1>1, <1>2, <1>3, <2>1, <2>2, <2>4
<1>5. CASE ~(d.took > 0)
  BY <1>1, <1>2, <1>3, <1>5
<1>6. QED BY <1>4, <1>5

\* A delivery that does not end the stream leaves one that goes on.  A
\* refused frame may not be acknowledged.
LEMMA GoesOn ==
  ASSUME NEW W, NEW n, NEW A, NEW r, NEW F, Sound(W, n, A, r, F), NEW c, NEW R,
         Going(W, A, r, F, c, R),
         NEW N, NEW r2, NEW F2, Noted(W, A, N, r, F, r2, F2),
         NEW d, NEW e \in Nat, NEW Q, Delivery(W, c, R, N, d, e, Q), ~d.ended,
         NEW B, A \subseteq B, B \subseteq IF d.refused THEN A ELSE A \cup N
  PROVE  Going(W, B, r2, F2, e, Q)
<1>1. /\ c \in Nat /\ c <= r /\ r \in Nat /\ F \in BOOLEAN /\ r <= n /\ A \in SUBSET W
      /\ \A f \in A : c < EndOf(f) => After(f, c) \in R
      /\ \A f \in W : f.fin /\ (f.len > 0 \/ F) => c < EndOf(f)
      /\ \A f \in W : f.fin /\ f.len = 0 /\ F => f \in R
  BY DEF Going, Sound
<1>2. /\ N \in SUBSET W /\ \A f, g \in N : f = g
      /\ r2 \in Nat /\ F2 \in BOOLEAN
      /\ F2 => F \/ \E f \in N : f.fin
  BY DEF Noted
<1>3. InOrder(W) /\ n \in Nat
      /\ \A f \in W : /\ f \in Frames /\ EndOf(f) \in Nat /\ f.offset \in Nat
                      /\ f.len \in Nat /\ f.fin \in BOOLEAN /\ EndOf(f) = f.offset + f.len
                      /\ EndOf(f) <= n /\ (f.fin => EndOf(f) = n)
  BY SoundFacts
<1>4. /\ \A j \in Q : \E g \in W : e < EndOf(g) /\ j = After(g, e) /\ Present(c, R, N, g)
      /\ \A g \in W : e < EndOf(g) /\ After(g, c) \in R => After(g, e) \in Q
      /\ ~d.refused => \A f \in N : e < EndOf(f) => After(f, e) \in Q
      /\ d.refused => \E f \in N : f.len > 0
      /\ d.refused \in BOOLEAN
      /\ \A g \in W : /\ g.fin /\ c <= EndOf(g)
                      /\ \/ After(g, c) \in R
                         \/ g.len > 0 /\ c < EndOf(g)
                         \/ g \in N /\ g.len = 0
                      => e < EndOf(g)
  BY DEF Delivery
<1>5. c <= e /\ e <= r2
  BY WithinReceived
<1>6. Waiting(W, e, Q)
  BY <1>4 DEF Waiting
<1>7. ASSUME NEW j \in Q PROVE EndOf(j) <= r2 /\ (j.fin => F2)
  <2>1. PICK g \in W : e < EndOf(g) /\ j = After(g, e) /\ Present(c, R, N, g)
    BY <1>4
  <2>2. c <= EndOf(g) /\ e <= EndOf(g) /\ g \in Frames
    BY <1>1, <1>3, <1>5, <2>1
  <2>3. EndOf(g) <= r2 /\ (g.fin => F2)
    BY <2>1, <2>2, PresentNoted
  <2>4. EndOf(j) = EndOf(g) /\ j.fin = g.fin
    BY <2>1, <2>2, AfterFacts
  <2>5. QED BY <2>3, <2>4
<1>8. ASSUME NEW f \in B, e < EndOf(f) PROVE After(f, e) \in Q
  <2>1. CASE f \in A
    <3>1. c < EndOf(f) /\ f \in W
      BY <1>1, <1>3, <1>5, <1>8, <2>1
    <3>2. QED BY <1>1, <1>4, <1>8, <2>1, <3>1
  <2>2. CASE f \notin A
    BY <1>4, <1>8, <2>2
  <2>3. QED BY <2>1, <2>2
<1>9. ASSUME NEW g \in W, g.fin, g.len = 0, F2 PROVE g \in N \/ F
  <2>1. SUFFICES ASSUME ~F PROVE g \in N
    OBVIOUS
  <2>2. PICK f \in N : f.fin
    BY <1>2, <1>9, <2>1
  <2>3. f = g
    BY <1>2, <1>3, <1>9, <2>2 DEF InOrder
  <2>4. QED BY <2>2, <2>3
<1>10. ASSUME NEW g \in W, g.fin, g.len > 0 \/ F2 PROVE e < EndOf(g)
  <2>1. CASE g.len > 0
    <3>1. c < EndOf(g) /\ c <= EndOf(g)
      BY <1>1, <1>3, <1>10, <2>1
    <3>2. QED BY <1>4, <1>10, <2>1, <3>1
  <2>2. CASE g.len = 0 /\ F
    <3>1. c < EndOf(g) /\ g \in R /\ EndOf(g) = g.offset
      BY <1>1, <1>3, <1>10, <2>2
    <3>2. After(g, c) = g /\ c <= EndOf(g)
      BY <1>1, <1>3, <3>1 DEF After
    <3>3. QED BY <1>4, <1>10, <3>1, <3>2
  <2>3. CASE g.len = 0 /\ ~F
    <3>1. g \in N
      BY <1>9, <1>10, <2>3
    <3>2. c <= EndOf(g)
      BY <1>1, <1>3, <1>10
    <3>3. QED BY <1>4, <1>10, <2>3, <3>1, <3>2
  <2>4. QED BY <1>3, <2>1, <2>2, <2>3
<1>11. ASSUME NEW g \in W, g.fin, g.len = 0, F2 PROVE g \in Q
  <2>1. e < EndOf(g) /\ e <= g.offset
    BY <1>3, <1>5, <1>10, <1>11
  <2>2. After(g, e) = g
    BY <2>1 DEF After
  <2>3. CASE F
    <3>1. g \in R /\ c < EndOf(g) /\ c <= g.offset
      BY <1>1, <1>3, <1>11, <2>3
    <3>2. After(g, c) = g
      BY <3>1 DEF After
    <3>3. QED BY <1>4, <2>1, <2>2, <3>1, <3>2
  <2>4. CASE ~F
    <3>1. g \in N
      BY <1>9, <1>11, <2>4
    <3>2. ~d.refused
      BY <1>2, <1>3, <1>4, <1>11, <3>1
    <3>3. QED BY <1>4, <2>1, <2>2, <3>1, <3>2
  <2>5. QED BY <2>3, <2>4
<1>12. QED BY <1>5, <1>6, <1>7, <1>8, <1>10, <1>11 DEF Going

\* A delivery that ends the stream has given all of it, and its account is
\* complete.
LEMMA EndsStream ==
  ASSUME NEW W, NEW n, NEW A, NEW r, NEW F, Sound(W, n, A, r, F), NEW c, NEW R,
         Going(W, A, r, F, c, R),
         NEW N, NEW r2, NEW F2, Noted(W, A, N, r, F, r2, F2),
         NEW d, NEW e \in Nat, NEW Q, Delivery(W, c, R, N, d, e, Q), d.ended
  PROVE  e = n /\ r2 = n /\ F2 /\ Q = {} /\ (d.took > 0 \/ \E f \in N : f.fin)
<1>1. PICK g \in W : g.fin /\ EndOf(g) = e /\ Present(c, R, N, g)
  BY DEF Delivery
<1>2. Q = {} /\ (d.took > 0 \/ \E f \in N : f.fin)
  BY DEF Delivery
<1>3. c <= e /\ e <= r2
  BY WithinReceived
<1>4. EndOf(g) <= r2 /\ F2
  BY <1>1, <1>3, PresentNoted
<1>5. e = n
  BY <1>1, SoundFacts
<1>6. Sound(W, n, A, r2, F2)
  BY NotedSound
<1>7. r2 = n
  BY <1>4, <1>6 DEF Sound
<1>8. QED BY <1>2, <1>4, <1>5, <1>7

\* While a stream goes on its account is not complete.
LEMMA GoingIncomplete ==
  ASSUME NEW W, NEW n, NEW A, NEW r, NEW F, Sound(W, n, A, r, F), NEW c, NEW R,
         Going(W, A, r, F, c, R), F = TRUE
  PROVE  c < n /\ r = n
<1>1. r = n /\ \E f \in W : f.fin
  BY DEF Sound
<1>2. PICK f \in W : f.fin
  BY <1>1
<1>3. c < EndOf(f)
  BY <1>2 DEF Going
<1>4. QED BY <1>1, <1>2, <1>3, SoundFacts

\* Bytes written to a stream: Size, of its frames.
SizeOf(W) == Max({0} \cup {EndOf(f) : f \in W})

LEMMA SizeFacts ==
  ASSUME NEW W, NEW n, Covers(W, n)
  PROVE  SizeOf(W) = n
<1> DEFINE E == {0} \cup {EndOf(f) : f \in W}
<1>1. n \in Nat /\ n \in E /\ \A x \in E : n >= x
  BY DEF Covers
<1>2. Max(E) \in E /\ \A x \in E : Max(E) >= x
  BY <1>1 DEF Max
<1>3. Max(E) \in E /\ n \in E /\ Max(E) >= n /\ n >= Max(E)
  BY <1>1, <1>2
<1>4. ASSUME NEW x \in E, x >= n, n >= x PROVE x = n
  <2>1. CASE x = 0
    BY <1>1, <1>4, <2>1
  <2>2. CASE x # 0
    <3>1. PICK f \in W : x = EndOf(f)
      BY <1>4, <2>2
    <3>2. QED BY <1>1, <1>4, <3>1 DEF Covers
  <2>3. QED BY <2>1, <2>2
<1>5. QED BY <1>3, <1>4 DEF SizeOf

\* What a write adds to a stream that is not closed.
LEMMA WriteKeeps ==
  ASSUME NEW W, NEW n, NEW A, NEW r, NEW F, Sound(W, n, A, r, F),
         \A f \in W : ~f.fin,
         NEW k \in Nat, NEW fin \in BOOLEAN, k > 0 \/ fin,
         NEW new, new = [offset |-> n, len |-> k, fin |-> fin],
         NEW V, V = W \cup {new}
  PROVE  /\ Sound(V, n + k, A, r, F)
         /\ \A c, R : Going(W, A, r, F, c, R) => Going(V, A, r, F, c, R)
<1>1. /\ InOrder(W) /\ n \in Nat /\ W \in SUBSET Frames
      /\ \A f \in W : /\ f \in Frames /\ EndOf(f) \in Nat /\ f.offset \in Nat
                      /\ f.len \in Nat /\ f.fin \in BOOLEAN /\ EndOf(f) = f.offset + f.len
                      /\ EndOf(f) <= n /\ (f.fin => EndOf(f) = n)
  BY SoundFacts
<1>2. /\ new \in Frames /\ new.offset = n /\ new.len = k /\ new.fin = fin
      /\ EndOf(new) = n + k /\ EndOf(new) \in Nat
  BY <1>1 DEF Frames, EndOf
<1>3. /\ r \in Nat /\ r <= n /\ F \in BOOLEAN /\ A \in SUBSET W
      /\ \A f \in A : EndOf(f) <= r /\ (f.fin => F)
      /\ ~F
  BY DEF Sound
<1>4. InOrder(V)
  <2>1. V \in SUBSET Frames
    BY <1>1, <1>2
  <2>2. \A f \in V : f.len > 0 \/ f.fin
    BY <1>1, <1>2 DEF InOrder
  <2>3. ASSUME NEW f \in V, NEW g \in V, f # g
        PROVE  \/ EndOf(f) <= g.offset /\ ~f.fin
               \/ EndOf(g) <= f.offset /\ ~g.fin
    <3>1. CASE f \in W /\ g \in W
      BY <1>1, <2>3, <3>1 DEF InOrder
    <3>2. CASE f = new /\ g \in W
      BY <1>1, <1>2, <3>2
    <3>3. CASE f \in W /\ g = new
      BY <1>1, <1>2, <3>3
    <3>4. QED BY <2>3, <3>1, <3>2, <3>3
  <2>4. QED BY <2>1, <2>2, <2>3 DEF InOrder
<1>5. Covers(V, n + k)
  <2>1. n + k \in Nat
    BY <1>1
  <2>2. ASSUME NEW f \in V PROVE EndOf(f) <= n + k /\ (f.fin => EndOf(f) = n + k)
    BY <1>1, <1>2
  <2>3. \E f \in V : EndOf(f) = n + k
    BY <1>2
  <2>4. ASSUME NEW b \in Nat, b < n + k PROVE \E f \in V : b \in Bytes(f)
    <3>1. CASE b < n
      BY <3>1 DEF Sound, Covers
    <3>2. CASE ~(b < n)
      <4>1. b \in Bytes(new)
        BY <1>1, <1>2, <2>4, <3>2 DEF Bytes
      <4>2. QED BY <4>1
    <3>3. QED BY <3>1, <3>2
  <2>5. QED BY <2>1, <2>2, <2>3, <2>4 DEF Covers
<1>6. Sound(V, n + k, A, r, F)
  <2>1. A \in SUBSET V /\ r <= n + k
    BY <1>1, <1>3
  <2>2. QED BY <1>3, <1>4, <1>5, <2>1 DEF Sound
<1>7. ASSUME NEW c, NEW R, Going(W, A, r, F, c, R)
      PROVE  Going(V, A, r, F, c, R)
  <2>1. /\ c \in Nat /\ c <= r
        /\ Waiting(W, c, R)
        /\ \A i \in R : EndOf(i) <= r /\ (i.fin => F)
        /\ \A f \in A : c < EndOf(f) => After(f, c) \in R
        /\ \A f \in W : f.fin /\ (f.len > 0 \/ F) => c < EndOf(f)
    BY <1>7 DEF Going
  <2>2. Waiting(V, c, R)
    BY <2>1 DEF Waiting
  <2>3. ASSUME NEW f \in V, f.fin, f.len > 0 \/ F PROVE c < EndOf(f)
    <3>1. CASE f \in W
      BY <2>1, <2>3, <3>1
    <3>2. CASE f = new
      BY <1>1, <1>2, <1>3, <2>1, <2>3, <3>2
    <3>3. QED BY <3>1, <3>2
  <2>4. QED BY <1>3, <2>1, <2>2, <2>3 DEF Going
<1>8. QED BY <1>6, <1>7

-----------------------------------------------------------------------------
(* What the application was given.                                         *)

\* The positions from c on that one delivery hands over, and the end.
Handed(c, k) == [i \in 1 .. k |-> c + i - 1]
Ending(end) == IF end THEN <<-1>> ELSE <<>>

LEMMA WholeFacts ==
  ASSUME NEW n \in Nat, NEW end \in BOOLEAN
  PROVE  /\ Reliable!Whole(n, end) \in Seq(Int)
         /\ Len(Reliable!Whole(n, end)) = IF end THEN n + 1 ELSE n
         /\ \A i \in 1 .. n : Reliable!Whole(n, end)[i] = i - 1
         /\ end => Reliable!Whole(n, end)[n + 1] = -1
<1> DEFINE p == [i \in 1 .. n |-> i - 1]
<1>1. p \in Seq(Int) /\ Len(p) = n /\ \A i \in 1 .. n : p[i] = i - 1
  OBVIOUS
<1> HIDE DEF p
<1>2. Reliable!Whole(n, end) = p \o (IF end THEN <<-1>> ELSE <<>>)
  BY DEF Reliable!Whole, p
<1>3. CASE end = TRUE
  <2>1. Reliable!Whole(n, end) = p \o <<-1>>
    BY <1>2, <1>3
  <2>2. QED BY <1>1, <1>3, <2>1
<1>4. CASE end = FALSE
  <2>1. Reliable!Whole(n, end) = p \o <<>>
    BY <1>2, <1>4
  <2>2. QED BY <1>1, <1>4, <2>1
<1>5. QED BY <1>3, <1>4

\* Deliveries continue one another.
LEMMA HandedOn ==
  ASSUME NEW c \in Nat, NEW k \in Nat
  PROVE  Reliable!Whole(c, FALSE) \o Handed(c, k) = Reliable!Whole(c + k, FALSE)
<1> DEFINE a == Reliable!Whole(c, FALSE)
           q == Handed(c, k)
           w == Reliable!Whole(c + k, FALSE)
<1>1. a \in Seq(Int) /\ Len(a) = c /\ \A i \in 1 .. c : a[i] = i - 1
  BY WholeFacts
<1>2. q \in Seq(Int) /\ Len(q) = k /\ \A i \in 1 .. k : q[i] = c + i - 1
  BY DEF Handed
<1>3. /\ w \in Seq(Int) /\ Len(w) = c + k
      /\ \A i \in 1 .. c + k : w[i] = i - 1
  <2>1. c + k \in Nat
    OBVIOUS
  <2>2. QED BY <2>1, WholeFacts
<1> HIDE DEF a, q, w
<1>4. PICK h : h = a \o q
  OBVIOUS
<1>5. /\ h \in Seq(Int) /\ Len(h) = Len(a) + Len(q)
      /\ \A i \in 1 .. Len(a) + Len(q) : h[i] = IF i <= Len(a) THEN a[i] ELSE q[i - Len(a)]
  BY <1>1, <1>2, <1>4, ConcatProperties
<1>6. ASSUME NEW i \in 1 .. Len(h) PROVE h[i] = w[i]
  <2>1. i \in 1 .. c + k /\ h[i] = IF i <= c THEN a[i] ELSE q[i - c]
    BY <1>1, <1>2, <1>5
  <2>2. CASE i <= c
    BY <1>1, <1>3, <2>1, <2>2
  <2>3. CASE i > c
    <3>1. i - c \in 1 .. k /\ h[i] = q[i - c]
      BY <2>1, <2>3
    <3>2. QED BY <1>2, <1>3, <2>1, <3>1
  <2>4. QED BY <2>1, <2>2, <2>3
<1>7. Len(h) = Len(w)
  BY <1>1, <1>2, <1>3, <1>5
<1>8. h = w
  BY <1>3, <1>5, <1>6, <1>7, SeqEqual
<1>9. QED BY <1>4, <1>8 DEF a, q, w

\* One delivery, and perhaps the end.
LEMMA GivenOn ==
  ASSUME NEW c \in Nat, NEW k \in Nat, NEW end \in BOOLEAN
  PROVE  Reliable!Whole(c, FALSE) \o Handed(c, k) \o Ending(end) = Reliable!Whole(c + k, end)
<1> DEFINE p == [i \in 1 .. c + k |-> i - 1]
<1>1. p \in Seq(Int)
  OBVIOUS
<1>2. Reliable!Whole(c + k, FALSE) = p
  <2>1. Reliable!Whole(c + k, FALSE) = p \o <<>>
    BY DEF Reliable!Whole
  <2> HIDE DEF p
  <2>2. p \o <<>> = p
    BY <1>1, ConcatEmptySeq
  <2>3. QED BY <2>1, <2>2
<1>3. Reliable!Whole(c + k, end) = p \o Ending(end)
  BY DEF Reliable!Whole, Ending
<1> HIDE DEF p
<1>4. QED BY <1>2, <1>3, HandedOn

-----------------------------------------------------------------------------
(* The invariant.                                                          *)

Values ==
  /\ adapter \in {"server", "client"}
  /\ written \in [Streams -> SUBSET Frames]
  /\ received \in [Streams -> Nat] /\ consumed \in [Streams -> Nat]
  /\ finished \in [Streams -> BOOLEAN] /\ retired \in SUBSET Streams
  /\ unacked \in [Streams -> SUBSET {"data", "fin"}]
  /\ total \in Nat /\ retainedBytes \in Int
  /\ DOMAIN ordered \in SUBSET Streams
  /\ \A s \in DOMAIN ordered : ordered[s] \in [consumed : Nat, retained : SUBSET Frames]
  /\ acked \in [Streams -> SUBSET Frames]
  /\ delivered \in [Streams -> Seq(Int)]

\* The application has been given all before the cursor and no end.
Open(s) ==
  /\ Going(written[s], acked[s], received[s], finished[s], consumed[s], Ordered(s).retained)
  /\ Ordered(s).consumed = consumed[s]
  /\ delivered[s] = Reliable!Whole(consumed[s], FALSE)
  /\ s \notin retired

\* The application has been given everything and the end; a client has
\* forgotten the stream.
Over(s) ==
  /\ delivered[s] = Reliable!Whole(SizeOf(written[s]), TRUE)
  /\ s \notin DOMAIN ordered
  /\ consumed[s] = SizeOf(written[s]) /\ received[s] = SizeOf(written[s]) /\ finished[s]
  /\ adapter = "client" => s \in retired

StreamInv(s) ==
  /\ Sound(written[s], SizeOf(written[s]), acked[s], received[s], finished[s])
  /\ Open(s) \/ Over(s)

\* A client that answers nothing and has a slot for every stream.
ClientServed ==
  adapter = "client" => /\ \A s \in Streams : unacked[s] = {}
                        /\ Cardinality(Streams) <= MaxPending["client"]

StreamsInv == Values /\ ClientServed /\ \A s \in Streams : StreamInv(s)

\* A stream that no step touches stays as it is.
Untouched(t) ==
  /\ written'[t] = written[t] /\ acked'[t] = acked[t]
  /\ received'[t] = received[t] /\ consumed'[t] = consumed[t] /\ finished'[t] = finished[t]
  /\ t \in retired' <=> t \in retired
  /\ t \in DOMAIN ordered' <=> t \in DOMAIN ordered
  /\ t \in DOMAIN ordered => ordered'[t] = ordered[t]
  /\ delivered'[t] = delivered[t]

LEMMA UntouchedKeeps ==
  ASSUME NEW t \in Streams, StreamInv(t), Untouched(t), adapter' = adapter
  PROVE  StreamInv(t)'
<1>1. Ordered(t)' = Ordered(t)
  BY DEF Untouched, Ordered
<1>2. Open(t) => Open(t)'
  BY <1>1 DEF Open, Untouched
<1>3. Over(t) => Over(t)'
  BY DEF Over, Untouched
<1>4. QED BY <1>2, <1>3 DEF StreamInv, Untouched

\* A stream that is not over goes on; one that has a slot is not over.
LEMMA WhichState ==
  ASSUME StreamsInv, NEW s \in Streams
  PROVE  /\ ~DeliveryComplete(s) => Open(s)
         /\ DeliveryComplete(s) => Over(s)
         /\ adapter = "client" /\ s \notin retired => Open(s)
         /\ s \in retired => Over(s)
         /\ s \in DOMAIN ordered => Open(s)
         /\ Complete(s, received[s], consumed[s], finished[s]) => Over(s)
<1>1. /\ Sound(written[s], SizeOf(written[s]), acked[s], received[s], finished[s])
      /\ Open(s) \/ Over(s)
  BY DEF StreamsInv, StreamInv
<1>2. ASSUME Open(s), finished[s] PROVE consumed[s] # received[s]
  <2>1. finished[s] = TRUE /\ consumed[s] \in Nat /\ received[s] \in Nat
    BY <1>2 DEF StreamsInv, Values
  <2>2. consumed[s] < SizeOf(written[s]) /\ received[s] = SizeOf(written[s])
    <3>1. Going(written[s], acked[s], received[s], finished[s], consumed[s], Ordered(s).retained)
      BY <1>2 DEF Open
    <3>2. QED BY <1>1, <2>1, <3>1, GoingIncomplete
  <2>3. QED BY <2>1, <2>2
<1>3. Open(s) => s \notin retired /\ ~Complete(s, received[s], consumed[s], finished[s])
  BY <1>2 DEF Open, Complete
<1>4. Over(s) => /\ s \notin DOMAIN ordered /\ (adapter = "client" => s \in retired)
                 /\ Complete(s, received[s], consumed[s], finished[s])
  BY DEF Over, Complete
<1>5. QED BY <1>1, <1>3, <1>4 DEF DeliveryComplete

\* What a delivery and its account leave of the stream and of the others.
Effects(s, f, accepted, d, r2, F2) ==
  /\ received'[s] = r2 /\ finished'[s] = F2
  /\ consumed'[s] = IF consumed[s] + d.took < r2 THEN consumed[s] + d.took ELSE r2
  /\ total' = total + d.took
  /\ s \in retired' <=> \/ s \in retired
                        \/ /\ (accepted /\ f.fin) \/ d.took > 0
                           /\ unacked[s] = {} /\ F2 /\ consumed'[s] = r2
  /\ s \in DOMAIN ordered' <=> ~d.ended
  /\ ~d.ended => ordered'[s] = d.stream
  /\ retainedBytes' = retainedBytes + d.stored - d.released
  /\ \A t \in Streams \ {s} :
       /\ received'[t] = received[t] /\ consumed'[t] = consumed[t]
       /\ finished'[t] = finished[t] /\ delivered'[t] = delivered[t]
       /\ t \in retired' <=> t \in retired
       /\ t \in DOMAIN ordered' <=> t \in DOMAIN ordered
       /\ t \in DOMAIN ordered => ordered'[t] = ordered[t]

LEMMA DeliveryEffects ==
  ASSUME Values, NEW s \in Streams, NEW f, NEW accepted \in BOOLEAN, NEW d,
         d.took \in Nat, d.ended \in BOOLEAN, d.stored \in Nat, d.released \in Nat,
         NEW r2, r2 = (IF accepted /\ EndOf(f) > received[s] THEN EndOf(f) ELSE received[s]),
         NEW F2, F2 = (finished[s] \/ (accepted /\ f.fin)),
         Account(s, f, accepted, d.took), Apply(s, d)
  PROVE  Effects(s, f, accepted, d, r2, F2)
<1> DEFINE con == IF consumed[s] + d.took < r2 THEN consumed[s] + d.took ELSE r2
<1>1. /\ received' = [received EXCEPT ![s] = r2]
      /\ finished' = [finished EXCEPT ![s] = F2]
      /\ consumed' = [consumed EXCEPT ![s] = con]
      /\ total' = total + d.took
      /\ retired' = IF /\ (accepted /\ f.fin) \/ d.took > 0
                       /\ unacked[s] = {} /\ Complete(s, r2, con, F2)
                      THEN retired \cup {s} ELSE retired
  BY DEF Account
<1> HIDE DEF con
<1>2. /\ received'[s] = r2 /\ finished'[s] = F2 /\ consumed'[s] = con
      /\ \A t \in Streams \ {s} : /\ received'[t] = received[t] /\ consumed'[t] = consumed[t]
                                  /\ finished'[t] = finished[t]
  BY <1>1 DEF Values
<1>3. s \in retired' <=> \/ s \in retired
                         \/ /\ (accepted /\ f.fin) \/ d.took > 0
                            /\ unacked[s] = {} /\ F2 /\ consumed'[s] = r2
  BY <1>1, <1>2 DEF Complete
<1>4. \A t \in Streams \ {s} : t \in retired' <=> t \in retired
  BY <1>1
<1>5. ordered' = [t \in IF d.ended THEN DOMAIN ordered \ {s} ELSE DOMAIN ordered \cup {s}
                    |-> IF t = s THEN d.stream ELSE ordered[t]]
  BY DEF Apply
<1>6. /\ s \in DOMAIN ordered' <=> ~d.ended
      /\ ~d.ended => ordered'[s] = d.stream
      /\ \A t \in Streams \ {s} : /\ t \in DOMAIN ordered' <=> t \in DOMAIN ordered
                                  /\ t \in DOMAIN ordered => ordered'[t] = ordered[t]
  BY <1>5
<1>7. retainedBytes' = retainedBytes + d.stored - d.released
  BY DEF Apply
<1>8. \A t \in Streams \ {s} : delivered'[t] = delivered[t]
  BY DEF Apply, Values
<1>9. QED BY <1>1, <1>2, <1>3, <1>4, <1>6, <1>7, <1>8 DEF con, Effects

\* A step that delivers to a stream that goes on: it was given the frames
\* N, at most one, made d of them, and B is acknowledged after it.
Receives(s, f, accepted, d, N, r2, F2, B) ==
  /\ r2 = (IF accepted /\ EndOf(f) > received[s] THEN EndOf(f) ELSE received[s])
  /\ F2 = (finished[s] \/ (accepted /\ f.fin))
  /\ Noted(written[s], acked[s], N, received[s], finished[s], r2, F2)
  /\ Delivers(written[s], consumed[s], Ordered(s).retained, N, d)
  /\ Account(s, f, accepted, d.took) /\ Apply(s, d)
  /\ UNCHANGED <<adapter, written, unacked>>
  /\ acked' = [acked EXCEPT ![s] = B]
  /\ acked[s] \subseteq B /\ B \subseteq IF d.refused THEN acked[s] ELSE acked[s] \cup N
  /\ adapter = "client" => \A g \in N : g.fin => accepted /\ f.fin
  /\ HasSlot(s) /\ d.stored <= Available

\* What it does to the numbers: the association consumes what the stream
\* consumes, and the retained bytes stay counted, within the limit.
Forward(s) ==
  /\ Open(s)
  /\ written' = written /\ adapter' = adapter
  /\ consumed[s] <= consumed'[s] /\ \A t \in Streams \ {s} : consumed'[t] = consumed[t]
  /\ total' = total + (consumed'[s] - consumed[s])
  /\ delivered' = [delivered EXCEPT ![s] = delivered'[s]]
  /\ \A t \in Streams \ {s} : Ordered(t)' = Ordered(t)
  /\ Cardinality(Held(Ordered(s).retained)) \in Nat
  /\ retainedBytes' = retainedBytes + Cardinality(Held(Ordered(s)'.retained))
                                    - Cardinality(Held(Ordered(s).retained))
  /\ retainedBytes <= RetentionLimit => retainedBytes' <= RetentionLimit
  /\ Cardinality(DOMAIN ordered) <= MaxPending[adapter]
       => Cardinality(DOMAIN ordered') <= MaxPending[adapter]

\* Such a step keeps the invariant: the stream goes on or it is over.
LEMMA DeliveryKeeps ==
  ASSUME StreamsInv, NEW s \in Streams, Open(s),
         NEW f, NEW accepted \in BOOLEAN, NEW d, NEW N, NEW r2, NEW F2, NEW B,
         Receives(s, f, accepted, d, N, r2, F2, B)
  PROVE  StreamsInv' /\ Forward(s)
<1>0. /\ r2 = (IF accepted /\ EndOf(f) > received[s] THEN EndOf(f) ELSE received[s])
      /\ F2 = (finished[s] \/ (accepted /\ f.fin))
      /\ Noted(written[s], acked[s], N, received[s], finished[s], r2, F2)
      /\ Delivers(written[s], consumed[s], Ordered(s).retained, N, d)
      /\ Account(s, f, accepted, d.took) /\ Apply(s, d)
      /\ UNCHANGED <<adapter, written, unacked>>
      /\ acked' = [acked EXCEPT ![s] = B]
      /\ acked[s] \subseteq B /\ B \subseteq IF d.refused THEN acked[s] ELSE acked[s] \cup N
      /\ adapter = "client" => \A g \in N : g.fin => accepted /\ f.fin
      /\ HasSlot(s) /\ d.stored <= Available
  BY DEF Receives
<1> USE <1>0
<1> DEFINE W == written[s]
           n == SizeOf(written[s])
           A == acked[s]
           r == received[s]
           F == finished[s]
           c == consumed[s]
           R == Ordered(s).retained
<1>1. Values /\ ClientServed /\ Sound(W, n, A, r, F) /\ \A t \in Streams : StreamInv(t)
  BY DEF StreamsInv, StreamInv
<1>2. /\ Going(W, A, r, F, c, R) /\ Ordered(s).consumed = c
      /\ delivered[s] = Reliable!Whole(c, FALSE) /\ s \notin retired
  BY DEF Open
<1>3. c \in Nat /\ n \in Nat /\ r \in Nat /\ F \in BOOLEAN
  BY <1>1, SoundFacts DEF Values
<1>4. Noted(W, A, N, r, F, r2, F2) /\ Delivers(W, c, R, N, d)
  OBVIOUS
<1>5. PICK e \in Nat : \E Q : Delivery(W, c, R, N, d, e, Q)
  BY <1>4 DEF Delivers
<1>6. PICK Q : Delivery(W, c, R, N, d, e, Q)
  BY <1>5
<1>7. /\ d.stream = [consumed |-> e, retained |-> Q]
      /\ d.took \in Nat /\ d.stored \in Nat /\ d.released \in Nat
      /\ d.ended \in BOOLEAN /\ d.refused \in BOOLEAN
      /\ \A j \in Q : \E g \in W : e < EndOf(g) /\ j = After(g, e)
  BY <1>6 DEF Delivery
<1>8. Effects(s, f, accepted, d, r2, F2)
  BY <1>1, <1>7, DeliveryEffects
<1> HIDE DEF W, n, A, r, F, c, R
<1>9. c <= e /\ e <= r2 /\ e = c + d.took
  BY <1>1, <1>2, <1>4, <1>6, WithinReceived
<1>10. r2 \in Nat /\ F2 \in BOOLEAN /\ N \in SUBSET W
  BY <1>4 DEF Noted
<1>11. received'[s] = r2 /\ finished'[s] = F2 /\ consumed'[s] = e
  <2>1. /\ received'[s] = r2 /\ finished'[s] = F2
        /\ consumed'[s] = IF c + d.took < r2 THEN c + d.took ELSE r2
    BY <1>8 DEF Effects, c
  <2>2. QED BY <1>9, <1>10, <2>1
<1>12. /\ written'[s] = W /\ SizeOf(written'[s]) = n /\ acked'[s] = B
       /\ adapter' = adapter /\ unacked' = unacked /\ written' = written
  BY <1>1 DEF W, n, Values
<1>13. Sound(W, n, B, r2, F2)
  <2>1. A \subseteq B /\ B \subseteq A \cup N
    BY <1>7 DEF A
  <2>2. QED BY <1>1, <1>4, <2>1, NotedSound
<1>14. delivered'[s] = Reliable!Whole(e, d.ended)
  <2>1. delivered' = [delivered EXCEPT ![s] = @ \o Handed(c, d.took) \o Ending(d.ended)]
    BY <1>2 DEF Apply, Handed, Ending
  <2>2. delivered'[s] = delivered[s] \o Handed(c, d.took) \o Ending(d.ended)
    BY <1>1, <2>1 DEF Values
  <2>3. PICK k \in Nat, end \in BOOLEAN : k = d.took /\ end = d.ended
    BY <1>7
  <2>4. Reliable!Whole(c, FALSE) \o Handed(c, k) \o Ending(end) = Reliable!Whole(c + k, end)
    BY <1>3, GivenOn
  <2>5. QED BY <1>2, <1>9, <2>2, <2>3, <2>4
<1>15. StreamInv(s)'
  <2>1. CASE d.ended = FALSE
    <3>1. Going(W, B, r2, F2, e, Q)
      <4>1. A \subseteq B /\ B \subseteq IF d.refused THEN A ELSE A \cup N
        BY DEF A
      <4>2. ~d.ended
        BY <2>1
      <4>3. QED BY <1>1, <1>2, <1>4, <1>6, <4>1, <4>2, GoesOn
    <3>2. Ordered(s)' = [consumed |-> e, retained |-> Q]
      BY <1>7, <1>8, <2>1 DEF Effects, Ordered
    <3>3. s \notin retired'
      <4>1. SUFFICES ASSUME F2, e = r2 PROVE FALSE
        BY <1>2, <1>8, <1>11 DEF Effects
      <4>2. F2 = TRUE
        BY <1>10, <4>1
      <4>3. e < n /\ r2 = n
        BY <1>13, <3>1, <4>2, GoingIncomplete
      <4>4. QED BY <1>3, <4>1, <4>3
    <3>4. delivered'[s] = Reliable!Whole(e, FALSE)
      BY <1>14, <2>1, Zenon
    <3>5. Open(s)'
      BY <1>11, <1>12, <3>1, <3>2, <3>3, <3>4 DEF Open
    <3>6. QED BY <1>11, <1>12, <1>13, <3>5 DEF StreamInv
  <2>2. CASE d.ended = TRUE
    <3>1. e = n /\ r2 = n /\ F2 /\ (d.took > 0 \/ \E g \in N : g.fin)
      <4>1. d.ended
        BY <2>2
      <4>2. QED BY <1>1, <1>2, <1>4, <1>6, <4>1, EndsStream
    <3>2. s \notin DOMAIN ordered'
      BY <1>8, <2>2 DEF Effects
    <3>3. adapter = "client" => s \in retired'
      <4>1. SUFFICES ASSUME adapter = "client" PROVE s \in retired'
        OBVIOUS
      <4>2. unacked[s] = {}
        BY <1>1, <4>1 DEF ClientServed
      <4>3. (accepted /\ f.fin) \/ d.took > 0
        BY <3>1, <4>1
      <4>4. consumed'[s] = r2
        BY <1>11, <3>1
      <4>5. QED BY <1>8, <3>1, <4>2, <4>3, <4>4 DEF Effects
    <3>4. Over(s)'
      BY <1>11, <1>12, <1>14, <2>2, <3>1, <3>2, <3>3 DEF Over
    <3>5. QED BY <1>11, <1>12, <1>13, <3>4 DEF StreamInv
  <2>3. QED BY <1>7, <2>1, <2>2
<1>16. ASSUME NEW t \in Streams, t # s PROVE StreamInv(t)'
  <2>1. Untouched(t)
    <3>1. acked'[t] = acked[t]
      BY <1>1, <1>16 DEF Values
    <3>2. QED BY <1>8, <1>12, <1>16, <3>1 DEF Effects, Untouched
  <2>2. QED BY <1>1, <1>12, <2>1, UntouchedKeeps
<1>17. Values'
  <2>1. e \in Nat /\ Q \in SUBSET Frames
    <3>1. ASSUME NEW j \in Q PROVE j \in Frames
      <4>1. PICK g \in W : e < EndOf(g) /\ j = After(g, e)
        BY <1>7
      <4>2. g \in Frames
        BY <1>1, SoundFacts
      <4>3. e <= EndOf(g)
        BY <4>1, <4>2, ByteFacts
      <4>4. QED BY <4>1, <4>2, <4>3, AfterFacts
    <3>2. QED BY <3>1
  <2>2. /\ received' \in [Streams -> Nat] /\ consumed' \in [Streams -> Nat]
        /\ finished' \in [Streams -> BOOLEAN]
    <3>1. /\ \A t \in Streams : received'[t] \in Nat /\ consumed'[t] \in Nat /\ finished'[t] \in BOOLEAN
      <4>1. ASSUME NEW t \in Streams
            PROVE  received'[t] \in Nat /\ consumed'[t] \in Nat /\ finished'[t] \in BOOLEAN
        <5>1. CASE t = s
          BY <1>10, <1>11, <5>1
        <5>2. CASE t # s
          BY <1>1, <1>8, <5>2 DEF Effects, Values
        <5>3. QED BY <5>1, <5>2
      <4>2. QED BY <4>1
    <3>2. /\ received' = [t \in Streams |-> received'[t]]
          /\ consumed' = [t \in Streams |-> consumed'[t]]
          /\ finished' = [t \in Streams |-> finished'[t]]
      BY <1>1 DEF Account, Values
    <3>3. QED BY <3>1, <3>2
  <2>3. retired' \in SUBSET Streams
    BY <1>1 DEF Account, Values
  <2>4. total' \in Nat /\ retainedBytes' \in Int
    <3>1. total \in Nat /\ retainedBytes \in Int
      BY <1>1 DEF Values
    <3>2. total' = total + d.took /\ retainedBytes' = retainedBytes + d.stored - d.released
      BY <1>8 DEF Effects
    <3>3. QED BY <1>7, <3>1, <3>2
  <2>5. DOMAIN ordered' \in SUBSET Streams
    BY <1>1, <1>7 DEF Apply, Values
  <2>6. ASSUME NEW t \in DOMAIN ordered'
        PROVE  ordered'[t] \in [consumed : Nat, retained : SUBSET Frames]
    <3>1. CASE t = s
      <4>1. ordered'[s] = d.stream
        BY <1>8, <2>6, <3>1 DEF Effects
      <4>2. d.stream \in [consumed : Nat, retained : SUBSET Frames]
        BY <1>7, <2>1
      <4>3. QED BY <3>1, <4>1, <4>2
    <3>2. CASE t # s
      BY <1>1, <1>8, <2>5, <2>6, <3>2 DEF Effects, Values
    <3>3. QED BY <3>1, <3>2
  <2>7. acked' \in [Streams -> SUBSET Frames]
    <3>1. B \in SUBSET Frames
      <4>1. B \in SUBSET W
        BY <1>13 DEF Sound
      <4>2. QED BY <1>1, <4>1, SoundFacts
    <3>2. QED BY <1>1, <3>1 DEF Values
  <2>8. delivered' \in [Streams -> Seq(Int)]
    <3>1. delivered' = [t \in Streams |-> delivered'[t]]
      BY <1>1 DEF Apply, Values
    <3>2. ASSUME NEW t \in Streams PROVE delivered'[t] \in Seq(Int)
      <4>1. CASE t = s
        BY <1>7, <1>14, <4>1, WholeFacts
      <4>2. CASE t # s
        BY <1>1, <1>8, <4>2 DEF Effects, Values
      <4>3. QED BY <4>1, <4>2
    <3>3. QED BY <3>1, <3>2
  <2>9. adapter' \in {"server", "client"} /\ written' \in [Streams -> SUBSET Frames]
        /\ unacked' \in [Streams -> SUBSET {"data", "fin"}]
    BY <1>1, <1>12 DEF Values
  <2>10. QED BY <2>2, <2>3, <2>4, <2>5, <2>6, <2>7, <2>8, <2>9 DEF Values
<1>18. ClientServed'
  BY <1>1, <1>12 DEF ClientServed
<1>19. Ordered(s)'.retained = Q
  <2>1. CASE d.ended = FALSE
    BY <1>7, <1>8, <2>1 DEF Effects, Ordered
  <2>2. CASE d.ended = TRUE
    <3>1. Q = {}
      BY <1>6, <2>2 DEF Delivery
    <3>2. QED BY <1>8, <2>2, <3>1 DEF Effects, Ordered, NewStream
  <2>3. QED BY <1>7, <2>1, <2>2
<1>20. /\ consumed[s] <= consumed'[s] /\ total' = total + (consumed'[s] - consumed[s])
       /\ \A t \in Streams \ {s} : consumed'[t] = consumed[t]
  <2>1. total' = total + d.took /\ \A t \in Streams \ {s} : consumed'[t] = consumed[t]
    BY <1>8 DEF Effects
  <2>2. QED BY <1>3, <1>7, <1>9, <1>11, <2>1 DEF c
<1>21. delivered' = [delivered EXCEPT ![s] = delivered'[s]]
  <2>1. delivered' = [delivered EXCEPT ![s] = @ \o Handed(c, d.took) \o Ending(d.ended)]
    BY <1>2 DEF Apply, Handed, Ending
  <2>2. QED BY <1>1, <2>1 DEF Values
<1>22. \A t \in Streams \ {s} : Ordered(t)' = Ordered(t)
  BY <1>8 DEF Effects, Ordered
<1>23. /\ retainedBytes' = retainedBytes + d.stored - d.released
       /\ Cardinality(Held(R)) \in Nat
       /\ Cardinality(Held(Q)) = Cardinality(Held(R)) + d.stored - d.released
       /\ retainedBytes \in Int
  BY <1>1, <1>6, <1>8 DEF Effects, Delivery, Values
<1>24. /\ Cardinality(Held(Ordered(s).retained)) \in Nat
       /\ retainedBytes' = retainedBytes + Cardinality(Held(Ordered(s)'.retained))
                                         - Cardinality(Held(Ordered(s).retained))
  <2>1. retainedBytes' = retainedBytes + Cardinality(Held(Q)) - Cardinality(Held(R))
    BY <1>7, <1>23
  <2>2. QED BY <1>19, <1>23, <2>1 DEF R
<1>25. retainedBytes <= RetentionLimit => retainedBytes' <= RetentionLimit
  <2>1. retainedBytes <= RetentionLimit => Available = RetentionLimit - retainedBytes
    BY <1>23, StreamAssumption DEF Available
  <2>2. QED BY <1>7, <1>23, <2>1, StreamAssumption
<1>26. Cardinality(DOMAIN ordered) <= MaxPending[adapter]
         => Cardinality(DOMAIN ordered') <= MaxPending[adapter]
  <2>1. SUFFICES ASSUME Cardinality(DOMAIN ordered) <= MaxPending[adapter]
                 PROVE  Cardinality(DOMAIN ordered') <= MaxPending[adapter]
    OBVIOUS
  <2>2. IsFiniteSet(Streams) /\ MaxPending[adapter] \in Nat
    BY <1>1, StreamAssumption DEF Values
  <2>3. IsFiniteSet(DOMAIN ordered) /\ Cardinality(DOMAIN ordered) \in Nat
    BY <1>1, <2>2, FS_Subset, FS_CardinalityType DEF Values
  <2>4. DOMAIN ordered' \in SUBSET (DOMAIN ordered \cup {s})
    BY <1>7 DEF Apply
  <2>5. /\ IsFiniteSet(DOMAIN ordered \cup {s})
        /\ Cardinality(DOMAIN ordered \cup {s}) =
             IF s \in DOMAIN ordered THEN Cardinality(DOMAIN ordered)
             ELSE Cardinality(DOMAIN ordered) + 1
    BY <2>3, FS_AddElement
  <2>6. Cardinality(DOMAIN ordered') <= Cardinality(DOMAIN ordered \cup {s})
        /\ Cardinality(DOMAIN ordered') \in Nat
    BY <2>4, <2>5, FS_Subset, FS_CardinalityType
  <2>7. s \in DOMAIN ordered \/ Cardinality(DOMAIN ordered) < MaxPending[adapter]
    BY DEF HasSlot
  <2>8. QED BY <2>1, <2>2, <2>3, <2>5, <2>6, <2>7
<1>27. Forward(s)
  BY <1>12, <1>20, <1>21, <1>22, <1>24, <1>25, <1>26 DEF Forward
<1>28. QED BY <1>15, <1>16, <1>17, <1>18, <1>27 DEF StreamsInv

\* The ordered stream of a stream that goes on, as a record.
LEMMA OrderedRecord ==
  ASSUME StreamsInv, NEW s \in Streams, Open(s)
  PROVE  /\ Ordered(s) = [consumed |-> consumed[s], retained |-> Ordered(s).retained]
         /\ StreamForm(written[s], consumed[s], Ordered(s).retained)
<1>1. Ordered(s) \in [consumed : Nat, retained : SUBSET Frames]
  BY DEF StreamsInv, Values, Ordered, NewStream
<1>2. Ordered(s).consumed = consumed[s]
  BY DEF Open
<1>3. Sound(written[s], SizeOf(written[s]), acked[s], received[s], finished[s])
  BY DEF StreamsInv, StreamInv
<1>4. Going(written[s], acked[s], received[s], finished[s], consumed[s], Ordered(s).retained)
  BY DEF Open
<1>5. StreamForm(written[s], consumed[s], Ordered(s).retained)
  BY <1>3, <1>4, GoingForm
<1>6. QED BY <1>1, <1>2, <1>5

\* Ordered delivery of a frame that arrives.
LEMMA TryDelivers ==
  ASSUME StreamsInv, NEW s \in Streams, Open(s), NEW f \in written[s], NEW room \in Nat,
         NEW memory \in BOOLEAN, NEW d, d = Try(s, f, room, memory)
  PROVE  /\ Delivers(written[s], consumed[s], Ordered(s).retained, {f}, d)
         /\ Available \in Nat /\ d.stored <= Available
<1>1. PICK o : o = Ordered(s)
  OBVIOUS
<1>2. PICK R : R = Ordered(s).retained
  OBVIOUS
<1>3. o = [consumed |-> consumed[s], retained |-> R] /\ StreamForm(written[s], consumed[s], R)
  BY <1>1, <1>2, OrderedRecord
<1>4. PICK available \in Nat : available = Available
  <2>1. retainedBytes \in Int /\ RetentionLimit \in Nat
    BY StreamAssumption DEF StreamsInv, Values
  <2>2. Available \in Nat
    BY <2>1 DEF Available
  <2>3. QED BY <2>2
<1>5. d = Deliver(o, f, room, memory, available)
  BY <1>1, <1>4 DEF Try
<1>6. Delivers(written[s], consumed[s], R, {f}, d) /\ d.stored <= available
  BY <1>3, <1>5, DeliverFacts
<1>7. QED BY <1>2, <1>4, <1>6

\* Accept takes note of a frame, and a known one was noted before.
LEMMA ArrivalNoted ==
  ASSUME StreamsInv, NEW s \in Streams, NEW f \in written[s], NEW accepted \in BOOLEAN,
         ~accepted => f \in acked[s],
         NEW r2, r2 = (IF accepted /\ EndOf(f) > received[s] THEN EndOf(f) ELSE received[s]),
         NEW F2, F2 = (finished[s] \/ (accepted /\ f.fin))
  PROVE  Noted(written[s], acked[s], {f}, received[s], finished[s], r2, F2)
<1>1. Sound(written[s], SizeOf(written[s]), acked[s], received[s], finished[s])
  BY DEF StreamsInv, StreamInv
<1>2. EndOf(f) \in Nat /\ f.fin \in BOOLEAN
  BY <1>1, SoundFacts
<1>3. received[s] \in Nat /\ finished[s] \in BOOLEAN
  BY DEF StreamsInv, Values
<1>4. f \in acked[s] => EndOf(f) <= received[s] /\ (f.fin => finished[s])
  BY <1>1 DEF Sound
<1>5. r2 \in Nat /\ received[s] <= r2 /\ (r2 = received[s] \/ r2 = EndOf(f)) /\ EndOf(f) <= r2
  BY <1>2, <1>3, <1>4
<1>6. F2 \in BOOLEAN /\ (finished[s] => F2) /\ (F2 => finished[s] \/ f.fin) /\ (f.fin => F2)
  BY <1>2, <1>3, <1>4, Zenon
<1>7. QED BY <1>5, <1>6 DEF Noted

\* A frame that a server delivers.
LEMMA ServerReceiveKeeps ==
  ASSUME StreamsInv, NEW s \in Streams, NEW f \in written[s], adapter = "server",
         NEW known \in BOOLEAN, known => f \in acked[s],
         NEW room \in Nat, NEW memory \in BOOLEAN, ServerReceive(s, f, known, room, memory)
  PROVE  StreamsInv' /\ Forward(s)
<1>1. PICK d : d = Try(s, f, room, memory)
  OBVIOUS
<1>2. PICK accepted \in BOOLEAN : accepted = ~known
  OBVIOUS
<1>3. /\ ~DeliveryComplete(s) /\ HasSlot(s)
      /\ Account(s, f, accepted, d.took)
      /\ Apply(s, d)
      /\ IF d.refused \/ known THEN UNCHANGED acked ELSE Commit(s, f)
      /\ UNCHANGED <<adapter, written, unacked>>
  BY <1>1, <1>2 DEF ServerReceive, ServerAdmits
<1>4. Open(s)
  BY <1>3, WhichState
<1>5. PICK r2, F2 :
        /\ r2 = (IF accepted /\ EndOf(f) > received[s] THEN EndOf(f) ELSE received[s])
        /\ F2 = (finished[s] \/ (accepted /\ f.fin))
  OBVIOUS
<1>6. Noted(written[s], acked[s], {f}, received[s], finished[s], r2, F2)
  BY <1>2, <1>5, ArrivalNoted
<1>7. Delivers(written[s], consumed[s], Ordered(s).retained, {f}, d) /\ d.stored <= Available
  BY <1>1, <1>4, TryDelivers
<1>8. PICK B : /\ acked' = [acked EXCEPT ![s] = B]
               /\ acked[s] \subseteq B
               /\ B \subseteq IF d.refused THEN acked[s] ELSE acked[s] \cup {f}
  <2>1. CASE d.refused \/ known
    <3>1. acked' = [acked EXCEPT ![s] = acked[s]]
      BY <1>3, <2>1 DEF StreamsInv, Values
    <3>2. QED BY <3>1
  <2>2. CASE ~(d.refused \/ known)
    <3>1. acked' = [acked EXCEPT ![s] = acked[s] \cup {f}]
      BY <1>3, <2>2 DEF Commit
    <3>2. QED BY <2>2, <3>1
  <2>3. QED BY <2>1, <2>2
<1>9. PICK N : N = {f}
  OBVIOUS
<1>10. /\ Noted(written[s], acked[s], N, received[s], finished[s], r2, F2)
       /\ Delivers(written[s], consumed[s], Ordered(s).retained, N, d)
       /\ B \subseteq IF d.refused THEN acked[s] ELSE acked[s] \cup N
  BY <1>6, <1>7, <1>8, <1>9
<1>11. adapter = "client" => \A g \in N : g.fin => accepted /\ f.fin
  BY <1>2, <1>9
<1>12. Receives(s, f, accepted, d, N, r2, F2, B)
  BY <1>3, <1>5, <1>7, <1>8, <1>10, <1>11 DEF Receives
<1>13. QED BY <1>4, <1>12, DeliveryKeeps

\* A client that has a slot for every stream has one for this stream.
LEMMA ClientHasSlot ==
  ASSUME StreamsInv, NEW s \in Streams, adapter = "client"
  PROVE  HasSlot(s)
<1>1. SUFFICES ASSUME s \notin DOMAIN ordered
               PROVE  Cardinality(DOMAIN ordered) < MaxPending["client"]
  BY DEF HasSlot
<1>2. IsFiniteSet(Streams)
  BY StreamAssumption
<1>3. DOMAIN ordered \in SUBSET Streams
  BY DEF StreamsInv, Values
<1>4. IsFiniteSet(DOMAIN ordered) /\ Cardinality(DOMAIN ordered) <= Cardinality(Streams)
      /\ (Cardinality(DOMAIN ordered) = Cardinality(Streams) => DOMAIN ordered = Streams)
  BY <1>2, <1>3, FS_Subset
<1>5. Cardinality(DOMAIN ordered) \in Nat /\ Cardinality(Streams) \in Nat
  BY <1>2, <1>4, FS_CardinalityType
<1>6. Cardinality(Streams) <= MaxPending["client"] /\ MaxPending["client"] \in Nat
  BY StreamAssumption DEF StreamsInv, ClientServed
<1>7. QED BY <1>1, <1>4, <1>5, <1>6

\* A frame that a client delivers.
LEMMA ClientReceiveKeeps ==
  ASSUME StreamsInv, NEW s \in Streams, NEW f \in written[s], adapter = "client",
         NEW room \in Nat, NEW memory \in BOOLEAN, ClientReceive(s, f, room, memory)
  PROVE  StreamsInv' /\ Forward(s)
<1>1. PICK d : d = Try(s, f, room, memory)
  OBVIOUS
<1>2. PICK accepted \in BOOLEAN : accepted = TRUE
  OBVIOUS
<1>3. /\ s \notin retired /\ HasSlot(s)
      /\ Account(s, f, accepted, d.took)
      /\ Apply(s, d)
      /\ IF d.refused THEN UNCHANGED acked ELSE Commit(s, f)
      /\ UNCHANGED <<adapter, written, unacked>>
  <2>1. HasSlot(s)
    BY ClientHasSlot
  <2>2. QED BY <1>1, <1>2, <2>1 DEF ClientReceive
<1>4. Open(s)
  BY <1>3, WhichState
<1>5. PICK r2, F2 :
        /\ r2 = (IF accepted /\ EndOf(f) > received[s] THEN EndOf(f) ELSE received[s])
        /\ F2 = (finished[s] \/ (accepted /\ f.fin))
  OBVIOUS
<1>6. Noted(written[s], acked[s], {f}, received[s], finished[s], r2, F2)
  BY <1>2, <1>5, ArrivalNoted
<1>7. Delivers(written[s], consumed[s], Ordered(s).retained, {f}, d) /\ d.stored <= Available
  BY <1>1, <1>4, TryDelivers
<1>8. PICK B : /\ acked' = [acked EXCEPT ![s] = B]
               /\ acked[s] \subseteq B
               /\ B \subseteq IF d.refused THEN acked[s] ELSE acked[s] \cup {f}
  <2>1. CASE d.refused
    <3>1. acked' = [acked EXCEPT ![s] = acked[s]]
      BY <1>3, <2>1 DEF StreamsInv, Values
    <3>2. QED BY <3>1
  <2>2. CASE ~d.refused
    <3>1. acked' = [acked EXCEPT ![s] = acked[s] \cup {f}]
      BY <1>3, <2>2 DEF Commit
    <3>2. QED BY <2>2, <3>1
  <2>3. QED BY <2>1, <2>2
<1>9. PICK N : N = {f}
  OBVIOUS
<1>10. /\ Noted(written[s], acked[s], N, received[s], finished[s], r2, F2)
       /\ Delivers(written[s], consumed[s], Ordered(s).retained, N, d)
       /\ B \subseteq IF d.refused THEN acked[s] ELSE acked[s] \cup N
  BY <1>6, <1>7, <1>8, <1>9
<1>11. adapter = "client" => \A g \in N : g.fin => accepted /\ f.fin
  BY <1>2, <1>9
<1>12. Receives(s, f, accepted, d, N, r2, F2, B)
  BY <1>3, <1>5, <1>7, <1>8, <1>10, <1>11 DEF Receives
<1>13. QED BY <1>4, <1>12, DeliveryKeeps

\* The application resumes a stream: no frame is new, and no account moves.
LEMMA ResumeKeeps ==
  ASSUME StreamsInv, NEW s \in Streams, NEW room \in Nat, ResumeStream(s, room)
  PROVE  StreamsInv' /\ Forward(s)
<1> DEFINE none == [offset |-> 0, len |-> 0, fin |-> FALSE]
<1>1. PICK d : d = Resume(ordered[s], room)
  OBVIOUS
<1>2. PICK f, accepted : f = none /\ accepted = FALSE
  OBVIOUS
<1>3. /\ s \in DOMAIN ordered
      /\ Account(s, f, accepted, d.took)
      /\ Apply(s, d)
      /\ UNCHANGED <<adapter, written, unacked, acked>>
  BY <1>1, <1>2 DEF ResumeStream
<1>4. Open(s) /\ Ordered(s) = ordered[s]
  BY <1>3, WhichState DEF Ordered
<1>5. PICK N : N = {}
  OBVIOUS
<1>6. PICK r2, F2 : r2 = received[s] /\ F2 = finished[s]
  OBVIOUS
<1>7. /\ r2 = (IF accepted /\ EndOf(f) > received[s] THEN EndOf(f) ELSE received[s])
      /\ F2 = (finished[s] \/ (accepted /\ f.fin))
  <2>1. finished[s] \in BOOLEAN
    BY DEF StreamsInv, Values
  <2>2. QED BY <1>2, <1>6, <2>1
<1>8. Noted(written[s], acked[s], N, received[s], finished[s], r2, F2)
  BY <1>5, <1>6 DEF Noted, StreamsInv, Values
<1>9. Delivers(written[s], consumed[s], Ordered(s).retained, N, d)
  <2>1. PICK o : o = Ordered(s)
    OBVIOUS
  <2>2. PICK R : R = Ordered(s).retained
    OBVIOUS
  <2>3. o = [consumed |-> consumed[s], retained |-> R] /\ StreamForm(written[s], consumed[s], R)
    BY <1>4, <2>1, <2>2, OrderedRecord
  <2>4. d = Resume(o, room) /\ N \in SUBSET written[s] /\ \A g \in N : NothingNew(consumed[s], R, g)
    BY <1>1, <1>4, <1>5, <2>1
  <2>5. Delivers(written[s], consumed[s], R, N, d)
    BY <2>3, <2>4, ResumeDelivers
  <2>6. QED BY <2>2, <2>5
<1>10. PICK B : B = acked[s]
  OBVIOUS
<1>11. /\ acked' = [acked EXCEPT ![s] = B]
       /\ acked[s] \subseteq B /\ B \subseteq IF d.refused THEN acked[s] ELSE acked[s] \cup N
  BY <1>3, <1>10 DEF StreamsInv, Values
<1>12. HasSlot(s) /\ d.stored <= Available
  <2>1. d.stored = 0
    BY <1>1 DEF Resume, Outcome
  <2>2. retainedBytes \in Int /\ RetentionLimit \in Nat
    BY StreamAssumption DEF StreamsInv, Values
  <2>3. QED BY <1>3, <2>1, <2>2 DEF HasSlot, Available
<1>13. Receives(s, f, accepted, d, N, r2, F2, B)
  BY <1>3, <1>5, <1>7, <1>8, <1>9, <1>11, <1>12 DEF Receives
<1>14. accepted \in BOOLEAN
  BY <1>2
<1>15. QED BY <1>4, <1>13, <1>14, DeliveryKeeps

\* A late frame of a stream that is over changes nothing but what is
\* acknowledged.
LateArrival(s, f) ==
  /\ received' = received /\ consumed' = consumed /\ finished' = finished
  /\ total' = total /\ retired \subseteq retired' /\ retired' \subseteq retired \cup {s}
  /\ acked' = [acked EXCEPT ![s] = @ \cup {f}]
  /\ UNCHANGED <<adapter, written, unacked, delivery>>

\* Nothing is written, given or retained.
Still == UNCHANGED <<adapter, written, consumed, total, delivery>>

LEMMA LateKeeps ==
  ASSUME StreamsInv, NEW s \in Streams, NEW f \in written[s], Over(s), LateArrival(s, f)
  PROVE  StreamsInv' /\ Still
<1>1. /\ received' = received /\ consumed' = consumed /\ finished' = finished
      /\ total' = total /\ retired \subseteq retired' /\ retired' \subseteq retired \cup {s}
      /\ acked' = [acked EXCEPT ![s] = @ \cup {f}]
      /\ adapter' = adapter /\ written' = written /\ unacked' = unacked
      /\ ordered' = ordered /\ retainedBytes' = retainedBytes /\ delivered' = delivered
  BY DEF LateArrival, delivery
<1>2. Values /\ ClientServed /\ \A t \in Streams : StreamInv(t)
  BY DEF StreamsInv
<1>3. ASSUME NEW t \in Streams, t # s PROVE StreamInv(t)'
  <2>1. Untouched(t)
    BY <1>1, <1>2, <1>3 DEF Untouched, Values
  <2>2. QED BY <1>1, <1>2, <2>1, UntouchedKeeps
<1>4. StreamInv(s)'
  <2>1. PICK W, n, A, r, F : /\ W = written[s] /\ n = SizeOf(written[s]) /\ A = acked[s]
                             /\ r = received[s] /\ F = finished[s]
    OBVIOUS
  <2>2. Sound(W, n, A, r, F) /\ r = n /\ F
    BY <1>2, <2>1 DEF StreamInv, Over
  <2>3. \A g \in W : EndOf(g) <= n
    BY <2>2, SoundFacts
  <2>4. PICK B : B = A \cup {f}
    OBVIOUS
  <2>5. Sound(W, n, B, r, F)
    <3>1. B \in SUBSET W /\ \A g \in B : EndOf(g) <= r /\ (g.fin => F)
      BY <2>1, <2>2, <2>3, <2>4 DEF Sound
    <3>2. QED BY <2>2, <3>1 DEF Sound
  <2>6. /\ written'[s] = W /\ SizeOf(written'[s]) = n /\ acked'[s] = B
        /\ received'[s] = r /\ finished'[s] = F
    BY <1>1, <1>2, <2>1, <2>4 DEF Values
  <2>7. Over(s)'
    BY <1>1, <1>2 DEF Over
  <2>8. QED BY <2>5, <2>6, <2>7 DEF StreamInv
<1>5. Values'
  <2>1. written[s] \in SUBSET Frames
    BY <1>2 DEF Values
  <2>2. acked' \in [Streams -> SUBSET Frames] /\ retired' \in SUBSET Streams
    BY <1>1, <1>2, <2>1 DEF Values
  <2>3. QED BY <1>1, <1>2, <2>2 DEF Values
<1>6. ClientServed'
  BY <1>1, <1>2 DEF ClientServed
<1>7. Still
  BY <1>1 DEF Still, delivery
<1>8. QED BY <1>3, <1>4, <1>5, <1>6, <1>7 DEF StreamsInv

\* A server acknowledges a late frame; the account it changes was complete.
LEMMA ServerLateKeeps ==
  ASSUME StreamsInv, NEW s \in Streams, NEW f \in written[s], ServerReceiveLate(s, f)
  PROVE  StreamsInv' /\ Still
<1>1. Over(s)
  BY WhichState DEF ServerReceiveLate
<1>2. PICK accepted \in BOOLEAN : accepted = (s \notin retired)
  OBVIOUS
<1>3. /\ Account(s, f, accepted, 0) /\ Commit(s, f)
      /\ UNCHANGED <<adapter, written, unacked, delivery>>
  BY <1>2 DEF ServerReceiveLate
<1>4. Sound(written[s], SizeOf(written[s]), acked[s], received[s], finished[s])
  BY DEF StreamsInv, StreamInv
<1>5. /\ received[s] \in Nat /\ consumed[s] = received[s] /\ finished[s] = TRUE
      /\ EndOf(f) \in Nat /\ EndOf(f) <= received[s]
  <2>1. EndOf(f) \in Nat /\ EndOf(f) <= SizeOf(written[s])
    BY <1>4, SoundFacts
  <2>2. QED BY <1>1, <2>1 DEF Over, StreamsInv, Values
<1>6. received' = received /\ consumed' = consumed /\ total' = total
  <2>1. (IF accepted /\ EndOf(f) > received[s] THEN EndOf(f) ELSE received[s]) = received[s]
    BY <1>5
  <2>2. (IF consumed[s] + 0 < received[s] THEN consumed[s] + 0 ELSE received[s]) = consumed[s]
    BY <1>5
  <2>3. received' = [received EXCEPT ![s] = received[s]]
    BY <1>3, <2>1 DEF Account
  <2>4. consumed' = [consumed EXCEPT ![s] = consumed[s]]
    BY <1>3, <2>1, <2>2 DEF Account
  <2>5. total' = total + 0
    BY <1>3 DEF Account
  <2>6. QED BY <2>3, <2>4, <2>5 DEF StreamsInv, Values
<1>7. finished' = finished
  <2>1. finished' = [finished EXCEPT ![s] = finished[s]]
    BY <1>3, <1>5 DEF Account
  <2>2. QED BY <2>1 DEF StreamsInv, Values
<1>8. retired \subseteq retired' /\ retired' \subseteq retired \cup {s}
  BY <1>3 DEF Account
<1>9. LateArrival(s, f)
  BY <1>3, <1>6, <1>7, <1>8 DEF LateArrival, Commit
<1>10. QED BY <1>1, <1>9, LateKeeps

LEMMA ClientLateKeeps ==
  ASSUME StreamsInv, NEW s \in Streams, NEW f \in written[s], ClientReceiveLate(s, f)
  PROVE  StreamsInv' /\ Still
<1>1. Over(s)
  BY WhichState DEF ClientReceiveLate
<1>2. LateArrival(s, f)
  BY DEF ClientReceiveLate, LateArrival, Commit, endpoint
<1>3. QED BY <1>1, <1>2, LateKeeps

\* The own half is acknowledged: only a stream that is over is retired.
LEMMA AckLocalKeeps ==
  ASSUME StreamsInv, NEW s \in Streams, NEW A \in SUBSET unacked[s], AckLocal(s, A)
  PROVE  StreamsInv' /\ Still
<1>1. /\ unacked' = [unacked EXCEPT ![s] = @ \ A]
      /\ retired' = IF /\ "fin" \in A /\ unacked[s] \ A = {}
                       /\ Complete(s, received[s], consumed[s], finished[s])
                      THEN retired \cup {s} ELSE retired
      /\ adapter' = adapter /\ written' = written /\ received' = received
      /\ consumed' = consumed /\ finished' = finished /\ total' = total /\ acked' = acked
      /\ ordered' = ordered /\ retainedBytes' = retainedBytes /\ delivered' = delivered
  BY DEF AckLocal, delivery
<1>2. Values /\ ClientServed /\ \A t \in Streams : StreamInv(t)
  BY DEF StreamsInv
<1>3. ASSUME NEW t \in Streams PROVE StreamInv(t)'
  <2>1. CASE t \in retired' <=> t \in retired
    <3>1. Untouched(t)
      BY <1>1, <2>1 DEF Untouched
    <3>2. QED BY <1>1, <1>2, <3>1, UntouchedKeeps
  <2>2. CASE ~(t \in retired' <=> t \in retired)
    <3>1. t = s /\ t \in retired' /\ Complete(s, received[s], consumed[s], finished[s])
      BY <1>1, <2>2
    <3>2. Over(t)
      BY <3>1, WhichState
    <3>3. Over(t)'
      BY <1>1, <3>1, <3>2 DEF Over
    <3>4. QED BY <1>1, <1>2, <3>3 DEF StreamInv
  <2>3. QED BY <2>1, <2>2
<1>4. Values'
  BY <1>1, <1>2 DEF Values
<1>5. ClientServed'
  <2>1. ASSUME NEW t \in Streams, unacked[t] = {} PROVE unacked'[t] = {}
    BY <1>1, <1>2, <2>1 DEF Values
  <2>2. QED BY <1>1, <1>2, <2>1 DEF ClientServed
<1>6. Still
  BY <1>1 DEF Still, delivery
<1>7. QED BY <1>3, <1>4, <1>5, <1>6 DEF StreamsInv

\* The peer writes to a stream that it has not closed, so it is not over.
LEMMA WriteStepKeeps ==
  ASSUME StreamsInv, NEW s \in Streams, NEW k \in Nat, NEW fin \in BOOLEAN, Write(s, k, fin)
  PROVE  StreamsInv' /\ SizeOf(written'[s]) = SizeOf(written[s]) + k
<1> DEFINE W == written[s]
           n == SizeOf(written[s])
           new == [offset |-> n, len |-> k, fin |-> fin]
<1>1. /\ \A f \in W : ~f.fin
      /\ k > 0 \/ fin
      /\ written' = [written EXCEPT ![s] = W \cup {new}]
      /\ adapter' = adapter /\ received' = received /\ unacked' = unacked /\ retired' = retired
      /\ consumed' = consumed /\ finished' = finished /\ total' = total /\ acked' = acked
      /\ ordered' = ordered /\ retainedBytes' = retainedBytes /\ delivered' = delivered
  BY DEF Write, Closed, Size, SizeOf, delivery, endpoint
<1>2. Values /\ ClientServed /\ \A t \in Streams : StreamInv(t)
  BY DEF StreamsInv
<1>3. Sound(W, n, acked[s], received[s], finished[s])
  BY <1>2 DEF StreamInv
<1>4. n \in Nat
  BY <1>3, SoundFacts
<1>5. PICK V : V = W \cup {new}
  OBVIOUS
<1>6. written'[s] = V /\ \A t \in Streams \ {s} : written'[t] = written[t]
  BY <1>1, <1>2, <1>5 DEF Values
<1>7. PICK g : g = new
  OBVIOUS
<1>8. g = [offset |-> n, len |-> k, fin |-> fin] /\ V = W \cup {g} /\ g \in Frames
  BY <1>4, <1>5, <1>7 DEF Frames
<1> HIDE DEF W, n, new
<1>9. /\ Sound(V, n + k, acked[s], received[s], finished[s])
      /\ \A c, R : Going(W, acked[s], received[s], finished[s], c, R)
                     => Going(V, acked[s], received[s], finished[s], c, R)
  BY <1>1, <1>3, <1>8, WriteKeeps
<1>10. SizeOf(V) = n + k
  BY <1>9, SizeFacts DEF Sound
<1>11. Open(s)
  <2>1. ~Over(s)
    BY <1>1, <1>3 DEF Over, Sound
  <2>2. QED BY <1>2, <2>1 DEF StreamInv
<1>12. Open(s)'
  <2>1. Ordered(s)' = Ordered(s)
    BY <1>1 DEF Ordered
  <2>2. Going(W, acked[s], received[s], finished[s], consumed[s], Ordered(s).retained)
    BY <1>11 DEF Open, W
  <2>3. Going(V, acked[s], received[s], finished[s], consumed[s], Ordered(s).retained)
    BY <1>9, <2>2
  <2>4. QED BY <1>1, <1>6, <1>11, <2>1, <2>3 DEF Open
<1>13. StreamInv(s)'
  BY <1>1, <1>6, <1>9, <1>10, <1>12 DEF StreamInv
<1>14. ASSUME NEW t \in Streams, t # s PROVE StreamInv(t)'
  <2>1. Untouched(t)
    BY <1>1, <1>6, <1>14 DEF Untouched
  <2>2. QED BY <1>1, <1>2, <2>1, UntouchedKeeps
<1>15. Values'
  <2>1. V \in SUBSET Frames
    BY <1>2, <1>8 DEF Values, W
  <2>2. written' \in [Streams -> SUBSET Frames]
    BY <1>1, <1>2, <1>5, <2>1 DEF Values
  <2>3. QED BY <1>1, <1>2, <2>2 DEF Values
<1>16. ClientServed'
  BY <1>1, <1>2 DEF ClientServed
<1>17. SizeOf(written'[s]) = n + k
  BY <1>6, <1>10
<1>18. QED BY <1>13, <1>14, <1>15, <1>16, <1>17 DEF StreamsInv, n

-----------------------------------------------------------------------------
(* Bytes of all streams.                                                   *)

LEMMA AllBytesMember ==
  ASSUME NEW P, DOMAIN P = Streams, NEW p
  PROVE  p \in AllBytes(P) <=> \E t \in Streams : \E b \in P[t] : p = <<t, b>>
  BY DEF AllBytes

LEMMA AllBytesFinite ==
  ASSUME NEW P, DOMAIN P = Streams, NEW m \in Nat, \A t \in Streams : P[t] \subseteq 0 .. m
  PROVE  IsFiniteSet(AllBytes(P)) /\ Cardinality(AllBytes(P)) \in Nat
<1>1. IsFiniteSet(Streams) /\ IsFiniteSet(0 .. m)
  BY StreamAssumption, FS_Interval
<1>2. IsFiniteSet(Streams \X (0 .. m))
  BY <1>1, FS_Product
<1>3. AllBytes(P) \subseteq Streams \X (0 .. m)
  <2>1. ASSUME NEW p \in AllBytes(P) PROVE p \in Streams \X (0 .. m)
    <3>1. PICK t \in Streams : \E b \in P[t] : p = <<t, b>>
      BY AllBytesMember
    <3>2. PICK b \in P[t] : p = <<t, b>>
      BY <3>1
    <3>3. QED BY <3>2
  <2>2. QED BY <2>1
<1>4. QED BY <1>2, <1>3, FS_Subset, FS_CardinalityType

\* The bytes of one stream, as bytes of all.
LEMMA OneStream ==
  ASSUME NEW s, NEW S, IsFiniteSet(S)
  PROVE  /\ IsFiniteSet({s} \X S) /\ Cardinality({s} \X S) = Cardinality(S)
         /\ Cardinality(S) \in Nat
<1>1. IsFiniteSet({s}) /\ Cardinality({s}) = 1
  BY FS_Singleton
<1>2. IsFiniteSet({s} \X S) /\ Cardinality({s} \X S) = 1 * Cardinality(S)
  BY <1>1, FS_Product
<1>3. Cardinality(S) \in Nat
  BY FS_CardinalityType
<1>4. QED BY <1>2, <1>3

LEMMA DisjointUnion ==
  ASSUME NEW S, NEW T, IsFiniteSet(S), IsFiniteSet(T), S \cap T = {}
  PROVE  /\ IsFiniteSet(S \cup T) /\ Cardinality(S \cup T) \in Nat
         /\ Cardinality(S) \in Nat /\ Cardinality(T) \in Nat
         /\ Cardinality(S \cup T) = Cardinality(S) + Cardinality(T)
<1>1. /\ IsFiniteSet(S \cup T)
      /\ Cardinality(S \cup T) = Cardinality(S) + Cardinality(T) - Cardinality(S \cap T)
  BY FS_Union
<1>2. Cardinality(S \cap T) = 0
  BY FS_EmptySet
<1>3. Cardinality(S) \in Nat /\ Cardinality(T) \in Nat /\ Cardinality(S \cup T) \in Nat
  BY <1>1, FS_CardinalityType
<1>4. QED BY <1>1, <1>2, <1>3

\* When one stream changes, the number changes by as much.
LEMMA AllBytesChange ==
  ASSUME NEW P, DOMAIN P = Streams, NEW Q, DOMAIN Q = Streams,
         NEW m \in Nat, \A t \in Streams : P[t] \subseteq 0 .. m /\ Q[t] \subseteq 0 .. m,
         NEW s \in Streams, \A t \in Streams \ {s} : Q[t] = P[t]
  PROVE  /\ Cardinality(AllBytes(P)) \in Nat /\ Cardinality(AllBytes(Q)) \in Nat
         /\ Cardinality(P[s]) \in Nat /\ Cardinality(Q[s]) \in Nat
         /\ Cardinality(AllBytes(Q)) = Cardinality(AllBytes(P)) + Cardinality(Q[s]) - Cardinality(P[s])
<1> DEFINE Rest == {p \in AllBytes(P) : p[1] # s}
           HereP == {s} \X P[s]
           HereQ == {s} \X Q[s]
<1>1. /\ IsFiniteSet(AllBytes(P)) /\ Cardinality(AllBytes(P)) \in Nat
      /\ IsFiniteSet(AllBytes(Q)) /\ Cardinality(AllBytes(Q)) \in Nat
  BY AllBytesFinite
<1>2. IsFiniteSet(P[s]) /\ IsFiniteSet(Q[s])
  <2>1. IsFiniteSet(0 .. m)
    BY FS_Interval
  <2>2. QED BY <2>1, FS_Subset
<1>3. /\ IsFiniteSet(HereP) /\ Cardinality(HereP) = Cardinality(P[s]) /\ Cardinality(P[s]) \in Nat
      /\ IsFiniteSet(HereQ) /\ Cardinality(HereQ) = Cardinality(Q[s]) /\ Cardinality(Q[s]) \in Nat
  BY <1>2, OneStream
<1>4. AllBytes(P) = Rest \cup HereP
  <2>1. ASSUME NEW p \in AllBytes(P) PROVE p \in Rest \/ p \in HereP
    <3>1. PICK t \in Streams : \E b \in P[t] : p = <<t, b>>
      BY AllBytesMember
    <3>2. PICK b \in P[t] : p = <<t, b>>
      BY <3>1
    <3>3. QED BY <3>2
  <2>2. ASSUME NEW p \in HereP PROVE p \in AllBytes(P)
    <3>1. PICK b \in P[s] : p = <<s, b>>
      OBVIOUS
    <3>2. QED BY <3>1, AllBytesMember
  <2>3. QED BY <2>1, <2>2
<1>5. AllBytes(Q) = Rest \cup HereQ
  <2>1. ASSUME NEW p \in AllBytes(Q) PROVE p \in Rest \/ p \in HereQ
    <3>1. PICK t \in Streams : \E b \in Q[t] : p = <<t, b>>
      BY AllBytesMember
    <3>2. PICK b \in Q[t] : p = <<t, b>>
      BY <3>1
    <3>3. CASE t = s
      BY <3>2, <3>3
    <3>4. CASE t # s
      <4>1. b \in P[t] /\ p[1] # s
        BY <3>2, <3>4
      <4>2. p \in AllBytes(P)
        BY <3>2, <4>1, AllBytesMember
      <4>3. QED BY <4>1, <4>2
    <3>5. QED BY <3>3, <3>4
  <2>2. ASSUME NEW p \in HereQ PROVE p \in AllBytes(Q)
    <3>1. PICK b \in Q[s] : p = <<s, b>>
      OBVIOUS
    <3>2. QED BY <3>1, AllBytesMember
  <2>3. ASSUME NEW p \in Rest PROVE p \in AllBytes(Q)
    <3>1. PICK t \in Streams : \E b \in P[t] : p = <<t, b>>
      BY AllBytesMember
    <3>2. PICK b \in P[t] : p = <<t, b>>
      BY <3>1
    <3>3. t # s
      BY <3>2
    <3>4. b \in Q[t]
      BY <3>2, <3>3
    <3>5. QED BY <3>2, <3>4, AllBytesMember
  <2>4. QED BY <2>1, <2>2, <2>3
<1>6. IsFiniteSet(Rest) /\ Cardinality(Rest) \in Nat
  <2>1. Rest \subseteq AllBytes(P)
    OBVIOUS
  <2>2. QED BY <1>1, <2>1, FS_Subset, FS_CardinalityType
<1>7. Rest \cap HereP = {} /\ Rest \cap HereQ = {}
  OBVIOUS
<1> HIDE DEF Rest, HereP, HereQ
<1>8. Cardinality(AllBytes(P)) = Cardinality(Rest) + Cardinality(HereP)
  BY <1>3, <1>4, <1>6, <1>7, DisjointUnion
<1>9. Cardinality(AllBytes(Q)) = Cardinality(Rest) + Cardinality(HereQ)
  BY <1>3, <1>5, <1>6, <1>7, DisjointUnion
<1>10. QED BY <1>1, <1>3, <1>6, <1>8, <1>9

-----------------------------------------------------------------------------
(* The theorems.                                                           *)

\* A server, or a client that answers nothing on its streams and has a slot
\* for each of them.
Served ==
  adapter = "client" => "client" \notin HalfOpen /\ Cardinality(Streams) <= MaxPending["client"]

\* Nothing was written to a stream and nothing is known of it.
LEMMA NothingYet ==
  /\ Sound({}, SizeOf({}), {}, 0, FALSE) /\ SizeOf({}) = 0
  /\ Going({}, {}, 0, FALSE, 0, {})
  /\ <<>> = Reliable!Whole(0, FALSE)
<1>1. Covers({}, 0)
  BY DEF Covers
<1>2. SizeOf({}) = 0
  BY <1>1, SizeFacts
<1>3. InOrder({})
  BY DEF InOrder
<1>4. Sound({}, 0, {}, 0, FALSE)
  BY <1>1, <1>3 DEF Sound
<1>5. Going({}, {}, 0, FALSE, 0, {})
  BY DEF Going, Waiting
<1>6. <<>> = Reliable!Whole(0, FALSE)
  <2>1. FALSE \in BOOLEAN /\ 0 \in Nat
    OBVIOUS
  <2>2. Reliable!Whole(0, FALSE) \in Seq(Int) /\ Len(Reliable!Whole(0, FALSE)) = 0
    BY <2>1, WholeFacts
  <2>3. QED BY <2>2, EmptySeq
<1>7. QED BY <1>2, <1>4, <1>5, <1>6

LEMMA StreamsInvInit == Init /\ Served => StreamsInv
<1> SUFFICES ASSUME Init, Served PROVE StreamsInv
  OBVIOUS
<1>1. DOMAIN ordered = {} /\ \A s \in Streams : Ordered(s) = NewStream
  BY DEF Init, Ordered
<1>2. ASSUME NEW s \in Streams PROVE StreamInv(s)
  <2>1. /\ written[s] = {} /\ acked[s] = {} /\ received[s] = 0 /\ finished[s] = FALSE
        /\ consumed[s] = 0 /\ delivered[s] = <<>> /\ s \notin retired
        /\ Ordered(s).consumed = 0 /\ Ordered(s).retained = {}
    BY <1>1 DEF Init, NewStream
  <2>2. Open(s)
    BY <2>1, NothingYet DEF Open
  <2>3. QED BY <2>1, <2>2, NothingYet DEF StreamInv
<1>3. Values
  <2>1. unacked \in [Streams -> SUBSET {"data", "fin"}]
    BY DEF Init
  <2>2. delivered \in [Streams -> Seq(Int)]
    <3>1. <<>> \in Seq(Int)
      OBVIOUS
    <3>2. QED BY <3>1 DEF Init
  <2>3. QED BY <1>1, <2>1, <2>2 DEF Init, Values
<1>4. ClientServed
  BY DEF Init, Served, ClientServed
<1>5. QED BY <1>2, <1>3, <1>4 DEF StreamsInv

LEMMA ArriveKeeps ==
  ASSUME StreamsInv, NEW s \in Streams, NEW f \in written[s], Arrive(s, f)
  PROVE  StreamsInv' /\ (Still \/ Forward(s))
<1>1. 0 .. Length \subseteq Nat
  BY StreamAssumption
<1>2. CASE /\ adapter = "server"
           /\ \E known \in {b \in BOOLEAN : b => f \in acked[s]}, room \in 0 .. Length,
                 memory \in BOOLEAN : ServerReceive(s, f, known, room, memory)
  <2>1. PICK known \in {b \in BOOLEAN : b => f \in acked[s]}, room \in 0 .. Length,
             memory \in BOOLEAN : ServerReceive(s, f, known, room, memory)
    BY <1>2
  <2>2. known \in BOOLEAN /\ (known => f \in acked[s]) /\ room \in Nat
    BY <1>1
  <2>3. QED BY <1>2, <2>1, <2>2, ServerReceiveKeeps
<1>3. CASE adapter = "server" /\ ServerReceiveLate(s, f)
  BY <1>3, ServerLateKeeps
<1>4. CASE /\ adapter = "client"
           /\ \E room \in 0 .. Length, memory \in BOOLEAN : ClientReceive(s, f, room, memory)
  BY <1>1, <1>4, ClientReceiveKeeps
<1>5. CASE adapter = "client" /\ ClientReceiveLate(s, f)
  BY <1>5, ClientLateKeeps
<1>6. QED BY <1>2, <1>3, <1>4, <1>5 DEF Arrive

\* What a step is for the streams: nothing, a delivery or a write.
StepKinds ==
  \/ Still
  \/ \E s \in Streams : Forward(s)
  \/ \E s \in Streams, k \in Nat, fin \in BOOLEAN : Write(s, k, fin)

LEMMA StreamsInvStep == StreamsInv /\ [Next]_vars => StreamsInv' /\ StepKinds
<1> SUFFICES ASSUME StreamsInv, [Next]_vars PROVE StreamsInv' /\ StepKinds
  OBVIOUS
<1>1. 0 .. Chunk \subseteq Nat /\ 1 .. Length \subseteq Nat
  BY StreamAssumption
<1>2. ASSUME NEW s \in Streams, NEW n \in 0 .. Chunk, NEW fin \in BOOLEAN, Write(s, n, fin)
      PROVE  StreamsInv' /\ StepKinds
  BY <1>1, <1>2, WriteStepKeeps DEF StepKinds
<1>3. ASSUME NEW s \in Streams, NEW A \in SUBSET unacked[s], AckLocal(s, A)
      PROVE  StreamsInv' /\ StepKinds
  BY <1>3, AckLocalKeeps DEF StepKinds
<1>4. ASSUME NEW s \in Streams, NEW f \in written[s], Arrive(s, f)
      PROVE  StreamsInv' /\ StepKinds
  BY <1>4, ArriveKeeps DEF StepKinds
<1>5. ASSUME NEW s \in Streams, NEW room \in 1 .. Length, ResumeStream(s, room)
      PROVE  StreamsInv' /\ StepKinds
  BY <1>1, <1>5, ResumeKeeps DEF StepKinds
<1>6. CASE UNCHANGED vars
  <2>1. /\ adapter' = adapter /\ written' = written /\ received' = received /\ total' = total
        /\ consumed' = consumed /\ finished' = finished /\ acked' = acked /\ retired' = retired
        /\ ordered' = ordered /\ retainedBytes' = retainedBytes /\ delivered' = delivered
        /\ unacked' = unacked
    BY <1>6 DEF vars, endpoint, delivery
  <2>2. ASSUME NEW t \in Streams PROVE StreamInv(t)'
    <3>1. Untouched(t) /\ StreamInv(t)
      BY <2>1 DEF Untouched, StreamsInv
    <3>2. QED BY <2>1, <3>1, UntouchedKeeps
  <2>3. Values' /\ ClientServed'
    BY <2>1 DEF StreamsInv, Values, ClientServed
  <2>4. StepKinds
    BY <2>1 DEF StepKinds, Still, delivery
  <2>5. QED BY <2>2, <2>3, <2>4 DEF StreamsInv
<1>7. CASE Next
  BY <1>2, <1>3, <1>4, <1>5, <1>7 DEF Next
<1>8. QED BY <1>6, <1>7

LEMMA StreamsInvHolds == Spec /\ Served => []StreamsInv
  BY StreamsInvInit, StreamsInvStep, PTL DEF Spec

\* What the histories say of a stream that was given Whole(n, end).
LEMMA GivenFacts ==
  ASSUME NEW s, NEW n \in Nat, NEW end \in BOOLEAN, delivered[s] = Reliable!Whole(n, end)
  PROVE  Given(s) = n /\ (Ended(s) <=> end)
<1> DEFINE D == delivered[s]
<1>1. /\ D \in Seq(Int) /\ Len(D) = IF end THEN n + 1 ELSE n
      /\ \A i \in 1 .. n : D[i] = i - 1
      /\ end => D[n + 1] = -1
  BY WholeFacts
<1>2. DOMAIN D = 1 .. Len(D)
  BY <1>1
<1> HIDE DEF D
<1>3. CASE end = TRUE
  <2>1. Len(D) = n + 1 /\ D[n + 1] = -1
    BY <1>1, <1>3
  <2>2. {i \in DOMAIN D : D[i] # -1} = 1 .. n
    BY <1>1, <1>2, <2>1
  <2>3. \E i \in DOMAIN D : D[i] = -1
    BY <1>2, <2>1
  <2>4. Cardinality(1 .. n) = n
    BY FS_Interval
  <2>5. QED BY <1>3, <2>2, <2>3, <2>4 DEF Given, Ended, D
<1>4. CASE end = FALSE
  <2>1. Len(D) = n
    BY <1>1, <1>4
  <2>2. {i \in DOMAIN D : D[i] # -1} = 1 .. n
    BY <1>1, <1>2, <2>1
  <2>3. ~\E i \in DOMAIN D : D[i] = -1
    BY <1>1, <1>2, <2>1
  <2>4. Cardinality(1 .. n) = n
    BY FS_Interval
  <2>5. QED BY <1>4, <2>2, <2>3, <2>4 DEF Given, Ended, D
<1>5. QED BY <1>3, <1>4

LEMMA HeldWhenAcked == StreamsInv => AckedIsHeld
<1> SUFFICES ASSUME StreamsInv, NEW s \in Streams, NEW f \in acked[s]
             PROVE  \/ Ended(s)
                    \/ /\ \A b \in Bytes(f) : \/ b < Given(s)
                                              \/ \E i \in Ordered(s).retained : b \in Bytes(i)
                       /\ f.fin => \E i \in Ordered(s).retained : i.fin
  BY DEF AckedIsHeld
<1>1. Sound(written[s], SizeOf(written[s]), acked[s], received[s], finished[s])
  BY DEF StreamsInv, StreamInv
<1>2. SizeOf(written[s]) \in Nat /\ f \in written[s] /\ f \in Frames
  <2>1. f \in written[s]
    BY <1>1 DEF Sound
  <2>2. QED BY <1>1, <2>1, SoundFacts
<1>3. CASE Over(s)
  <2>1. TRUE \in BOOLEAN /\ delivered[s] = Reliable!Whole(SizeOf(written[s]), TRUE)
    BY <1>3 DEF Over
  <2>2. QED BY <1>2, <2>1, GivenFacts
<1>4. CASE Open(s)
  <2>1. PICK c, R : c = consumed[s] /\ R = Ordered(s).retained
    OBVIOUS
  <2>2. /\ c \in Nat
        /\ \A g \in acked[s] : c < EndOf(g) => After(g, c) \in R
        /\ \A g \in written[s] : g.fin /\ (g.len > 0 \/ finished[s]) => c < EndOf(g)
    BY <1>4, <2>1 DEF Open, Going
  <2>3. Given(s) = c
    <3>1. FALSE \in BOOLEAN /\ delivered[s] = Reliable!Whole(c, FALSE)
      BY <1>4, <2>1 DEF Open
    <3>2. QED BY <2>2, <3>1, GivenFacts
  <2>4. ASSUME NEW b \in Bytes(f), ~(b < c) PROVE \E i \in R : b \in Bytes(i)
    <3>1. b \in Nat /\ b < EndOf(f) /\ EndOf(f) \in Nat
      BY <1>2, ByteFacts
    <3>2. c < EndOf(f) /\ c <= EndOf(f) /\ b >= c
      BY <2>2, <2>4, <3>1
    <3>3. Bytes(After(f, c)) = {x \in Bytes(f) : x >= c}
      BY <1>2, <2>2, <3>2, AfterFacts
    <3>4. QED BY <2>2, <3>2, <3>3
  <2>5. ASSUME f.fin PROVE \E i \in R : i.fin
    <3>1. finished[s]
      BY <1>1, <2>5 DEF Sound
    <3>2. c < EndOf(f) /\ EndOf(f) \in Nat
      BY <1>2, <2>2, <2>5, <3>1, ByteFacts
    <3>3. c <= EndOf(f)
      BY <2>2, <3>2
    <3>4. After(f, c).fin = f.fin
      BY <1>2, <2>2, <3>3, AfterFacts
    <3>5. QED BY <2>2, <2>5, <3>2, <3>4
  <2>6. QED BY <2>1, <2>3, <2>4, <2>5
<1>5. QED BY <1>3, <1>4 DEF StreamsInv, StreamInv

\* No byte of an acknowledged packet is lost, whatever is reordered, copied,
\* refused or taken in parts (commit_stream_packet_receive after delivery).
THEOREM AckedIsHeldTheorem == Spec /\ Served => []AckedIsHeld
  BY StreamsInvHolds, HeldWhenAcked, PTL

\* The application is given no byte twice and one end at most.
THEOREM DeliveredOnceTheorem == Spec /\ Served => []DeliveredOnce
<1>1. StreamsInv => DeliveredOnce
  <2> SUFFICES ASSUME StreamsInv, NEW s \in Streams,
                      NEW i \in DOMAIN delivered[s], NEW j \in DOMAIN delivered[s], i # j
               PROVE  delivered[s][i] # delivered[s][j]
    BY DEF DeliveredOnce
  <2>1. consumed[s] \in Nat /\ SizeOf(written[s]) \in Nat
    BY SoundFacts DEF StreamsInv, StreamInv, Values
  <2>2. PICK n \in Nat, end \in BOOLEAN : delivered[s] = Reliable!Whole(n, end)
    BY <2>1 DEF StreamsInv, StreamInv, Open, Over
  <2>3. PICK D : D = Reliable!Whole(n, end)
    OBVIOUS
  <2>4. /\ D \in Seq(Int) /\ Len(D) = IF end THEN n + 1 ELSE n
        /\ \A k \in 1 .. n : D[k] = k - 1
        /\ end => D[n + 1] = -1
    BY <2>3, WholeFacts
  <2>5. DOMAIN D = 1 .. Len(D) /\ Len(D) \in Nat
    BY <2>4
  <2>6. \A k \in DOMAIN D : k \in 1 .. n \/ (k = n + 1 /\ end)
    BY <2>4, <2>5
  <2>7. i \in DOMAIN D /\ j \in DOMAIN D
    BY <2>2, <2>3
  <2>8. \A k \in 1 .. n : k \in Int /\ 1 <= k /\ k <= n /\ D[k] = k - 1
    BY <2>4
  <2>9. D[i] # D[j]
    <3>1. CASE i \in 1 .. n /\ j \in 1 .. n
      BY <2>8, <3>1
    <3>2. CASE i \in 1 .. n /\ j = n + 1 /\ end
      BY <2>4, <2>8, <3>2
    <3>3. CASE i = n + 1 /\ end /\ j \in 1 .. n
      BY <2>4, <2>8, <3>3
    <3>4. QED BY <2>6, <2>7, <3>1, <3>2, <3>3
  <2>10. QED BY <2>2, <2>3, <2>9
<1>2. QED BY <1>1, StreamsInvHolds, PTL

-----------------------------------------------------------------------------
(* Reliable streams.                                                       *)

\* What was given before is the beginning of all that will be given.
LEMMA WholeBegins ==
  ASSUME NEW n \in Nat, NEW end \in BOOLEAN, NEW m \in Nat, m <= n
  PROVE  Reliable!Whole(m, FALSE) = SubSeq(Reliable!Whole(n, end), 1, m)
<1> DEFINE w == Reliable!Whole(n, end)
           a == Reliable!Whole(m, FALSE)
<1>1. w \in Seq(Int) /\ Len(w) >= n /\ \A i \in 1 .. n : w[i] = i - 1
  BY WholeFacts
<1>2. a \in Seq(Int) /\ Len(a) = m /\ \A i \in 1 .. m : a[i] = i - 1
  BY WholeFacts
<1> HIDE DEF w, a
<1>3. PICK b : b = SubSeq(w, 1, m)
  OBVIOUS
<1>4. b \in Seq(Int) /\ Len(b) = m /\ \A i \in 1 .. m : b[i] = w[i]
  BY <1>1, <1>3
<1>5. ASSUME NEW i \in 1 .. Len(a) PROVE a[i] = b[i]
  <2>1. i \in 1 .. m /\ i \in 1 .. n
    BY <1>2
  <2>2. a[i] = i - 1 /\ b[i] = w[i] /\ w[i] = i - 1
    BY <1>1, <1>2, <1>4, <2>1
  <2>3. QED BY <2>2
<1>6. a = b
  BY <1>2, <1>4, <1>5, SeqEqual
<1>7. QED BY <1>3, <1>6 DEF w, a

LEMMA WholeIsAll ==
  ASSUME NEW n \in Nat, NEW end \in BOOLEAN, end = TRUE
  PROVE  Reliable!Whole(n, end) = SubSeq(Reliable!Whole(n, end), 1, n + 1)
<1> DEFINE w == Reliable!Whole(n, end)
<1>1. w \in Seq(Int) /\ Len(w) = n + 1
  BY WholeFacts
<1> HIDE DEF w
<1>2. PICK b : b = SubSeq(w, 1, n + 1)
  OBVIOUS
<1>3. b \in Seq(Int) /\ Len(b) = n + 1 /\ \A i \in 1 .. n + 1 : b[i] = w[i]
  BY <1>1, <1>2
<1>4. ASSUME NEW i \in 1 .. Len(w) PROVE w[i] = b[i]
  BY <1>1, <1>3
<1>5. w = b
  BY <1>1, <1>3, <1>4, SeqEqual
<1>6. QED BY <1>2, <1>5 DEF w

\* A delivery is a read of the abstract stream, or nothing that it shows.
LEMMA ForwardReads ==
  ASSUME StreamsInv, StreamsInv', NEW s \in Streams, Forward(s)
  PROVE  written' = written /\ (delivered' = delivered \/ Reliable!Read(s))
<1>1. PICK c, n, end : c = consumed[s] /\ n = SizeOf(written[s]) /\ end = Closed(s)
  OBVIOUS
<1>2. PICK c2 : c2 = consumed'[s]
  OBVIOUS
<1>3. /\ written' = written /\ c <= c2
      /\ delivered' = [delivered EXCEPT ![s] = delivered'[s]]
      /\ delivered \in [Streams -> Seq(Int)]
      /\ delivered[s] = Reliable!Whole(c, FALSE)
  BY <1>1, <1>2 DEF Forward, Open, StreamsInv, Values
<1>4. c \in Nat /\ n \in Nat /\ c <= n /\ end \in BOOLEAN
  <2>1. Sound(written[s], n, acked[s], received[s], finished[s])
    BY <1>1 DEF StreamsInv, StreamInv
  <2>2. c \in Nat /\ c <= received[s]
    BY <1>1 DEF Forward, Open, Going
  <2>3. n \in Nat /\ received[s] \in Nat /\ received[s] <= n
    BY <2>1 DEF Sound, Covers
  <2>4. QED BY <1>1, <2>2, <2>3 DEF Closed
<1>5. SizeOf(written'[s]) = n
  BY <1>1, <1>3
<1>6. Sound(written'[s], n, acked'[s], received'[s], finished'[s])
  BY <1>5 DEF StreamsInv, StreamInv
<1>7. PICK w : w = Reliable!Whole(n, end)
  OBVIOUS
<1>8. Len(w) = (IF end THEN n + 1 ELSE n) /\ Len(delivered[s]) = c
  BY <1>3, <1>4, <1>7, WholeFacts
<1>9. /\ w = Reliable!Whole([t \in Streams |-> Size(t)][s], [t \in Streams |-> Closed(t)][s])
      /\ [t \in Streams |-> Size(t)]' = [t \in Streams |-> Size(t)]
      /\ [t \in Streams |-> Closed(t)]' = [t \in Streams |-> Closed(t)]
  BY <1>1, <1>3, <1>7 DEF Size, SizeOf, Closed
<1>10. ASSUME NEW k \in Nat, c <= k, k <= Len(w), c < Len(w), delivered'[s] = SubSeq(w, 1, k)
       PROVE  Reliable!Read(s)
  <2>1. k \in Len(delivered[s]) .. Len(w) /\ Len(delivered[s]) < Len(w)
    BY <1>4, <1>8, <1>10
  <2>2. delivered' = [delivered EXCEPT ![s] = SubSeq(w, 1, k)]
    BY <1>3, <1>10
  <2>3. QED BY <1>9, <2>1, <2>2 DEF Reliable!Read
<1>11. CASE Open(s)'
  <2>1. delivered'[s] = Reliable!Whole(c2, FALSE) /\ c2 \in Nat /\ c2 <= received'[s]
    BY <1>2, <1>11 DEF Open, Going
  <2>2. c2 <= n
    BY <1>4, <1>6, <2>1 DEF Sound
  <2>3. CASE c2 = c
    BY <1>3, <2>1, <2>3
  <2>4. CASE c2 # c
    <3>1. delivered'[s] = SubSeq(w, 1, c2)
      BY <1>4, <1>7, <2>1, <2>2, WholeBegins
    <3>2. c <= c2 /\ c2 <= Len(w) /\ c < Len(w)
      BY <1>3, <1>4, <1>8, <2>1, <2>2, <2>4
    <3>3. QED BY <1>3, <1>10, <2>1, <3>1, <3>2
  <2>5. QED BY <2>3, <2>4
<1>12. CASE Over(s)'
  <2>1. delivered'[s] = Reliable!Whole(n, TRUE) /\ finished'[s]
    BY <1>5, <1>12 DEF Over
  <2>2. end = TRUE
    <3>1. \E f \in written'[s] : f.fin
      BY <1>6, <2>1 DEF Sound
    <3>2. QED BY <1>1, <1>3, <3>1 DEF Closed
  <2>3. delivered'[s] = Reliable!Whole(n, end)
    BY <2>1, <2>2
  <2>4. delivered'[s] = SubSeq(w, 1, n + 1)
    BY <1>4, <1>7, <2>2, <2>3, WholeIsAll
  <2>5. n + 1 \in Nat /\ c <= n + 1 /\ n + 1 <= Len(w) /\ c < Len(w)
    BY <1>4, <1>8, <2>2
  <2>6. QED BY <1>3, <1>10, <2>4, <2>5
<1>13. Open(s)' \/ Over(s)'
  BY DEF StreamsInv, StreamInv
<1>14. QED BY <1>3, <1>11, <1>12, <1>13

LEMMA WriteWrites ==
  ASSUME StreamsInv, StreamsInv', NEW s \in Streams, NEW k \in Nat, NEW fin \in BOOLEAN,
         Write(s, k, fin)
  PROVE  Reliable!Write(s)
<1> DEFINE length == [t \in Streams |-> Size(t)]
           closed == [t \in Streams |-> Closed(t)]
<1>1. PICK n, g : n = SizeOf(written[s]) /\ g = [offset |-> n, len |-> k, fin |-> fin]
  OBVIOUS
<1>2. /\ ~Closed(s) /\ delivered' = delivered
      /\ written' = [written EXCEPT ![s] = written[s] \cup {g}]
  BY <1>1 DEF Write, delivery, Size, SizeOf
<1>3. /\ g \in written'[s]
      /\ \A t \in Streams \ {s} : written'[t] = written[t]
  BY <1>2 DEF StreamsInv, Values
<1>4. n \in Nat /\ EndOf(g) = n + k
  <2>1. Sound(written[s], n, acked[s], received[s], finished[s])
    BY <1>1 DEF StreamsInv, StreamInv
  <2>2. n \in Nat
    BY <2>1 DEF Sound, Covers
  <2>3. QED BY <1>1, <2>2 DEF EndOf
<1>5. SizeOf(written'[s]) \in Nat /\ EndOf(g) <= SizeOf(written'[s])
  <2>1. Sound(written'[s], SizeOf(written'[s]), acked'[s], received'[s], finished'[s])
    BY DEF StreamsInv, StreamInv
  <2>2. QED BY <1>3, <2>1 DEF Sound, Covers
<1>6. length'[s] >= length[s]
  BY <1>1, <1>4, <1>5 DEF Size, SizeOf
<1>7. \A t \in Streams \ {s} : length'[t] = length[t] /\ closed'[t] = closed[t]
  BY <1>3 DEF Size, Closed
<1>8. ~closed[s]
  BY <1>2
<1>9. QED BY <1>2, <1>6, <1>7, <1>8 DEF Reliable!Write

\* Reliable delivery for every number of streams, window, retention limit
\* and length: whatever is lost, copied, reordered, refused or taken in
\* parts, the application is given the written bytes in order and the end.
THEOREM ReliableStreamsTheorem == Spec /\ Served => ImplementsReliableStreams
<1>1. Init => Reliable!Init
  <2> SUFFICES ASSUME Init PROVE Reliable!Init
    OBVIOUS
  <2>1. ASSUME NEW s \in Streams PROVE Size(s) = 0 /\ Closed(s) = FALSE
    <3>1. written[s] = {}
      BY DEF Init
    <3>2. SizeOf(written[s]) = 0
      BY <3>1, NothingYet
    <3>3. QED BY <3>1, <3>2 DEF Size, SizeOf, Closed
  <2>2. delivered = [s \in Streams |-> <<>>]
    BY DEF Init
  <2>3. QED BY <2>1, <2>2 DEF Reliable!Init
<1>2. StreamsInv /\ StreamsInv' /\ [Next]_vars => [Reliable!Next]_(Reliable!vars)
  <2> SUFFICES ASSUME StreamsInv, StreamsInv', [Next]_vars
               PROVE  Reliable!Next \/ UNCHANGED Reliable!vars
    OBVIOUS
  <2>1. ASSUME written' = written, delivered' = delivered PROVE UNCHANGED Reliable!vars
    BY <2>1 DEF Reliable!vars, Size, Closed
  <2>2. CASE Still
    BY <2>1, <2>2 DEF Still, delivery
  <2>3. CASE \E s \in Streams : Forward(s)
    BY <2>1, <2>3, ForwardReads DEF Reliable!Next
  <2>4. CASE \E s \in Streams, k \in Nat, fin \in BOOLEAN : Write(s, k, fin)
    BY <2>4, WriteWrites DEF Reliable!Next
  <2>5. QED BY <2>2, <2>3, <2>4, StreamsInvStep DEF StepKinds
<1>3. QED BY <1>1, <1>2, StreamsInvHolds, PTL DEF Spec, Reliable!Spec, ImplementsReliableStreams

-----------------------------------------------------------------------------
(* The accounts of bytes.                                                  *)

\* What was written, consumed and retained of a stream, as positions.
Extent(s) ==
  /\ Size(s) = SizeOf(written[s]) /\ Size(s) \in Nat
  /\ consumed[s] \in Nat /\ consumed[s] <= Size(s)
  /\ Held(Ordered(s).retained) \subseteq consumed[s] .. Size(s) - 1

Extents == \A s \in Streams : Extent(s)

LEMMA ExtentsHere == StreamsInv => Extents
<1> SUFFICES ASSUME StreamsInv, NEW s \in Streams PROVE Extent(s)
  BY DEF Extents
<1>1. PICK W, n, c, R : W = written[s] /\ n = SizeOf(W) /\ c = consumed[s] /\ R = Ordered(s).retained
  OBVIOUS
<1>2. Sound(W, n, acked[s], received[s], finished[s])
  BY <1>1 DEF StreamsInv, StreamInv
<1>3. Size(s) = n /\ n \in Nat /\ received[s] \in Nat /\ received[s] <= n
  BY <1>1, <1>2 DEF Size, SizeOf, Sound, Covers
<1>4. CASE Over(s)
  <2>1. c = n /\ R = {}
    BY <1>1, <1>4 DEF Over, Ordered, NewStream
  <2>2. Held(R) = {}
    BY <2>1 DEF Held
  <2>3. QED BY <1>1, <1>3, <2>1, <2>2 DEF Extent
<1>5. CASE Open(s)
  <2>1. Going(W, acked[s], received[s], finished[s], c, R)
    BY <1>1, <1>5 DEF Open
  <2>2. StreamForm(W, c, R)
    BY <1>2, <2>1, GoingForm
  <2>3. /\ c \in Nat /\ c <= received[s] /\ R \in SUBSET Frames
        /\ \A i \in R : EndOf(i) <= received[s]
        /\ Waiting(W, c, R) /\ W \in SUBSET Frames
    BY <2>1, <2>2, FormFacts DEF Going
  <2>4. ASSUME NEW b \in Held(R) PROVE b \in c .. n - 1
    <3>1. PICK i \in R : b \in Bytes(i)
      BY <2>4 DEF Held
    <3>2. i \in Frames /\ EndOf(i) \in Nat /\ EndOf(i) <= n
      BY <1>3, <2>3, <3>1 DEF EndOf, Frames
    <3>3. c <= i.offset
      <4>1. PICK f \in W : c < EndOf(f) /\ i = After(f, c)
        BY <2>3, <3>1 DEF Waiting
      <4>2. f.offset \in Nat
        BY <2>3 DEF Frames
      <4>3. QED BY <2>3, <4>1, <4>2 DEF After
    <3>4. i.offset \in Nat /\ i.offset <= b /\ b <= EndOf(i) - 1 /\ b \in Int
      BY <3>1, <3>2 DEF Bytes, Frames
    <3>5. QED BY <1>3, <2>3, <3>2, <3>3, <3>4
  <2>5. QED BY <1>1, <1>3, <2>3, <2>4 DEF Extent
<1>6. QED BY <1>4, <1>5 DEF StreamsInv, StreamInv

LEMMA ExtentsNext == StreamsInv' => Extents'
  BY ExtentsHere, PTL

\* The first n positions of a stream.
LEMMA FirstBytes ==
  ASSUME NEW n \in Nat, NEW m \in Nat, n <= m
  PROVE  0 .. n - 1 \subseteq 0 .. m /\ Cardinality(0 .. n - 1) = n
<1>1. 0 \in Int /\ n - 1 \in Int
  OBVIOUS
<1>2. Cardinality(0 .. n - 1) = IF 0 > n - 1 THEN 0 ELSE n - 1 - 0 + 1
  BY <1>1, FS_Interval
<1>3. QED BY <1>2

\* The counters stand for sets of bytes, the peer wrote within its credit,
\* and the limits hold.
BytesInv ==
  /\ \A s \in Streams : Size(s) <= Length
  /\ retainedBytes = Cardinality(HeldBytes)
  /\ total = Cardinality(AllBytes([s \in Streams |-> 0 .. consumed[s] - 1]))
  /\ Cardinality(WrittenBytes) <= total + Window
  /\ retainedBytes <= RetentionLimit
  /\ Cardinality(DOMAIN ordered) <= MaxPending[adapter]

LEMMA NoBytes ==
  ASSUME NEW P, DOMAIN P = Streams, \A s \in Streams : P[s] = {}
  PROVE  Cardinality(AllBytes(P)) = 0
<1>1. AllBytes(P) = {}
  BY AllBytesMember
<1>2. QED BY <1>1, FS_EmptySet

LEMMA BytesInvInit == Init => BytesInv
<1> SUFFICES ASSUME Init PROVE BytesInv
  OBVIOUS
<1>1. ASSUME NEW s \in Streams PROVE Size(s) = 0 /\ consumed[s] = 0 /\ Ordered(s).retained = {}
  <2>1. written[s] = {} /\ consumed[s] = 0 /\ Ordered(s) = NewStream
    BY DEF Init, Ordered
  <2>2. SizeOf(written[s]) = 0
    BY <2>1, NothingYet
  <2>3. QED BY <2>1, <2>2 DEF Size, SizeOf, NewStream
<1>2. /\ Length \in Nat /\ Window \in Nat /\ RetentionLimit \in Nat
      /\ MaxPending \in [{"server", "client"} -> Nat]
  BY StreamAssumption
<1>3. Cardinality(HeldBytes) = 0
  <2>1. PICK P : P = [s \in Streams |-> UNION {Bytes(i) : i \in Ordered(s).retained}]
    OBVIOUS
  <2>2. DOMAIN P = Streams /\ \A s \in Streams : P[s] = {}
    BY <1>1, <2>1
  <2>3. QED BY <2>1, <2>2, NoBytes DEF HeldBytes
<1>4. Cardinality(AllBytes([s \in Streams |-> 0 .. consumed[s] - 1])) = 0
  <2>1. PICK P : P = [s \in Streams |-> 0 .. consumed[s] - 1]
    OBVIOUS
  <2>2. DOMAIN P = Streams /\ \A s \in Streams : P[s] = {}
    BY <1>1, <2>1
  <2>3. QED BY <2>1, <2>2, NoBytes
<1>5. Cardinality(WrittenBytes) = 0
  <2>1. PICK P : P = [s \in Streams |-> 0 .. Size(s) - 1]
    OBVIOUS
  <2>2. DOMAIN P = Streams /\ \A s \in Streams : P[s] = {}
    BY <1>1, <2>1
  <2>3. QED BY <2>1, <2>2, NoBytes DEF WrittenBytes
<1>6. Cardinality(DOMAIN ordered) <= MaxPending[adapter]
  <2>1. DOMAIN ordered = {} /\ adapter \in {"server", "client"}
    BY DEF Init
  <2>2. QED BY <1>2, <2>1, FS_EmptySet
<1>7. QED BY <1>1, <1>2, <1>3, <1>4, <1>5, <1>6 DEF BytesInv, Init

\* One stream is delivered to: each account changes by what it changes.
LEMMA ForwardBytes ==
  ASSUME StreamsInv, StreamsInv', BytesInv, NEW s \in Streams, Forward(s)
  PROVE  BytesInv'
<1>1. /\ written' = written /\ adapter' = adapter
      /\ consumed[s] <= consumed'[s] /\ \A t \in Streams \ {s} : consumed'[t] = consumed[t]
      /\ total' = total + (consumed'[s] - consumed[s])
      /\ \A t \in Streams \ {s} : Ordered(t)' = Ordered(t)
      /\ retainedBytes' = retainedBytes + Cardinality(Held(Ordered(s)'.retained))
                                        - Cardinality(Held(Ordered(s).retained))
      /\ retainedBytes' <= RetentionLimit
      /\ Cardinality(DOMAIN ordered') <= MaxPending[adapter]
  BY DEF Forward, BytesInv
<1>2. /\ \A t \in Streams : Size(t) <= Length
      /\ retainedBytes = Cardinality(HeldBytes)
      /\ total = Cardinality(AllBytes([t \in Streams |-> 0 .. consumed[t] - 1]))
      /\ Cardinality(WrittenBytes) <= total + Window
      /\ total \in Nat /\ Length \in Nat /\ Window \in Nat
  BY StreamAssumption DEF BytesInv, StreamsInv, Values
<1>3. \A t \in Streams : Size(t)' = Size(t)
  BY <1>1 DEF Size
<1>4. \A t \in Streams : /\ Size(t) \in Nat
                         /\ consumed[t] \in Nat /\ consumed[t] <= Size(t)
                         /\ Held(Ordered(t).retained) \subseteq consumed[t] .. Size(t) - 1
  BY ExtentsHere DEF Extents, Extent
<1>5. \A t \in Streams : /\ consumed'[t] \in Nat /\ consumed'[t] <= Size(t)
                         /\ Held(Ordered(t)'.retained) \subseteq consumed'[t] .. Size(t) - 1
  BY <1>3, ExtentsNext DEF Extents, Extent
<1>6. retainedBytes' = Cardinality(HeldBytes')
  <2>1. PICK P, Q : /\ P = [t \in Streams |-> Held(Ordered(t).retained)]
                    /\ Q = [t \in Streams |-> Held(Ordered(t)'.retained)]
    OBVIOUS
  <2>2. DOMAIN P = Streams /\ DOMAIN Q = Streams /\ \A t \in Streams \ {s} : Q[t] = P[t]
    BY <1>1, <2>1
  <2>3. \A t \in Streams : P[t] \subseteq 0 .. Length /\ Q[t] \subseteq 0 .. Length
    <3>1. ASSUME NEW c \in Nat, NEW n \in Nat, n <= Length PROVE c .. n - 1 \subseteq 0 .. Length
      BY <1>2, <3>1
    <3>2. ASSUME NEW t \in Streams PROVE P[t] \subseteq 0 .. Length /\ Q[t] \subseteq 0 .. Length
      <4>1. /\ consumed[t] .. Size(t) - 1 \subseteq 0 .. Length
            /\ consumed'[t] .. Size(t) - 1 \subseteq 0 .. Length
        BY <1>2, <1>4, <1>5, <3>1
      <4>2. /\ P[t] \subseteq consumed[t] .. Size(t) - 1
            /\ Q[t] \subseteq consumed'[t] .. Size(t) - 1
        BY <1>4, <1>5, <2>1
      <4>3. QED BY <4>1, <4>2
    <3>3. QED BY <3>2
  <2>4. /\ Cardinality(AllBytes(P)) \in Nat /\ Cardinality(AllBytes(Q)) \in Nat
        /\ Cardinality(P[s]) \in Nat /\ Cardinality(Q[s]) \in Nat
        /\ Cardinality(AllBytes(Q)) = Cardinality(AllBytes(P)) + Cardinality(Q[s]) - Cardinality(P[s])
    BY <1>2, <2>2, <2>3, AllBytesChange
  <2>5. HeldBytes = AllBytes(P) /\ HeldBytes' = AllBytes(Q)
    BY <2>1 DEF HeldBytes, Held
  <2>6. P[s] = Held(Ordered(s).retained) /\ Q[s] = Held(Ordered(s)'.retained)
    BY <2>1
  <2>7. QED BY <1>1, <1>2, <2>4, <2>5, <2>6
<1>7. total' = Cardinality(AllBytes([t \in Streams |-> 0 .. consumed'[t] - 1]))
  <2>1. PICK P, Q : /\ P = [t \in Streams |-> 0 .. consumed[t] - 1]
                    /\ Q = [t \in Streams |-> 0 .. consumed'[t] - 1]
    OBVIOUS
  <2>2. DOMAIN P = Streams /\ DOMAIN Q = Streams /\ \A t \in Streams \ {s} : Q[t] = P[t]
    BY <1>1, <2>1
  <2>3. ASSUME NEW t \in Streams
        PROVE  /\ P[t] \subseteq 0 .. Length /\ Cardinality(P[t]) = consumed[t]
               /\ Q[t] \subseteq 0 .. Length /\ Cardinality(Q[t]) = consumed'[t]
    <3>1. PICK c, e : c = consumed[t] /\ e = consumed'[t]
      OBVIOUS
    <3>2. c \in Nat /\ e \in Nat /\ c <= Length /\ e <= Length
      BY <1>2, <1>4, <1>5, <3>1
    <3>3. P[t] = 0 .. c - 1 /\ Q[t] = 0 .. e - 1
      BY <2>1, <3>1
    <3>4. QED BY <1>2, <3>1, <3>2, <3>3, FirstBytes
  <2>4. /\ Cardinality(AllBytes(P)) \in Nat /\ Cardinality(AllBytes(Q)) \in Nat
        /\ Cardinality(AllBytes(Q)) = Cardinality(AllBytes(P)) + Cardinality(Q[s]) - Cardinality(P[s])
    BY <1>2, <2>2, <2>3, AllBytesChange
  <2>5. consumed[s] \in Nat /\ consumed'[s] \in Nat /\ total = Cardinality(AllBytes(P))
    BY <1>2, <1>4, <1>5, <2>1
  <2>6. Cardinality(AllBytes(Q)) = total + consumed'[s] - consumed[s]
    BY <2>3, <2>4, <2>5
  <2>7. QED BY <1>1, <1>2, <2>1, <2>5, <2>6
<1>8. Cardinality(WrittenBytes') <= total' + Window
  <2>1. WrittenBytes' = WrittenBytes
    BY <1>3 DEF WrittenBytes
  <2>2. Cardinality(WrittenBytes) \in Nat
    <3>1. PICK P : P = [t \in Streams |-> 0 .. Size(t) - 1]
      OBVIOUS
    <3>2. DOMAIN P = Streams /\ \A t \in Streams : P[t] \subseteq 0 .. Length
      BY <1>2, <1>4, <3>1
    <3>3. QED BY <1>2, <3>1, <3>2, AllBytesFinite DEF WrittenBytes
  <2>3. consumed[s] \in Nat /\ consumed'[s] \in Nat
    BY <1>4, <1>5
  <2>4. QED BY <1>1, <1>2, <2>1, <2>2, <2>3
<1>9. \A t \in Streams : Size(t)' <= Length
  BY <1>2, <1>3
<1>10. QED BY <1>1, <1>6, <1>7, <1>8, <1>9 DEF BytesInv

\* The peer writes within its credit.
LEMMA WriteBytes ==
  ASSUME StreamsInv, BytesInv, NEW s \in Streams, NEW k \in Nat, NEW fin \in BOOLEAN,
         Write(s, k, fin)
  PROVE  BytesInv'
<1>1. /\ Size(s) + k <= Length /\ Cardinality(WrittenBytes) + k <= total + Window
      /\ adapter' = adapter /\ consumed' = consumed /\ total' = total
      /\ ordered' = ordered /\ retainedBytes' = retainedBytes
      /\ \A t \in Streams \ {s} : written'[t] = written[t]
  BY DEF Write, endpoint, delivery, StreamsInv, Values
<1>2. /\ \A t \in Streams : Size(t) <= Length
      /\ retainedBytes = Cardinality(HeldBytes)
      /\ total = Cardinality(AllBytes([t \in Streams |-> 0 .. consumed[t] - 1]))
      /\ total \in Nat /\ Length \in Nat /\ Window \in Nat
      /\ retainedBytes <= RetentionLimit
      /\ Cardinality(DOMAIN ordered) <= MaxPending[adapter]
  BY StreamAssumption DEF BytesInv, StreamsInv, Values
<1>3. \A t \in Streams : Size(t) \in Nat /\ Size(t) = SizeOf(written[t])
  BY ExtentsHere DEF Extents, Extent
<1>4. Size(s)' = Size(s) + k
  <2>1. SizeOf(written'[s]) = SizeOf(written[s]) + k
    BY WriteStepKeeps
  <2>2. Size(s)' = SizeOf(written'[s])
    BY DEF Size, SizeOf
  <2>3. QED BY <1>3, <2>1, <2>2
<1>5. \A t \in Streams \ {s} : Size(t)' = Size(t)
  BY <1>1 DEF Size
<1>6. \A t \in Streams : Size(t)' \in Nat /\ Size(t)' <= Length
  <2>1. ASSUME NEW t \in Streams PROVE Size(t)' \in Nat /\ Size(t)' <= Length
    <3>1. CASE t = s
      BY <1>1, <1>3, <1>4, <3>1
    <3>2. CASE t # s
      BY <1>2, <1>3, <1>5, <3>2
    <3>3. QED BY <3>1, <3>2
  <2>2. QED BY <2>1
<1>7. Cardinality(WrittenBytes') <= total' + Window
  <2>1. PICK P, Q : /\ P = [t \in Streams |-> 0 .. Size(t) - 1]
                    /\ Q = [t \in Streams |-> 0 .. Size(t)' - 1]
    OBVIOUS
  <2>2. DOMAIN P = Streams /\ DOMAIN Q = Streams /\ \A t \in Streams \ {s} : Q[t] = P[t]
    BY <1>5, <2>1
  <2>3. ASSUME NEW t \in Streams
        PROVE  /\ P[t] \subseteq 0 .. Length /\ Cardinality(P[t]) = Size(t)
               /\ Q[t] \subseteq 0 .. Length /\ Cardinality(Q[t]) = Size(t)'
    <3>1. PICK c, e : c = Size(t) /\ e = Size(t)'
      OBVIOUS
    <3>2. c \in Nat /\ e \in Nat /\ c <= Length /\ e <= Length
      BY <1>2, <1>3, <1>6, <3>1
    <3>3. P[t] = 0 .. c - 1 /\ Q[t] = 0 .. e - 1
      BY <2>1, <3>1
    <3>4. QED BY <1>2, <3>1, <3>2, <3>3, FirstBytes
  <2>4. /\ Cardinality(AllBytes(P)) \in Nat /\ Cardinality(AllBytes(Q)) \in Nat
        /\ Cardinality(AllBytes(Q)) = Cardinality(AllBytes(P)) + Cardinality(Q[s]) - Cardinality(P[s])
    BY <1>2, <2>2, <2>3, AllBytesChange
  <2>5. WrittenBytes = AllBytes(P) /\ WrittenBytes' = AllBytes(Q)
    BY <2>1 DEF WrittenBytes
  <2>6. Cardinality(Q[s]) = Cardinality(P[s]) + k /\ Cardinality(P[s]) \in Nat
    BY <1>3, <1>4, <2>3
  <2>7. QED BY <1>1, <1>2, <2>4, <2>5, <2>6
<1>8. HeldBytes' = HeldBytes
  BY <1>1 DEF HeldBytes, Ordered
<1>9. QED BY <1>1, <1>2, <1>6, <1>7, <1>8 DEF BytesInv

LEMMA BytesInvStep == StreamsInv /\ BytesInv /\ [Next]_vars => BytesInv'
<1> SUFFICES ASSUME StreamsInv, BytesInv, [Next]_vars PROVE BytesInv'
  OBVIOUS
<1>1. StreamsInv' /\ StepKinds
  BY StreamsInvStep
<1>2. CASE Still
  <2>1. /\ adapter' = adapter /\ written' = written /\ consumed' = consumed /\ total' = total
        /\ ordered' = ordered /\ retainedBytes' = retainedBytes
    BY <1>2 DEF Still, delivery
  <2>2. HeldBytes' = HeldBytes
    BY <2>1 DEF HeldBytes, Ordered
  <2>3. WrittenBytes' = WrittenBytes /\ \A s \in Streams : Size(s)' = Size(s)
    BY <2>1 DEF WrittenBytes, Size
  <2>4. QED BY <2>1, <2>2, <2>3 DEF BytesInv
<1>3. CASE \E s \in Streams : Forward(s)
  BY <1>1, <1>3, ForwardBytes
<1>4. CASE \E s \in Streams, k \in Nat, fin \in BOOLEAN : Write(s, k, fin)
  BY <1>4, WriteBytes
<1>5. QED BY <1>1, <1>2, <1>3, <1>4 DEF StepKinds

LEMMA BytesInvHolds == Spec /\ Served => [](StreamsInv /\ BytesInv)
<1>1. Init /\ Served => StreamsInv /\ BytesInv
  BY StreamsInvInit, BytesInvInit
<1>2. StreamsInv /\ BytesInv /\ [Next]_vars => StreamsInv' /\ BytesInv'
  BY StreamsInvStep, BytesInvStep
<1>3. QED BY <1>1, <1>2, PTL DEF Spec

\* The ranges that wait for a stream that is not over.
LEMMA RangesForm ==
  ASSUME StreamsInv, BytesInv, NEW s \in DOMAIN ordered
  PROVE  /\ s \in Streams /\ ordered[s].consumed \in 0 .. Length
         /\ \A i \in ordered[s].retained :
              i.offset >= ordered[s].consumed /\ i.len \in 0 .. Length
         /\ \A i, j \in ordered[s].retained : i = j \/ Bytes(i) \cap Bytes(j) = {}
<1>1. s \in Streams
  BY DEF StreamsInv, Values
<1>2. Open(s)
  BY <1>1, WhichState
<1>3. PICK W, c, R : W = written[s] /\ c = consumed[s] /\ R = ordered[s].retained
  OBVIOUS
<1>4. ordered[s].consumed = c /\ R = Ordered(s).retained
  BY <1>2, <1>3 DEF Open, Ordered
<1>5. Going(W, acked[s], received[s], finished[s], c, R)
  BY <1>2, <1>3, <1>4 DEF Open
<1>6. /\ Sound(W, SizeOf(W), acked[s], received[s], finished[s])
      /\ received[s] \in Nat /\ received[s] <= SizeOf(W)
  BY <1>1, <1>3 DEF StreamsInv, StreamInv, Sound
<1>7. Size(s) \in Nat /\ Size(s) <= Length /\ Size(s) = SizeOf(W) /\ Length \in Nat
  BY <1>1, <1>3, ExtentsHere, StreamAssumption DEF Extents, Extent, BytesInv
<1>8. StreamForm(W, c, R)
  BY <1>5, <1>6, GoingForm
<1>9. /\ InOrder(W) /\ c \in Nat /\ W \in SUBSET Frames /\ R \in SUBSET Frames
      /\ Remnants(W, c, R) /\ c <= received[s]
      /\ \A i \in R : EndOf(i) <= received[s]
  BY <1>5, <1>8, FormFacts DEF Going
<1>10. c \in 0 .. Length
  BY <1>6, <1>7, <1>9
<1>11. ASSUME NEW i \in R PROVE i.offset >= c /\ i.len \in 0 .. Length
  <2>1. /\ i.offset \in Nat /\ i.len \in Nat /\ EndOf(i) = i.offset + i.len
        /\ EndOf(i) <= received[s]
    BY <1>9 DEF Frames, EndOf
  <2>2. PICK f \in W : c <= EndOf(f) /\ i = After(f, c)
    BY <1>9 DEF Remnants
  <2>3. f.offset \in Nat
    BY <1>9 DEF Frames
  <2>4. i.offset >= c
    BY <1>9, <2>2, <2>3 DEF After
  <2>5. QED BY <1>6, <1>7, <2>1, <2>4
<1>12. \A i, j \in R : i = j \/ Bytes(i) \cap Bytes(j) = {}
  <2>1. \A i, j \in R : i # j => Bytes(i) \cap Bytes(j) = {}
    BY <1>9, RemnantsApart
  <2>2. QED BY <2>1
<1>13. QED BY <1>1, <1>3, <1>4, <1>10, <1>11, <1>12

\* What the application was given is what the stream consumed.
LEMMA GivenIsConsumed ==
  ASSUME StreamsInv, NEW s \in Streams
  PROVE  Given(s) = consumed[s] /\ (Ended(s) <=> Over(s))
<1>1. consumed[s] \in Nat /\ SizeOf(written[s]) \in Nat
  BY SoundFacts DEF StreamsInv, StreamInv, Values
<1>2. CASE Open(s)
  <2>1. FALSE \in BOOLEAN /\ delivered[s] = Reliable!Whole(consumed[s], FALSE)
    BY <1>2 DEF Open
  <2>2. Given(s) = consumed[s] /\ ~Ended(s)
    BY <1>1, <2>1, GivenFacts
  <2>3. CASE Over(s)
    <3>1. TRUE \in BOOLEAN /\ delivered[s] = Reliable!Whole(SizeOf(written[s]), TRUE)
      BY <2>3 DEF Over
    <3>2. Ended(s)
      BY <1>1, <3>1, GivenFacts
    <3>3. QED BY <2>2, <3>2
  <2>4. QED BY <2>2, <2>3
<1>3. CASE Over(s)
  <2>1. /\ TRUE \in BOOLEAN /\ delivered[s] = Reliable!Whole(SizeOf(written[s]), TRUE)
        /\ consumed[s] = SizeOf(written[s])
    BY <1>3 DEF Over
  <2>2. QED BY <1>1, <1>3, <2>1, GivenFacts
<1>4. QED BY <1>2, <1>3 DEF StreamsInv, StreamInv

LEMMA AccountsFollow == StreamsInv /\ BytesInv => AccountsAgree
<1> SUFFICES ASSUME StreamsInv, BytesInv PROVE AccountsAgree
  OBVIOUS
<1>1. \A s \in Streams : Given(s) = consumed[s]
  BY GivenIsConsumed
<1>2. GivenBytes = AllBytes([s \in Streams |-> 0 .. consumed[s] - 1])
  BY <1>1 DEF GivenBytes
<1>3. retainedBytes \in 0 .. RetentionLimit
  <2>1. PICK P : P = [s \in Streams |-> Held(Ordered(s).retained)]
    OBVIOUS
  <2>2. Length \in Nat /\ RetentionLimit \in Nat
    BY StreamAssumption
  <2>3. ASSUME NEW s \in Streams PROVE P[s] \subseteq 0 .. Length
    <3>1. PICK c, n : c = consumed[s] /\ n = Size(s)
      OBVIOUS
    <3>2. c \in Nat /\ n \in Nat /\ n <= Length
      BY <3>1, ExtentsHere DEF Extents, Extent, BytesInv
    <3>3. c .. n - 1 \subseteq 0 .. Length
      BY <2>2, <3>2
    <3>4. Held(Ordered(s).retained) \subseteq c .. n - 1
      BY <3>1, ExtentsHere DEF Extents, Extent
    <3>5. QED BY <2>1, <3>3, <3>4
  <2>4. DOMAIN P = Streams /\ HeldBytes = AllBytes(P)
    BY <2>1 DEF HeldBytes, Held
  <2>5. Cardinality(HeldBytes) \in Nat
    BY <2>2, <2>3, <2>4, AllBytesFinite
  <2>6. QED BY <2>2, <2>5 DEF BytesInv
<1>4. ASSUME NEW s \in Streams PROVE consumed[s] <= received[s]
  <2>1. consumed[s] \in Nat
    BY DEF StreamsInv, Values
  <2>2. CASE Open(s)
    BY <2>2 DEF Open, Going
  <2>3. CASE Over(s)
    <3>1. consumed[s] = received[s]
      BY <2>3 DEF Over
    <3>2. QED BY <2>1, <3>1
  <2>4. QED BY <2>2, <2>3 DEF StreamsInv, StreamInv
<1>5. RetentionForm
  <2>1. DOMAIN ordered \subseteq Streams /\ Cardinality(DOMAIN ordered) <= MaxPending[adapter]
    BY DEF StreamsInv, Values, BytesInv
  <2>2. QED BY <1>3, <1>4, <2>1, RangesForm DEF RetentionForm
<1>6. QED BY <1>1, <1>2, <1>5 DEF AccountsAgree, BytesInv

\* The counter that admission tests counts the retained bytes, delivery and
\* credit consume alike, and no limit is passed.
THEOREM AccountsAgreeTheorem == Spec /\ Served => []AccountsAgree
  BY BytesInvHolds, AccountsFollow, PTL

-----------------------------------------------------------------------------
(* Nothing stalls.                                                         *)

\* Two disjoint sorts of bytes within a third.
LEMMA TwoSorts ==
  ASSUME NEW P, DOMAIN P = Streams, NEW Q, DOMAIN Q = Streams, NEW V, DOMAIN V = Streams,
         NEW m \in Nat, \A t \in Streams : V[t] \subseteq 0 .. m,
         \A t \in Streams : P[t] \subseteq V[t] /\ Q[t] \subseteq V[t] /\ P[t] \cap Q[t] = {}
  PROVE  Cardinality(AllBytes(P)) + Cardinality(AllBytes(Q)) <= Cardinality(AllBytes(V))
<1>1. \A t \in Streams : P[t] \subseteq 0 .. m /\ Q[t] \subseteq 0 .. m
  OBVIOUS
<1>2. IsFiniteSet(AllBytes(P)) /\ IsFiniteSet(AllBytes(Q)) /\ IsFiniteSet(AllBytes(V))
  BY <1>1, AllBytesFinite
<1>3. AllBytes(P) \cap AllBytes(Q) = {}
  <2>1. ASSUME NEW p \in AllBytes(P), p \in AllBytes(Q) PROVE FALSE
    <3>1. PICK t \in Streams : \E b \in P[t] : p = <<t, b>>
      BY AllBytesMember
    <3>2. PICK b \in P[t] : p = <<t, b>>
      BY <3>1
    <3>3. PICK u \in Streams : \E a \in Q[u] : p = <<u, a>>
      BY <2>1, AllBytesMember
    <3>4. PICK a \in Q[u] : p = <<u, a>>
      BY <3>3
    <3>5. t = u /\ a = b
      BY <3>2, <3>4
    <3>6. QED BY <3>2, <3>4, <3>5
  <2>2. QED BY <2>1
<1>4. AllBytes(P) \cup AllBytes(Q) \subseteq AllBytes(V)
  <2>1. ASSUME NEW p \in AllBytes(P) PROVE p \in AllBytes(V)
    <3>1. PICK t \in Streams : \E b \in P[t] : p = <<t, b>>
      BY AllBytesMember
    <3>2. \E b \in V[t] : p = <<t, b>>
      BY <3>1
    <3>3. QED BY <3>2, AllBytesMember
  <2>2. ASSUME NEW p \in AllBytes(Q) PROVE p \in AllBytes(V)
    <3>1. PICK t \in Streams : \E b \in Q[t] : p = <<t, b>>
      BY AllBytesMember
    <3>2. \E b \in V[t] : p = <<t, b>>
      BY <3>1
    <3>3. QED BY <3>2, AllBytesMember
  <2>3. QED BY <2>1, <2>2
<1>5. Cardinality(AllBytes(P) \cup AllBytes(Q)) = Cardinality(AllBytes(P)) + Cardinality(AllBytes(Q))
  BY <1>2, <1>3, DisjointUnion
<1>6. Cardinality(AllBytes(P) \cup AllBytes(Q)) <= Cardinality(AllBytes(V))
  BY <1>2, <1>4, FS_Subset
<1>7. QED BY <1>5, <1>6

\* Resume gives bytes when the byte at the cursor is retained.
LEMMA ResumeMoves ==
  ASSUME NEW o, o.consumed \in Nat, o.retained \in SUBSET Frames,
         NEW m \in Nat, \A i \in o.retained : EndOf(i) <= m,
         NEW room \in Nat, NEW d, d = Resume(o, room)
  PROVE  /\ d.took \in Nat /\ d.refused = FALSE
         /\ o.consumed \in Held(o.retained) /\ room > 0 => d.took > 0
<1> DEFINE n == Min({room, Reach(o) - o.consumed})
<1>1. Reach(o) \in Nat /\ Reach(o) >= o.consumed /\ Reach(o) \notin Held(o.retained)
  BY ReachFacts
<1>2. n \in {room, Reach(o) - o.consumed}
  <2>1. \E x \in {room, Reach(o) - o.consumed} : \A y \in {room, Reach(o) - o.consumed} : x =< y
    BY <1>1
  <2>2. QED BY <2>1 DEF Min
<1>3. d.took = n /\ d.refused = FALSE
  BY DEF Resume, Outcome
<1> HIDE DEF n
<1>4. n \in Nat
  BY <1>1, <1>2
<1>5. o.consumed \in Held(o.retained) => Reach(o) - o.consumed > 0
  <2>1. o.consumed \in Held(o.retained) => Reach(o) # o.consumed
    BY <1>1
  <2>2. QED BY <1>1, <2>1
<1>6. QED BY <1>2, <1>3, <1>4, <1>5

\* What an application with room for all makes of a frame: it moves on.
Moves(d) == ~d.refused /\ (d.took > 0 \/ d.ended)

\* A frame at the cursor is taken whole.
LEMMA WholeMoves ==
  ASSUME NEW W, NEW c, NEW R, StreamForm(W, c, R), \A i \in R : i.offset # c,
         NEW f \in W, f.offset = c, NEW room \in Nat, f.len <= room,
         NEW memory \in BOOLEAN, NEW available \in Nat,
         NEW o, o = [consumed |-> c, retained |-> R],
         NEW d, d = Deliver(o, f, room, memory, available)
  PROVE  Moves(d)
<1>1. /\ InOrder(W) /\ c \in Nat /\ f \in Frames /\ R \in SUBSET Frames
  BY FormFacts
<1>2. f.offset \in Nat /\ f.len \in Nat /\ f.fin \in BOOLEAN /\ EndOf(f) \in Nat
  BY <1>1 DEF Frames, EndOf
<1>3. f.len > 0 \/ f.fin
  BY DEF StreamForm, InOrder
<1>4. PICK next : next = [consumed |-> EndOf(f), retained |-> R]
  OBVIOUS
<1>5. PICK more : more = Resume(next, room - f.len)
  OBVIOUS
<1>6. d = DirectWhole(o, f, room)
  BY <1>1, <1>2 DEF Deliver, RetainedAt
<1>7. [o EXCEPT !.consumed = EndOf(f)] = next
  BY <1>4
<1>8. d = IF f.fin \/ R = {} THEN Outcome(next, f.len, 0, 0, f.fin, FALSE)
          ELSE [more EXCEPT !.took = @ + f.len]
  BY <1>5, <1>6, <1>7 DEF DirectWhole
<1>9. CASE f.fin \/ R = {}
  <2>1. d.took = f.len /\ d.refused = FALSE /\ d.ended = f.fin
    BY <1>8, <1>9 DEF Outcome
  <2>2. QED BY <1>2, <1>3, <2>1 DEF Moves
<1>10. CASE ~(f.fin \/ R = {})
  <2>1. d = [more EXCEPT !.took = @ + f.len]
    BY <1>8, <1>10
  <2>2. more.took \in Nat /\ more.refused = FALSE
    <3>1. PICK m \in Nat : \A i \in R : EndOf(i) <= m
      BY DEF StreamForm
    <3>2. next.consumed \in Nat /\ next.retained \in SUBSET Frames /\ room - f.len \in Nat
      BY <1>1, <1>2, <1>4
    <3>3. \A i \in next.retained : EndOf(i) <= m
      BY <1>4, <3>1
    <3>4. PICK k \in Nat : k = room - f.len
      BY <3>2
    <3>5. more = Resume(next, k)
      BY <1>5, <3>4
    <3>6. QED BY <3>2, <3>3, <3>5, ResumeMoves
  <2>3. d.took = more.took + f.len /\ d.refused = FALSE
    <3>1. more = Outcome(more.stream, more.took, more.stored, more.released, more.ended, more.refused)
      BY <1>5 DEF Resume, Outcome
    <3>2. QED BY <2>1, <2>2, <3>1 DEF Outcome
  <2>4. QED BY <1>2, <1>3, <1>10, <2>2, <2>3 DEF Moves
<1>11. QED BY <1>9, <1>10

\* A frame across the cursor is retained, if there is room for what is left
\* of it, and given from the cursor on.
LEMMA AcrossMoves ==
  ASSUME NEW W, NEW c, NEW R, StreamForm(W, c, R), \A i \in R : i.offset # c,
         NEW f \in W, f.offset < c, c < EndOf(f), NEW room \in Nat, room > 0,
         NEW available \in Nat, EndOf(f) - c <= available,
         NEW memory \in BOOLEAN, memory = TRUE,
         NEW o, o = [consumed |-> c, retained |-> R],
         NEW d, d = Deliver(o, f, room, memory, available)
  PROVE  Moves(d)
<1>1. InOrder(W) /\ c \in Nat /\ f \in Frames /\ R \in SUBSET Frames
  BY FormFacts
<1>2. f.offset \in Nat /\ f.len \in Nat /\ EndOf(f) \in Nat /\ f.fin \in BOOLEAN
  BY <1>1 DEF Frames, EndOf
<1>3. PICK new : new = [offset |-> c, len |-> EndOf(f) - c, fin |-> f.fin]
  OBVIOUS
<1>4. After(f, c) = new /\ new \in Frames /\ EndOf(new) = EndOf(f) /\ c \in Bytes(new)
  BY <1>1, <1>2, <1>3 DEF After, EndOf, Frames, Bytes
<1>5. PICK grown : grown = [consumed |-> c, retained |-> R \cup {new}]
  OBVIOUS
<1>6. PICK more : more = Resume(grown, room)
  OBVIOUS
<1>7. d = Retain(o, f, room, memory, available)
  <2>1. f.offset # o.consumed
    BY <1>1, <1>2
  <2>2. QED BY <2>1, Zenon DEF Deliver
<1>8. ~Old(o, f)
  BY <1>1, <1>2, <1>3, <1>4 DEF Old
<1>9. ~(new.len > available)
  BY <1>1, <1>2, <1>3
<1>10. [o EXCEPT !.retained = @ \cup {new}] = grown
  BY <1>5
<1>11. d = [more EXCEPT !.stored = new.len]
  BY <1>4, <1>6, <1>7, <1>8, <1>9, <1>10 DEF Retain
<1>12. more.took \in Nat /\ more.refused = FALSE /\ more.took > 0
  <2>1. PICK m \in Nat : \A i \in R : EndOf(i) <= m
    BY DEF StreamForm
  <2>2. PICK k \in Nat : \A i \in R \cup {new} : EndOf(i) <= k
    <3>1. \A i \in R : EndOf(i) \in Nat
      BY <1>1 DEF Frames, EndOf
    <3>2. m + EndOf(f) \in Nat /\ \A i \in R \cup {new} : EndOf(i) <= m + EndOf(f)
      BY <1>2, <1>4, <2>1, <3>1
    <3>3. QED BY <3>2
  <2>3. /\ grown.consumed \in Nat /\ grown.retained \in SUBSET Frames
        /\ \A i \in grown.retained : EndOf(i) <= k
    BY <1>1, <1>4, <1>5, <2>2
  <2>4. grown.consumed \in Held(grown.retained)
    BY <1>4, <1>5 DEF Held
  <2>5. QED BY <1>6, <2>3, <2>4, ResumeMoves
<1>13. d.took = more.took /\ d.refused = FALSE
  <2>1. more = Outcome(more.stream, more.took, more.stored, more.released, more.ended, more.refused)
    BY <1>6 DEF Resume, Outcome
  <2>2. QED BY <1>11, <1>12, <2>1 DEF Outcome
<1>14. QED BY <1>12, <1>13 DEF Moves

\* What is left of it is free: no range holds it.
LEMMA AcrossIsNew ==
  ASSUME NEW W, NEW c, NEW R, StreamForm(W, c, R), \A i \in R : i.offset # c,
         NEW f \in W, f.offset <= c, c < EndOf(f)
  PROVE  (c .. EndOf(f) - 1) \cap Held(R) = {}
<1>1. InOrder(W) /\ c \in Nat /\ W \in SUBSET Frames /\ f \in Frames
  BY FormFacts
<1>2. ASSUME NEW b \in c .. EndOf(f) - 1, b \in Held(R) PROVE FALSE
  <2>1. PICK i \in R : b \in Bytes(i)
    BY <1>2 DEF Held
  <2>2. PICK g \in W : c < EndOf(g) /\ i = After(g, c)
    BY <2>1 DEF StreamForm, Waiting
  <2>3. f.offset \in Nat /\ EndOf(f) \in Nat /\ g \in Frames /\ EndOf(g) \in Nat /\ c <= EndOf(g)
    BY <1>1, <2>2 DEF Frames, EndOf
  <2>4. f # g
    <3>1. ASSUME f = g PROVE FALSE
      <4>1. After(f, c).offset = c
        BY <1>1, <2>3 DEF After
      <4>2. QED BY <2>1, <2>2, <3>1, <4>1
    <3>2. QED BY <3>1
  <2>5. Bytes(f) \cap Bytes(g) = {}
    BY <1>1, <2>4, FramesApart
  <2>6. b \in Bytes(g)
    BY <1>1, <2>1, <2>2, <2>3, AfterFacts
  <2>7. b \in Bytes(f)
    BY <1>1, <1>2, <2>3 DEF Bytes
  <2>8. QED BY <2>5, <2>6, <2>7
<1>3. QED BY <1>2

\* What is retained and what is left of a frame across the cursor was
\* written and not given: it is within the window, and that within the limit.
LEMMA WindowFits ==
  ASSUME StreamsInv, BytesInv, Window <= RetentionLimit, NEW s \in Streams, Open(s),
         \A i \in Ordered(s).retained : i.offset # consumed[s],
         NEW f \in written[s], f.offset <= consumed[s], consumed[s] < EndOf(f)
  PROVE  EndOf(f) - consumed[s] <= Available
<1>1. PICK c, e, R : c = consumed[s] /\ e = EndOf(f) /\ R = Ordered(s).retained
  OBVIOUS
<1>2. /\ \A t \in Streams : /\ Size(t) = SizeOf(written[t]) /\ Size(t) \in Nat /\ Size(t) <= Length
                            /\ consumed[t] \in Nat /\ consumed[t] <= Size(t)
                            /\ Held(Ordered(t).retained) \subseteq consumed[t] .. Size(t) - 1
      /\ Length \in Nat /\ Window \in Nat /\ RetentionLimit \in Nat /\ total \in Nat
  BY ExtentsHere, StreamAssumption DEF Extents, Extent, BytesInv, StreamsInv, Values
<1>3. /\ retainedBytes = Cardinality(HeldBytes)
      /\ total = Cardinality(AllBytes([t \in Streams |-> 0 .. consumed[t] - 1]))
      /\ Cardinality(WrittenBytes) <= total + Window
  BY DEF BytesInv
<1>4. StreamForm(written[s], c, R)
  BY <1>1, OrderedRecord
<1>5. (c .. e - 1) \cap Held(R) = {}
  BY <1>1, <1>4, AcrossIsNew
<1>6. c \in Nat /\ e \in Nat /\ c < e /\ e <= Size(s)
  <2>1. Sound(written[s], SizeOf(written[s]), acked[s], received[s], finished[s])
    BY DEF StreamsInv, StreamInv
  <2>2. EndOf(f) \in Nat /\ EndOf(f) <= SizeOf(written[s])
    BY <2>1, SoundFacts
  <2>3. QED BY <1>1, <1>2, <2>2
<1>7. PICK P, Q, C, V :
        /\ P = [t \in Streams |-> Held(Ordered(t).retained)]
        /\ Q = [t \in Streams |-> IF t = s THEN Held(R) \cup (c .. e - 1)
                                  ELSE Held(Ordered(t).retained)]
        /\ C = [t \in Streams |-> 0 .. consumed[t] - 1]
        /\ V = [t \in Streams |-> 0 .. Size(t) - 1]
  OBVIOUS
<1>8. DOMAIN P = Streams /\ DOMAIN Q = Streams /\ DOMAIN C = Streams /\ DOMAIN V = Streams
  BY <1>7
<1>9. /\ P[s] = Held(R) /\ Q[s] = Held(R) \cup (c .. e - 1)
      /\ \A t \in Streams \ {s} : Q[t] = P[t]
  BY <1>1, <1>7
<1>10. ASSUME NEW t \in Streams
       PROVE  /\ V[t] \subseteq 0 .. Length /\ P[t] \subseteq V[t]
              /\ Q[t] \subseteq V[t] /\ C[t] \subseteq V[t] /\ Q[t] \cap C[t] = {}
  <2>1. PICK a, n : a = consumed[t] /\ n = Size(t)
    OBVIOUS
  <2>2. a \in Nat /\ n \in Nat /\ a <= n /\ n <= Length /\ C[t] = 0 .. a - 1 /\ V[t] = 0 .. n - 1
    BY <1>2, <1>7, <2>1
  <2>3. P[t] \subseteq a .. n - 1
    BY <1>2, <1>7, <2>1
  <2>4. Q[t] \subseteq a .. n - 1
    <3>1. CASE t = s
      <4>1. Q[t] = P[t] \cup (c .. e - 1) /\ a = c /\ e <= n
        BY <1>1, <1>6, <1>9, <2>1, <3>1
      <4>2. c .. e - 1 \subseteq a .. n - 1
        BY <1>6, <2>2, <4>1
      <4>3. QED BY <2>3, <4>1, <4>2
    <3>2. CASE t # s
      BY <1>9, <2>3, <3>2
    <3>3. QED BY <3>1, <3>2
  <2>5. /\ a .. n - 1 \subseteq 0 .. n - 1 /\ 0 .. a - 1 \subseteq 0 .. n - 1
        /\ (a .. n - 1) \cap (0 .. a - 1) = {} /\ 0 .. n - 1 \subseteq 0 .. Length
    BY <1>2, <2>2
  <2>6. QED BY <2>2, <2>3, <2>4, <2>5
<1>11. Cardinality(AllBytes(Q)) + Cardinality(AllBytes(C)) <= Cardinality(AllBytes(V))
  BY <1>2, <1>8, <1>10, TwoSorts
<1>12. /\ Cardinality(AllBytes(P)) \in Nat /\ Cardinality(AllBytes(Q)) \in Nat
       /\ Cardinality(AllBytes(Q)) = Cardinality(AllBytes(P)) + Cardinality(Q[s]) - Cardinality(P[s])
  <2>1. \A t \in Streams : P[t] \subseteq 0 .. Length /\ Q[t] \subseteq 0 .. Length
    BY <1>10
  <2>2. QED BY <1>2, <1>8, <1>9, <2>1, AllBytesChange
<1>13. Cardinality(Q[s]) = Cardinality(P[s]) + (e - c) /\ Cardinality(P[s]) \in Nat
  <2>1. IsFiniteSet(c .. e - 1) /\ Cardinality(c .. e - 1) = e - c
    <3>1. c \in Int /\ e - 1 \in Int
      BY <1>6
    <3>2. /\ IsFiniteSet(c .. e - 1)
          /\ Cardinality(c .. e - 1) = IF c > e - 1 THEN 0 ELSE e - 1 - c + 1
      BY <3>1, FS_Interval
    <3>3. QED BY <1>6, <3>2
  <2>2. IsFiniteSet(Held(R))
    BY <1>4, FormFacts
  <2>3. PICK H, K : H = Held(R) /\ K = c .. e - 1
    OBVIOUS
  <2>4. IsFiniteSet(H) /\ IsFiniteSet(K) /\ H \cap K = {} /\ Cardinality(K) = e - c
    BY <1>5, <2>1, <2>2, <2>3
  <2>5. Cardinality(H \cup K) = Cardinality(H) + Cardinality(K) /\ Cardinality(H) \in Nat
    BY <2>4, DisjointUnion
  <2>6. QED BY <1>9, <2>3, <2>4, <2>5
<1>14. /\ retainedBytes = Cardinality(AllBytes(P)) /\ total = Cardinality(AllBytes(C))
       /\ Cardinality(AllBytes(V)) <= total + Window
  BY <1>3, <1>7 DEF HeldBytes, Held, WrittenBytes
<1>15. Cardinality(AllBytes(V)) \in Nat
  BY <1>2, <1>8, <1>10, AllBytesFinite
<1>16. retainedBytes + (e - c) <= RetentionLimit /\ retainedBytes \in Nat
  BY <1>2, <1>6, <1>11, <1>12, <1>13, <1>14, <1>15
<1>17. QED BY <1>1, <1>2, <1>6, <1>16 DEF Available

LEMMA SomethingMoves ==
  ASSUME StreamsInv, BytesInv, Window <= RetentionLimit, NEW s \in Streams,
         Given(s) < Size(s) \/ (Closed(s) /\ ~Ended(s)), HasSlot(s),
         ~RetainedAt(Ordered(s), Ordered(s).consumed)
  PROVE  \E f \in written[s] :
           LET d == Try(s, f, Length, TRUE)
           IN  /\ ~d.refused /\ (d.took > 0 \/ d.ended)
               /\ adapter = "server" => ~DeliveryComplete(s) /\ ServerAdmits(s, f, TRUE)
               /\ adapter = "client" => s \notin retired
<1>1. PICK W, n, c, R, o : /\ W = written[s] /\ n = SizeOf(W) /\ c = consumed[s]
                           /\ o = Ordered(s) /\ R = Ordered(s).retained
  OBVIOUS
<1>2. /\ Size(s) = n /\ n \in Nat /\ n <= Length /\ Length \in Nat
      /\ c \in Nat /\ c <= n /\ Given(s) = c
  BY <1>1, ExtentsHere, GivenIsConsumed, StreamAssumption DEF Extents, Extent, BytesInv
<1>3. ~Over(s)
  <2>1. ASSUME Over(s) PROVE FALSE
    <3>1. Ended(s) /\ c = n
      BY <1>1, <2>1, GivenIsConsumed DEF Over
    <3>2. QED BY <1>2, <3>1
  <2>2. QED BY <2>1
<1>4. Open(s) /\ ~DeliveryComplete(s) /\ s \notin retired
  BY <1>3, WhichState DEF StreamsInv, StreamInv
<1>5. o = [consumed |-> c, retained |-> R] /\ StreamForm(W, c, R)
  BY <1>1, <1>4, OrderedRecord
<1>6. \A i \in R : i.offset # c
  BY <1>1, <1>5 DEF RetainedAt
<1>7. /\ Sound(W, n, acked[s], received[s], finished[s])
      /\ Going(W, acked[s], received[s], finished[s], c, R)
  BY <1>1, <1>4 DEF StreamsInv, StreamInv, Open
<1>8. \A f \in W : /\ f \in Frames /\ EndOf(f) \in Nat /\ f.offset \in Nat
                   /\ f.len \in Nat /\ f.fin \in BOOLEAN /\ EndOf(f) = f.offset + f.len
                   /\ EndOf(f) <= n /\ (f.fin => EndOf(f) = n)
  BY <1>7, SoundFacts
<1>9. PICK available \in Nat : available = Available
  <2>1. retainedBytes \in Int /\ RetentionLimit \in Nat
    BY StreamAssumption DEF StreamsInv, Values
  <2>2. Available \in Nat
    BY <2>1 DEF Available
  <2>3. QED BY <2>2
<1>10. PICK memory \in BOOLEAN : memory = TRUE
  OBVIOUS
<1>11. PICK f \in W : Moves(Deliver(o, f, Length, memory, available))
  <2>1. CASE c < n
    <3>1. PICK f \in W : c \in Bytes(f)
      BY <1>2, <1>7, <2>1 DEF Sound, Covers
    <3>2. f.offset <= c /\ c < EndOf(f) /\ f.len <= Length /\ Length > 0
      BY <1>2, <1>8, <2>1, <3>1 DEF Bytes
    <3>3. CASE f.offset = c
      BY <1>2, <1>5, <1>6, <3>2, <3>3, WholeMoves
    <3>4. CASE f.offset # c
      <4>1. f.offset < c
        BY <1>2, <1>8, <3>2, <3>4
      <4>2. EndOf(f) - c <= available
        BY <1>1, <1>4, <1>6, <1>9, <3>2, WindowFits
      <4>3. QED BY <1>2, <1>5, <1>6, <1>10, <3>2, <4>1, <4>2, AcrossMoves
    <3>5. QED BY <3>3, <3>4
  <2>2. CASE c = n
    <3>1. Closed(s)
      BY <1>2, <2>2
    <3>2. PICK f \in W : f.fin
      BY <1>1, <3>1 DEF Closed
    <3>3. f.len = 0
      <4>1. f.len > 0 => c < EndOf(f)
        BY <1>7, <3>2 DEF Going
      <4>2. QED BY <1>2, <1>8, <2>2, <3>2, <4>1
    <3>4. f.offset = c /\ f.len <= Length
      BY <1>2, <1>8, <2>2, <3>2, <3>3
    <3>5. QED BY <1>2, <1>5, <1>6, <3>4, WholeMoves
  <2>3. QED BY <1>2, <2>1, <2>2
<1>12. Try(s, f, Length, TRUE) = Deliver(o, f, Length, memory, available)
  BY <1>1, <1>9, <1>10 DEF Try
<1>13. PICK d : d = Try(s, f, Length, TRUE)
  OBVIOUS
<1>14. ~d.refused /\ (d.took > 0 \/ d.ended)
  BY <1>11, <1>12, <1>13 DEF Moves
<1>15. ServerAdmits(s, f, TRUE)
  BY <1>13, <1>14 DEF ServerAdmits
<1>16. QED BY <1>1, <1>4, <1>13, <1>14, <1>15

\* When everything that may be in flight can be retained, a stream always
\* has a next step: the frame at the cursor is never refused for want of
\* room behind it, and what waits at the cursor can be given
\* (retention_for_receive_window).
THEOREM NothingStallsTheorem ==
  ASSUME Window <= RetentionLimit
  PROVE  Spec /\ Served => []NothingStalls
<1>1. StreamsInv /\ BytesInv => NothingStalls
  BY SomethingMoves DEF NothingStalls
<1>2. QED BY <1>1, BytesInvHolds, PTL
=============================================================================
