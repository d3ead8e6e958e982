----------------------- MODULE ReceivedPacketsProofs ------------------------
(***************************************************************************)
(* ReceivedPackets implements PacketMemory, for every capacity, number of  *)
(* packets and set of records.  That argument does not need the binary     *)
(* search to be exact: a number that a range already holds touches that    *)
(* range alone, so inserting it again changes nothing.  The search is      *)
(* proved exact on its own, and with it that late packets are welcome.     *)
(***************************************************************************)
EXTENDS ReceivedPackets, FiniteSetTheorems, WellFoundedInduction, TLAPS

-----------------------------------------------------------------------------
(* Extremes.                                                               *)

\* A set of naturals has a least element.
LEMMA Least ==
  ASSUME NEW S, S \subseteq Nat, S # {}
  PROVE  \E f \in S : \A m \in S : f <= m
<1>1. \E x \in S : \A y \in S : ~(<<y, x>> \in OpToRel(<, Nat))
  BY NatLessThanWellFounded, WFMin
<1>2. PICK f \in S : \A y \in S : ~(<<y, f>> \in OpToRel(<, Nat))
  BY <1>1
<1>3. ASSUME NEW m \in S PROVE f <= m
  <2>1. m \in Nat /\ f \in Nat
    OBVIOUS
  <2>2. m < f => <<m, f>> \in OpToRel(<, Nat)
    BY <2>1 DEF OpToRel
  <2>3. ~(m < f)
    BY <1>2, <2>2, Zenon
  <2> QED
    BY <2>1, <2>3
<1> QED
  BY <1>3

\* A set of integers with an upper bound has a greatest element.
LEMMA Greatest ==
  ASSUME NEW S, S \subseteq Int, S # {}, NEW h \in Int, \A k \in S : k <= h
  PROVE  \E m \in S : \A k \in S : k <= m
<1> DEFINE D == {h - k : k \in S}
<1>1. D \subseteq Nat /\ D # {}
  <2>1. \A k \in S : h - k \in Nat
    OBVIOUS
  <2> QED
    BY <2>1
<1>2. PICK f \in D : \A m \in D : f <= m
  BY <1>1, Least
<1>3. PICK k \in S : f = h - k
  BY <1>2
<1>4. \A j \in S : j <= k
  BY <1>2, <1>3
<1> QED
  BY <1>4

\* What a set of naturals holds from some number on is a top of it.
LEMMA TopAbove ==
  ASSUME NEW S, S \subseteq Nat, NEW b \in Int, \E m \in S : m >= b
  PROVE  Memory!KeepsTop(S, {m \in S : m >= b})
<1> DEFINE T == {m \in S : m >= b}
<1>1. PICK f \in T : \A m \in T : f <= m
  BY Least
<1>2. \A m \in S : m >= b <=> m >= f
  <2>1. f \in S /\ f >= b /\ f \in Nat
    BY <1>1
  <2>2. ASSUME NEW m \in S, m >= b PROVE m >= f
    <3>1. m \in T
      BY <2>2
    <3> QED
      BY <1>1, <2>1, <3>1
  <2>3. ASSUME NEW m \in S, m >= f PROVE m >= b
    BY <2>1, <2>3
  <2> QED
    BY <2>2, <2>3
<1> QED
  BY <1>1, <1>2 DEF Memory!KeepsTop

-----------------------------------------------------------------------------
(* Sets of ranges.                                                         *)

Formed(S) ==
  /\ IsFiniteSet(S)
  /\ \A r \in S : r.start \in Nat /\ r.end \in Nat /\ r.start <= r.end
  /\ \A r, q \in S : r = q \/ r.end + 1 < q.start \/ q.end + 1 < r.start

LEMMA OldestIs ==
  ASSUME NEW S, Formed(S), S # {}
  PROVE  Oldest(S) \in S /\ \A q \in S : Oldest(S).end <= q.end
<1> DEFINE E == {r.end : r \in S}
<1>1. E \subseteq Nat /\ E # {}
  BY DEF Formed
<1>2. PICK f \in E : \A m \in E : f <= m
  BY <1>1, Least
<1>3. \E r \in S : \A q \in S : r.end <= q.end
  BY <1>2
<1> QED
  BY <1>3 DEF Oldest

LEMMA NewestIs ==
  ASSUME NEW S, Formed(S), S # {}, NEW h \in Int, \A q \in S : q.end <= h
  PROVE  Newest(S) \in S /\ \A q \in S : q.end <= Newest(S).end
<1> DEFINE E == {r.end : r \in S}
<1>1. E \subseteq Int /\ E # {} /\ \A k \in E : k <= h
  BY DEF Formed
<1>2. PICK f \in E : \A m \in E : m <= f
  BY <1>1, Greatest
<1>3. \E r \in S : \A q \in S : q.end <= r.end
  BY <1>2
<1> QED
  BY <1>3 DEF Newest

LEMMA NumbersAre ==
  ASSUME NEW S, Formed(S)
  PROVE  /\ Numbers(S) \subseteq Nat
         /\ \A m \in Nat : m \in Numbers(S) <=> \E r \in S : r.start <= m /\ m <= r.end
         /\ \A r \in S : r.start \in Numbers(S) /\ r.end \in Numbers(S)
<1>1. \A m : m \in Numbers(S) <=> \E r \in S : m \in r.start .. r.end
  BY DEF Numbers
<1>2. \A r \in S : \A m \in r.start .. r.end : m \in Nat
  BY DEF Formed
<1> QED
  BY <1>1, <1>2 DEF Formed

\* The newest range ends at the highest number.
LEMMA NewestEnds ==
  ASSUME NEW S, Formed(S), NEW h \in Nat, h \in Numbers(S), \A m \in Numbers(S) : m <= h
  PROVE  S # {} /\ Newest(S) \in S /\ Newest(S).end = h
<1>1. PICK r \in S : r.start <= h /\ h <= r.end
  BY NumbersAre
<1>2. \A q \in S : q.end <= h
  BY NumbersAre
<1>3. Newest(S) \in S /\ r.end <= Newest(S).end
  BY <1>1, <1>2, NewestIs
<1> QED
  BY <1>1, <1>2, <1>3 DEF Formed

-----------------------------------------------------------------------------
(* Insertion.                                                              *)

Only(n) == [start |-> n, end |-> n]

\* J covers n and the ranges R of S, and keeps its distance from the others.
Merged(S, R, n, J) ==
  /\ J.start \in Nat /\ J.end \in Nat
  /\ \A m \in Nat : (J.start <= m /\ m <= J.end)
                      <=> (m = n \/ \E r \in R : r.start <= m /\ m <= r.end)
  /\ \A r \in S \ R : r.end + 1 < J.start \/ J.end + 1 < r.start

\* One range that touches n becomes one range with it.
LEMMA JoinOne ==
  ASSUME NEW S, Formed(S), NEW n \in Nat, NEW r \in S, Touches(r, Only(n)),
         \A q \in S : Touches(q, Only(n)) => q = r
  PROVE  Merged(S, {r}, n, Join(r, Only(n)))
<1> DEFINE J == Join(r, Only(n))
<1>1. r.start \in Nat /\ r.end \in Nat /\ r.start <= r.end
      /\ r.start <= n + 1 /\ n <= r.end + 1
  BY DEF Formed, Touches, Only
<1>2. /\ J.start = IF r.start <= n THEN r.start ELSE n
      /\ J.end = IF r.end >= n THEN r.end ELSE n
  BY DEF Join, Only
<1>3. J.start \in Nat /\ J.end \in Nat
  BY <1>1, <1>2
<1>4. \A m \in Nat : (J.start <= m /\ m <= J.end) <=> (m = n \/ (r.start <= m /\ m <= r.end))
  BY <1>1, <1>2
<1>5. ASSUME NEW q \in S \ {r}
      PROVE  q.end + 1 < J.start \/ J.end + 1 < q.start
  <2>1. q.start \in Nat /\ q.end \in Nat /\ q.start <= q.end
        /\ (q.end + 1 < r.start \/ r.end + 1 < q.start)
    BY DEF Formed
  <2>2. ~(q.start <= n + 1 /\ n <= q.end + 1)
    BY DEF Touches, Only
  <2> QED
    BY <1>1, <1>2, <2>1, <2>2
<1> QED
  BY <1>3, <1>4, <1>5 DEF Merged

\* No third range touches n between two that do.
LEMMA TouchTwo ==
  ASSUME NEW S, Formed(S), NEW n \in Nat,
         NEW o \in S, NEW r \in S, NEW w \in S,
         Touches(o, Only(n)), Touches(r, Only(n)), Touches(w, Only(n)),
         o.end <= r.end, r.end <= w.end
  PROVE  r = o \/ r = w
<1> SUFFICES ASSUME r # o, r # w PROVE FALSE
  OBVIOUS
<1>1. /\ o.start \in Nat /\ o.end \in Nat /\ o.start <= o.end
      /\ r.start \in Nat /\ r.end \in Nat /\ r.start <= r.end
      /\ w.start \in Nat /\ w.end \in Nat /\ w.start <= w.end
  BY DEF Formed
<1>2. /\ o.end + 1 < r.start \/ r.end + 1 < o.start
      /\ r.end + 1 < w.start \/ w.end + 1 < r.start
  BY DEF Formed
<1>3. n <= o.end + 1 /\ w.start <= n + 1
  BY DEF Touches, Only
<1> QED
  BY <1>1, <1>2, <1>3

\* n and the ranges it touches become one range.
LEMMA JoinTouching ==
  ASSUME NEW S, Formed(S), NEW h \in Int, \A q \in S : q.end <= h, NEW n \in Nat
  PROVE  LET R == {r \in S : Touches(r, Only(n))}
         IN  Merged(S, R, n, JoinAll(R, Only(n)))
<1> DEFINE R == {r \in S : Touches(r, Only(n))}
           J == JoinAll(R, Only(n))
<1> SUFFICES Merged(S, R, n, J)
  OBVIOUS
<1>1. CASE R = {}
  <2>1. J = Only(n) /\ J.start = n /\ J.end = n
    BY <1>1 DEF JoinAll, Only
  <2>2. ASSUME NEW q \in S PROVE q.end + 1 < n \/ n + 1 < q.start
    <3>1. q.start \in Nat /\ q.end \in Nat
      BY DEF Formed
    <3>2. ~Touches(q, Only(n))
      BY <1>1
    <3>3. ~(q.start <= n + 1 /\ n <= q.end + 1)
      BY <3>2 DEF Touches, Only
    <3> QED
      BY <3>1, <3>3
  <2>3. \A m \in Nat : (n <= m /\ m <= n) <=> m = n
    OBVIOUS
  <2>4. \A r \in S \ R : r.end + 1 < J.start \/ J.end + 1 < r.start
    BY <2>1, <2>2
  <2>5. \A m \in Nat : (J.start <= m /\ m <= J.end)
                        <=> (m = n \/ \E r \in R : r.start <= m /\ m <= r.end)
    BY <1>1, <2>1, <2>3
  <2> HIDE DEF J, R
  <2> QED
    BY <2>1, <2>4, <2>5 DEF Merged
<1>2. CASE R # {}
  <2> DEFINE o == Oldest(R)
             w == Newest(R)
  <2>1. Formed(R)
    <3>1. IsFiniteSet(R)
      BY FS_Subset DEF Formed
    <3> QED
      BY <3>1 DEF Formed
  <2>2. o \in R /\ \A q \in R : o.end <= q.end
    BY <1>2, <2>1, OldestIs
  <2>3. w \in R /\ \A q \in R : q.end <= w.end
    BY <1>2, <2>1, NewestIs
  <2>4. J = Join(w, Join(o, Only(n)))
    BY <1>2 DEF JoinAll
  <2>5. \A r \in R : r = o \/ r = w
    BY <2>2, <2>3, TouchTwo
  <2> HIDE DEF o, w, J
  <2>6. /\ o.start \in Nat /\ o.end \in Nat /\ o.start <= o.end
        /\ o.start <= n + 1 /\ n <= o.end + 1
        /\ w.start \in Nat /\ w.end \in Nat /\ w.start <= w.end
        /\ w.start <= n + 1 /\ n <= w.end + 1
        /\ o = w \/ o.end + 1 < w.start \/ w.end + 1 < o.start
        /\ o.end <= w.end
    BY <2>2, <2>3 DEF Formed, Touches, Only
  <2>7. /\ J.start = IF w.start <= (IF o.start <= n THEN o.start ELSE n)
                       THEN w.start ELSE (IF o.start <= n THEN o.start ELSE n)
        /\ J.end = IF w.end >= (IF o.end >= n THEN o.end ELSE n)
                     THEN w.end ELSE (IF o.end >= n THEN o.end ELSE n)
    BY <2>4 DEF Join, Only
  <2>8. J.start \in Nat /\ J.end \in Nat
    BY <2>6, <2>7
  <2>9. \A m \in Nat : (J.start <= m /\ m <= J.end)
          <=> (m = n \/ (o.start <= m /\ m <= o.end) \/ (w.start <= m /\ m <= w.end))
    BY <2>6, <2>7
  <2>10. \A m \in Nat : (\E r \in R : r.start <= m /\ m <= r.end)
           <=> ((o.start <= m /\ m <= o.end) \/ (w.start <= m /\ m <= w.end))
    BY <2>2, <2>3, <2>5
  <2>11. ASSUME NEW q \in S \ R
         PROVE  q.end + 1 < J.start \/ J.end + 1 < q.start
    <3>1. q.start \in Nat /\ q.end \in Nat /\ q.start <= q.end
          /\ (q.end + 1 < o.start \/ o.end + 1 < q.start)
          /\ (q.end + 1 < w.start \/ w.end + 1 < q.start)
      BY <2>2, <2>3, <2>11 DEF Formed
    <3>2. ~(q.start <= n + 1 /\ n <= q.end + 1)
      BY <2>11 DEF Touches, Only
    <3> QED
      BY <2>6, <2>7, <3>1, <3>2
  <2> HIDE DEF R
  <2> QED
    BY <2>8, <2>9, <2>10, <2>11 DEF Merged
<1> QED
  BY <1>1, <1>2

\* With J in place of R the set is well formed and holds n as well.
LEMMA MergedFormed ==
  ASSUME NEW S, Formed(S), NEW R \in SUBSET S, NEW n \in Nat, NEW J, Merged(S, R, n, J)
  PROVE  /\ Formed((S \ R) \cup {J})
         /\ Numbers((S \ R) \cup {J}) = Numbers(S) \cup {n}
<1> DEFINE T == (S \ R) \cup {J}
<1>1. J.start \in Nat /\ J.end \in Nat /\ J.start <= J.end
  <2>1. J.start \in Nat /\ J.end \in Nat /\ J.start <= n /\ n <= J.end
    BY DEF Merged
  <2> QED
    BY <2>1
<1>2. IsFiniteSet(T)
  <2>1. IsFiniteSet(S \ R)
    BY FS_Subset, S \ R \subseteq S DEF Formed
  <2> QED
    BY <2>1, FS_AddElement
<1>3. Formed(T)
  <2>1. \A r \in T : r.start \in Nat /\ r.end \in Nat /\ r.start <= r.end
    BY <1>1 DEF Formed
  <2>2. \A r, q \in T : r = q \/ r.end + 1 < q.start \/ q.end + 1 < r.start
    BY DEF Formed, Merged
  <2> HIDE DEF T
  <2> QED
    BY <1>2, <2>1, <2>2 DEF Formed
<1>4. ASSUME NEW m \in Nat PROVE m \in Numbers(T) <=> m \in Numbers(S) \cup {n}
  <2>1. m \in Numbers(T) <=> \E r \in T : r.start <= m /\ m <= r.end
    BY <1>3, NumbersAre
  <2>2. m \in Numbers(S) <=> \E r \in S : r.start <= m /\ m <= r.end
    BY NumbersAre
  <2>3. (J.start <= m /\ m <= J.end) <=> (m = n \/ \E r \in R : r.start <= m /\ m <= r.end)
    BY DEF Merged
  <2> QED
    BY <2>1, <2>2, <2>3
<1>5. Numbers(T) \subseteq Nat /\ Numbers(S) \subseteq Nat
  BY <1>3, NumbersAre
<1> HIDE DEF T
<1>6. Numbers(T) = Numbers(S) \cup {n}
  BY <1>4, <1>5
<1> QED
  BY <1>3, <1>6 DEF T

\* Without its oldest range a set holds what it held above that range.
LEMMA WithoutOldest ==
  ASSUME NEW S, Formed(S), Cardinality(S) > 1
  PROVE  LET T == S \ {Oldest(S)}
         IN  /\ Formed(T)
             /\ Cardinality(T) = Cardinality(S) - 1
             /\ Memory!KeepsTop(Numbers(S), Numbers(T))
<1> DEFINE o == Oldest(S)
           T == S \ {o}
<1>1. S # {}
  BY FS_EmptySet DEF Formed
<1>2. o \in S /\ \A q \in S : o.end <= q.end
  BY <1>1, OldestIs
<1>3. IsFiniteSet(T) /\ Cardinality(T) = Cardinality(S) - 1
  BY <1>2, FS_RemoveElement DEF Formed
<1>4. Formed(T)
  BY <1>3 DEF Formed
<1>5. T # {}
  <2>1. Cardinality(S) \in Nat
    BY FS_CardinalityType DEF Formed
  <2> HIDE DEF T
  <2> QED
    BY <1>3, <2>1, FS_EmptySet
<1> HIDE DEF o
<1>6. o.end \in Nat /\ o.start \in Nat /\ o.start <= o.end
  BY <1>2 DEF Formed
<1>7. \A q \in T : q.start > o.end + 1 /\ q.start \in Nat /\ q.end \in Nat /\ q.start <= q.end
  BY <1>2, <1>6 DEF Formed
<1>8. Numbers(S) \subseteq Nat /\ Numbers(T) \subseteq Nat
  BY <1>4, NumbersAre
<1>9. ASSUME NEW m \in Nat PROVE m \in Numbers(T) <=> m \in Numbers(S) /\ m >= o.end + 1
  <2>1. m \in Numbers(T) <=> \E r \in T : r.start <= m /\ m <= r.end
    BY <1>4, NumbersAre
  <2>2. m \in Numbers(S) <=> \E r \in S : r.start <= m /\ m <= r.end
    BY NumbersAre
  <2>3. ASSUME NEW r \in T, r.start <= m PROVE m >= o.end + 1
    BY <1>6, <1>7, <2>3
  <2>4. m >= o.end + 1 => ~(o.start <= m /\ m <= o.end)
    BY <1>6
  <2> QED
    BY <2>1, <2>2, <2>3, <2>4
<1>10. Numbers(T) = {m \in Numbers(S) : m >= o.end + 1}
  <2> HIDE DEF T
  <2> QED
    BY <1>8, <1>9
<1>11. \E m \in Numbers(S) : m >= o.end + 1
  <2>1. PICK q \in T : TRUE
    BY <1>5
  <2>2. q.end \in Numbers(S) /\ q.end >= o.end + 1
    BY <1>6, <1>7, NumbersAre
  <2> QED
    BY <2>2
<1>12. Memory!KeepsTop(Numbers(S), Numbers(T))
  BY <1>6, <1>8, <1>10, <1>11, TopAbove
<1> QED
  BY <1>3, <1>4, <1>12 DEF o

\* Everything is a top of itself.
LEMMA TopOfAll ==
  ASSUME NEW S, S \subseteq Nat, S # {}
  PROVE  Memory!KeepsTop(S, S)
<1>1. PICK f \in S : \A m \in S : f <= m
  BY Least
<1>2. \A m \in S : m >= f
  BY <1>1
<1>3. S = {m \in S : m >= f}
  BY <1>2
<1> QED
  BY <1>3 DEF Memory!KeepsTop

\* Insertion keeps the form and the capacity, and forgets only from below.
LEMMA InsertKeeps ==
  ASSUME NEW S, Formed(S), NEW h \in Int, \A q \in S : q.end <= h, NEW n \in Nat,
         Cardinality(S) <= AckRangeCapacity
  PROVE  /\ Formed(Insert(S, n))
         /\ Cardinality(Insert(S, n)) <= AckRangeCapacity
         /\ Memory!KeepsTop(Numbers(S) \cup {n}, Numbers(Insert(S, n)))
<1> USE CapacityAssumption
<1> DEFINE new == Only(n)
           R == {r \in S : Touches(r, new)}
           J == JoinAll(R, new)
           all == (S \ R) \cup {J}
           w == Newest(S)
<1>1. Insert(S, n) = IF ExtendsNewest(S, new) THEN (S \ {w}) \cup {Join(w, new)}
                     ELSE KeepCapacity(S \ R, J)
  BY DEF Insert, Only
<1>2. Numbers(S) \cup {n} \subseteq Nat
  BY NumbersAre
<1>3. IsFiniteSet(S) /\ Cardinality(S) \in Nat
  BY FS_CardinalityType DEF Formed
<1>4. CASE ExtendsNewest(S, new)
  <2> DEFINE T == (S \ {w}) \cup {Join(w, new)}
  <2>1. S # {} /\ w \in S /\ Touches(w, new)
    BY <1>4, NewestIs DEF ExtendsNewest
  <2>2. ASSUME NEW q \in S, Touches(q, new) PROVE q = w
    <3>1. q.end \in Nat
      BY DEF Formed
    <3>2. n <= q.end + 1
      BY <2>2 DEF Touches, Only
    <3>3. q # w => n > q.end + 1
      BY <1>4 DEF ExtendsNewest, Only
    <3> QED
      BY <3>1, <3>2, <3>3
  <2>3. Merged(S, {w}, n, Join(w, new))
    BY <2>1, <2>2, JoinOne
  <2>4. Formed(T) /\ Numbers(T) = Numbers(S) \cup {n}
    BY <2>1, <2>3, MergedFormed
  <2>5. Cardinality(T) <= AckRangeCapacity
    <3>1. IsFiniteSet(S \ {w}) /\ Cardinality(S \ {w}) = Cardinality(S) - 1
      BY <1>3, <2>1, FS_RemoveElement
    <3>2. Cardinality(T) <= Cardinality(S \ {w}) + 1
      <4>1. Cardinality(S \ {w}) \in Nat
        BY <3>1, FS_CardinalityType
      <4> QED
        BY <3>1, <4>1, FS_AddElement
    <3> HIDE DEF T
    <3>3. Cardinality(T) \in Nat
      BY <2>4, FS_CardinalityType DEF Formed
    <3> QED
      BY <1>3, <3>1, <3>2, <3>3
  <2>6. Memory!KeepsTop(Numbers(S) \cup {n}, Numbers(T))
    BY <1>2, <2>4, TopOfAll
  <2> HIDE DEF T
  <2> QED
    BY <1>1, <1>4, <2>4, <2>5, <2>6 DEF T
<1>5. CASE ~ExtendsNewest(S, new)
  <2>1. Merged(S, R, n, J)
    BY JoinTouching
  <2>2. Formed(all) /\ Numbers(all) = Numbers(S) \cup {n}
    <3> HIDE DEF J
    <3> QED
      BY <2>1, MergedFormed
  <2>3. Cardinality(all) \in Nat /\ Cardinality(all) <= Cardinality(S) + 1
    <3>1. IsFiniteSet(S \ R) /\ Cardinality(S \ R) <= Cardinality(S)
      BY <1>3, FS_Subset, S \ R \subseteq S
    <3>2. Cardinality(S \ R) \in Nat
      BY <3>1, FS_CardinalityType
    <3> HIDE DEF J, R
    <3>3. Cardinality(all) <= Cardinality(S \ R) + 1
      <4> DEFINE rest == S \ R
      <4>1. Cardinality(all) = IF J \in rest THEN Cardinality(rest) ELSE Cardinality(rest) + 1
        BY <3>1, FS_AddElement
      <4> HIDE DEF all, rest
      <4> QED
        BY <3>2, <4>1 DEF rest
    <3>4. Cardinality(all) \in Nat
      BY <2>2, FS_CardinalityType DEF Formed
    <3> HIDE DEF all
    <3> QED
      BY <1>3, <3>1, <3>2, <3>3, <3>4
  <2>4. Insert(S, n) = IF Cardinality(all) <= AckRangeCapacity THEN all ELSE all \ {Oldest(all)}
    BY <1>1, <1>5 DEF KeepCapacity
  <2> HIDE DEF all
  <2>5. CASE Cardinality(all) <= AckRangeCapacity
    <3>1. Memory!KeepsTop(Numbers(S) \cup {n}, Numbers(all))
      BY <1>2, <2>2, TopOfAll
    <3> QED
      BY <2>2, <2>4, <2>5, <3>1
  <2>6. CASE ~(Cardinality(all) <= AckRangeCapacity)
    <3> DEFINE T == all \ {Oldest(all)}
    <3>1. Cardinality(all) > 1
      BY <2>3, <2>6
    <3>2. /\ Formed(T)
          /\ Cardinality(T) = Cardinality(all) - 1
          /\ Memory!KeepsTop(Numbers(all), Numbers(T))
      BY <2>2, <3>1, WithoutOldest
    <3>3. Cardinality(T) <= AckRangeCapacity
      BY <1>3, <2>3, <3>2
    <3> HIDE DEF T
    <3> QED
      BY <2>2, <2>4, <2>6, <3>2, <3>3 DEF T
  <2> QED
    BY <2>5, <2>6
<1> QED
  BY <1>4, <1>5

-----------------------------------------------------------------------------
(* Compaction.                                                             *)

\* Cutting at f keeps the form and exactly the numbers from f on.
LEMMA DiscardKeeps ==
  ASSUME NEW S, Formed(S), NEW f \in Nat
  PROVE  /\ Formed(DiscardBelow(S, f))
         /\ Cardinality(DiscardBelow(S, f)) <= Cardinality(S)
         /\ Numbers(DiscardBelow(S, f)) = {m \in Numbers(S) : m >= f}
<1> DEFINE Q == {q \in S : q.end >= f}
           Cut(r) == [start |-> IF r.start >= f THEN r.start ELSE f, end |-> r.end]
           T == {Cut(r) : r \in Q}
<1>1. DiscardBelow(S, f) = T
  BY DEF DiscardBelow
<1>2. IsFiniteSet(Q) /\ Cardinality(Q) <= Cardinality(S)
  BY FS_Subset, Q \subseteq S DEF Formed
<1>3. IsFiniteSet(T) /\ Cardinality(T) <= Cardinality(Q)
  <2> DEFINE g == [r \in Q |-> Cut(r)]
  <2>1. g \in [Q -> T]
    OBVIOUS
  <2>2. \A t \in T : \E r \in Q : g[r] = t
    OBVIOUS
  <2> HIDE DEF g, T, Q, Cut
  <2>3. g \in Surjection(Q, T)
    BY <2>1, <2>2 DEF Surjection
  <2> QED
    BY <1>2, <2>3, FS_Surjection
<1>4. ASSUME NEW r \in Q
      PROVE  /\ r.start \in Nat /\ r.end \in Nat /\ r.start <= r.end /\ f <= r.end
             /\ Cut(r).end = r.end
             /\ Cut(r).start = IF r.start >= f THEN r.start ELSE f
  BY DEF Formed
<1>5. \A t \in T : t.start \in Nat /\ t.end \in Nat /\ t.start <= t.end
  BY <1>4
<1>6. ASSUME NEW t \in T, NEW u \in T
      PROVE  t = u \/ t.end + 1 < u.start \/ u.end + 1 < t.start
  <2>1. PICK r \in Q : t = Cut(r)
    OBVIOUS
  <2>2. PICK q \in Q : u = Cut(q)
    OBVIOUS
  <2>3. r = q \/ r.end + 1 < q.start \/ q.end + 1 < r.start
    BY DEF Formed
  <2> HIDE DEF Q, Cut
  <2> QED
    BY <1>4, <2>1, <2>2, <2>3
<1>7. Formed(T)
  <2> HIDE DEF T
  <2> QED
    BY <1>3, <1>5, <1>6 DEF Formed
<1>8. ASSUME NEW m \in Nat PROVE m \in Numbers(T) <=> m \in Numbers(S) /\ m >= f
  <2>1. m \in Numbers(T) <=> \E t \in T : t.start <= m /\ m <= t.end
    BY <1>7, NumbersAre
  <2>2. m \in Numbers(S) <=> \E r \in S : r.start <= m /\ m <= r.end
    BY NumbersAre
  <2>3. (\E t \in T : t.start <= m /\ m <= t.end) <=> \E r \in Q : Cut(r).start <= m /\ m <= Cut(r).end
    OBVIOUS
  <2>4. ASSUME NEW r \in Q
        PROVE  (Cut(r).start <= m /\ m <= Cut(r).end) <=> (r.start <= m /\ m <= r.end /\ m >= f)
    <3> HIDE DEF Q, Cut
    <3> QED
      BY <1>4
  <2>5. ASSUME NEW r \in S, m <= r.end, m >= f PROVE r \in Q
    <3>1. r.end \in Nat
      BY DEF Formed
    <3> QED
      BY <2>5, <3>1
  <2>6. Q \subseteq S
    OBVIOUS
  <2> HIDE DEF Q, Cut, T
  <2> QED
    BY <2>1, <2>2, <2>3, <2>4, <2>5, <2>6
<1>9. Numbers(T) = {m \in Numbers(S) : m >= f}
  <2>1. Numbers(T) \subseteq Nat /\ Numbers(S) \subseteq Nat
    BY <1>7, NumbersAre
  <2> HIDE DEF T
  <2> QED
    BY <1>8, <2>1
<1>10. Cardinality(T) <= Cardinality(S)
  <2>1. Cardinality(T) \in Nat /\ Cardinality(Q) \in Nat /\ Cardinality(S) \in Nat
    BY <1>2, <1>3, FS_CardinalityType DEF Formed
  <2> HIDE DEF T, Q
  <2> QED
    BY <1>2, <1>3, <2>1
<1> HIDE DEF T
<1> QED
  BY <1>1, <1>7, <1>9, <1>10

-----------------------------------------------------------------------------
(* The binary search.  What a recursive function computes is shown without *)
(* an induction principle: a set of naturals has a least element, so there *)
(* would be a smallest window on which the claim fails, and one round of   *)
(* the search reduces it to a smaller one.                                 *)

\* The position of a range: how many ranges are newer.
Rank(S, r) == Cardinality({q \in S : q.end > r.end})

\* A newer range stands before an older one.
LEMMA RankOrder ==
  ASSUME NEW S, Formed(S), NEW r \in S
  PROVE  /\ Rank(S, r) \in 0 .. Cardinality(S) - 1
         /\ \A q \in S : q.end > r.end => Rank(S, q) < Rank(S, r)
<1> DEFINE Above(x) == {q \in S : q.end > x.end}
<1>1. IsFiniteSet(S) /\ \A x \in S : x.end \in Nat
  BY DEF Formed
<1>2. ASSUME NEW x \in S
      PROVE  IsFiniteSet(Above(x)) /\ Cardinality(Above(x)) \in Nat
  BY <1>1, FS_Subset, FS_CardinalityType
<1>3. Cardinality(Above(r)) < Cardinality(S)
  <2>1. Above(r) \in SUBSET S /\ r \notin Above(r)
    BY <1>1
  <2>2. Cardinality(Above(r)) <= Cardinality(S) /\ Cardinality(Above(r)) # Cardinality(S)
    BY <1>1, <2>1, FS_Subset
  <2> QED
    BY <1>1, <1>2, <2>2, FS_CardinalityType
<1>4. ASSUME NEW q \in S, q.end > r.end
      PROVE  Cardinality(Above(q)) < Cardinality(Above(r))
  <2>1. Above(q) \in SUBSET Above(r) /\ q \in Above(r) /\ q \notin Above(q)
    BY <1>1, <1>4
  <2>2. /\ Cardinality(Above(q)) <= Cardinality(Above(r))
        /\ Cardinality(Above(q)) # Cardinality(Above(r))
    BY <1>2, <2>1, FS_Subset
  <2>3. Cardinality(Above(q)) \in Nat /\ Cardinality(Above(r)) \in Nat
    BY <1>2
  <2> HIDE DEF Above
  <2> QED
    BY <2>2, <2>3
<1>5. Cardinality(S) \in Nat
  BY <1>1, FS_CardinalityType
<1> QED
  BY <1>2, <1>3, <1>4, <1>5 DEF Rank

\* There is a range at every position of the array, and get finds it.
LEMMA AtIs ==
  ASSUME NEW S, Formed(S), NEW i \in 0 .. Cardinality(S) - 1
  PROVE  At(S, i) \in S /\ Rank(S, At(S, i)) = i
<1> DEFINE N == Cardinality(S)
           P == 0 .. N - 1
           f == [r \in S |-> Rank(S, r)]
<1>1. IsFiniteSet(S) /\ N \in Nat
  BY FS_CardinalityType DEF Formed
<1>2. f \in [S -> P]
  BY RankOrder
<1>3. ASSUME NEW r \in S, NEW q \in S, r # q PROVE f[r] # f[q]
  <2>1. r.end > q.end \/ q.end > r.end
    BY <1>3 DEF Formed
  <2>2. Rank(S, r) \in Int /\ Rank(S, q) \in Int
    BY <1>1, RankOrder
  <2>3. Rank(S, r) < Rank(S, q) \/ Rank(S, q) < Rank(S, r)
    BY <2>1, RankOrder
  <2> QED
    BY <2>2, <2>3
<1>4. f \in Injection(S, P)
  BY <1>2, <1>3 DEF Injection, IsInjective
<1>5. IsFiniteSet(P) /\ Cardinality(P) = N
  BY <1>1, FS_Interval
<1>6. f \in Surjection(S, P)
  BY <1>4, <1>5, FS_Injection
<1>7. \E r \in S : Rank(S, r) = i
  BY <1>6 DEF Surjection
<1>8. \E r \in S : Cardinality({q \in S : q.end > r.end}) = i
  BY <1>7 DEF Rank
<1> QED
  BY <1>8 DEF At, Rank

\* Either half of a window is a smaller window.
LEMMA Halves ==
  ASSUME NEW w \in Windows, w.low < w.high
  PROVE  LET middle == w.low + (w.high - w.low) \div 2
             lower == [low |-> w.low, high |-> middle]
             upper == [low |-> middle + 1, high |-> w.high]
         IN  /\ middle \in Nat /\ w.low <= middle /\ middle < w.high
             /\ lower \in Windows /\ upper \in Windows
<1> DEFINE middle == w.low + (w.high - w.low) \div 2
<1>1. w.low \in 0 .. AckRangeCapacity /\ w.high \in 0 .. AckRangeCapacity
  BY DEF Windows
<1>2. middle \in Nat /\ w.low <= middle /\ middle < w.high
  BY <1>1, CapacityAssumption
<1>3. middle \in 0 .. AckRangeCapacity /\ middle + 1 \in 0 .. AckRangeCapacity
  BY <1>1, <1>2, CapacityAssumption
<1> HIDE DEF middle
<1> QED
  BY <1>1, <1>2, <1>3 DEF Windows, middle

\* A round of the search in a window that is not empty.
LEMMA ProbeIs ==
  ASSUME NEW S, NEW n, NEW w \in Windows, w.low < w.high, NEW f
  PROVE  LET middle == w.low + (w.high - w.low) \div 2
             r == At(S, middle)
         IN  Probe(S, n, w, f) =
               IF n > r.end THEN f[[low |-> w.low, high |-> middle]]
               ELSE IF n < r.start THEN f[[low |-> middle + 1, high |-> w.high]]
               ELSE TRUE
<1>1. ~(w.low >= w.high)
  BY CapacityAssumption DEF Windows
<1> QED
  BY <1>1, Zenon DEF Probe

\* A round of the search answers, and asks only about smaller windows.
LEMMA ProbeOnSmaller ==
  ASSUME NEW S, NEW n, NEW w \in Windows,
         NEW f \in [Windows -> BOOLEAN], NEW g \in [Windows -> BOOLEAN],
         \A v \in Windows : v.high - v.low < w.high - w.low => f[v] = g[v]
  PROVE  Probe(S, n, w, f) \in BOOLEAN /\ Probe(S, n, w, f) = Probe(S, n, w, g)
<1> DEFINE middle == w.low + (w.high - w.low) \div 2
           lower == [low |-> w.low, high |-> middle]
           upper == [low |-> middle + 1, high |-> w.high]
<1>1. CASE w.low >= w.high
  BY <1>1 DEF Probe
<1>2. CASE w.low < w.high
  <2>1. /\ middle \in Nat /\ w.low <= middle /\ middle < w.high
        /\ lower \in Windows /\ upper \in Windows
    BY <1>2, Halves
  <2>2. w.low \in Nat /\ w.high \in Nat
    BY CapacityAssumption DEF Windows
  <2> HIDE DEF middle
  <2>3. f[lower] = g[lower] /\ f[upper] = g[upper]
    BY <2>1, <2>2
  <2>4. f[lower] \in BOOLEAN /\ f[upper] \in BOOLEAN
    BY <2>1
  <2>5. \A h : Probe(S, n, w, h) = IF n > At(S, middle).end THEN h[lower]
                                   ELSE IF n < At(S, middle).start THEN h[upper] ELSE TRUE
    BY <1>2, ProbeIs, Zenon DEF middle
  <2> HIDE DEF lower, upper
  <2> QED
    BY <2>3, <2>4, <2>5
<1>3. w.low >= w.high \/ w.low < w.high
  BY CapacityAssumption DEF Windows
<1> QED
  BY <1>1, <1>2, <1>3

\* The recursion is well founded: the search is a function that satisfies
\* its equation.
LEMMA SearchDefined ==
  ASSUME NEW S, NEW n
  PROVE  \E f \in [Windows -> BOOLEAN] : f = [w \in Windows |-> Probe(S, n, w, f)]
<1> DEFINE Solves(f, k) == \A w \in Windows : w.high - w.low <= k => f[w] = Probe(S, n, w, f)
           Bad == {k \in Nat : ~\E f \in [Windows -> BOOLEAN] : Solves(f, k)}
<1>0. \A w \in Windows : w.low \in Nat /\ w.high \in Nat /\ w.high - w.low <= AckRangeCapacity
  BY CapacityAssumption DEF Windows
<1>1. Bad = {}
  <2> SUFFICES ASSUME Bad # {} PROVE FALSE
    OBVIOUS
  <2>1. PICK k \in Bad : \A j \in Bad : k <= j
    BY Least
  <2>2. k \in Nat /\ ~\E f \in [Windows -> BOOLEAN] : Solves(f, k)
    OBVIOUS
  <2>3. CASE k = 0
    <3> DEFINE f == [w \in Windows |-> FALSE]
    <3>1. f \in [Windows -> BOOLEAN]
      OBVIOUS
    <3>2. ASSUME NEW w \in Windows, w.high - w.low <= 0 PROVE f[w] = Probe(S, n, w, f)
      <4>1. w.low >= w.high
        BY <1>0, <3>2
      <4> QED
        BY <4>1 DEF Probe
    <3>3. Solves(f, k)
      BY <2>3, <3>2
    <3> QED
      BY <2>2, <3>1, <3>3
  <2>4. CASE k # 0
    <3>1. k - 1 \in Nat /\ k - 1 \notin Bad
      BY <2>1, <2>2, <2>4
    <3>2. PICK g \in [Windows -> BOOLEAN] : Solves(g, k - 1)
      BY <3>1
    <3> DEFINE f == [w \in Windows |-> Probe(S, n, w, g)]
    <3>3. \A w \in Windows : Probe(S, n, w, g) \in BOOLEAN
      BY ProbeOnSmaller
    <3>4. f \in [Windows -> BOOLEAN]
      BY <3>3
    <3>5. \A v \in Windows : f[v] = Probe(S, n, v, g)
      OBVIOUS
    <3> HIDE DEF f
    <3>6. ASSUME NEW w \in Windows, w.high - w.low <= k PROVE f[w] = Probe(S, n, w, f)
      <4>1. ASSUME NEW v \in Windows, v.high - v.low < w.high - w.low PROVE f[v] = g[v]
        <5>1. v.high - v.low <= k - 1
          BY <1>0, <2>2, <3>6, <4>1
        <5> QED
          BY <3>2, <3>5, <5>1
      <4>2. Probe(S, n, w, f) = Probe(S, n, w, g)
        BY <3>4, <4>1, ProbeOnSmaller
      <4> QED
        BY <3>5, <4>2
    <3>7. Solves(f, k)
      BY <3>6
    <3> QED
      BY <2>2, <3>4, <3>7
  <2> QED
    BY <2>3, <2>4
<1>2. AckRangeCapacity \in Nat /\ AckRangeCapacity \notin Bad
  BY <1>1, CapacityAssumption
<1>3. PICK f \in [Windows -> BOOLEAN] : Solves(f, AckRangeCapacity)
  BY <1>2
<1>4. \A w \in Windows : f[w] = Probe(S, n, w, f)
  BY <1>0, <1>3
<1>5. f = [w \in Windows |-> Probe(S, n, w, f)]
  BY <1>4
<1> QED
  BY <1>5

\* Some range at one of the positions of w holds n.
Holds(S, n, w) ==
  \E r \in S : r.start <= n /\ n <= r.end /\ w.low <= Rank(S, r) /\ Rank(S, r) < w.high

\* A round of the search keeps the answer: what the middle range rules out
\* does not hold n.
LEMMA ProbeExact ==
  ASSUME NEW S, Formed(S), Cardinality(S) <= AckRangeCapacity, NEW n \in Nat,
         NEW w \in Windows, w.low < w.high, w.high <= Cardinality(S)
  PROVE  LET middle == w.low + (w.high - w.low) \div 2
             r == At(S, middle)
             lower == [low |-> w.low, high |-> middle]
             upper == [low |-> middle + 1, high |-> w.high]
         IN  /\ r.start \in Nat /\ r.end \in Nat
             /\ n > r.end => (Holds(S, n, w) <=> Holds(S, n, lower))
             /\ n < r.start => (Holds(S, n, w) <=> Holds(S, n, upper))
             /\ r.start <= n /\ n <= r.end => Holds(S, n, w)
<1> DEFINE middle == w.low + (w.high - w.low) \div 2
           r == At(S, middle)
           lower == [low |-> w.low, high |-> middle]
           upper == [low |-> middle + 1, high |-> w.high]
<1>1. middle \in Nat /\ w.low <= middle /\ middle < w.high
  BY Halves
<1>2. w.low \in Nat /\ w.high \in Nat /\ Cardinality(S) \in Nat
  BY CapacityAssumption, FS_CardinalityType DEF Windows, Formed
<1> HIDE DEF middle
<1>3. r \in S /\ Rank(S, r) = middle
  BY <1>1, <1>2, AtIs
<1> HIDE DEF r
<1>4. r.start \in Nat /\ r.end \in Nat
  BY <1>3 DEF Formed
<1>5. ASSUME NEW q \in S
      PROVE  /\ q.start \in Nat /\ q.end \in Nat /\ q.start <= q.end /\ Rank(S, q) \in Nat
             /\ q.end > r.end => Rank(S, q) < middle
             /\ q.end < r.end => Rank(S, q) > middle /\ q.end < r.start
             /\ q.end = r.end => q = r
  <2>1. q.start \in Nat /\ q.end \in Nat /\ q.start <= q.end
    BY DEF Formed
  <2>2. Rank(S, q) \in Nat
    BY <1>2, RankOrder
  <2>3. q.end > r.end => Rank(S, q) < middle
    BY <1>3, RankOrder
  <2>4. q.end < r.end => Rank(S, q) > middle
    BY <1>1, <1>3, <1>4, <2>1, <2>2, RankOrder
  <2>5. (q.end < r.end => q.end < r.start) /\ (q.end = r.end => q = r)
    BY <1>3, <1>4, <2>1 DEF Formed
  <2> QED
    BY <2>1, <2>2, <2>3, <2>4, <2>5
<1>6. ASSUME n > r.end PROVE Holds(S, n, w) <=> Holds(S, n, lower)
  <2>1. ASSUME NEW q \in S, q.start <= n, n <= q.end PROVE Rank(S, q) < middle
    BY <1>4, <1>5, <1>6, <2>1
  <2>2. \A q \in S : Rank(S, q) < middle => Rank(S, q) < w.high
    BY <1>1, <1>2, <1>5
  <2>3. lower.low = w.low /\ lower.high = middle
    OBVIOUS
  <2> HIDE DEF lower
  <2> QED
    BY <2>1, <2>2, <2>3 DEF Holds
<1>7. ASSUME n < r.start PROVE Holds(S, n, w) <=> Holds(S, n, upper)
  <2>1. ASSUME NEW q \in S, q.start <= n, n <= q.end PROVE Rank(S, q) > middle
    <3>1. q.start < r.start /\ q # r
      BY <1>4, <1>5, <1>7, <2>1
    <3>2. q.end < r.end
      <4> SUFFICES ASSUME q.end >= r.end PROVE FALSE
        BY <1>4, <1>5
      <4>1. q.end + 1 < r.start \/ r.end + 1 < q.start
        BY <1>3, <3>1 DEF Formed
      <4>2. r.start <= r.end
        BY <1>3 DEF Formed
      <4> QED
        BY <1>4, <1>5, <3>1, <4>1, <4>2
    <3> QED
      BY <1>5, <3>2
  <2>2. \A q \in S : /\ Rank(S, q) > middle => w.low <= Rank(S, q)
                     /\ middle + 1 <= Rank(S, q) <=> Rank(S, q) > middle
    BY <1>1, <1>2, <1>5
  <2>3. upper.low = middle + 1 /\ upper.high = w.high
    OBVIOUS
  <2> HIDE DEF upper
  <2> QED
    BY <2>1, <2>2, <2>3 DEF Holds
<1>8. ASSUME r.start <= n, n <= r.end PROVE Holds(S, n, w)
  BY <1>1, <1>3, <1>8 DEF Holds
<1> QED
  BY <1>4, <1>6, <1>7, <1>8 DEF r, middle

\* The search finds n in a window exactly when a range there holds it.
LEMMA SearchExact ==
  ASSUME NEW S, Formed(S), Cardinality(S) <= AckRangeCapacity, NEW n \in Nat,
         NEW f, f = [w \in Windows |-> Probe(S, n, w, f)],
         NEW w \in Windows, w.low <= w.high, w.high <= Cardinality(S)
  PROVE  f[w] = Holds(S, n, w)
<1> DEFINE Wrong == {v \in Windows : /\ v.low <= v.high /\ v.high <= Cardinality(S)
                                     /\ f[v] # Holds(S, n, v)}
           Bad == {v.high - v.low : v \in Wrong}
<1>0. Cardinality(S) \in Nat /\ \A v \in Windows : v.low \in Nat /\ v.high \in Nat
  BY CapacityAssumption, FS_CardinalityType DEF Windows, Formed
<1>1. \A v \in Windows : f[v] = Probe(S, n, v, f)
  OBVIOUS
<1>2. SUFFICES ASSUME Wrong # {} PROVE FALSE
  OBVIOUS
<1>3. Bad \subseteq Nat /\ Bad # {}
  <2>1. \A v \in Wrong : v.high - v.low \in Nat
    BY <1>0
  <2> HIDE DEF Wrong
  <2> QED
    BY <1>2, <2>1
<1>4. PICK k \in Bad : \A j \in Bad : k <= j
  BY <1>3, Least
<1>5. PICK v \in Wrong : k = v.high - v.low
  BY <1>4
<1>6. /\ v \in Windows /\ v.low <= v.high /\ v.high <= Cardinality(S)
      /\ f[v] # Holds(S, n, v)
  BY <1>5
<1>7. \A u \in Windows : /\ u.low <= u.high /\ u.high <= Cardinality(S)
                         /\ u.high - u.low < v.high - v.low
                         => f[u] = Holds(S, n, u)
  <2> SUFFICES ASSUME NEW u \in Windows, u.low <= u.high, u.high <= Cardinality(S),
                      u.high - u.low < v.high - v.low, u \in Wrong
               PROVE  FALSE
    OBVIOUS
  <2>1. v.high - v.low <= u.high - u.low
    BY <1>4, <1>5
  <2> QED
    BY <1>0, <1>6, <2>1
<1> HIDE DEF Wrong, Bad
<1>8. CASE v.low = v.high
  <2>1. f[v] = FALSE
    BY <1>0, <1>1, <1>6, <1>8 DEF Probe
  <2>2. ~Holds(S, n, v)
    <3> SUFFICES ASSUME NEW r \in S, v.low <= Rank(S, r), Rank(S, r) < v.high PROVE FALSE
      BY DEF Holds
    <3>1. Rank(S, r) \in Nat
      BY <1>0, RankOrder
    <3> QED
      BY <1>0, <1>6, <1>8, <3>1
  <2>3. Holds(S, n, v) = FALSE
    BY <2>2 DEF Holds
  <2> QED
    BY <1>6, <2>1, <2>3
<1>9. CASE v.low < v.high
  <2> DEFINE middle == v.low + (v.high - v.low) \div 2
             r == At(S, middle)
             lower == [low |-> v.low, high |-> middle]
             upper == [low |-> middle + 1, high |-> v.high]
  <2>1. /\ middle \in Nat /\ v.low <= middle /\ middle < v.high
        /\ lower \in Windows /\ upper \in Windows
    BY <1>6, <1>9, Halves
  <2>2. /\ r.start \in Nat /\ r.end \in Nat
        /\ n > r.end => (Holds(S, n, v) <=> Holds(S, n, lower))
        /\ n < r.start => (Holds(S, n, v) <=> Holds(S, n, upper))
        /\ r.start <= n /\ n <= r.end => Holds(S, n, v)
    BY <1>6, <1>9, ProbeExact
  <2>3. f[v] = IF n > r.end THEN f[lower] ELSE IF n < r.start THEN f[upper] ELSE TRUE
    <3>1. Probe(S, n, v, f) = IF n > r.end THEN f[lower] ELSE IF n < r.start THEN f[upper] ELSE TRUE
      BY <1>6, <1>9, ProbeIs, Zenon
    <3> QED
      BY <1>1, <1>6, <3>1, Zenon
  <2> HIDE DEF middle
  <2>4. f[lower] = Holds(S, n, lower) /\ f[upper] = Holds(S, n, upper)
    BY <1>0, <1>6, <1>7, <2>1
  <2> HIDE DEF r, lower, upper
  <2>5. n > r.end \/ n < r.start \/ (r.start <= n /\ n <= r.end)
    BY <2>2
  <2>6. /\ Holds(S, n, v) \in BOOLEAN /\ Holds(S, n, lower) \in BOOLEAN
        /\ Holds(S, n, upper) \in BOOLEAN
    BY DEF Holds
  <2>7. CASE n > r.end
    <3>1. Holds(S, n, v) = Holds(S, n, lower)
      BY <2>2, <2>6, <2>7
    <3> QED
      BY <1>6, <2>3, <2>4, <2>7, <3>1
  <2>8. CASE n < r.start /\ ~(n > r.end)
    <3>1. Holds(S, n, v) = Holds(S, n, upper)
      BY <2>2, <2>6, <2>8
    <3> QED
      BY <1>6, <2>3, <2>4, <2>8, <3>1
  <2>9. CASE r.start <= n /\ n <= r.end
    <3>1. Holds(S, n, v) = TRUE /\ ~(n > r.end) /\ ~(n < r.start)
      BY <2>2, <2>6, <2>9
    <3> QED
      BY <1>6, <2>3, <3>1
  <2> QED
    BY <2>5, <2>7, <2>8, <2>9
<1> QED
  BY <1>0, <1>6, <1>8, <1>9

\* contains is exact.
LEMMA ContainsExact ==
  ASSUME NEW S, Formed(S), Cardinality(S) <= AckRangeCapacity, NEW n \in Nat,
         NEW h \in Int, \A q \in S : q.end <= h
  PROVE  Contains(S, n) <=> n \in Numbers(S)
<1>1. CASE S = {}
  BY <1>1 DEF Contains, Numbers
<1>2. CASE S # {}
  <2> DEFINE new == Newest(S)
             w == [low |-> 1, high |-> Cardinality(S)]
             find == CHOOSE f : f = [v \in Windows |-> Probe(S, n, v, f)]
  <2>1. new \in S /\ \A q \in S : q.end <= new.end
    BY <1>2, NewestIs
  <2>2. Cardinality(S) \in Nat /\ Cardinality(S) # 0
    BY <1>2, FS_CardinalityType, FS_EmptySet DEF Formed
  <2>3. w \in Windows /\ w.low <= w.high /\ w.high <= Cardinality(S)
    BY <2>2, CapacityAssumption DEF Windows
  <2>4. find = [v \in Windows |-> Probe(S, n, v, find)]
    BY SearchDefined
  <2>5. Search(S, n) = find[w]
    BY DEF Search
  <2> HIDE DEF find, new
  <2>6. Search(S, n) <=> Holds(S, n, w)
    BY <2>3, <2>4, <2>5, SearchExact
  <2>7. ASSUME NEW r \in S PROVE r = new \/ (1 <= Rank(S, r) /\ Rank(S, r) < Cardinality(S))
    <3>1. r.end \in Nat /\ new.end \in Nat /\ (r.end = new.end => r = new)
      BY <2>1 DEF Formed
    <3>2. new.end > r.end => Rank(S, new) < Rank(S, r)
      BY <2>1, RankOrder
    <3>3. Rank(S, new) \in Nat /\ Rank(S, r) \in Nat /\ Rank(S, r) < Cardinality(S)
      BY <2>1, <2>2, RankOrder
    <3> QED
      BY <2>1, <3>1, <3>2, <3>3
  <2>8. n \in Numbers(S) <=> \E r \in S : r.start <= n /\ n <= r.end
    BY NumbersAre
  <2>9. new.start \in Nat /\ new.end \in Nat /\ \A q \in S : q.start \in Nat /\ q.end \in Nat
    BY <2>1 DEF Formed
  <2>10. Contains(S, n) <=> n <= new.end /\ (n >= new.start \/ Search(S, n))
    BY <1>2 DEF Contains, new
  <2>11. ASSUME Contains(S, n) PROVE n \in Numbers(S)
    <3>1. CASE n >= new.start
      BY <2>1, <2>8, <2>9, <2>10, <2>11, <3>1
    <3>2. CASE Holds(S, n, w)
      BY <2>8, <3>2 DEF Holds
    <3> QED
      BY <2>6, <2>10, <2>11, <3>1, <3>2
  <2>12. ASSUME n \in Numbers(S) PROVE Contains(S, n)
    <3>1. PICK r \in S : r.start <= n /\ n <= r.end
      BY <2>8, <2>12
    <3>2. n <= new.end
      BY <2>1, <2>9, <3>1
    <3>3. CASE r = new
      BY <2>9, <2>10, <3>1, <3>2, <3>3
    <3>4. CASE 1 <= Rank(S, r) /\ Rank(S, r) < Cardinality(S)
      BY <2>6, <2>10, <3>1, <3>2, <3>4 DEF Holds
    <3> QED
      BY <2>7, <3>3, <3>4
  <2> QED
    BY <2>11, <2>12
<1> QED
  BY <1>1, <1>2

-----------------------------------------------------------------------------
(* The invariant.                                                          *)

\* Every record of an ACK reports a number that was the newest at the time.
Inv ==
  /\ TypeOK
  /\ IsFiniteSet(ranges)
  /\ \A c \in Carriers : carried[c] <= highest

\* What the invariant says of the ranges and their newest number.
LEMMA InvShape ==
  ASSUME Inv
  PROVE  /\ Formed(ranges) /\ Cardinality(ranges) <= AckRangeCapacity
         /\ highest \in Int /\ highest >= -1
         /\ \A q \in ranges : q.end <= highest
         /\ ranges = {} => highest = -1
         /\ ranges # {} => highest \in Numbers(ranges) /\ highest = Newest(ranges).end
                           /\ floor <= highest
         /\ Numbers(ranges) \subseteq PacketNumbers
         /\ \A m \in Numbers(ranges) : m >= floor
<1>1. Last \in Nat
  BY BoundsAssumption
<1>2. \A r \in ranges : r.start \in Nat /\ r.end \in Nat /\ r.start <= r.end
                        /\ r.end <= Last /\ r.start >= floor
  BY <1>1 DEF Inv, TypeOK, PacketNumbers
<1>3. Formed(ranges)
  BY <1>2 DEF Inv, TypeOK, Formed
<1>4. ranges # {} => /\ Newest(ranges) \in ranges
                     /\ \A q \in ranges : q.end <= Newest(ranges).end
  BY <1>1, <1>2, <1>3, NewestIs
<1>5. highest \in Int /\ highest >= -1 /\ (ranges = {} => highest = -1)
      /\ (ranges # {} => highest = Newest(ranges).end)
  BY <1>1 DEF Inv, TypeOK, PacketNumbers
<1>6. \A q \in ranges : q.end <= highest
  BY <1>4, <1>5
<1>7. floor \in Nat
  BY <1>1 DEF Inv, TypeOK, PacketNumbers
<1>8. ranges # {} => highest \in Numbers(ranges) /\ floor <= highest
  BY <1>2, <1>3, <1>4, <1>5, <1>7, NumbersAre
<1>9. ASSUME NEW m \in Numbers(ranges) PROVE m \in PacketNumbers /\ m >= floor
  <2>1. m \in Nat
    BY <1>3, NumbersAre
  <2>2. PICK r \in ranges : r.start <= m /\ m <= r.end
    BY <1>3, <2>1, NumbersAre
  <2> QED
    BY <1>1, <1>2, <1>7, <2>1, <2>2 DEF PacketNumbers
<1> QED
  BY <1>3, <1>5, <1>6, <1>8, <1>9 DEF Inv, TypeOK

LEMMA InvInit == Init => Inv
<1> SUFFICES ASSUME Init PROVE Inv
  OBVIOUS
<1> USE CapacityAssumption, BoundsAssumption
<1>1. IsFiniteSet(ranges) /\ Cardinality(ranges) = 0
  BY FS_EmptySet DEF Init
<1>2. floor \in PacketNumbers /\ -1 <= -1
  BY DEF Init, PacketNumbers
<1>3. TypeOK
  BY <1>1, <1>2 DEF Init, TypeOK
<1> QED
  BY <1>1, <1>3 DEF Init, Inv

\* What is enough to restore the part of TypeOK that is about the ranges.
LEMMA RangesType ==
  ASSUME NEW S, Formed(S), Cardinality(S) <= AckRangeCapacity,
         NEW h \in PacketNumbers, h \in Numbers(S), \A m \in Numbers(S) : m <= h,
         NEW b \in PacketNumbers, \A m \in Numbers(S) : m >= b
  PROVE  /\ \A r \in S : r.start \in PacketNumbers /\ r.end \in r.start .. Last
         /\ \A r, q \in S : r = q \/ r.end + 1 < q.start \/ q.end + 1 < r.start
         /\ \A r \in S : r.start >= b
         /\ S # {} /\ h = Newest(S).end
<1>1. Last \in Nat /\ h \in Nat /\ h <= Last
  BY BoundsAssumption DEF PacketNumbers
<1>2. S # {} /\ Newest(S).end = h
  BY <1>1, NewestEnds
<1>3. ASSUME NEW r \in S
      PROVE  r.start \in PacketNumbers /\ r.end \in r.start .. Last /\ r.start >= b
  <2>1. r.start \in Nat /\ r.end \in Nat /\ r.start <= r.end
    BY DEF Formed
  <2>2. r.end <= h /\ r.start >= b
    BY NumbersAre
  <2> QED
    BY <1>1, <2>1, <2>2 DEF PacketNumbers
<1> QED
  BY <1>2, <1>3 DEF Formed

-----------------------------------------------------------------------------
(* The steps: each keeps the invariant and is a step of PacketMemory.      *)

LEMMA ReceiveStep ==
  ASSUME Inv, NEW n \in PacketNumbers, Receive(n)
  PROVE  Inv' /\ Memory!Remember
<1> DEFINE T == Insert(ranges, n)
           U == Numbers(ranges) \cup {n}
           h == IF n > highest THEN n ELSE highest
<1>1. n \in Nat /\ Last \in Nat /\ n <= Last
  BY BoundsAssumption DEF PacketNumbers
<1>2. ranges' = T /\ highest' = h /\ received' = received \cup {n}
      /\ floor' = floor /\ carried' = carried /\ ~(n < floor)
  BY DEF Receive, Duplicate
<1>3. /\ Formed(T) /\ Cardinality(T) <= AckRangeCapacity
      /\ Memory!KeepsTop(U, Numbers(T))
  BY <1>1, InvShape, InsertKeeps
<1>4. PICK f \in U : Numbers(T) = {m \in U : m >= f}
  BY <1>3 DEF Memory!KeepsTop
<1>5. U \subseteq PacketNumbers
  BY InvShape
<1>6. h \in U /\ h \in PacketNumbers /\ \A m \in U : m <= h
  <2>1. h \in U
    BY <1>1, InvShape
  <2>2. \A m \in Numbers(ranges) : m \in Nat /\ m <= highest
    <3>1. ASSUME NEW m \in Numbers(ranges) PROVE m \in Nat /\ m <= highest
      <4>1. m \in Nat
        BY InvShape, NumbersAre
      <4>2. PICK r \in ranges : m <= r.end
        BY <4>1, InvShape, NumbersAre
      <4>3. r.end \in Nat /\ r.end <= highest /\ highest \in Int
        BY InvShape DEF Formed
      <4> QED
        BY <4>1, <4>2, <4>3
    <3> QED
      BY <3>1
  <2>3. highest \in Int
    BY InvShape
  <2> QED
    BY <1>1, <1>5, <2>1, <2>2, <2>3
<1> HIDE DEF T, U, h
<1>7. h \in Numbers(T) /\ \A m \in Numbers(T) : m <= h
  <2>1. f <= h
    BY <1>4, <1>6
  <2> QED
    BY <1>4, <1>5, <1>6, <2>1 DEF PacketNumbers
<1>8. floor \in PacketNumbers /\ \A m \in Numbers(T) : m >= floor
  <2>1. floor \in PacketNumbers
    BY DEF Inv, TypeOK
  <2>2. \A m \in U : m >= floor
    BY <1>1, <1>2, <2>1, InvShape DEF U, PacketNumbers
  <2> QED
    BY <1>4, <2>1, <2>2
<1>9. /\ \A r \in T : r.start \in PacketNumbers /\ r.end \in r.start .. Last
      /\ \A r, q \in T : r = q \/ r.end + 1 < q.start \/ q.end + 1 < r.start
      /\ \A r \in T : r.start >= floor
      /\ T # {} /\ h = Newest(T).end
  BY <1>3, <1>6, <1>7, <1>8, RangesType
<1>10. IsFiniteSet(T)
  BY <1>3 DEF Formed
<1>11. carried \in [Carriers -> PacketNumbers \cup {-1}] /\ received \subseteq PacketNumbers
  BY DEF Inv, TypeOK
<1>12. TypeOK'
  BY <1>2, <1>3, <1>6, <1>8, <1>9, <1>11 DEF TypeOK
<1>13. \A c \in Carriers : carried[c] <= h
  <2>1. highest \in Int /\ n \in Int
    BY <1>1, InvShape
  <2>2. \A c \in Carriers : carried[c] \in Int /\ carried[c] <= highest
    BY <1>1, <1>11 DEF Inv, PacketNumbers
  <2> QED
    BY <2>1, <2>2 DEF h
<1>14. Inv'
  BY <1>2, <1>10, <1>12, <1>13 DEF Inv
<1>15. Memory!Remember
  <2>1. Numbers(ranges)' = Numbers(T)
    BY <1>2
  <2>2. n \in received'
    BY <1>2
  <2> QED
    BY <1>2, <1>3, <2>1, <2>2 DEF Memory!Remember, U
<1> QED
  BY <1>14, <1>15

LEMMA SendAckStep ==
  ASSUME Inv, NEW c \in Carriers, SendAck(c)
  PROVE  Inv' /\ UNCHANGED Memory!vars
<1>1. ranges # {} /\ carried' = [carried EXCEPT ![c] = Newest(ranges).end]
      /\ UNCHANGED <<ranges, floor, highest, received>>
  BY DEF SendAck
<1>2. Newest(ranges).end = highest /\ highest \in PacketNumbers
  BY <1>1, InvShape
<1>3. carried' \in [Carriers -> PacketNumbers \cup {-1}]
  BY <1>1, <1>2 DEF Inv, TypeOK
<1>4. \A d \in Carriers : carried'[d] <= highest
  BY <1>1, <1>2, BoundsAssumption DEF Inv, TypeOK, PacketNumbers
<1>5. TypeOK'
  BY <1>1, <1>3 DEF Inv, TypeOK
<1> QED
  BY <1>1, <1>4, <1>5 DEF Inv, Memory!vars

LEMMA DropStep ==
  ASSUME Inv, NEW c \in Carriers, DropRecord(c)
  PROVE  Inv' /\ UNCHANGED Memory!vars
<1>1. carried' = [carried EXCEPT ![c] = -1] /\ UNCHANGED <<ranges, floor, highest, received>>
  BY DEF DropRecord
<1>2. carried' \in [Carriers -> PacketNumbers \cup {-1}]
  BY <1>1 DEF Inv, TypeOK
<1>3. \A d \in Carriers : carried'[d] <= highest
  BY <1>1, InvShape DEF Inv, TypeOK
<1>4. TypeOK'
  BY <1>1, <1>2 DEF Inv, TypeOK
<1> QED
  BY <1>1, <1>3, <1>4 DEF Inv, Memory!vars

\* The floor never rises past the newest number.
LEMMA FloorBelow ==
  ASSUME Inv, ranges # {}, NEW k \in Int, k <= highest
  PROVE  FloorFor(k) \in PacketNumbers /\ floor <= FloorFor(k) /\ FloorFor(k) <= highest
<1>1. floor \in Nat /\ floor <= Last /\ Last \in Nat /\ floor <= highest
      /\ highest \in Int /\ highest <= Last /\ AckRangeCapacity \in Nat
  BY InvShape, CapacityAssumption, BoundsAssumption DEF Inv, TypeOK, PacketNumbers
<1> QED
  BY <1>1 DEF FloorFor, PacketNumbers

LEMMA ConfirmStep ==
  ASSUME Inv, NEW A \in SUBSET {c \in Carriers : carried[c] # -1}, A # {}, Confirm(A)
  PROVE  Inv' /\ (Memory!Forget \/ UNCHANGED Memory!vars)
<1> DEFINE P == {carried[c] : c \in A} \cup {floor}
           k == CHOOSE m \in P : \A j \in P : j <= m
           compact == Cardinality(ranges) >= AckRangeCapacity \div 2
<1>1. /\ carried' = [c \in Carriers |-> IF c \in A THEN -1 ELSE carried[c]]
      /\ floor' = IF compact THEN FloorFor(k) ELSE floor
      /\ ranges' = IF compact THEN DiscardBelow(ranges, floor') ELSE ranges
      /\ highest' = highest /\ received' = received
  BY DEF Confirm
<1>2. Last \in Nat /\ highest \in Int /\ floor \in Nat
      /\ carried \in [Carriers -> PacketNumbers \cup {-1}] /\ received \subseteq PacketNumbers
      /\ highest \in PacketNumbers \cup {-1}
  BY BoundsAssumption, InvShape DEF Inv, TypeOK, PacketNumbers
<1>3. ranges # {}
  <2>1. PICK c \in A : c \in Carriers /\ carried[c] # -1
    OBVIOUS
  <2>2. carried[c] \in Nat /\ carried[c] <= highest
    BY <1>2, <2>1 DEF Inv, PacketNumbers
  <2> QED
    BY <1>2, <2>2, InvShape
<1>4. P \subseteq Int /\ P # {} /\ \A j \in P : j <= highest
  BY <1>2, <1>3, InvShape DEF Inv, PacketNumbers
<1>5. k \in Int /\ k <= highest
  <2>1. \E m \in P : \A j \in P : j <= m
    BY <1>2, <1>4, Greatest
  <2> HIDE DEF P
  <2> QED
    BY <1>4, <2>1
<1> HIDE DEF P, k
<1>6. carried' \in [Carriers -> PacketNumbers \cup {-1}] /\ \A c \in Carriers : carried'[c] <= highest'
  BY <1>1, <1>2, InvShape DEF Inv
<1>7. CASE ~compact
  <2>1. TypeOK'
    BY <1>1, <1>6, <1>7 DEF Inv, TypeOK
  <2> QED
    BY <1>1, <1>6, <1>7, <2>1 DEF Inv, Memory!vars
<1>8. CASE compact
  <2> DEFINE T == DiscardBelow(ranges, floor')
             N == Numbers(ranges)
  <2>1. floor' \in PacketNumbers /\ floor' \in Nat /\ floor' <= highest
    BY <1>1, <1>3, <1>5, <1>8, FloorBelow DEF PacketNumbers
  <2>2. /\ Formed(T) /\ Cardinality(T) <= Cardinality(ranges)
        /\ Numbers(T) = {m \in N : m >= floor'}
    BY <2>1, InvShape, DiscardKeeps
  <2> HIDE DEF T
  <2>3. Cardinality(T) <= AckRangeCapacity
    <3>1. Cardinality(T) \in Nat /\ Cardinality(ranges) \in Nat
      BY <2>2, FS_CardinalityType DEF Formed, Inv
    <3> QED
      BY <2>2, <3>1, InvShape, CapacityAssumption
  <2>4. highest \in N /\ highest \in PacketNumbers /\ N \subseteq PacketNumbers
    BY <1>3, InvShape
  <2>5. highest \in Numbers(T) /\ \A m \in Numbers(T) : m <= highest /\ m >= floor'
    <3>1. \A m \in N : m <= highest
      <4>1. ASSUME NEW m \in N PROVE m <= highest
        <5>1. m \in Nat
          BY InvShape, NumbersAre
        <5>2. PICK r \in ranges : m <= r.end
          BY <5>1, InvShape, NumbersAre
        <5>3. r.end \in Nat /\ r.end <= highest
          BY InvShape DEF Formed
        <5> QED
          BY <1>2, <5>1, <5>2, <5>3
      <4> QED
        BY <4>1
    <3> QED
      BY <1>2, <2>1, <2>2, <2>4, <3>1
  <2>6. /\ \A r \in T : r.start \in PacketNumbers /\ r.end \in r.start .. Last
        /\ \A r, q \in T : r = q \/ r.end + 1 < q.start \/ q.end + 1 < r.start
        /\ \A r \in T : r.start >= floor'
        /\ T # {} /\ highest = Newest(T).end
    BY <2>1, <2>2, <2>3, <2>4, <2>5, RangesType
  <2>7. ranges' = T
    BY <1>1, <1>8 DEF T
  <2>8. TypeOK'
    BY <1>1, <1>2, <1>6, <2>1, <2>3, <2>6, <2>7 DEF TypeOK
  <2>9. IsFiniteSet(ranges')
    BY <2>2, <2>7 DEF Formed
  <2>10. Memory!KeepsTop(N, Numbers(T))
    <3>1. N \subseteq Nat
      BY <2>4 DEF PacketNumbers
    <3>2. floor' \in Int /\ \E m \in N : m >= floor'
      BY <1>2, <2>1, <2>4
    <3> HIDE DEF N
    <3> QED
      BY <2>2, <3>1, <3>2, TopAbove
  <2>11. Memory!Forget
    BY <1>1, <2>7, <2>10 DEF Memory!Forget
  <2> QED
    BY <1>6, <2>8, <2>9, <2>11 DEF Inv
<1> QED
  BY <1>7, <1>8

LEMMA Step ==
  ASSUME Inv, [Next]_vars
  PROVE  Inv' /\ [Memory!Next]_(Memory!vars)
<1>1. CASE \E n \in PacketNumbers : Receive(n)
  BY <1>1, ReceiveStep DEF Memory!Next
<1>2. CASE \E c \in Carriers : SendAck(c)
  BY <1>2, SendAckStep
<1>3. CASE \E c \in Carriers : DropRecord(c)
  BY <1>3, DropStep
<1>4. CASE \E A \in SUBSET {c \in Carriers : carried[c] # -1} : A # {} /\ Confirm(A)
  BY <1>4, ConfirmStep DEF Memory!Next
<1>5. CASE UNCHANGED vars
  <2>1. UNCHANGED <<ranges, floor, highest, carried, received>>
    BY <1>5 DEF vars
  <2> QED
    BY <2>1 DEF Inv, TypeOK, Memory!vars
<1> QED
  BY <1>1, <1>2, <1>3, <1>4, <1>5 DEF Next

\* observe_packet and confirmation keep the array of ranges in the form that
\* its search and its encoding rely on, for every capacity.
THEOREM RangesKeepForm == Spec => []TypeOK
<1>1. Inv => TypeOK
  BY DEF Inv
<1> QED
  BY <1>1, InvInit, Step, PTL DEF Spec

\* An endpoint claims only packets it received, forgets from below only and
\* never forgets the newest: insertion, eviction and compaction implement
\* PacketMemory.
THEOREM ReceivedIsMemory == Spec => ImplementsPacketMemory
<1>1. Init => Memory!Init
  BY DEF Init, Memory!Init, Numbers
<1> QED
  BY <1>1, InvInit, Step, PTL DEF Spec, ImplementsPacketMemory, Memory!Spec
\* The search answers for every number whether a range holds it.
THEOREM SearchIsExact == Spec => []SearchAgrees
<1>1. Inv => SearchAgrees
  <2> SUFFICES ASSUME Inv, NEW n \in PacketNumbers
               PROVE  Contains(ranges, n) <=> n \in Numbers(ranges)
    BY DEF SearchAgrees
  <2>1. n \in Nat
    BY BoundsAssumption DEF PacketNumbers
  <2> QED
    BY <2>1, InvShape, ContainsExact
<1> QED
  BY <1>1, InvInit, Step, PTL DEF Spec

-----------------------------------------------------------------------------
(* What is still welcome.                                                  *)

\* The floor stays a span below the newest number, and what the ranges hold
\* was received.
Late ==
  /\ floor = 0 \/ floor <= highest - 2 * AckRangeCapacity
  /\ Numbers(ranges) \subseteq received

\* Nothing was received and nothing is below the floor at first.
LEMMA LateInit == Init => Late
  BY DEF Init, Late, Numbers

\* Only a confirmation moves the floor, and only to a span below a number
\* that had arrived; ranges grow only by what arrives.
LEMMA LateStep ==
  ASSUME Inv, Late, [Next]_vars
  PROVE  Late'
<1>0. highest \in Int /\ floor \in Nat /\ AckRangeCapacity \in Nat
  BY InvShape, CapacityAssumption, BoundsAssumption DEF Inv, TypeOK, PacketNumbers
<1>1. Numbers(ranges)' \subseteq received'
  <2>1. [Memory!Next]_(Memory!vars)
    BY Step
  <2>2. CASE Memory!Remember
    BY <2>2 DEF Memory!Remember, Memory!KeepsTop, Late
  <2>3. CASE Memory!Forget
    BY <2>3 DEF Memory!Forget, Memory!KeepsTop, Late
  <2>4. CASE UNCHANGED Memory!vars
    BY <2>4 DEF Memory!vars, Late
  <2> QED
    BY <2>1, <2>2, <2>3, <2>4 DEF Memory!Next
<1>2. floor' = 0 \/ floor' <= highest' - 2 * AckRangeCapacity
  <2>1. CASE UNCHANGED <<floor, highest>>
    BY <2>1 DEF Late
  <2>2. ASSUME NEW n \in PacketNumbers, Receive(n)
        PROVE  floor' = 0 \/ floor' <= highest' - 2 * AckRangeCapacity
    <3>1. n \in Int
      BY BoundsAssumption DEF PacketNumbers
    <3>2. floor' = floor /\ highest' \in Int /\ highest <= highest'
      BY <1>0, <2>2, <3>1 DEF Receive
    <3>3. CASE floor = 0
      BY <3>2, <3>3
    <3>4. CASE floor <= highest - 2 * AckRangeCapacity
      <4> DEFINE later == highest'
      <4>1. later \in Int /\ highest <= later /\ floor' = floor
        BY <3>2
      <4> HIDE DEF later
      <4>2. floor <= later - 2 * AckRangeCapacity
        BY <1>0, <3>4, <4>1
      <4> QED
        BY <4>1, <4>2 DEF later
    <3> QED
      BY <3>3, <3>4 DEF Late
  <2>3. ASSUME NEW A \in SUBSET {c \in Carriers : carried[c] # -1}, A # {}, Confirm(A)
        PROVE  floor' = 0 \/ floor' <= highest' - 2 * AckRangeCapacity
    <3> DEFINE P == {carried[c] : c \in A} \cup {floor}
               k == CHOOSE m \in P : \A j \in P : j <= m
    <3>1. highest' = highest /\ (floor' = floor \/ floor' = FloorFor(k))
      BY <2>3 DEF Confirm
    <3>2. P \subseteq Int /\ P # {}
      BY <1>0, BoundsAssumption DEF Inv, TypeOK, PacketNumbers
    <3>3. \A c \in A : carried[c] \in Int /\ carried[c] <= highest
      BY BoundsAssumption DEF Inv, TypeOK, PacketNumbers
    <3>4. PICK c0 \in A : TRUE
      BY <2>3
    <3>5. \E m \in P : \A j \in P : j <= m
      <4>1. CASE floor <= highest
        <5>1. \A j \in P : j <= highest
          BY <3>3, <4>1
        <5> HIDE DEF P
        <5> QED
          BY <1>0, <3>2, <5>1, Greatest
      <4>2. CASE highest < floor
        <5>1. \A j \in P : j <= floor
          BY <1>0, <3>3, <4>2
        <5> QED
          BY <5>1
      <4> QED
        BY <1>0, <4>1, <4>2
    <3>6. k \in P
      BY <3>5
    <3> HIDE DEF k
    <3>7. CASE k = floor
      <4>1. FloorFor(k) = floor
        BY <1>0, <3>7 DEF FloorFor
      <4> QED
        BY <3>1, <4>1 DEF Late
    <3>8. CASE k \in Int /\ k <= highest
      <4>1. FloorFor(k) = floor \/ FloorFor(k) <= highest - 2 * AckRangeCapacity
        BY <1>0, <3>8 DEF FloorFor
      <4> QED
        BY <3>1, <4>1 DEF Late
    <3> QED
      BY <3>3, <3>6, <3>7, <3>8
  <2> QED
    BY <2>1, <2>2, <2>3 DEF Next, SendAck, DropRecord, vars
<1> QED
  BY <1>1, <1>2 DEF Late

\* A packet that never arrived and is at most a span behind the newest is
\* not taken for a duplicate, however many confirmations and evictions came
\* before it.
THEOREM LatePacketsAreWelcome == Spec => []RecentIsWelcome
<1>1. Inv /\ Late => RecentIsWelcome
  <2> SUFFICES ASSUME Inv, Late, NEW n \in PacketNumbers,
                      n >= highest - 2 * AckRangeCapacity, n \notin received
               PROVE  ~Duplicate(n)
    BY DEF RecentIsWelcome
  <2>1. n \in Nat /\ highest \in Int /\ floor \in Nat /\ AckRangeCapacity \in Nat
    BY InvShape, CapacityAssumption, BoundsAssumption DEF Inv, TypeOK, PacketNumbers
  <2>2. ~(n < floor)
    BY <2>1 DEF Late
  <2>3. ~Contains(ranges, n)
    BY <2>1, InvShape, ContainsExact DEF Late
  <2> QED
    BY <2>2, <2>3 DEF Duplicate
<1>2. Inv /\ Late /\ [Next]_vars => Inv' /\ Late'
  BY Step, LateStep
<1>3. Init => Inv /\ Late
  BY InvInit, LateInit
<1> QED
  BY <1>1, <1>2, <1>3, PTL DEF Spec
=============================================================================
