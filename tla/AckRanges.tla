----------------------------- MODULE AckRanges ------------------------------
(***************************************************************************)
(* The bounded set of packet-number ranges that quic-lite keeps of what it *)
(* received and writes into every ACK (lib.rs, AckRanges).  The code keeps *)
(* an array sorted newest first; here it is the set of its ranges, which   *)
(* are disjoint, so a position is the number of newer ranges.              *)
(***************************************************************************)
EXTENDS Integers, FiniteSets

CONSTANT AckRangeCapacity   \* ACK_RANGE_CAPACITY, 32 in the code

ASSUME CapacityAssumption == AckRangeCapacity \in Nat \ {0}

Newest(S) == CHOOSE r \in S : \A q \in S : q.end <= r.end
Oldest(S) == CHOOSE r \in S : \A q \in S : r.end <= q.end

\* The packet numbers a set of ranges stands for.
Numbers(S) == UNION {r.start .. r.end : r \in S}

Touches(r, new) == r.start <= new.end + 1 /\ new.start <= r.end + 1

\* The smallest range that covers r and new.
Join(r, new) ==
  [start |-> IF r.start <= new.start THEN r.start ELSE new.start,
   end   |-> IF r.end >= new.end THEN r.end ELSE new.end]

\* One number touches at most two ranges; they and the number become one.
JoinAll(R, new) ==
  IF R = {} THEN new
  ELSE Join(Newest(R), Join(Oldest(R), new))

\* Mutant: the second newest range is not looked at.
ExtendsNewestOnly(S, new) == S # {} /\ Touches(Newest(S), new)

\* In-order reception: new extends the newest range and reaches no other.
ExtendsNewest(S, new) ==
  /\ S # {} /\ Touches(Newest(S), new)
  /\ \A r \in S \ {Newest(S)} : new.start > r.end + 1

\* Mutant: the shift stops one short, and the oldest range but one goes.
KeepCapacityWrongOne(S, new) ==
  LET all == S \cup {new}
  IN  IF Cardinality(all) <= AckRangeCapacity THEN all
      ELSE IF Oldest(all) = new THEN S
      ELSE all \ {Oldest(all \ {Oldest(all)})}

\* A full set gives up its oldest range, which may be the new one.
KeepCapacity(S, new) ==
  LET all == S \cup {new}
  IN  IF Cardinality(all) <= AckRangeCapacity THEN all ELSE all \ {Oldest(all)}

Insert(S, n) ==
  LET new == [start |-> n, end |-> n]
      touching == {r \in S : Touches(r, new)}
  IN  IF ExtendsNewest(S, new)
        THEN (S \ {Newest(S)}) \cup {Join(Newest(S), new)}
        ELSE KeepCapacity(S \ touching, JoinAll(touching, new))

\* Ranges below floor go, and the one that reaches across it is cut there.
DiscardBelow(S, floor) ==
  {[start |-> IF r.start >= floor THEN r.start ELSE floor, end |-> r.end] :
     r \in {q \in S : q.end >= floor}}

\* The range at position i, counted from zero.
At(S, i) == CHOOSE r \in S : Cardinality({q \in S : q.end > r.end}) = i

\* The positions low .. high - 1 that a search still has to look at.
Windows == [low : 0 .. AckRangeCapacity, high : 0 .. AckRangeCapacity]

\* One round of the binary search: compare n with the range in the middle and
\* go on, by find, in the half that may hold it.
Probe(S, n, w, find) ==
  LET middle == w.low + (w.high - w.low) \div 2
      r == At(S, middle)
  IN  IF w.low >= w.high THEN FALSE
      ELSE IF n > r.end THEN find[[low |-> w.low, high |-> middle]]
      ELSE IF n < r.start THEN find[[low |-> middle + 1, high |-> w.high]]
      ELSE TRUE

\* Mutant: the search drops the range it compared when the number is newer.
SearchSkipping(S, n) ==
  LET find[w \in Windows] ==
        LET middle == w.low + (w.high - w.low) \div 2
        IN  IF w.low < w.high /\ n > At(S, middle).end /\ middle > w.low
              THEN find[[low |-> w.low, high |-> middle - 1]]
              ELSE Probe(S, n, w, find)
  IN  find[[low |-> 1, high |-> Cardinality(S)]]

\* Binary search for n below the newest range.
Search(S, n) ==
  LET find[w \in Windows] == Probe(S, n, w, find)
  IN  find[[low |-> 1, high |-> Cardinality(S)]]

Contains(S, n) ==
  /\ S # {} /\ n <= Newest(S).end
  /\ n >= Newest(S).start \/ Search(S, n)
=============================================================================
