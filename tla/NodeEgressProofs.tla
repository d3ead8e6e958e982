-------------------------- MODULE NodeEgressProofs --------------------------
(***************************************************************************)
(* What NodeEgress promises for every set of ranges, paths, bearers,       *)
(* routes, limits and bounds.  The ledger's operations are functions, so   *)
(* the argument is about them: one lemma per operation says what it keeps  *)
(* of LedgerOK (which records and evicted packets stand for which range)   *)
(* and of Charged (what each path is charged for).  The actions then only  *)
(* put operations one after the other.                                     *)
(***************************************************************************)
EXTENDS NodeEgress, FiniteSetTheorems, TLAPS

USE RangesAssumption, LimitsAssumption, BearersAssumption, FaultsAssumption

-----------------------------------------------------------------------------
Ledgers == [
  sent      : [PN -> {"none", "flight", "blocked", "lost"}],
  slot      : [PN -> Slots \cup {None}],
  delivered : [PN -> BOOLEAN],
  packet    : [PN -> [range : Ranges \cup {None}, path : Paths \cup {None}]],
  buffer    : [Slots -> Ranges \cup {None}],
  prior     : [Slots -> Seq(PN)],
  flight    : [Paths -> Nat],
  largest   : [Paths -> -1 .. MaxPackets - 1]]

\* The packet numbers from k on are unused, a record has a path, and what is
\* no record names no slot.
Fresh(L, k) ==
  \A n \in PN : /\ n >= k => L.sent[n] = "none" /\ RangeOf(L, n) = None
                /\ L.sent[n] # "none" => PathOf(L, n) \in Paths
                /\ L.sent[n] = "none" => L.slot[n] = None

\* A slot remembers no more evictions than its range has suffered, and may
\* have forgotten some only when they were more than prior_packets holds.
Lineage(L) == \A s \in Slots : Len(L.prior[s]) <= Cardinality(Evicted(L, s))
Few(L, s) == Cardinality(Evicted(L, s)) <= LineageLimit

\* A record that names a slot carried the range in it; when its data counts
\* as delivered although the range is retained, the range has no data.
SlotsNamed(L) ==
  \A n \in PN : L.slot[n] # None =>
    /\ L.buffer[L.slot[n]] = RangeOf(L, n)
    /\ RangeOf(L, n) # None
    /\ L.delivered[n] => RangeOf(L, n) \in EmptyRanges

\* So did the evicted packets that a slot remembers.
PriorsNamed(L) ==
  \A s \in Slots, n \in PN :
    n \in Range(L.prior[s]) => L.buffer[s] = RangeOf(L, n) /\ RangeOf(L, n) # None

\* Every packet that ever carried a retained range is known as its record or
\* as an evicted packet while these are few, and no two slots retain one
\* range.
Known(L) ==
  /\ \A s \in Slots, n \in PN :
       RangeOf(L, n) # None /\ L.buffer[s] = RangeOf(L, n) /\ Few(L, s)
         => L.slot[n] = s \/ n \in Range(L.prior[s])
  /\ \A s, t \in Slots : L.buffer[s] # None /\ L.buffer[s] = L.buffer[t] => s = t

\* A retained range has a record.
Recorded(L) == \A s \in Slots : L.buffer[s] # None => \E n \in PN : L.slot[n] = s

Placed(L, k) == L \in Ledgers /\ Fresh(L, k) /\ SlotsNamed(L) /\ PriorsNamed(L) /\ Known(L)
LedgerOK(L, k) == Placed(L, k) /\ Recorded(L) /\ Lineage(L)

\* The packets path p is charged for, and the charge, for resumed paths Z.
Due(L, p) == {n \in PN : L.sent[n] = "flight" /\ PathOf(L, n) = p}
Charged(L, Z) ==
  \A p \in Paths : IF p \in Z THEN L.flight[p] <= Cardinality(Due(L, p))
                             ELSE L.flight[p] = Cardinality(Due(L, p))

\* Only written ranges, W, are sent and retained.
OnlyWritten(L, W) ==
  /\ \A n \in PN : RangeOf(L, n) # None => RangeOf(L, n) \in W
  /\ \A s \in Slots : L.buffer[s] # None => L.buffer[s] \in W

\* No packet of X, which left a bearer, waits in one.
NotBlocked(L, X) == \A n \in X : L.sent[n] # "blocked"

\* ForgottenWasReceived and AckedIsForgotten of any ledger.
ForgottenOK(L, W) ==
  \A r \in W : (\A s \in Slots : L.buffer[s] # r) => \E n \in received : RangeOf(L, n) = r
AckedOK(L) ==
  \A n \in acked, s \in Slots :
    L.buffer[s] # None /\ Few(L, s) => L.buffer[s] # RangeOf(L, n)

\* The packets that left a bearer, in the owner's state s.
Left(s) == s.net \cup failed \cup received

\* The owner's state s, with written ranges W and resumed paths Z.
States == [ledger : Ledgers, next : 0 .. MaxPackets, pending : [Bearers -> PN \cup {None}],
           net : SUBSET PN]

Good(s, W, Z) ==
  /\ s \in States
  /\ \A b \in Bearers : s.pending[b] \in PN => s.pending[b] < s.next
  /\ \A n \in Left(s) : n \in PN /\ n < s.next
  /\ acked \subseteq received
  /\ LedgerOK(s.ledger, s.next)
  /\ Charged(s.ledger, Z)
  /\ OnlyWritten(s.ledger, W)
  /\ NotBlocked(s.ledger, Left(s))
  /\ ForgottenOK(s.ledger, W)
  /\ AckedOK(s.ledger)

Inv ==
  /\ Good(Now, written, reset)
  /\ written \subseteq Ranges
  /\ usable \subseteq Paths /\ probing \subseteq Paths

\* A refused packet waits in a bearer.
HeldIn(s) ==
  \A n \in PN : s.ledger.sent[n] = "blocked" => \E b \in Bearers : s.pending[b] = n
Held == up = Bearers /\ HeldIn(Now)

-----------------------------------------------------------------------------
LEMMA NoneApart == None \notin Slots /\ None \notin PN
BY DEF Slots, PN

\* The charge of a path is a count.
LEMMA DueFinite == ASSUME NEW L, NEW p
                   PROVE  IsFiniteSet(Due(L, p)) /\ Cardinality(Due(L, p)) \in Nat
<1>1. IsFiniteSet(PN)
  BY FS_Interval DEF PN
<1>2. Due(L, p) \subseteq PN
  BY DEF Due
<1> QED
  BY <1>1, <1>2, FS_Subset, FS_CardinalityType

\* The evictions of a range are a count, which only grows while it is retained.
LEMMA EvictedCount == ASSUME NEW L, NEW s
                      PROVE  IsFiniteSet(Evicted(L, s)) /\ Cardinality(Evicted(L, s)) \in Nat
<1>1. IsFiniteSet(PN)
  BY FS_Interval DEF PN
<1>2. Evicted(L, s) \subseteq PN
  BY DEF Evicted
<1> QED
  BY <1>1, <1>2, FS_Subset, FS_CardinalityType

LEMMA MoreEvicted ==
  ASSUME NEW L, NEW M, NEW s, Evicted(L, s) \subseteq Evicted(M, s)
  PROVE  /\ Cardinality(Evicted(L, s)) <= Cardinality(Evicted(M, s))
         /\ Few(M, s) => Few(L, s)
<1>1. Cardinality(Evicted(L, s)) <= Cardinality(Evicted(M, s))
  BY EvictedCount, FS_Subset
<1>2. /\ Cardinality(Evicted(L, s)) \in Nat /\ Cardinality(Evicted(M, s)) \in Nat
      /\ LineageLimit \in Nat
  BY EvictedCount
<1> QED
  BY <1>1, <1>2 DEF Few

LEMMA LineageMore ==
  ASSUME NEW L \in Ledgers, NEW M, Lineage(L), NEW s \in Slots, M.prior[s] = L.prior[s],
         Evicted(L, s) \subseteq Evicted(M, s)
  PROVE  Len(M.prior[s]) <= Cardinality(Evicted(M, s))
<1>1. Cardinality(Evicted(L, s)) <= Cardinality(Evicted(M, s))
  BY MoreEvicted
<1>2. Cardinality(Evicted(L, s)) \in Nat /\ Cardinality(Evicted(M, s)) \in Nat
  BY EvictedCount
<1>3. L.prior[s] \in Seq(PN) /\ Len(L.prior[s]) \in Nat
  BY DEF Ledgers
<1>4. Len(L.prior[s]) <= Cardinality(Evicted(L, s))
  BY DEF Lineage
<1> QED
  BY <1>1, <1>2, <1>3, <1>4

\* When accepted packets leave flight, so do their charges.
LEMMA LessCharged ==
  ASSUME NEW L, NEW M, NEW G, NEW Z, L \in Ledgers, Charged(L, Z),
         \A n \in G : n \in PN /\ L.sent[n] = "flight",
         M.flight = FlightWithout(L, G),
         \A p \in Paths : Due(M, p) = Due(L, p) \ G
  PROVE  Charged(M, Z) /\ M.flight \in [Paths -> Nat]
<1> SUFFICES ASSUME NEW p \in Paths
             PROVE  /\ M.flight[p] \in Nat
                    /\ IF p \in Z THEN M.flight[p] <= Cardinality(Due(M, p))
                                  ELSE M.flight[p] = Cardinality(Due(M, p))
  BY DEF Charged, FlightWithout
<1> DEFINE g == {n \in G : PathOf(L, n) = p}
<1>1. Due(L, p) \cap G = g
  BY DEF Due
<1>2. Cardinality(Due(M, p)) = Cardinality(Due(L, p)) - Cardinality(g)
  BY <1>1, DueFinite, FS_Difference
<1>3. Cardinality(g) \in Nat /\ Cardinality(g) <= Cardinality(Due(L, p))
  BY <1>1, DueFinite, FS_Intersection, FS_CardinalityType
<1>4. M.flight[p] = Monus(L.flight[p], Cardinality(g)) /\ L.flight[p] \in Nat
  BY DEF FlightWithout, Ledgers
<1>5. IF p \in Z THEN L.flight[p] <= Cardinality(Due(L, p)) ELSE L.flight[p] = Cardinality(Due(L, p))
  BY DEF Charged
<1>6. Cardinality(Due(L, p)) \in Nat
  BY DueFinite
<1> HIDE DEF g
<1> QED
  BY <1>2, <1>3, <1>4, <1>5, <1>6 DEF Monus

\* When a packet enters flight, its path is charged for it.
LEMMA MoreCharged ==
  ASSUME NEW L, NEW M, NEW n \in PN, NEW q \in Paths, NEW Z, L \in Ledgers, Charged(L, Z),
         L.sent[n] # "flight",
         M.flight = Put(L.flight, q, L.flight[q] + 1),
         \A p \in Paths : Due(M, p) = IF p = q THEN Due(L, p) \cup {n} ELSE Due(L, p)
  PROVE  Charged(M, Z) /\ M.flight \in [Paths -> Nat]
<1>0. M.flight \in [Paths -> Nat]
  BY DEF Put, Ledgers
<1> SUFFICES ASSUME NEW p \in Paths
             PROVE  IF p \in Z THEN M.flight[p] <= Cardinality(Due(M, p))
                               ELSE M.flight[p] = Cardinality(Due(M, p))
  BY <1>0 DEF Charged
<1>1. n \notin Due(L, p)
  BY DEF Due
<1>2. Cardinality(Due(L, p) \cup {n}) = Cardinality(Due(L, p)) + 1
  BY <1>1, DueFinite, FS_AddElement
<1>3. Cardinality(Due(L, p)) \in Nat
  BY DueFinite
<1>4. IF p \in Z THEN L.flight[p] <= Cardinality(Due(L, p)) ELSE L.flight[p] = Cardinality(Due(L, p))
  BY DEF Charged
<1>5. L.flight[p] \in Nat /\ M.flight[p] = IF p = q THEN L.flight[p] + 1 ELSE L.flight[p]
  BY DEF Ledgers, Put
<1>6. Due(M, p) = IF p = q THEN Due(L, p) \cup {n} ELSE Due(L, p)
  OBVIOUS
<1>7. CASE p = q
  BY <1>2, <1>3, <1>4, <1>5, <1>6, <1>7
<1>8. CASE p # q
  BY <1>4, <1>5, <1>6, <1>8
<1> QED
  BY <1>7, <1>8

\* When nothing enters or leaves flight, the charges stay.
LEMMA SameCharged ==
  ASSUME NEW L, NEW M, NEW Z, Charged(L, Z), M.flight = L.flight,
         \A p \in Paths : Due(M, p) = Due(L, p)
  PROVE  Charged(M, Z)
BY DEF Charged

-----------------------------------------------------------------------------
\* M knows the same ranges and transmissions as L, and its records are some
\* of L's, all those with a slot among them.
Keeps(L, M) ==
  /\ M.slot = L.slot /\ M.buffer = L.buffer /\ M.packet = L.packet /\ M.prior = L.prior
  /\ \A n \in PN : /\ M.delivered[n] => L.delivered[n]
                   /\ L.sent[n] = "none" => M.sent[n] = "none"
                   /\ L.slot[n] # None => M.sent[n] # "none"

LEMMA KeepsOK ==
  ASSUME NEW L, NEW M, NEW k, LedgerOK(L, k), M \in Ledgers, Keeps(L, M)
  PROVE  /\ LedgerOK(M, k)
         /\ \A W : OnlyWritten(L, W) => OnlyWritten(M, W)
         /\ \A W : ForgottenOK(L, W) => ForgottenOK(M, W)
         /\ AckedOK(L) => AckedOK(M)
<1>1. \A n : RangeOf(M, n) = RangeOf(L, n) /\ PathOf(M, n) = PathOf(L, n)
  BY DEF Keeps, RangeOf, PathOf
<1>2. Fresh(M, k)
  BY <1>1 DEF Keeps, LedgerOK, Placed, Fresh
<1>3. SlotsNamed(M)
  BY <1>1 DEF Keeps, LedgerOK, Placed, SlotsNamed
<1>4. \A s : Evicted(M, s) = Evicted(L, s) /\ (Few(M, s) <=> Few(L, s))
  BY <1>1 DEF Keeps, Evicted, Few
<1>5. PriorsNamed(M) /\ Known(M) /\ Recorded(M) /\ Lineage(M)
  BY <1>4, <1>1 DEF Keeps, LedgerOK, Placed, PriorsNamed, Known, Recorded, Lineage
<1>6. /\ \A W : OnlyWritten(L, W) => OnlyWritten(M, W)
      /\ \A W : ForgottenOK(L, W) => ForgottenOK(M, W)
      /\ AckedOK(L) => AckedOK(M)
  BY <1>4, <1>1 DEF Keeps, OnlyWritten, ForgottenOK, AckedOK
<1> QED
  BY <1>2, <1>3, <1>5, <1>6 DEF LedgerOK, Placed

\* Records change status and paths their charge, and nothing else changes.
Marked(L, sent, flight) == [L EXCEPT !.sent = sent, !.flight = flight]

LEMMA MarkedFields ==
  ASSUME NEW L, L \in Ledgers, NEW sent \in [PN -> {"none", "flight", "blocked", "lost"}],
         NEW flight \in [Paths -> Nat]
  PROVE  LET M == Marked(L, sent, flight)
         IN  /\ M \in Ledgers /\ M.sent = sent /\ M.flight = flight
             /\ M.slot = L.slot /\ M.buffer = L.buffer /\ M.packet = L.packet
             /\ M.prior = L.prior /\ M.delivered = L.delivered
             /\ \A n : RangeOf(M, n) = RangeOf(L, n) /\ PathOf(M, n) = PathOf(L, n)
BY DEF Marked, Ledgers, RangeOf, PathOf

\* M is L without the records G.
Without(L, M, G) ==
  /\ M \in Ledgers
  /\ \A n \in PN : /\ M.sent[n] = IF n \in G THEN "none" ELSE L.sent[n]
                   /\ M.slot[n] = IF n \in G THEN None ELSE L.slot[n]
                   /\ M.delivered[n] => L.delivered[n]
  /\ M.buffer = L.buffer /\ M.packet = L.packet /\ M.prior = L.prior
  /\ M.flight = L.flight /\ M.largest = L.largest
  /\ \A n : RangeOf(M, n) = RangeOf(L, n) /\ PathOf(M, n) = PathOf(L, n)

LEMMA RetireFields ==
  ASSUME NEW L \in Ledgers, NEW G
  PROVE  Without(L, Retire(L, G), G)
<1> DEFINE sent == [n \in PN |-> IF n \in G THEN "none" ELSE L.sent[n]]
           slot == [n \in PN |-> IF n \in G THEN None ELSE L.slot[n]]
           delivered == [n \in PN |-> L.delivered[n] /\ n \notin G]
           M == Retire(L, G)
<1>1. /\ sent \in [PN -> {"none", "flight", "blocked", "lost"}]
      /\ slot \in [PN -> Slots \cup {None}]
      /\ delivered \in [PN -> BOOLEAN]
  BY DEF Ledgers
<1>2. M = [L EXCEPT !.sent = sent, !.slot = slot, !.delivered = delivered]
  BY DEF Retire
<1> HIDE DEF M, sent, slot, delivered
<1>3. /\ M.sent = sent /\ M.slot = slot /\ M.delivered = delivered
      /\ M.buffer = L.buffer /\ M.packet = L.packet /\ M.prior = L.prior
      /\ M.flight = L.flight /\ M.largest = L.largest
  BY <1>2 DEF Ledgers
<1>4. M \in Ledgers
  BY <1>1, <1>2 DEF Ledgers
<1>5. \A n \in PN : M.delivered[n] => L.delivered[n]
  BY <1>3 DEF delivered
<1>6. \A n \in PN : /\ M.sent[n] = IF n \in G THEN "none" ELSE L.sent[n]
                    /\ M.slot[n] = IF n \in G THEN None ELSE L.slot[n]
  BY <1>3 DEF sent, slot
<1>7. \A n : RangeOf(M, n) = RangeOf(L, n) /\ PathOf(M, n) = PathOf(L, n)
  BY <1>3 DEF RangeOf, PathOf
<1>8. Without(L, M, G)
  BY <1>3, <1>4, <1>5, <1>6, <1>7 DEF Without
<1> QED
  BY <1>8 DEF M

\* What an operation that neither adds nor evicts does to the ledger.
Safe(L, M) ==
  /\ M \in Ledgers /\ Keeps(L, M)
  /\ \A Z : Charged(L, Z) => Charged(M, Z)

LEMMA RetireSafe ==
  ASSUME NEW L, NEW k, LedgerOK(L, k), NEW G,
         \A n \in G : n \in PN => L.slot[n] = None /\ L.sent[n] # "flight"
  PROVE  Safe(L, Retire(L, G)) /\ \A n \in PN : Retire(L, G).sent[n] \in {L.sent[n], "none"}
<1> DEFINE M == Retire(L, G)
<1> HIDE DEF M
<1>1. L \in Ledgers /\ Fresh(L, k)
  BY DEF LedgerOK, Placed
<1>2. Without(L, M, G)
  BY <1>1, RetireFields DEF M
<1>3. M.slot = L.slot
  BY <1>1, <1>2 DEF Without, Ledgers
<1>4. Keeps(L, M)
  BY <1>1, <1>2, <1>3 DEF Without, Keeps, Fresh
<1>5. \A p \in Paths : Due(M, p) = Due(L, p)
  BY <1>2 DEF Without, Due
<1> QED
  BY <1>2, <1>4, <1>5, SameCharged DEF Without, Safe, M

LEMMA SafeTrans ==
  ASSUME NEW L, NEW M, NEW N, Safe(L, M), Safe(M, N)
  PROVE  Safe(L, N)
BY DEF Safe, Keeps

\* Accepted packets G leave flight: they are lost, or wait in their bearer.
LEMMA LeaveFlight ==
  ASSUME NEW L, NEW k, LedgerOK(L, k), NEW G, NEW status \in {"lost", "blocked"},
         NEW sent, sent = [n \in PN |-> IF n \in G THEN status ELSE L.sent[n]],
         \A n \in G : n \in PN /\ L.sent[n] = "flight"
  PROVE  LET M == Marked(L, sent, FlightWithout(L, G))
         IN  /\ Safe(L, M) /\ M.sent = sent
             /\ M.delivered = L.delivered /\ M.slot = L.slot /\ M.buffer = L.buffer
             /\ \A n : RangeOf(M, n) = RangeOf(L, n) /\ PathOf(M, n) = PathOf(L, n)
<1> DEFINE M == Marked(L, sent, FlightWithout(L, G))
<1> HIDE DEF M
<1>1. L \in Ledgers /\ Fresh(L, k)
  BY DEF LedgerOK, Placed
<1>2. FlightWithout(L, G) \in [Paths -> Nat]
  <2> SUFFICES ASSUME NEW p \in Paths
               PROVE  Monus(L.flight[p], Cardinality({n \in G : PathOf(L, n) = p})) \in Nat
    BY DEF FlightWithout
  <2>1. {n \in G : PathOf(L, n) = p} = Due(L, p) \cap G
    BY DEF Due
  <2>2. Cardinality({n \in G : PathOf(L, n) = p}) \in Nat
    BY <2>1, DueFinite, FS_Intersection, FS_CardinalityType
  <2> QED
    BY <1>1, <2>2 DEF Monus, Ledgers
<1>3. sent \in [PN -> {"none", "flight", "blocked", "lost"}]
  BY <1>1 DEF Ledgers
<1>4. /\ M \in Ledgers /\ M.sent = sent /\ M.flight = FlightWithout(L, G)
      /\ M.slot = L.slot /\ M.buffer = L.buffer /\ M.packet = L.packet
      /\ M.prior = L.prior /\ M.delivered = L.delivered
      /\ \A n : RangeOf(M, n) = RangeOf(L, n) /\ PathOf(M, n) = PathOf(L, n)
  <2> DEFINE flight == FlightWithout(L, G)
  <2>1. M = [L EXCEPT !.sent = sent, !.flight = flight] /\ flight \in [Paths -> Nat]
    BY <1>2 DEF M, Marked
  <2> HIDE DEF flight
  <2>2. /\ M \in Ledgers /\ M.sent = sent /\ M.flight = flight
        /\ M.slot = L.slot /\ M.buffer = L.buffer /\ M.packet = L.packet
        /\ M.prior = L.prior /\ M.delivered = L.delivered
    BY <1>1, <1>3, <2>1 DEF Ledgers
  <2>3. \A n : RangeOf(M, n) = RangeOf(L, n) /\ PathOf(M, n) = PathOf(L, n)
    BY <2>2 DEF RangeOf, PathOf
  <2> QED
    BY <2>2, <2>3 DEF flight
<1>5. \A p \in Paths : Due(M, p) = Due(L, p) \ G
  BY <1>4 DEF Due
<1>6. \A Z : Charged(L, Z) => Charged(M, Z)
  BY <1>1, <1>4, <1>5, LessCharged
<1>7. Keeps(L, M)
  BY <1>1, <1>4 DEF Keeps, Fresh
<1> QED
  BY <1>4, <1>6, <1>7 DEF Safe, M

-----------------------------------------------------------------------------
\* The operations that neither add nor evict, one by one.  Only a refusal
\* blocks a packet, and only acceptance ends that.

LEMMA BlockedSafe ==
  ASSUME NEW L, NEW k, LedgerOK(L, k), NEW n \in PN
  PROVE  LET M == SubmissionBlocked(L, n)
         IN  /\ Safe(L, M)
             /\ \A m \in PN : M.sent[m] = "blocked" => L.sent[m] = "blocked" \/ m = n
<1>1. L \in Ledgers
  BY DEF LedgerOK, Placed
<1>2. CASE L.sent[n] = "flight"
  <2> DEFINE sent == [m \in PN |-> IF m \in {n} THEN "blocked" ELSE L.sent[m]]
  <2>1. SubmissionBlocked(L, n) = Marked(L, sent, FlightWithout(L, {n}))
    BY <1>1, <1>2 DEF SubmissionBlocked, Marked, Put, Ledgers
  <2> HIDE DEF sent
  <2>2. /\ Safe(L, Marked(L, sent, FlightWithout(L, {n})))
        /\ Marked(L, sent, FlightWithout(L, {n})).sent = sent
    BY <1>2, LeaveFlight DEF sent
  <2> QED
    BY <2>1, <2>2 DEF sent
<1>3. CASE L.sent[n] # "flight"
  BY <1>1, <1>3 DEF SubmissionBlocked, Safe, Keeps, LedgerOK, Placed, Fresh
<1> QED
  BY <1>2, <1>3

LEMMA AcceptedSafe ==
  ASSUME NEW L, NEW k, LedgerOK(L, k), NEW n \in PN
  PROVE  LET M == SubmissionAccepted(L, n)
         IN  /\ Safe(L, M)
             /\ M.sent[n] # "blocked"
             /\ \A m \in PN : M.sent[m] = "blocked" => L.sent[m] = "blocked"
<1>1. L \in Ledgers /\ Fresh(L, k)
  BY DEF LedgerOK, Placed
<1>2. CASE L.sent[n] = "blocked"
  <2> DEFINE q == PathOf(L, n)
             sent == [m \in PN |-> IF m = n THEN "flight" ELSE L.sent[m]]
             flight == Put(L.flight, q, L.flight[q] + 1)
             M == SubmissionAccepted(L, n)
  <2>1. M = Marked(L, sent, flight)
    BY <1>1, <1>2 DEF SubmissionAccepted, Marked, Put, Ledgers
  <2>2. q \in Paths
    BY <1>1, <1>2 DEF Fresh
  <2>3. sent \in [PN -> {"none", "flight", "blocked", "lost"}] /\ flight \in [Paths -> Nat]
    BY <1>1 DEF Ledgers, Put
  <2> HIDE DEF sent, flight, q, M
  <2>4. /\ M \in Ledgers /\ M.sent = sent /\ M.flight = flight
        /\ M.slot = L.slot /\ M.buffer = L.buffer /\ M.packet = L.packet
        /\ M.prior = L.prior /\ M.delivered = L.delivered
        /\ \A m : RangeOf(M, m) = RangeOf(L, m) /\ PathOf(M, m) = PathOf(L, m)
    BY <1>1, <2>1, <2>3, MarkedFields
  <2>5. \A p \in Paths : Due(M, p) = IF p = q THEN Due(L, p) \cup {n} ELSE Due(L, p)
    BY <1>2, <2>4 DEF Due, sent, q
  <2>6. \A Z : Charged(L, Z) => Charged(M, Z)
    BY <1>1, <1>2, <2>2, <2>4, <2>5, MoreCharged DEF flight
  <2>7. Keeps(L, M)
    BY <1>1, <1>2, <2>4 DEF Keeps, Fresh, sent
  <2>8. M.sent[n] # "blocked" /\ \A m \in PN : M.sent[m] = "blocked" => L.sent[m] = "blocked"
    BY <2>4 DEF sent
  <2> QED
    BY <2>4, <2>6, <2>7, <2>8 DEF Safe, M
<1>3. CASE L.sent[n] # "blocked"
  BY <1>1, <1>3 DEF SubmissionAccepted, Safe, Keeps, Fresh
<1> QED
  BY <1>2, <1>3

\* A record that is settled has let go of its slot: a range with data is
\* retained until the data is acknowledged, and a bare FIN is pending.
LEMMA SettledHasNoSlot ==
  ASSUME NEW L, NEW k, LedgerOK(L, k), NEW n \in PN, L.delivered[n], ~FinPending(L, n)
  PROVE  L.slot[n] = None
<1>1. SlotsNamed(L)
  BY DEF LedgerOK, Placed
<1>2. L.slot[n] # None => RangeOf(L, n) \in FinRanges /\ L.buffer[L.slot[n]] \in FinRanges
  BY <1>1 DEF SlotsNamed
<1> QED
  BY <1>2 DEF FinPending

LEMMA FailedSafe ==
  ASSUME NEW L, NEW k, LedgerOK(L, k), NEW n \in PN
  PROVE  LET M == SubmissionFailed(L, n)
         IN  /\ Safe(L, M)
             /\ \A m \in PN : M.sent[m] = "blocked" => L.sent[m] = "blocked"
<1>1. L \in Ledgers /\ Fresh(L, k)
  BY DEF LedgerOK, Placed
<1>2. CASE L.sent[n] = "flight"
  <2> DEFINE sent == [m \in PN |-> IF m \in {n} THEN "lost" ELSE L.sent[m]]
             N == Marked(L, sent, FlightWithout(L, {n}))
  <2>1. SubmissionFailed(L, n) = IF L.delivered[n] /\ ~FinPending(L, n) THEN Retire(N, {n}) ELSE N
    BY <1>1, <1>2 DEF SubmissionFailed, Marked, Put, Ledgers
  <2> HIDE DEF sent, N
  <2>2. Safe(L, N) /\ N.sent = sent /\ N.slot = L.slot
    BY <1>2, LeaveFlight DEF sent, N
  <2>3. LedgerOK(N, k)
    BY <2>2, KeepsOK DEF Safe
  <2>4. CASE L.delivered[n] /\ ~FinPending(L, n)
    <3>1. N.slot[n] = None /\ N.sent[n] # "flight"
      BY <2>2, <2>4, SettledHasNoSlot DEF sent
    <3>2. Safe(N, Retire(N, {n})) /\ \A m \in PN : Retire(N, {n}).sent[m] \in {N.sent[m], "none"}
      BY <2>3, <3>1, RetireSafe
    <3> QED
      BY <2>1, <2>2, <2>4, <3>2, SafeTrans DEF sent
  <2>5. CASE ~(L.delivered[n] /\ ~FinPending(L, n))
    BY <2>1, <2>2, <2>5 DEF sent
  <2> QED
    BY <2>4, <2>5
<1>3. CASE L.sent[n] # "flight"
  BY <1>1, <1>3 DEF SubmissionFailed, Safe, Keeps, Fresh
<1> QED
  BY <1>2, <1>3

LEMMA SuspendSafe ==
  ASSUME NEW L, NEW k, LedgerOK(L, k), NEW P
  PROVE  LET M == SuspendPaths(L, P)
         IN  /\ Safe(L, M)
             /\ \A m \in PN : M.sent[m] = "blocked" => L.sent[m] = "blocked"
<1> DEFINE gone == {n \in PN : L.sent[n] = "flight" /\ PathOf(L, n) \in P}
           sent == [m \in PN |-> IF m \in gone THEN "lost" ELSE L.sent[m]]
           M == SuspendPaths(L, P)
<1>1. M = Marked(L, sent, FlightWithout(L, gone))
  BY DEF SuspendPaths, Marked
<1> HIDE DEF sent, M
<1>2. Safe(L, M) /\ M.sent = sent
  BY <1>1, LeaveFlight DEF sent
<1> QED
  BY <1>2 DEF sent, M

LEMMA DetectSafe ==
  ASSUME NEW L, NEW k, LedgerOK(L, k), NEW C
  PROVE  LET M == DetectLosses(L, C)
         IN  /\ Safe(L, M)
             /\ \A m \in PN : M.sent[m] = "blocked" => L.sent[m] = "blocked"
<1> DEFINE gone == Overtaken(L) \cap C
           sent == [m \in PN |-> IF m \in gone THEN "lost" ELSE L.sent[m]]
           N == Marked(L, sent, FlightWithout(L, gone))
           settled == {n \in PN : /\ N.sent[n] = "lost"
                                  /\ L.largest[PathOf(L, n)] # -1
                                  /\ L.delivered[n] /\ ~FinPending(L, n)}
<1>1. DetectLosses(L, C) = Retire(N, settled)
  BY DEF DetectLosses, Marked
<1>2. \A n \in gone : n \in PN /\ L.sent[n] = "flight"
  BY DEF Overtaken
<1> HIDE DEF sent, N, gone
<1>3. Safe(L, N) /\ N.sent = sent /\ N.slot = L.slot
  BY <1>2, LeaveFlight DEF sent, N
<1>4. LedgerOK(N, k)
  BY <1>3, KeepsOK DEF Safe
<1>5. \A n \in settled : N.slot[n] = None /\ N.sent[n] # "flight"
  BY <1>3, SettledHasNoSlot
<1> HIDE DEF settled
<1>6. /\ Safe(N, Retire(N, settled))
      /\ \A m \in PN : Retire(N, settled).sent[m] \in {N.sent[m], "none"}
  BY <1>4, <1>5, RetireSafe
<1> QED
  BY <1>1, <1>3, <1>6, SafeTrans DEF sent

-----------------------------------------------------------------------------
LEMMA PutType ==
  ASSUME NEW S, NEW T, NEW f \in [S -> T], NEW x \in S, NEW v \in T
  PROVE  /\ Put(f, x, v) \in [S -> T]
         /\ \A y \in S : Put(f, x, v)[y] = IF y = x THEN v ELSE f[y]
BY DEF Put

\* Packet k is recorded for range r, retained in slot s, or for nothing.
Adds(L, M, k, r, p) ==
  /\ M.buffer = L.buffer
  /\ RangeOf(M, k) = r /\ PathOf(M, k) = p /\ M.sent[k] = "flight"
  /\ \A n \in PN \ {k} : RangeOf(M, n) = RangeOf(L, n) /\ M.sent[n] = L.sent[n]
  /\ \A t \in Slots : Evicted(L, t) \subseteq Evicted(M, t)

LEMMA PrepareOK ==
  ASSUME NEW L, NEW k \in PN, NEW r, NEW p \in Paths, NEW s, Placed(L, k), Lineage(L),
         \/ r = None /\ s = None
         \/ r \in Ranges /\ s \in Slots /\ L.buffer[s] = r,
         \A t \in Slots \ {s} : L.buffer[t] # None => \E n \in PN : L.slot[n] = t
  PROVE  LET M == Prepare(L, k, r, p, s)
         IN  /\ LedgerOK(M, k + 1) /\ Adds(L, M, k, r, p)
             /\ \A Z : Charged(L, Z) => Charged(M, Z)
<1> DEFINE sent == Put(L.sent, k, "flight")
           slot == Put(L.slot, k, s)
           delivered == Put(L.delivered, k, (r = None))
           packet == Put(L.packet, k, [range |-> r, path |-> p])
           flight == Put(L.flight, p, L.flight[p] + 1)
           M == Prepare(L, k, r, p, s)
<1>1. L \in Ledgers /\ Fresh(L, k) /\ k \in Nat /\ PN \subseteq Nat
  BY DEF Placed, PN
<1>2. /\ sent \in [PN -> {"none", "flight", "blocked", "lost"}]
      /\ slot \in [PN -> Slots \cup {None}]
      /\ delivered \in [PN -> BOOLEAN]
      /\ packet \in [PN -> [range : Ranges \cup {None}, path : Paths \cup {None}]]
      /\ flight \in [Paths -> Nat]
  <2>1. /\ L.sent \in [PN -> {"none", "flight", "blocked", "lost"}]
        /\ L.slot \in [PN -> Slots \cup {None}]
        /\ L.delivered \in [PN -> BOOLEAN]
        /\ L.packet \in [PN -> [range : Ranges \cup {None}, path : Paths \cup {None}]]
        /\ L.flight \in [Paths -> Nat]
    BY <1>1 DEF Ledgers
  <2>2. /\ [range |-> r, path |-> p] \in [range : Ranges \cup {None}, path : Paths \cup {None}]
        /\ s \in Slots \cup {None} /\ (r = None) \in BOOLEAN /\ L.flight[p] + 1 \in Nat
    BY <2>1
  <2>3. sent \in [PN -> {"none", "flight", "blocked", "lost"}] /\ slot \in [PN -> Slots \cup {None}]
    BY <2>1, <2>2, PutType
  <2>4. delivered \in [PN -> BOOLEAN]
    BY <2>1, <2>2, PutType
  <2>5. packet \in [PN -> [range : Ranges \cup {None}, path : Paths \cup {None}]]
    BY <2>1, <2>2, PutType
  <2>6. flight \in [Paths -> Nat]
    BY <2>1, <2>2, PutType
  <2> QED
    BY <2>3, <2>4, <2>5, <2>6
<1>3. M = [L EXCEPT !.sent = sent, !.slot = slot, !.delivered = delivered,
                    !.packet = packet, !.flight = flight]
  BY <1>1 DEF Prepare, Ledgers
<1> HIDE DEF sent, slot, delivered, packet, flight, M
<1>4. /\ M \in Ledgers
      /\ M.sent = sent /\ M.slot = slot /\ M.delivered = delivered /\ M.packet = packet
      /\ M.flight = flight /\ M.buffer = L.buffer /\ M.prior = L.prior
  BY <1>1, <1>2, <1>3 DEF Ledgers
<1>5. /\ M.sent[k] = "flight" /\ M.slot[k] = s /\ (M.delivered[k] => r = None)
      /\ RangeOf(M, k) = r /\ PathOf(M, k) = p
      /\ \A n \in PN \ {k} : /\ RangeOf(M, n) = RangeOf(L, n) /\ PathOf(M, n) = PathOf(L, n)
                             /\ M.sent[n] = L.sent[n] /\ M.slot[n] = L.slot[n]
                             /\ M.delivered[n] = L.delivered[n]
  BY <1>1, <1>4 DEF sent, slot, delivered, packet, Put, RangeOf, PathOf, Ledgers
<1>6. L.sent[k] = "none" /\ L.slot[k] = None /\ RangeOf(L, k) = None
  BY <1>1 DEF Fresh
<1>7. Fresh(M, k + 1)
  BY <1>1, <1>5 DEF Fresh
<1>8. SlotsNamed(M)
  BY <1>4, <1>5 DEF Placed, SlotsNamed
<1>9. PriorsNamed(M)
  BY <1>4, <1>5, <1>6 DEF Placed, PriorsNamed
<1>10. /\ Known(M) /\ Lineage(M)
       /\ \A t \in Slots : Evicted(L, t) \subseteq Evicted(M, t)
  <2>1. \A t \in Slots : Evicted(L, t) \subseteq Evicted(M, t)
    BY <1>4, <1>5, <1>6 DEF Evicted
  <2>2. \A t \in Slots : Few(M, t) => Few(L, t)
    BY <2>1, MoreEvicted
  <2>3. \A t \in Slots : Len(M.prior[t]) <= Cardinality(Evicted(M, t))
    BY <1>1, <1>4, <2>1, LineageMore
  <2> QED
    BY <1>4, <1>5, <2>1, <2>2, <2>3 DEF Placed, Known, Lineage
<1>11. Recorded(M)
  <2> SUFFICES ASSUME NEW t \in Slots, M.buffer[t] # None
               PROVE  \E n \in PN : M.slot[n] = t
    BY DEF Recorded
  <2>1. CASE t = s
    BY <1>5, <2>1
  <2>2. CASE t # s
    <3>1. PICK n \in PN : L.slot[n] = t
      BY <1>4, <2>2
    <3>2. n # k
      BY <1>6, <3>1, NoneApart
    <3> QED
      BY <1>5, <3>1, <3>2
  <2> QED
    BY <2>1, <2>2
<1>12. \A q \in Paths : Due(M, q) = IF q = p THEN Due(L, q) \cup {k} ELSE Due(L, q)
  BY <1>5, <1>6 DEF Due
<1>13. \A Z : Charged(L, Z) => Charged(M, Z)
  <2> SUFFICES ASSUME NEW Z, Charged(L, Z) PROVE Charged(M, Z)
    OBVIOUS
  <2>1. L.sent[k] # "flight"
    BY <1>6
  <2>2. M.flight = Put(L.flight, p, L.flight[p] + 1)
    BY <1>4 DEF flight
  <2> QED
    BY <1>1, <1>12, <2>1, <2>2, MoreCharged
<1>14. LedgerOK(M, k + 1)
  BY <1>4, <1>7, <1>8, <1>9, <1>10, <1>11 DEF LedgerOK, Placed
<1>15. Adds(L, M, k, r, p)
  BY <1>4, <1>5, <1>10 DEF Adds
<1> QED
  BY <1>13, <1>14, <1>15 DEF M

\* A PING or a challenge.
LEMMA PingOK ==
  ASSUME NEW L, NEW k \in PN, NEW p \in Paths, LedgerOK(L, k)
  PROVE  LET M == Prepare(L, k, None, p, None)
         IN  /\ LedgerOK(M, k + 1) /\ Adds(L, M, k, None, p)
             /\ \A Z : Charged(L, Z) => Charged(M, Z)
BY PrepareOK DEF LedgerOK, Recorded

\* A new range takes a free slot.
LEMMA EncodeOK ==
  ASSUME NEW L, NEW k \in PN, NEW r \in Ranges, NEW p \in Paths, NEW s \in Slots,
         LedgerOK(L, k), L.buffer[s] = None,
         \A n \in PN : RangeOf(L, n) # r, \A t \in Slots : L.buffer[t] # r
  PROVE  LET M == Encode(L, k, r, p, s)
         IN  /\ LedgerOK(M, k + 1)
             /\ RangeOf(M, k) = r /\ PathOf(M, k) = p /\ M.sent[k] = "flight"
             /\ \A n \in PN \ {k} : RangeOf(M, n) = RangeOf(L, n) /\ M.sent[n] = L.sent[n]
             /\ \A t \in Slots : M.buffer[t] = IF t = s THEN r ELSE L.buffer[t]
             /\ \A t \in Slots \ {s} : Evicted(L, t) \subseteq Evicted(M, t)
             /\ \A Z : Charged(L, Z) => Charged(M, Z)
<1> DEFINE buffer == Put(L.buffer, s, r)
           N == [L EXCEPT !.buffer = buffer]
<1>1. L \in Ledgers /\ Fresh(L, k) /\ SlotsNamed(L) /\ PriorsNamed(L) /\ Known(L) /\ Lineage(L)
  BY DEF LedgerOK, Placed
<1>2. buffer \in [Slots -> Ranges \cup {None}] /\ Encode(L, k, r, p, s) = Prepare(N, k, r, p, s)
  BY <1>1 DEF Ledgers, Put, Encode
<1>3. \A t \in Slots : buffer[t] = IF t = s THEN r ELSE L.buffer[t]
  BY <1>1 DEF Ledgers, Put
<1> HIDE DEF buffer
<1>4. /\ N \in Ledgers
      /\ N.sent = L.sent /\ N.slot = L.slot /\ N.delivered = L.delivered /\ N.packet = L.packet
      /\ N.flight = L.flight /\ N.buffer = buffer /\ N.prior = L.prior
  BY <1>1, <1>2 DEF Ledgers
<1> HIDE DEF N
<1>5. \A n : RangeOf(N, n) = RangeOf(L, n) /\ PathOf(N, n) = PathOf(L, n)
  BY <1>4 DEF RangeOf, PathOf
<1>6. Fresh(N, k)
  BY <1>1, <1>4, <1>5 DEF Fresh
<1>7. SlotsNamed(N)
  <2> SUFFICES ASSUME NEW n \in PN, L.slot[n] # None
               PROVE  /\ buffer[L.slot[n]] = RangeOf(L, n) /\ RangeOf(L, n) # None
                      /\ L.delivered[n] => RangeOf(L, n) \in EmptyRanges
    BY <1>4, <1>5 DEF SlotsNamed
  <2>1. /\ L.buffer[L.slot[n]] = RangeOf(L, n) /\ RangeOf(L, n) # None
        /\ L.delivered[n] => RangeOf(L, n) \in EmptyRanges
    BY <1>1 DEF SlotsNamed
  <2>2. L.slot[n] \in Slots /\ L.slot[n] # s
    BY <1>1, <2>1 DEF Ledgers
  <2> QED
    BY <1>3, <2>1, <2>2
<1>8. PriorsNamed(N)
  BY <1>1, <1>3, <1>4, <1>5 DEF PriorsNamed
<1>9. /\ Known(N) /\ Lineage(N)
      /\ \A t \in Slots \ {s} : Evicted(L, t) = Evicted(N, t)
  <2>1. \A t \in Slots \ {s} : Evicted(L, t) = Evicted(N, t)
    BY <1>3, <1>4, <1>5 DEF Evicted
  <2>2. \A t \in Slots \ {s} : Few(N, t) => Few(L, t)
    BY <2>1 DEF Few
  <2>3. Known(N)
    <3>1. ASSUME NEW t \in Slots, NEW n \in PN, RangeOf(L, n) # None,
                 N.buffer[t] = RangeOf(L, n), Few(N, t)
          PROVE  L.slot[n] = t \/ n \in Range(L.prior[t])
      <4>1. t # s /\ L.buffer[t] = RangeOf(L, n)
        BY <1>3, <1>4, <3>1
      <4> QED
        BY <1>1, <2>2, <3>1, <4>1 DEF Known
    <3>2. \A t, u \in Slots : N.buffer[t] # None /\ N.buffer[t] = N.buffer[u] => t = u
      BY <1>1, <1>3, <1>4 DEF Known
    <3> QED
      BY <1>4, <1>5, <3>1, <3>2 DEF Known
  <2>4. Range(L.prior[s]) = {}
    <3>1. L.prior[s] \in Seq(PN)
      BY <1>1 DEF Ledgers
    <3>2. \A n \in Range(L.prior[s]) : n \in PN
      BY <3>1 DEF Range
    <3> QED
      BY <1>1, <3>2 DEF PriorsNamed
  <2>5. Len(L.prior[s]) = 0
    <3>1. L.prior[s] \in Seq(PN)
      BY <1>1 DEF Ledgers
    <3>2. Len(L.prior[s]) \in Nat /\ \A i \in 1 .. Len(L.prior[s]) : L.prior[s][i] \in Range(L.prior[s])
      BY <3>1 DEF Range
    <3>3. Len(L.prior[s]) # 0 => 1 \in 1 .. Len(L.prior[s])
      BY <3>2
    <3> QED
      BY <2>4, <3>2, <3>3
  <2>6. Len(N.prior[s]) <= Cardinality(Evicted(N, s))
    BY <1>4, <2>5, EvictedCount
  <2>7. \A t \in Slots \ {s} : Len(N.prior[t]) <= Cardinality(Evicted(N, t))
    BY <1>1, <1>4, <2>1 DEF Lineage
  <2> QED
    BY <2>1, <2>3, <2>6, <2>7 DEF Lineage
<1>10. \A t \in Slots \ {s} : N.buffer[t] # None => \E n \in PN : N.slot[n] = t
  BY <1>3, <1>4 DEF LedgerOK, Recorded
<1>11. \A Z : Charged(L, Z) => Charged(N, Z)
  BY <1>4, <1>5, SameCharged DEF Due
<1>12. N.buffer[s] = r
  BY <1>3, <1>4
<1> DEFINE M == Prepare(N, k, r, p, s)
<1> HIDE DEF M
<1>13. /\ LedgerOK(M, k + 1) /\ Adds(N, M, k, r, p)
       /\ \A Z : Charged(N, Z) => Charged(M, Z)
  BY <1>4, <1>6, <1>7, <1>8, <1>9, <1>10, <1>12, PrepareOK DEF Placed, M
<1> QED
  BY <1>2, <1>3, <1>4, <1>5, <1>9, <1>11, <1>13 DEF Adds, M

LEMMA RangeAppend ==
  ASSUME NEW q \in Seq(PN), NEW n \in PN
  PROVE  Range(Append(q, n)) = Range(q) \cup {n}
<1> DEFINE a == Append(q, n)
<1>1. /\ DOMAIN a = 1 .. Len(q) + 1 /\ DOMAIN q = 1 .. Len(q) /\ Len(q) \in Nat
      /\ a[Len(q) + 1] = n /\ \A i \in 1 .. Len(q) : a[i] = q[i]
  OBVIOUS
<1> HIDE DEF a
<1>2. ASSUME NEW x \in Range(a) PROVE x \in Range(q) \cup {n}
  <2>1. PICK i \in 1 .. Len(q) + 1 : x = a[i]
    BY <1>1 DEF Range
  <2>2. i = Len(q) + 1 \/ i \in 1 .. Len(q)
    BY <1>1
  <2> QED
    BY <1>1, <2>1, <2>2 DEF Range
<1>3. ASSUME NEW x \in Range(q) PROVE x \in Range(a)
  <2>1. PICK i \in 1 .. Len(q) : x = q[i]
    BY <1>1 DEF Range
  <2>2. i \in DOMAIN a /\ a[i] = x
    BY <1>1, <2>1
  <2> QED
    BY <2>2 DEF Range
<1>4. n \in Range(a)
  <2>1. Len(q) + 1 \in DOMAIN a
    BY <1>1
  <2> QED
    BY <1>1, <2>1 DEF Range
<1> QED
  BY <1>2, <1>3, <1>4 DEF a

\* What prior_packets remembers after an eviction.
LEMMA AddPriorOK ==
  ASSUME NEW q \in Seq(PN), NEW n \in PN
  PROVE  /\ AddPrior(q, n) \in Seq(PN)
         /\ Len(AddPrior(q, n)) \in Nat /\ Len(AddPrior(q, n)) <= Len(q) + 1
         /\ Range(AddPrior(q, n)) \subseteq Range(q) \cup {n}
         /\ Len(q) < LineageLimit => Range(AddPrior(q, n)) = Range(q) \cup {n}
<1>1. CASE Len(q) < LineageLimit
  <2>1. AddPrior(q, n) = Append(q, n)
    BY <1>1 DEF AddPrior
  <2>2. Range(Append(q, n)) = Range(q) \cup {n}
    BY RangeAppend
  <2> QED
    BY <2>1, <2>2
<1>2. CASE ~(Len(q) < LineageLimit)
  <2>1. AddPrior(q, n) = Append(Tail(q), n)
    BY <1>2 DEF AddPrior
  <2>2. q # <<>> /\ Tail(q) \in Seq(PN) /\ Len(Tail(q)) = Len(q) - 1
    BY <1>2
  <2>3. Range(Tail(q)) \subseteq Range(q)
    BY <2>2 DEF Range
  <2>4. Range(Append(Tail(q), n)) = Range(Tail(q)) \cup {n}
    BY <2>2, RangeAppend
  <2> QED
    BY <1>2, <2>1, <2>2, <2>3, <2>4
<1> QED
  BY <1>1, <1>2

\* A repetition, which evicts a lost record from a full ledger.
LEMMA RetransmitOK ==
  ASSUME NEW L, NEW n \in PN, NEW k \in PN, NEW p \in Paths, LedgerOK(L, k),
         L.slot[n] # None, LedgerFull(L) => L.sent[n] = "lost"
  PROVE  LET M == Retransmit(L, n, k, p)
         IN  /\ LedgerOK(M, k + 1)
             /\ M.buffer = L.buffer
             /\ RangeOf(M, k) \in {L.buffer[s] : s \in Slots}
             /\ PathOf(M, k) = p /\ M.sent[k] = "flight"
             /\ \A m \in PN \ {k} : /\ RangeOf(M, m) = RangeOf(L, m)
                                    /\ M.sent[m] = "blocked" => L.sent[m] = "blocked"
             /\ \A t \in Slots : Evicted(L, t) \subseteq Evicted(M, t)
             /\ \A Z : Charged(L, Z) => Charged(M, Z)
<1> DEFINE s == L.slot[n]
           prior == Put(L.prior, s, AddPrior(L.prior[s], n))
           G == {n}
           N == Retire(L, G)
           E == [N EXCEPT !.prior = prior]
<1>1. /\ L \in Ledgers /\ Fresh(L, k) /\ SlotsNamed(L) /\ PriorsNamed(L) /\ Known(L)
      /\ Recorded(L) /\ Lineage(L)
  BY DEF LedgerOK, Placed
<1>2. s \in Slots /\ L.buffer[s] = RangeOf(L, n) /\ L.buffer[s] \in Ranges
  BY <1>1 DEF Ledgers, SlotsNamed
<1> HIDE DEF N, G
<1>3. Without(L, N, G)
  BY <1>1, RetireFields DEF N
<1>4. Retransmit(L, n, k, p) = Prepare(IF LedgerFull(L) THEN E ELSE L, k, L.buffer[s], p, s)
  <2>1. N.prior = L.prior
    BY <1>3 DEF Without
  <2> QED
    BY <2>1 DEF Retransmit, N, G
<1>5. /\ prior \in [Slots -> Seq(PN)]
      /\ \A t \in Slots : /\ Range(prior[t]) \subseteq Range(L.prior[t]) \cup {n}
                          /\ t # s => Range(prior[t]) = Range(L.prior[t])
                          /\ t # s => prior[t] = L.prior[t]
      /\ Len(L.prior[s]) \in Nat /\ Len(prior[s]) \in Nat /\ Len(prior[s]) <= Len(L.prior[s]) + 1
      /\ Len(L.prior[s]) < LineageLimit => Range(prior[s]) = Range(L.prior[s]) \cup {n}
  <2> HIDE DEF s
  <2>1. L.prior \in [Slots -> Seq(PN)]
    BY <1>1 DEF Ledgers
  <2>2. AddPrior(L.prior[s], n) \in Seq(PN)
    BY <1>2, <2>1, AddPriorOK
  <2>3. /\ prior \in [Slots -> Seq(PN)]
        /\ \A t \in Slots : prior[t] = IF t = s THEN AddPrior(L.prior[s], n) ELSE L.prior[t]
    BY <1>2, <2>1, <2>2 DEF Put
  <2> HIDE DEF prior
  <2>4. L.prior[s] \in Seq(PN) /\ Len(L.prior[s]) \in Nat
    BY <1>2, <2>1
  <2>5. prior[s] = AddPrior(L.prior[s], n)
    BY <1>2, <2>3
  <2>6. /\ Range(AddPrior(L.prior[s], n)) \subseteq Range(L.prior[s]) \cup {n}
        /\ Len(AddPrior(L.prior[s], n)) <= Len(L.prior[s]) + 1
        /\ Len(AddPrior(L.prior[s], n)) \in Nat
        /\ Len(L.prior[s]) < LineageLimit => Range(AddPrior(L.prior[s], n)) = Range(L.prior[s]) \cup {n}
    BY <2>4, AddPriorOK, ZenonT(30)
  <2> QED
    BY <2>3, <2>4, <2>5, <2>6
<1> HIDE DEF prior
<1>6. /\ E \in Ledgers /\ E.sent = N.sent /\ E.slot = N.slot /\ E.delivered = N.delivered
      /\ E.packet = L.packet /\ E.flight = L.flight /\ E.buffer = L.buffer /\ E.prior = prior
  BY <1>3, <1>5 DEF Without, Ledgers
<1> HIDE DEF E, s
<1>7. CASE ~LedgerFull(L)
  <2> DEFINE M == Prepare(L, k, L.buffer[s], p, s)
  <2> HIDE DEF M
  <2>1. \A t \in Slots \ {s} : L.buffer[t] # None => \E m \in PN : L.slot[m] = t
    BY <1>1 DEF Recorded
  <2>2. /\ LedgerOK(M, k + 1) /\ Adds(L, M, k, L.buffer[s], p)
        /\ \A Z : Charged(L, Z) => Charged(M, Z)
    BY <1>2, <2>1, PrepareOK DEF LedgerOK, M
  <2> QED
    BY <1>2, <1>4, <1>7, <2>2 DEF Adds, M
<1>8. CASE LedgerFull(L)
  <2> DEFINE M == Prepare(E, k, L.buffer[s], p, s)
  <2> HIDE DEF M
  <2>1. L.sent[n] = "lost" /\ n # k
    BY <1>1, <1>8 DEF Fresh, PN
  <2>2. \A m : RangeOf(E, m) = RangeOf(L, m) /\ PathOf(E, m) = PathOf(L, m)
    BY <1>6 DEF RangeOf, PathOf
  <2>3. \A m \in PN : /\ E.sent[m] = IF m = n THEN "none" ELSE L.sent[m]
                      /\ E.slot[m] = IF m = n THEN None ELSE L.slot[m]
                      /\ E.delivered[m] => L.delivered[m]
    BY <1>3, <1>6 DEF Without, G
  <2>4. Fresh(E, k)
    BY <1>1, <2>2, <2>3 DEF Fresh
  <2>5. SlotsNamed(E)
    BY <1>1, <1>6, <2>2, <2>3 DEF SlotsNamed
  <2>6. PriorsNamed(E)
    <3> SUFFICES ASSUME NEW t \in Slots, NEW m \in PN, m \in Range(prior[t])
                 PROVE  L.buffer[t] = RangeOf(L, m) /\ RangeOf(L, m) # None
      BY <1>6, <2>2 DEF PriorsNamed
    <3>1. CASE m \in Range(L.prior[t])
      BY <1>1, <3>1 DEF PriorsNamed
    <3>2. CASE m = n /\ t = s
      BY <1>2, <3>2
    <3> QED
      BY <1>5, <3>1, <3>2
  <2>7. /\ \A t \in Slots : Evicted(L, t) \subseteq Evicted(E, t)
        /\ Evicted(E, s) = Evicted(L, s) \cup {n} /\ n \notin Evicted(L, s)
    <3>1. RangeOf(L, n) # None /\ RangeOf(L, n) = L.buffer[s] /\ L.slot[n] # None
      BY <1>1, <1>2
    <3>2. \A t, m : m \in Evicted(L, t) <=> m \in PN /\ RangeOf(L, m) # None
                                           /\ RangeOf(L, m) = L.buffer[t] /\ L.slot[m] = None
      BY DEF Evicted
    <3>3. \A t, m : m \in Evicted(E, t) <=> m \in PN /\ RangeOf(L, m) # None
                                           /\ RangeOf(L, m) = L.buffer[t] /\ E.slot[m] = None
      BY <1>6, <2>2 DEF Evicted
    <3>4. \A t : Evicted(L, t) \subseteq Evicted(E, t)
      BY <2>3, <3>2, <3>3
    <3>5. n \in Evicted(E, s) /\ n \notin Evicted(L, s)
      BY <2>3, <3>1, <3>2, <3>3
    <3>6. \A m \in Evicted(E, s) : m \in Evicted(L, s) \cup {n}
      BY <2>3, <3>2, <3>3
    <3> QED
      BY <3>4, <3>5, <3>6
  <2>8. /\ Cardinality(Evicted(E, s)) = Cardinality(Evicted(L, s)) + 1
        /\ Cardinality(Evicted(L, s)) \in Nat
    BY <2>7, EvictedCount, FS_AddElement
  <2>9. Len(L.prior[s]) <= Cardinality(Evicted(L, s))
    BY <1>1, <1>2 DEF Lineage
  <2>10. Few(E, s) => Len(L.prior[s]) < LineageLimit
    BY <1>5, <2>8, <2>9 DEF Few
  <2>11. Lineage(E)
    <3>1. Len(E.prior[s]) <= Cardinality(Evicted(E, s))
      BY <1>5, <1>6, <2>8, <2>9
    <3>2. \A t \in Slots \ {s} : Len(E.prior[t]) <= Cardinality(Evicted(E, t))
      BY <1>1, <1>5, <1>6, <2>7, LineageMore
    <3> QED
      BY <3>1, <3>2 DEF Lineage
  <2>12. Known(E)
    <3> SUFFICES ASSUME NEW t \in Slots, NEW m \in PN, RangeOf(L, m) # None,
                        L.buffer[t] = RangeOf(L, m), Few(E, t)
                 PROVE  E.slot[m] = t \/ m \in Range(prior[t])
      BY <1>1, <1>6, <2>2 DEF Known
    <3>1. Few(L, t)
      BY <2>7, MoreEvicted
    <3>2. L.slot[m] = t \/ m \in Range(L.prior[t])
      BY <1>1, <3>1 DEF Known
    <3>3. CASE t = s
      BY <1>5, <2>3, <2>10, <3>2, <3>3
    <3>4. CASE t # s
      BY <1>5, <2>3, <3>2, <3>4 DEF s
    <3> QED
      BY <3>3, <3>4
  <2>13. \A t \in Slots \ {s} : E.buffer[t] # None => \E m \in PN : E.slot[m] = t
    <3> SUFFICES ASSUME NEW t \in Slots \ {s}, L.buffer[t] # None
                 PROVE  \E m \in PN : E.slot[m] = t
      BY <1>6
    <3>1. PICK m \in PN : L.slot[m] = t
      BY <1>1 DEF Recorded
    <3>2. m # n
      BY <3>1 DEF s
    <3> QED
      BY <2>3, <3>1, <3>2
  <2>14. \A Z : Charged(L, Z) => Charged(E, Z)
    <3>1. \A q \in Paths : Due(E, q) = Due(L, q)
      BY <2>1, <2>2, <2>3 DEF Due
    <3> QED
      BY <1>6, <3>1, SameCharged
  <2>15. /\ LedgerOK(M, k + 1) /\ Adds(E, M, k, L.buffer[s], p)
         /\ \A Z : Charged(E, Z) => Charged(M, Z)
    BY <1>2, <1>6, <2>4, <2>5, <2>6, <2>12, <2>13, <2>11, PrepareOK DEF Placed, M
  <2> QED
    BY <1>2, <1>4, <1>6, <1>8, <2>2, <2>3, <2>14, <2>15, <2>7 DEF Adds, M
<1> QED
  BY <1>7, <1>8

-----------------------------------------------------------------------------
\* What an acknowledgement covers: a slot is done only when some acknowledged
\* packet carried its range, and always then while its evictions are few.
LEMMA AckedSlots ==
  ASSUME NEW L, NEW k, LedgerOK(L, k), NEW R, R \subseteq PN, NotBlocked(L, R)
  PROVE  /\ Done(L, R) \subseteq Slots
         /\ \A s \in Done(L, R) : L.buffer[s] # None /\ \E n \in R : RangeOf(L, n) = L.buffer[s]
         /\ \A n \in R, s \in Slots :
              L.buffer[s] # None /\ L.buffer[s] = RangeOf(L, n) /\ Few(L, s) => s \in Done(L, R)
         /\ \A n \in Newly(L, R) : /\ n \in R /\ L.sent[n] \in {"flight", "lost"}
                                   /\ L.slot[n] # None => L.slot[n] \in Done(L, R)
<1>1. L \in Ledgers /\ Fresh(L, k) /\ SlotsNamed(L) /\ PriorsNamed(L) /\ Known(L)
  BY DEF LedgerOK, Placed
<1>2. ASSUME NEW s \in Done(L, R)
      PROVE  s \in Slots /\ L.buffer[s] # None /\ \E n \in R : RangeOf(L, n) = L.buffer[s]
  <2>1. s \in Slots /\ L.buffer[s] # None /\ L.buffer[s] \in AckedRanges(L, R)
    BY DEF Done
  <2>2. CASE \E m \in R : L.buffer[s] = RangeOf(L, m)
    BY <2>1, <2>2
  <2>3. CASE \E t \in Slots : Range(L.prior[t]) \cap R # {} /\ L.buffer[s] = L.buffer[t]
    BY <1>1, <2>1, <2>3 DEF PriorsNamed
  <2> QED
    BY <2>1, <2>2, <2>3 DEF AckedRanges
<1>3. ASSUME NEW n \in Newly(L, R)
      PROVE  /\ n \in R /\ L.sent[n] \in {"flight", "lost"}
             /\ L.slot[n] # None => L.slot[n] \in Done(L, R)
  <2>1. n \in R /\ n \in PN /\ L.sent[n] \in {"flight", "lost"}
    BY DEF Newly
  <2>2. L.slot[n] # None => RangeOf(L, n) \in AckedRanges(L, R)
    BY <2>1 DEF AckedRanges
  <2>3. L.slot[n] # None => /\ L.slot[n] \in Slots
                            /\ L.buffer[L.slot[n]] = RangeOf(L, n) /\ RangeOf(L, n) # None
    BY <1>1, <2>1 DEF Ledgers, SlotsNamed
  <2> QED
    BY <2>1, <2>2, <2>3 DEF Done
<1>4. ASSUME NEW n \in R, NEW s \in Slots, L.buffer[s] # None, L.buffer[s] = RangeOf(L, n), Few(L, s)
      PROVE  s \in Done(L, R)
  <2>1. n \in PN /\ L.sent[n] # "blocked"
    BY DEF NotBlocked
  <2>2. L.slot[n] = s \/ n \in Range(L.prior[s])
    BY <1>1, <1>4, <2>1 DEF Known
  <2>3. CASE L.slot[n] = s
    <3>1. L.sent[n] \in {"flight", "lost"}
      BY <1>1, <2>1, <2>3, NoneApart DEF Fresh, Ledgers
    <3> QED
      BY <1>3, <2>3, <3>1, NoneApart DEF Newly
  <2>4. CASE n \in Range(L.prior[s])
    <3>1. L.buffer[s] \in AckedRanges(L, R)
      BY <2>4 DEF AckedRanges
    <3> QED
      BY <1>4, <3>1 DEF Done
  <2> QED
    BY <2>2, <2>3, <2>4
<1> QED
  BY <1>2, <1>3, <1>4

\* The frontier of every path is a packet number, or nothing yet.
LEMMA FrontierType ==
  ASSUME NEW L \in Ledgers, NEW R, R \subseteq PN
  PROVE  Frontier(L, R) \in [Paths -> -1 .. MaxPackets - 1]
<1> SUFFICES ASSUME NEW p \in Paths
             PROVE  Max({L.largest[p]} \cup {n \in Newly(L, R) : PathOf(L, n) = p})
                      \in -1 .. MaxPackets - 1
  BY DEF Frontier
<1> DEFINE S == {L.largest[p]} \cup {n \in Newly(L, R) : PathOf(L, n) = p}
           D == {MaxPackets - x : x \in S}
<1>1. S # {} /\ S \subseteq -1 .. MaxPackets - 1
  <2>1. L.largest[p] \in -1 .. MaxPackets - 1
    BY DEF Ledgers
  <2>2. Newly(L, R) \subseteq PN
    BY DEF Newly
  <2>3. PN \subseteq -1 .. MaxPackets - 1
    BY DEF PN
  <2> QED
    BY <2>1, <2>2, <2>3
<1> HIDE DEF S
<1>2. D \subseteq Nat /\ D # {}
  <2>1. \A x \in S : MaxPackets - x \in Nat
    BY <1>1
  <2>2. PICK x : x \in S
    BY <1>1
  <2>3. MaxPackets - x \in D
    BY <2>2
  <2> QED
    BY <2>1, <2>3
<1>3. \E x \in D : \A y \in D : ~(<<y, x>> \in OpToRel(<, Nat))
  BY <1>2, NatLessThanWellFounded, WFMin
<1>4. PICK d \in D : \A y \in D : ~(<<y, d>> \in OpToRel(<, Nat))
  BY <1>3
<1>5. PICK x \in S : d = MaxPackets - x
  BY <1>4
<1>6. ASSUME NEW y \in S PROVE x >= y
  <2>1. MaxPackets - y \in D /\ MaxPackets - y \in Nat /\ d \in Nat /\ x \in Int /\ y \in Int
    BY <1>1, <1>2
  <2>2. MaxPackets - y < d => <<MaxPackets - y, d>> \in OpToRel(<, Nat)
    BY <2>1 DEF OpToRel
  <2>3. ~(MaxPackets - y < d)
    BY <1>4, <2>1, <2>2, Zenon
  <2> QED
    BY <1>5, <2>1, <2>3
<1>7. Max(S) \in S
  BY <1>6 DEF Max
<1> QED
  BY <1>1, <1>7 DEF S

\* The acknowledged records go, then the ranges they carried.
LEMMA RetireAckedOK ==
  ASSUME NEW L, NEW k \in Nat, LedgerOK(L, k), NEW R, R \subseteq PN, NotBlocked(L, R)
  PROVE  LET M == RetireAcked(L, R)
         IN  /\ LedgerOK(M, k)
             /\ \A Z : Charged(L, Z) => Charged(M, Z)
             /\ M.packet = L.packet
             /\ \A s \in Slots : M.buffer[s] = IF s \in Done(L, R) THEN None ELSE L.buffer[s]
             /\ \A s \in Slots \ Done(L, R) : Evicted(L, s) \subseteq Evicted(M, s)
             /\ \A n \in PN : M.sent[n] \in {L.sent[n], "none"}
<1> DEFINE new == Newly(L, R)
           freed == Freed(L, R)
           done == Done(L, R)
           bare == {n \in PN : L.slot[n] # None /\ L.buffer[L.slot[n]] \in EmptyRanges}
           gone == {n \in new : L.sent[n] = "flight"}
           delivered == [n \in PN |-> L.delivered[n] \/ n \in freed \cup bare]
           slot == [n \in PN |-> IF n \in freed THEN None ELSE L.slot[n]]
           buffer == [s \in Slots |-> IF s \in done THEN None ELSE L.buffer[s]]
           prior == [s \in Slots |-> IF s \in done THEN <<>> ELSE L.prior[s]]
           N == [L EXCEPT !.delivered = delivered, !.slot = slot, !.buffer = buffer,
                          !.prior = prior, !.flight = FlightWithout(L, gone),
                          !.largest = Frontier(L, R)]
           G == new \cup {n \in freed : L.sent[n] = "lost"}
           M == RetireAcked(L, R)
<1>1. /\ L \in Ledgers /\ Fresh(L, k) /\ SlotsNamed(L) /\ PriorsNamed(L) /\ Known(L)
      /\ Recorded(L) /\ Lineage(L)
  BY DEF LedgerOK, Placed
<1>2. M = Retire(N, G)
  BY DEF RetireAcked
<1>3. /\ delivered \in [PN -> BOOLEAN] /\ slot \in [PN -> Slots \cup {None}]
      /\ buffer \in [Slots -> Ranges \cup {None}] /\ prior \in [Slots -> Seq(PN)]
  BY <1>1 DEF Ledgers
<1>4. \A n \in gone : n \in PN /\ L.sent[n] = "flight"
  BY DEF Newly
<1>5. FlightWithout(L, gone) \in [Paths -> Nat]
  <2> SUFFICES ASSUME NEW p \in Paths
               PROVE  Monus(L.flight[p], Cardinality({n \in gone : PathOf(L, n) = p})) \in Nat
    BY DEF FlightWithout
  <2>1. {n \in gone : PathOf(L, n) = p} = Due(L, p) \cap gone
    BY <1>4 DEF Due
  <2> HIDE DEF gone
  <2>2. Cardinality({n \in gone : PathOf(L, n) = p}) \in Nat
    BY <2>1, DueFinite, FS_Intersection, FS_CardinalityType
  <2> QED
    BY <1>1, <2>2 DEF Monus, Ledgers
<1>6. Frontier(L, R) \in [Paths -> -1 .. MaxPackets - 1]
  BY <1>1, FrontierType
<1>7. freed = {n \in PN \ new : L.slot[n] \in done}
  BY DEF Freed
<1>8. \A n \in PN : delivered[n] => L.delivered[n] \/ n \in freed \/ n \in bare
  OBVIOUS
<1>9. /\ done \subseteq Slots
      /\ \A n \in new : /\ n \in PN /\ L.sent[n] \in {"flight", "lost"}
                        /\ L.slot[n] # None => L.slot[n] \in done
  BY AckedSlots
<1> HIDE DEF new, freed, done, delivered, slot, buffer, prior, M
<1>10. /\ N \in Ledgers /\ N.sent = L.sent /\ N.delivered = delivered /\ N.slot = slot
       /\ N.buffer = buffer /\ N.prior = prior /\ N.packet = L.packet
       /\ N.flight = FlightWithout(L, gone)
  BY <1>1, <1>3, <1>5, <1>6 DEF Ledgers
<1> HIDE DEF N, G, gone
<1>11. Without(N, M, G)
  BY <1>2, <1>10, RetireFields
<1>12. /\ M \in Ledgers /\ M.packet = L.packet /\ M.flight = FlightWithout(L, gone)
       /\ \A n : RangeOf(M, n) = RangeOf(L, n) /\ PathOf(M, n) = PathOf(L, n)
  BY <1>10, <1>11 DEF Without, RangeOf, PathOf
<1>13. \A s \in Slots : /\ M.buffer[s] = IF s \in done THEN None ELSE L.buffer[s]
                        /\ M.prior[s] = IF s \in done THEN <<>> ELSE L.prior[s]
  BY <1>10, <1>11 DEF Without, buffer, prior
<1>14. \A n \in PN : /\ M.sent[n] = IF n \in G THEN "none" ELSE L.sent[n]
                     /\ M.slot[n] = IF n \in G \cup freed THEN None ELSE L.slot[n]
                     /\ M.delivered[n] => delivered[n]
  BY <1>10, <1>11 DEF Without, slot
<1>15. \A n \in PN : /\ M.slot[n] # None => M.slot[n] = L.slot[n] /\ L.slot[n] \notin done
                     /\ L.slot[n] # None /\ L.slot[n] \notin done => M.slot[n] = L.slot[n]
  BY <1>7, <1>9, <1>14 DEF G
<1>16. Fresh(M, k)
  BY <1>1, <1>12, <1>14 DEF Fresh
<1>17. SlotsNamed(M)
  <2> SUFFICES ASSUME NEW n \in PN, M.slot[n] # None
               PROVE  /\ M.buffer[M.slot[n]] = RangeOf(M, n) /\ RangeOf(M, n) # None
                      /\ M.delivered[n] => RangeOf(M, n) \in EmptyRanges
    BY DEF SlotsNamed
  <2>1. M.slot[n] = L.slot[n] /\ L.slot[n] \notin done /\ L.slot[n] \in Slots /\ n \notin freed
    BY <1>1, <1>7, <1>15 DEF Ledgers
  <2>2. M.buffer[M.slot[n]] = RangeOf(M, n) /\ RangeOf(M, n) # None
    BY <1>1, <1>12, <1>13, <2>1 DEF SlotsNamed
  <2>3. M.delivered[n] => L.delivered[n] \/ n \in bare
    BY <1>8, <1>14, <2>1
  <2>4. M.delivered[n] => RangeOf(L, n) \in EmptyRanges
    BY <1>1, <2>1, <2>3 DEF SlotsNamed
  <2> QED
    BY <1>12, <2>2, <2>4
<1>18. \A s \in Slots \ done : Evicted(L, s) \subseteq Evicted(M, s)
  BY <1>12, <1>13, <1>15 DEF Evicted
<1>19. PriorsNamed(M) /\ Lineage(M)
  <2>1. Range(<<>>) = {} /\ Len(<<>>) = 0
    BY DEF Range
  <2>2. PriorsNamed(M)
    BY <1>1, <1>12, <1>13, <2>1 DEF PriorsNamed
  <2>3. \A s \in Slots \ done : Len(M.prior[s]) <= Cardinality(Evicted(M, s))
    BY <1>1, <1>13, <1>18, LineageMore
  <2>4. \A s \in done : Len(M.prior[s]) <= Cardinality(Evicted(M, s))
    BY <1>9, <1>13, <2>1, EvictedCount
  <2> QED
    BY <2>2, <2>3, <2>4 DEF Lineage
<1>20. Known(M)
  <2>1. \A s \in Slots \ done : Few(M, s) => Few(L, s)
    BY <1>18, MoreEvicted
  <2> QED
    BY <1>1, <1>12, <1>13, <1>15, <2>1, NoneApart DEF Known
<1>21. Recorded(M)
  BY <1>1, <1>13, <1>15, NoneApart DEF Recorded
<1>22. \A p \in Paths : Due(M, p) = Due(L, p) \ gone
  BY <1>9, <1>12, <1>14 DEF Due, G, gone
<1>23. \A Z : Charged(L, Z) => Charged(M, Z)
  BY <1>1, <1>4, <1>12, <1>22, LessCharged
<1>24. LedgerOK(M, k)
  BY <1>12, <1>16, <1>17, <1>19, <1>20, <1>21 DEF LedgerOK, Placed
<1> QED
  BY <1>12, <1>13, <1>14, <1>23, <1>24, <1>18 DEF M, done

-----------------------------------------------------------------------------
\* The owner's state keeps its promises when its ledger takes a safe step and
\* no packet that has left a bearer is blocked afterwards.
LEMMA GoodSafe ==
  ASSUME NEW s, NEW t \in States, NEW W, NEW Z, Good(s, W, Z), t.next = s.next,
         \A b \in Bearers : t.pending[b] \in PN => t.pending[b] < t.next,
         \A n \in Left(t) : n \in PN /\ n < t.next,
         Safe(s.ledger, t.ledger), NotBlocked(t.ledger, Left(t))
  PROVE  Good(t, W, Z)
<1>1. LedgerOK(s.ledger, s.next) /\ t.ledger \in Ledgers /\ Keeps(s.ledger, t.ledger)
  BY DEF Good, Safe
<1>2. /\ LedgerOK(t.ledger, s.next)
      /\ OnlyWritten(t.ledger, W) /\ ForgottenOK(t.ledger, W) /\ AckedOK(t.ledger)
  BY <1>1, KeepsOK DEF Good
<1> QED
  BY <1>2 DEF Good, Safe

\* Submitting packet n, which has not left a bearer.
LEMMA SubmitGood ==
  ASSUME NEW s, NEW W, NEW Z, NEW n \in PN, NEW o \in {"accepted", "blocked", "failed", "unrouted"},
         Good(s, W, Z), n < s.next, n \notin Left(s)
  PROVE  Good(Submit(s, n, o), W, Z) /\ Submit(s, n, o).next = s.next
<1> DEFINE L == s.ledger
           t == Submit(s, n, o)
<1>1. s \in States /\ LedgerOK(L, s.next) /\ NotBlocked(L, Left(s)) /\ L \in Ledgers
  BY DEF Good, States
<1>2. CASE o = "accepted"
  <2> DEFINE M == SubmissionAccepted(L, n)
  <2>1. /\ Safe(L, M) /\ M.sent[n] # "blocked"
        /\ \A m \in PN : M.sent[m] = "blocked" => L.sent[m] = "blocked"
    BY <1>1, AcceptedSafe
  <2> HIDE DEF M
  <2>2. t = [s EXCEPT !.ledger = M, !.net = s.net \cup {n}]
    BY <1>1, <1>2 DEF Submit, M, States
  <2>3. M \in Ledgers
    BY <2>1 DEF Safe
  <2> HIDE DEF t
  <2>4. /\ t \in States /\ t.ledger = M /\ t.next = s.next /\ t.pending = s.pending
        /\ t.net = s.net \cup {n}
    BY <1>1, <2>2, <2>3 DEF States
  <2>5. Left(t) = Left(s) \cup {n}
    BY <2>4 DEF Left
  <2>6. NotBlocked(M, Left(t))
    BY <1>1, <2>1, <2>5 DEF NotBlocked, Good
  <2>7. Good(t, W, Z)
    BY <2>1, <2>4, <2>5, <2>6, GoodSafe, ZenonT(30) DEF Good
  <2> QED
    BY <2>4, <2>7 DEF t
<1>3. CASE o = "blocked"
  <2> DEFINE M == SubmissionBlocked(L, n)
             b == Head(addresses[PathOf(L, n)])
             pend == [s.pending EXCEPT ![b] = n]
  <2>1. /\ Safe(L, M)
        /\ \A m \in PN : M.sent[m] = "blocked" => L.sent[m] = "blocked" \/ m = n
    BY <1>1, BlockedSafe
  <2> HIDE DEF M
  <2>2. t = [s EXCEPT !.ledger = M, !.pending = pend]
    BY <1>1, <1>3 DEF Submit, M, States
  <2>3. M \in Ledgers
    BY <2>1 DEF Safe
  <2>4. /\ pend \in [Bearers -> PN \cup {None}]
        /\ \A c \in Bearers : pend[c] \in {s.pending[c], n}
    BY <1>1 DEF States
  <2> HIDE DEF t, pend
  <2>5. /\ t \in States /\ t.ledger = M /\ t.next = s.next /\ t.pending = pend
        /\ t.net = s.net
    BY <1>1, <2>2, <2>3, <2>4 DEF States
  <2>6. Left(t) = Left(s)
    BY <2>5 DEF Left
  <2>7. NotBlocked(M, Left(t))
    BY <1>1, <2>1, <2>6 DEF NotBlocked, Good
  <2>8. \A c \in Bearers : t.pending[c] \in PN => t.pending[c] < t.next
    BY <2>4, <2>5 DEF Good
  <2>9. Good(t, W, Z)
    BY <2>1, <2>5, <2>6, <2>7, <2>8, GoodSafe DEF Good
  <2> QED
    BY <2>5, <2>9 DEF t
<1>4. CASE o = "failed"
  <2> DEFINE M == SubmissionFailed(L, n)
  <2>1. /\ Safe(L, M)
        /\ \A m \in PN : M.sent[m] = "blocked" => L.sent[m] = "blocked"
    BY <1>1, FailedSafe
  <2> HIDE DEF M
  <2>2. t = [s EXCEPT !.ledger = M]
    BY <1>1, <1>4 DEF Submit, M, States
  <2>3. M \in Ledgers
    BY <2>1 DEF Safe
  <2> HIDE DEF t
  <2>4. /\ t \in States /\ t.ledger = M /\ t.next = s.next /\ t.pending = s.pending
        /\ t.net = s.net
    BY <1>1, <2>2, <2>3 DEF States
  <2>5. Left(t) = Left(s)
    BY <2>4 DEF Left
  <2>6. NotBlocked(M, Left(t))
    BY <1>1, <2>1, <2>5 DEF NotBlocked, Good
  <2>7. Good(t, W, Z)
    BY <2>1, <2>4, <2>5, <2>6, GoodSafe, ZenonT(30) DEF Good
  <2> QED
    BY <2>4, <2>7 DEF t
<1>5. CASE o = "unrouted"
  BY <1>5 DEF Submit
<1> QED
  BY <1>2, <1>3, <1>4, <1>5

\* A refused packet waits where it was refused.
LEMMA SubmitHeld ==
  ASSUME NEW s, NEW W, NEW Z, NEW n \in PN, NEW o \in {"accepted", "blocked", "failed", "unrouted"},
         Good(s, W, Z), HeldIn(s),
         o = "blocked" => LET b == Head(addresses[PathOf(s.ledger, n)])
                          IN  b \in Bearers /\ s.pending[b] = None
  PROVE  HeldIn(Submit(s, n, o))
<1> DEFINE L == s.ledger
           t == Submit(s, n, o)
<1>1. s \in States /\ LedgerOK(L, s.next)
  BY DEF Good
<1>2. CASE o = "accepted"
  <2>1. \A m \in PN : SubmissionAccepted(L, n).sent[m] = "blocked" => L.sent[m] = "blocked"
    BY <1>1, AcceptedSafe
  <2>2. t.ledger = SubmissionAccepted(L, n) /\ t.pending = s.pending
    BY <1>1, <1>2 DEF Submit, States
  <2> QED
    BY <2>1, <2>2 DEF HeldIn
<1>3. CASE o = "blocked"
  <2> DEFINE b == Head(addresses[PathOf(L, n)])
  <2>1. \A m \in PN : SubmissionBlocked(L, n).sent[m] = "blocked" => L.sent[m] = "blocked" \/ m = n
    BY <1>1, BlockedSafe
  <2>2. t.ledger = SubmissionBlocked(L, n) /\ t.pending = [s.pending EXCEPT ![b] = n]
    BY <1>1, <1>3 DEF Submit, States
  <2>3. b \in Bearers /\ s.pending[b] = None
    BY <1>3
  <2> HIDE DEF t, b
  <2>4. t.pending[b] = n /\ \A c \in Bearers \ {b} : t.pending[c] = s.pending[c]
    BY <1>1, <2>2, <2>3 DEF States
  <2>5. ASSUME NEW m \in PN, t.ledger.sent[m] = "blocked"
        PROVE  \E c \in Bearers : t.pending[c] = m
    <3>1. CASE m = n
      BY <2>3, <2>4, <3>1
    <3>2. CASE L.sent[m] = "blocked"
      <4>1. PICK c \in Bearers : s.pending[c] = m
        BY <3>2 DEF HeldIn
      <4>2. c # b
        BY <2>3, <4>1, NoneApart
      <4> QED
        BY <2>4, <4>1, <4>2
    <3> QED
      BY <2>1, <2>2, <2>5, <3>1, <3>2
  <2> QED
    BY <2>5 DEF HeldIn, t
<1>4. CASE o = "failed"
  <2>1. \A m \in PN : SubmissionFailed(L, n).sent[m] = "blocked" => L.sent[m] = "blocked"
    BY <1>1, FailedSafe
  <2>2. t.ledger = SubmissionFailed(L, n) /\ t.pending = s.pending
    BY <1>1, <1>4 DEF Submit, States
  <2> QED
    BY <2>1, <2>2 DEF HeldIn
<1>5. CASE o = "unrouted"
  BY <1>5 DEF Submit
<1> QED
  BY <1>2, <1>3, <1>4, <1>5

-----------------------------------------------------------------------------
\* The owner's state after the next packet was recorded in ledger M.
Advance(s, M) == [s EXCEPT !.ledger = M, !.next = @ + 1]

\* What the submission that follows needs of that state.
Prepared(s, t, p) ==
  /\ t.next = s.next + 1 /\ t.pending = s.pending
  /\ s.next \in PN /\ s.next < t.next /\ s.next \notin Left(t)
  /\ PathOf(t.ledger, s.next) = p /\ t.ledger.sent[s.next] = "flight"
  /\ HeldIn(s) => HeldIn(t)

LEMMA GoodNext ==
  ASSUME NEW s, NEW M, NEW p, NEW W, NEW V, NEW Z, Good(s, W, Z), s.next < MaxPackets,
         LedgerOK(M, s.next + 1), Charged(M, Z), OnlyWritten(M, V), ForgottenOK(M, V), AckedOK(M),
         PathOf(M, s.next) = p, M.sent[s.next] = "flight",
         \A n \in PN \ {s.next} : M.sent[n] = "blocked" => s.ledger.sent[n] = "blocked"
  PROVE  Good(Advance(s, M), V, Z) /\ Prepared(s, Advance(s, M), p)
<1> DEFINE t == Advance(s, M)
<1>1. s \in States /\ M \in Ledgers /\ s.next \in Nat
  BY DEF Good, LedgerOK, Placed, States
<1>2. s.next + 1 \in 0 .. MaxPackets /\ s.next \in PN
  BY <1>1 DEF PN
<1>3. /\ t \in States /\ t.ledger = M /\ t.next = s.next + 1 /\ t.pending = s.pending
      /\ t.net = s.net
  BY <1>1, <1>2 DEF Advance, States
<1> HIDE DEF t
<1>4. Left(t) = Left(s) /\ s.next \notin Left(t)
  BY <1>1, <1>3 DEF Left, Good
<1>5. NotBlocked(M, Left(t))
  BY <1>4 DEF NotBlocked, Good
<1>6. /\ \A b \in Bearers : t.pending[b] \in PN => t.pending[b] < t.next
      /\ \A n \in Left(t) : n \in PN /\ n < t.next
  <2>1. \A n \in PN : n < s.next => n < s.next + 1
    BY <1>1 DEF PN
  <2> QED
    BY <1>3, <1>4, <2>1 DEF Good
<1>7. Good(t, V, Z)
  BY <1>3, <1>5, <1>6 DEF Good
<1>8. HeldIn(s) => HeldIn(t)
  BY <1>3 DEF HeldIn
<1>9. Prepared(s, t, p)
  BY <1>1, <1>2, <1>3, <1>4, <1>8 DEF Prepared
<1> QED
  BY <1>7, <1>9 DEF t

\* A packet that carries a retained range, or nothing.
LEMMA AddGood ==
  ASSUME NEW s, NEW M, NEW p, NEW W, NEW Z, Good(s, W, Z), s.next < MaxPackets,
         LedgerOK(M, s.next + 1), Charged(M, Z), M.buffer = s.ledger.buffer,
         RangeOf(M, s.next) \in {None} \cup {s.ledger.buffer[t] : t \in Slots},
         PathOf(M, s.next) = p, M.sent[s.next] = "flight",
         \A n \in PN \ {s.next} : /\ RangeOf(M, n) = RangeOf(s.ledger, n)
                                  /\ M.sent[n] = "blocked" => s.ledger.sent[n] = "blocked",
         \A t \in Slots : Evicted(s.ledger, t) \subseteq Evicted(M, t)
  PROVE  Good(Advance(s, M), W, Z) /\ Prepared(s, Advance(s, M), p)
<1>1. \A n \in received : n \in PN \ {s.next}
  <2>1. \A n \in received : n \in PN /\ n < s.next
    BY DEF Good, Left
  <2>2. s.next \in Nat
    BY DEF Good, States
  <2> QED
    BY <2>1, <2>2 DEF PN
<1>2. acked \subseteq received /\ OnlyWritten(s.ledger, W) /\ ForgottenOK(s.ledger, W) /\ AckedOK(s.ledger)
  BY DEF Good
<1>3. OnlyWritten(M, W)
  BY <1>2 DEF OnlyWritten
<1>4. ForgottenOK(M, W)
  BY <1>1, <1>2 DEF ForgottenOK
<1>5. AckedOK(M)
  <2>1. \A t \in Slots : Few(M, t) => Few(s.ledger, t)
    BY MoreEvicted
  <2> QED
    BY <1>1, <1>2, <2>1 DEF AckedOK
<1> QED
  BY <1>3, <1>4, <1>5, GoodNext

LEMMA NextInPN ==
  ASSUME NEW s, NEW W, NEW Z, Good(s, W, Z), s.next < MaxPackets
  PROVE  s.next \in PN /\ LedgerOK(s.ledger, s.next) /\ Charged(s.ledger, Z)
BY DEF Good, States, PN

LEMMA PingGood ==
  ASSUME NEW s, NEW p \in Paths, NEW W, NEW Z, Good(s, W, Z), s.next < MaxPackets
  PROVE  LET t == Advance(s, Prepare(s.ledger, s.next, None, p, None))
         IN  Good(t, W, Z) /\ Prepared(s, t, p)
<1> DEFINE M == Prepare(s.ledger, s.next, None, p, None)
<1> HIDE DEF M
<1>1. s.next \in PN /\ LedgerOK(s.ledger, s.next) /\ Charged(s.ledger, Z)
  BY NextInPN
<1>2. LedgerOK(M, s.next + 1) /\ Adds(s.ledger, M, s.next, None, p) /\ Charged(M, Z)
  BY <1>1, PingOK DEF M
<1>3. Good(Advance(s, M), W, Z) /\ Prepared(s, Advance(s, M), p)
  BY <1>2, AddGood DEF Adds
<1> QED
  BY <1>3 DEF M

LEMMA RepeatGood ==
  ASSUME NEW s, NEW n \in PN, NEW p \in Paths, NEW W, NEW Z, Good(s, W, Z), s.next < MaxPackets,
         s.ledger.slot[n] # None, LedgerFull(s.ledger) => s.ledger.sent[n] = "lost"
  PROVE  LET t == Advance(s, Retransmit(s.ledger, n, s.next, p))
         IN  Good(t, W, Z) /\ Prepared(s, t, p)
<1> DEFINE M == Retransmit(s.ledger, n, s.next, p)
<1> HIDE DEF M
<1>1. s.next \in PN /\ LedgerOK(s.ledger, s.next) /\ Charged(s.ledger, Z)
  BY NextInPN
<1>2. /\ LedgerOK(M, s.next + 1) /\ M.buffer = s.ledger.buffer
      /\ RangeOf(M, s.next) \in {s.ledger.buffer[t] : t \in Slots}
      /\ PathOf(M, s.next) = p /\ M.sent[s.next] = "flight"
      /\ \A m \in PN \ {s.next} : /\ RangeOf(M, m) = RangeOf(s.ledger, m)
                                  /\ M.sent[m] = "blocked" => s.ledger.sent[m] = "blocked"
      /\ \A t \in Slots : Evicted(s.ledger, t) \subseteq Evicted(M, t)
      /\ Charged(M, Z)
  BY <1>1, RetransmitOK DEF M
<1>3. Good(Advance(s, M), W, Z) /\ Prepared(s, Advance(s, M), p)
  BY <1>2, AddGood
<1> QED
  BY <1>3 DEF M

LEMMA EncodeGood ==
  ASSUME NEW s, NEW r \in Ranges, NEW p \in Paths, NEW b \in Slots, NEW W, NEW Z, Good(s, W, Z),
         s.next < MaxPackets, W \subseteq Ranges, r \notin W, s.ledger.buffer[b] = None
  PROVE  LET t == Advance(s, Encode(s.ledger, s.next, r, p, b))
         IN  Good(t, W \cup {r}, Z) /\ Prepared(s, t, p)
<1> DEFINE M == Encode(s.ledger, s.next, r, p, b)
<1> HIDE DEF M
<1>1. s.next \in PN /\ LedgerOK(s.ledger, s.next) /\ Charged(s.ledger, Z)
  BY NextInPN
<1>2. acked \subseteq received /\ OnlyWritten(s.ledger, W) /\ ForgottenOK(s.ledger, W) /\ AckedOK(s.ledger)
  BY DEF Good
<1>3. r # None /\ (\A n \in PN : RangeOf(s.ledger, n) # r) /\ \A t \in Slots : s.ledger.buffer[t] # r
  BY <1>2 DEF OnlyWritten
<1>4. /\ LedgerOK(M, s.next + 1)
      /\ RangeOf(M, s.next) = r /\ PathOf(M, s.next) = p /\ M.sent[s.next] = "flight"
      /\ \A n \in PN \ {s.next} : RangeOf(M, n) = RangeOf(s.ledger, n) /\ M.sent[n] = s.ledger.sent[n]
      /\ \A t \in Slots : M.buffer[t] = IF t = b THEN r ELSE s.ledger.buffer[t]
      /\ \A t \in Slots \ {b} : Evicted(s.ledger, t) \subseteq Evicted(M, t)
      /\ Charged(M, Z)
  BY <1>1, <1>3, EncodeOK DEF M
<1>5. \A n \in received : n \in PN \ {s.next}
  <2>1. \A n \in received : n \in PN /\ n < s.next
    BY DEF Good, Left
  <2> QED
    BY <1>1, <2>1 DEF PN
<1>6. OnlyWritten(M, W \cup {r})
  BY <1>2, <1>4 DEF OnlyWritten
<1>7. ForgottenOK(M, W \cup {r})
  <2> SUFFICES ASSUME NEW q \in W \cup {r}, \A t \in Slots : M.buffer[t] # q
               PROVE  \E n \in received : RangeOf(M, n) = q
    BY DEF ForgottenOK
  <2>1. M.buffer[b] = r
    BY <1>4
  <2>2. q \in W /\ \A t \in Slots : s.ledger.buffer[t] # q \/ t = b
    BY <1>4, <2>1
  <2>3. \A t \in Slots : s.ledger.buffer[t] # q
    <3>1. q # None
      BY <2>2
    <3> QED
      BY <2>2, <3>1
  <2> QED
    BY <1>2, <1>4, <1>5, <2>2, <2>3 DEF ForgottenOK
<1>8. AckedOK(M)
  <2>1. \A t \in Slots \ {b} : Few(M, t) => Few(s.ledger, t)
    BY <1>4, MoreEvicted
  <2> QED
    BY <1>2, <1>3, <1>4, <1>5, <2>1 DEF AckedOK
<1>9. Good(Advance(s, M), W \cup {r}, Z) /\ Prepared(s, Advance(s, M), p)
  BY <1>4, <1>6, <1>7, <1>8, GoodNext
<1> QED
  BY <1>9 DEF M

\* A copy is a repetition whose bearer is free.
LEMMA CopyGood ==
  ASSUME NEW s, NEW n \in PN, NEW W, NEW Z, NEW f \in Copies(s, n), Good(s, W, Z), usable \subseteq Paths
  PROVE  Good(f, W, Z) /\ (up = Bearers /\ HeldIn(s) => HeldIn(f))
<1>1. PICK p \in CopyPaths(s, n), o \in {"accepted", "blocked"} :
        f = Submit(Copied(s, n, p), s.next, o)
  BY DEF Copies
<1> DEFINE t == Advance(s, Retransmit(s.ledger, n, s.next, p))
<1>2. s \in States
  BY DEF Good
<1>3. f = Submit(t, s.next, o)
  BY <1>1, <1>2 DEF Copied, Advance, States
<1>4. /\ p \in Paths /\ s.next < MaxPackets /\ s.ledger.slot[n] # None
      /\ ~LedgerFull(s.ledger) /\ Outcomes(p, s.pending) = {"accepted", "blocked"}
  BY DEF CopyPaths, MayCopy, CanEncode
<1>5. Good(t, W, Z) /\ Prepared(s, t, p)
  BY <1>4, RepeatGood
<1> HIDE DEF t
<1>6. Good(f, W, Z)
  BY <1>3, <1>5, SubmitGood DEF Prepared
<1>7. Head(addresses[p]) \in up /\ s.pending[Head(addresses[p])] = None
  BY <1>4 DEF Outcomes
<1>8. up = Bearers /\ HeldIn(s) => HeldIn(f)
  BY <1>3, <1>5, <1>7, SubmitHeld DEF Prepared
<1> QED
  BY <1>6, <1>8

\* A submission, with the copy it may cause.
LEMMA SubmitNextGood ==
  ASSUME NEW M, NEW p, NEW W, NEW Z, usable \subseteq Paths,
         Good(Advance(Now, M), W, Z), Prepared(Now, Advance(Now, M), p), SubmitNext(M, p)
  PROVE  \E f : Becomes(f) /\ Good(f, W, Z) /\ (up = Bearers /\ HeldIn(Now) => HeldIn(f))
<1> DEFINE t == Advance(Now, M)
<1>1. t = [Now EXCEPT !.ledger = M, !.next = @ + 1] /\ Now.next = next /\ Now.pending = pending
  BY DEF Advance, Now
<1>2. PICK o \in Outcomes(p, pending) :
        \E f \in {Submit(t, next, o)} \cup (IF o = "accepted" THEN Copies(Submit(t, next, o), next) ELSE {}) :
          Becomes(f)
  BY <1>1 DEF SubmitNext
<1> HIDE DEF t
<1> DEFINE g == Submit(t, next, o)
<1>3. PICK f \in {g} \cup (IF o = "accepted" THEN Copies(g, next) ELSE {}) : Becomes(f)
  BY <1>2
<1>4. /\ o \in {"accepted", "blocked", "failed", "unrouted"}
      /\ o = "blocked" => Head(addresses[p]) \in up /\ pending[Head(addresses[p])] = None
  BY DEF Outcomes
<1>5. /\ next \in PN /\ next < t.next /\ next \notin Left(t) /\ PathOf(t.ledger, next) = p
      /\ t.pending = pending /\ (HeldIn(Now) => HeldIn(t)) /\ Good(t, W, Z)
  BY <1>1 DEF Prepared, t
<1>6. Good(g, W, Z)
  BY <1>4, <1>5, SubmitGood
<1>7. up = Bearers /\ HeldIn(Now) => HeldIn(g)
  BY <1>4, <1>5, SubmitHeld
<1> HIDE DEF g
<1>8. CASE f = g
  BY <1>3, <1>6, <1>7, <1>8
<1>9. CASE f \in Copies(g, next)
  BY <1>3, <1>5, <1>6, <1>7, <1>9, CopyGood
<1> QED
  BY <1>3, <1>8, <1>9

-----------------------------------------------------------------------------
\* A step keeps the invariant, and refused packets in their bearers if no
\* bearer can be removed.
Step == Inv' /\ (Removable = {} /\ Held => Held')

\* A step to a good state f.
LEMMA BecomesStep ==
  ASSUME NEW f, NEW W, NEW Z, Becomes(f), Good(f, W, Z), W \subseteq Ranges,
         up = Bearers /\ HeldIn(Now) => HeldIn(f),
         written' = W, reset' = Z, usable' \subseteq Paths, probing' \subseteq Paths,
         UNCHANGED <<up, failed, received, acked>>
  PROVE  Step
<1>1. Now' = f
  BY DEF Becomes, Good, States, Now
<1>2. Left(f)' = Left(f) /\ ForgottenOK(f.ledger, W)' = ForgottenOK(f.ledger, W)
      /\ AckedOK(f.ledger)' = AckedOK(f.ledger)
  BY DEF Left, ForgottenOK, AckedOK
<1>3. Good(f, W, Z)'
  BY <1>2 DEF Good
<1>4. Good(Now, written, reset)'
  BY <1>1, <1>3
<1>5. HeldIn(f) => HeldIn(Now)'
  BY <1>1 DEF HeldIn
<1> QED
  BY <1>4, <1>5 DEF Step, Inv, Held

\* A step in which the ledger takes a safe step and packets only travel.
LEMMA TravelStep ==
  ASSUME Inv, Safe(ledger, ledger'), ledger' \in Ledgers,
         \A m \in PN : ledger'.sent[m] = "blocked" => ledger.sent[m] = "blocked",
         pending' \in [Bearers -> PN \cup {None}],
         \A b \in Bearers : pending'[b] \in {pending[b], None},
         (Removable = {} => pending' = pending /\ up' = up),
         (net \cup failed \cup received)' \subseteq net \cup failed \cup received,
         received \subseteq received', usable' \subseteq Paths, probing' \subseteq Paths,
         UNCHANGED <<next, written, reset, acked>>
  PROVE  Step
<1>1. Good(Now, written, reset) /\ Now \in States
  BY DEF Inv, Good
<1>2. Now.ledger = ledger /\ Now.next = next /\ Now.pending = pending /\ Now.net = net
  BY DEF Now
<1>3. /\ ledger \in Ledgers /\ next \in 0 .. MaxPackets /\ pending \in [Bearers -> PN \cup {None}]
      /\ net \subseteq PN
      /\ LedgerOK(ledger, next) /\ Charged(ledger, reset) /\ OnlyWritten(ledger, written)
      /\ ForgottenOK(ledger, written) /\ AckedOK(ledger) /\ acked \subseteq received
  BY <1>1, <1>2 DEF Good, States
<1>4. /\ \A b \in Bearers : pending[b] \in PN => pending[b] < next
      /\ \A n \in net \cup failed \cup received : /\ n \in PN /\ n < next
                                                  /\ ledger.sent[n] # "blocked"
  BY <1>1, <1>2 DEF Good, Left, NotBlocked
<1>5. Keeps(ledger, ledger') /\ Charged(ledger', reset)
  BY <1>3 DEF Safe
<1>6. /\ LedgerOK(ledger', next) /\ OnlyWritten(ledger', written)
      /\ ForgottenOK(ledger', written) /\ AckedOK(ledger')
  BY <1>3, <1>5, KeepsOK
<1>7. ForgottenOK(ledger, written)' /\ AckedOK(ledger)'
  BY <1>6 DEF ForgottenOK, AckedOK
<1>8. \A n \in (net \cup failed \cup received)' : /\ n \in PN /\ n < next
                                                  /\ ledger'.sent[n] # "blocked"
  BY <1>4
<1>9. \A b \in Bearers : pending'[b] \in PN => pending'[b] < next
  BY <1>4, NoneApart
<1>10. Now' \in States
  BY <1>3, <1>8 DEF Now, States
<1>11. Now.ledger' = ledger' /\ Now.next' = next' /\ Now.pending' = pending' /\ Now.net' = net'
  BY DEF Now
<1>12. Left(Now)' = (net \cup failed \cup received)'
  BY <1>11 DEF Left
<1>13. Good(Now, written, reset)'
  BY <1>3, <1>5, <1>6, <1>7, <1>8, <1>9, <1>10, <1>11, <1>12 DEF Good, NotBlocked
<1>14. Removable = {} /\ HeldIn(Now) => HeldIn(Now)'
  BY <1>2, <1>11 DEF HeldIn
<1> QED
  BY <1>13, <1>14 DEF Step, Inv, Held

LEMMA SafeRefl ==
  ASSUME Inv
  PROVE  Safe(ledger, ledger) /\ ledger \in Ledgers /\ pending \in [Bearers -> PN \cup {None}]
         /\ LedgerOK(ledger, next)
<1>1. ledger \in Ledgers /\ LedgerOK(ledger, next) /\ pending \in [Bearers -> PN \cup {None}]
  BY DEF Inv, Good, States, Now
<1> QED
  BY <1>1 DEF Safe, Keeps, LedgerOK, Placed, Fresh

\* The environment, and what the owner does without a packet.
LEMMA QuietStep ==
  ASSUME Inv,
         \/ \E b \in Bearers : RetryRefused(b) \/ DriverReady(b)
         \/ \E n \in PN : DriverFails(n) \/ Lose(n) \/ Deliver(n)
         \/ LoseAck
         \/ \E p \in Paths : ReceiveResponse(p)
         \/ UNCHANGED vars
  PROVE  Step
<1>1. Safe(ledger, ledger) /\ ledger \in Ledgers /\ pending \in [Bearers -> PN \cup {None}]
  BY SafeRefl
<1>2. usable \subseteq Paths /\ probing \subseteq Paths
  BY DEF Inv
<1>3. UNCHANGED <<ledger, next, written, reset, acked, pending, up>>
  BY DEF RetryRefused, DriverReady, DriverFails, Lose, Deliver, LoseAck, ReceiveResponse, vars, owner, circuits
<1>4. (net \cup failed \cup received)' \subseteq net \cup failed \cup received /\ received \subseteq received'
  BY DEF RetryRefused, DriverReady, DriverFails, Lose, Deliver, LoseAck, ReceiveResponse, vars, owner, circuits
<1>5. usable' \subseteq Paths /\ probing' \subseteq Paths
  BY <1>2 DEF RetryRefused, DriverReady, DriverFails, Lose, Deliver, LoseAck, ReceiveResponse, vars, owner, circuits
<1> QED
  BY <1>1, <1>3, <1>4, <1>5, TravelStep

LEMMA DrainFailedStep ==
  ASSUME Inv, NEW n \in PN, DrainFailed(n)
  PROVE  Step
<1>1. LedgerOK(ledger, next) /\ pending \in [Bearers -> PN \cup {None}]
  BY SafeRefl
<1>2. /\ Safe(ledger, ledger')
      /\ \A m \in PN : ledger'.sent[m] = "blocked" => ledger.sent[m] = "blocked"
  BY <1>1, FailedSafe DEF DrainFailed
<1>3. ledger' \in Ledgers
  BY <1>2 DEF Safe
<1>4. /\ UNCHANGED <<next, written, reset, acked, pending, up, usable, probing, net, received>>
      /\ failed' \subseteq failed
  BY DEF DrainFailed, circuits
<1> QED
  BY <1>1, <1>2, <1>3, <1>4, TravelStep DEF Inv

LEMMA SuspendStep ==
  ASSUME Inv, NEW P, MarkSuspended(P), pending' \in [Bearers -> PN \cup {None}],
         \A b \in Bearers : pending'[b] \in {pending[b], None},
         Removable = {} => pending' = pending /\ up' = up,
         UNCHANGED <<next, written, reset, failed, net, received, acked>>
  PROVE  Step
<1>1. LedgerOK(ledger, next)
  BY SafeRefl
<1>2. /\ Safe(ledger, ledger')
      /\ \A m \in PN : ledger'.sent[m] = "blocked" => ledger.sent[m] = "blocked"
  BY <1>1, SuspendSafe DEF MarkSuspended
<1>3. ledger' \in Ledgers
  BY <1>2 DEF Safe
<1>4. usable' \subseteq Paths /\ probing' \subseteq Paths
  BY DEF MarkSuspended, Inv
<1> QED
  BY <1>2, <1>3, <1>4, TravelStep

LEMMA RemoveBearerStep ==
  ASSUME Inv, NEW b \in Bearers, RemoveBearer(b)
  PROVE  Step
<1>1. pending \in [Bearers -> PN \cup {None}]
  BY SafeRefl
<1> DEFINE lone == {p \in usable \cup probing :
                      [q \in Paths |-> SelectSeq(addresses[q], LAMBDA c : c # b)][p] = <<>>}
<1>2. /\ MarkSuspended(lone) /\ b \in Removable /\ pending' = [pending EXCEPT ![b] = None]
      /\ UNCHANGED <<next, written, reset, failed, net, received, acked>>
  BY DEF RemoveBearer
<1> HIDE DEF lone
<1>3. /\ pending' \in [Bearers -> PN \cup {None}]
      /\ \A c \in Bearers : pending'[c] \in {pending[c], None}
  BY <1>1, <1>2
<1> QED
  BY <1>2, <1>3, SuspendStep

LEMMA SuspendCircuitStep ==
  ASSUME Inv, NEW p \in Paths, SuspendCircuit(p)
  PROVE  Step
<1>1. pending \in [Bearers -> PN \cup {None}]
  BY SafeRefl
<1>2. /\ MarkSuspended({p})
      /\ UNCHANGED <<next, written, reset, failed, net, received, acked, pending, up>>
  BY DEF SuspendCircuit
<1> QED
  BY <1>1, <1>2, SuspendStep

LEMMA NowGood ==
  ASSUME Inv
  PROVE  /\ Good(Now, written, reset) /\ Now \in States
         /\ Now.ledger = ledger /\ Now.next = next /\ Now.pending = pending /\ Now.net = net
         /\ LedgerOK(ledger, next) /\ NotBlocked(ledger, Left(Now))
BY DEF Inv, Good, Now

LEMMA SendStep ==
  ASSUME Inv, NEW r \in Ranges, NEW p \in Paths, Send(r, p)
  PROVE  Step
<1>1. Good(Now, written, reset) /\ Now.ledger = ledger /\ Now.next = next
  BY NowGood
<1>2. PICK b \in Slots : FirstFree(ledger, b) /\ SubmitNext(Encode(ledger, next, r, p, b), p)
  BY DEF Send
<1> DEFINE M == Encode(ledger, next, r, p, b)
<1> HIDE DEF M
<1>3. ledger.buffer[b] = None /\ r \notin written /\ next < MaxPackets /\ written \subseteq Ranges
  BY <1>2 DEF FirstFree, Send, Inv
<1>4. Good(Advance(Now, M), written \cup {r}, reset) /\ Prepared(Now, Advance(Now, M), p)
  BY <1>1, <1>3, EncodeGood DEF M
<1>5. usable \subseteq Paths /\ probing \subseteq Paths
  BY DEF Inv
<1>6. PICK f : /\ Becomes(f) /\ Good(f, written \cup {r}, reset)
               /\ up = Bearers /\ HeldIn(Now) => HeldIn(f)
  BY <1>2, <1>4, <1>5, SubmitNextGood DEF M
<1>7. /\ written' = written \cup {r} /\ written \cup {r} \subseteq Ranges
      /\ UNCHANGED <<up, reset, usable, probing, failed, received, acked>>
  BY <1>3 DEF Send, circuits
<1> QED
  BY <1>5, <1>6, <1>7, BecomesStep

\* The owner's state with ledger L in place of its own.
Replaced(L) == [Now EXCEPT !.ledger = L]

LEMMA ReplacedGood ==
  ASSUME Inv, NEW L, Safe(ledger, L),
         \A m \in PN : L.sent[m] = "blocked" => ledger.sent[m] = "blocked"
  PROVE  /\ Good(Replaced(L), written, reset) /\ (HeldIn(Now) => HeldIn(Replaced(L)))
         /\ Replaced(L).ledger = L /\ Replaced(L).next = next
         /\ Replaced(L).pending = pending /\ Replaced(L).net = net
         /\ \A M : Advance(Replaced(L), M) = Advance(Now, M)
<1> DEFINE t == Replaced(L)
<1>1. L \in Ledgers
  BY DEF Safe
<1>2. /\ Good(Now, written, reset) /\ Now \in States
      /\ Now.ledger = ledger /\ Now.next = next /\ Now.pending = pending /\ Now.net = net
      /\ NotBlocked(ledger, Left(Now))
  BY NowGood
<1>3. /\ t \in States /\ t.ledger = L /\ t.next = next /\ t.pending = pending /\ t.net = net
      /\ \A M : Advance(t, M) = Advance(Now, M)
  BY <1>1, <1>2 DEF Replaced, States, Advance
<1> HIDE DEF t
<1>4. Left(t) = Left(Now)
  BY <1>2, <1>3 DEF Left
<1>5. NotBlocked(L, Left(t))
  BY <1>2, <1>4 DEF NotBlocked, Good
<1>6. Good(t, written, reset)
  BY <1>2, <1>3, <1>4, <1>5, GoodSafe DEF Good
<1>7. HeldIn(Now) => HeldIn(t)
  BY <1>2, <1>3 DEF HeldIn
<1> QED
  BY <1>3, <1>6, <1>7 DEF t

LEMMA PreparedNow ==
  ASSUME Inv, NEW L, Safe(ledger, L),
         \A m \in PN : L.sent[m] = "blocked" => ledger.sent[m] = "blocked",
         NEW t, NEW p, Prepared(Replaced(L), t, p)
  PROVE  Prepared(Now, t, p)
BY ReplacedGood, NowGood DEF Prepared

LEMMA TimerStep ==
  ASSUME Inv, Timer
  PROVE  Step
<1>1. PICK C \in SUBSET Overtaken(ledger) :
        LET L == DetectLosses(ledger, C)
        IN  Repair(L) \/ Probe(L) \/ Ping(L) \/ TimerQuiet(L)
  BY DEF Timer
<1> DEFINE L == DetectLosses(ledger, C)
           s == Replaced(L)
<1>2. LedgerOK(ledger, next)
  BY NowGood
<1>3. Safe(ledger, L) /\ \A m \in PN : L.sent[m] = "blocked" => ledger.sent[m] = "blocked"
  BY <1>2, DetectSafe
<1>4. Repair(L) \/ Probe(L) \/ Ping(L) \/ TimerQuiet(L)
  BY <1>1
<1> HIDE DEF L
<1>5. /\ Good(s, written, reset) /\ (HeldIn(Now) => HeldIn(s))
      /\ s.ledger = L /\ s.next = next /\ s.pending = pending /\ s.net = net
      /\ \A M : Advance(s, M) = Advance(Now, M)
  BY <1>3, ReplacedGood
<1>6. LedgerOK(L, next)
  BY <1>5 DEF Good
<1> HIDE DEF s
<1>7. usable \subseteq Paths /\ probing \subseteq Paths /\ written \subseteq Ranges
  BY DEF Inv
<1>8. UNCHANGED <<written, reset, up, usable, probing, failed, received, acked>>
  BY DEF Timer, circuits
<1>9. ASSUME NEW M, NEW p, SubmitNext(M, p), Good(Advance(s, M), written, reset),
             Prepared(s, Advance(s, M), p)
      PROVE  Step
  <2>1. Advance(s, M) = Advance(Now, M)
    BY <1>5
  <2>2. Good(Advance(Now, M), written, reset) /\ Prepared(Now, Advance(Now, M), p)
    BY <1>3, <1>9, <2>1, PreparedNow DEF s
  <2>3. PICK f : /\ Becomes(f) /\ Good(f, written, reset)
                 /\ up = Bearers /\ HeldIn(Now) => HeldIn(f)
    BY <1>7, <1>9, <2>2, SubmitNextGood
  <2> QED
    BY <1>7, <1>8, <2>3, BecomesStep
<1>10. CASE Repair(L)
  <2>1. PICK n \in LossCandidates(L), p \in usable : SubmitNext(Retransmit(L, n, next, p), p)
    BY <1>10 DEF Repair
  <2>2. n \in PN /\ L.slot[n] # None /\ L.sent[n] = "lost" /\ p \in Paths /\ next < MaxPackets
    BY <1>7, <1>10, <2>1 DEF LossCandidates, Outstanding, Repair
  <2> DEFINE M == Retransmit(L, n, next, p)
  <2> HIDE DEF M
  <2>3. Good(Advance(s, M), written, reset) /\ Prepared(s, Advance(s, M), p)
    BY <1>5, <2>2, RepeatGood DEF M
  <2> QED
    BY <1>9, <2>1, <2>3 DEF M
<1>11. CASE Probe(L)
  <2>1. PICK n \in PtoCandidates(L) : \E p \in PtoPaths(L, n) :
          CanRetransmit(L, n) /\ SubmitNext(Retransmit(L, n, next, p), p)
    BY <1>11 DEF Probe
  <2>2. PICK p \in PtoPaths(L, n) : CanRetransmit(L, n) /\ SubmitNext(Retransmit(L, n, next, p), p)
    BY <2>1
  <2>3. n \in PN /\ L.slot[n] # None /\ L.sent[n] = "flight" /\ next < MaxPackets
    BY <1>11, <2>1 DEF PtoCandidates, Outstanding, Probe
  <2>4. PathOf(L, n) \in Paths
    BY <1>6, <2>3 DEF LedgerOK, Placed, Fresh
  <2>5. p \in Paths
    BY <1>7, <2>2, <2>4 DEF PtoPaths
  <2>6. LedgerFull(L) => L.sent[n] = "lost"
    BY <2>2 DEF CanRetransmit
  <2> DEFINE M == Retransmit(L, n, next, p)
  <2> HIDE DEF M
  <2>7. Good(Advance(s, M), written, reset) /\ Prepared(s, Advance(s, M), p)
    BY <1>5, <2>3, <2>5, <2>6, RepeatGood DEF M
  <2> QED
    BY <1>9, <2>2, <2>7 DEF M
<1>12. CASE Ping(L)
  <2>1. PICK p \in PingPaths(L) : SubmitNext(Prepare(L, next, None, p, None), p)
    BY <1>12 DEF Ping
  <2>2. p \in Paths /\ next < MaxPackets
    BY <1>6, <1>12, <2>1 DEF PingPaths, LedgerOK, Placed, Fresh, Ping
  <2> DEFINE M == Prepare(L, next, None, p, None)
  <2> HIDE DEF M
  <2>3. Good(Advance(s, M), written, reset) /\ Prepared(s, Advance(s, M), p)
    BY <1>5, <2>2, PingGood DEF M
  <2> QED
    BY <1>9, <2>1, <2>3 DEF M
<1>13. CASE TimerQuiet(L)
  <2>1. Becomes(s)
    BY <1>5, <1>13 DEF TimerQuiet, Becomes
  <2> QED
    BY <1>5, <1>7, <1>8, <2>1, BecomesStep
<1> QED
  BY <1>4, <1>10, <1>11, <1>12, <1>13

LEMMA ProbePathStep ==
  ASSUME Inv, NEW p \in Paths, ProbePath(p)
  PROVE  Step
<1>1. Good(Now, written, reset) /\ Now.ledger = ledger /\ Now.next = next
  BY NowGood
<1> DEFINE M == Prepare(ledger, next, None, p, None)
<1>2. /\ next < MaxPackets /\ SubmitNext(M, p)
      /\ UNCHANGED <<written, up, usable, probing, reset, failed, received, acked>>
  BY DEF ProbePath
<1> HIDE DEF M
<1>3. Good(Advance(Now, M), written, reset) /\ Prepared(Now, Advance(Now, M), p)
  BY <1>1, <1>2, PingGood DEF M
<1>4. usable \subseteq Paths /\ probing \subseteq Paths /\ written \subseteq Ranges
  BY DEF Inv
<1>5. PICK f : /\ Becomes(f) /\ Good(f, written, reset)
               /\ up = Bearers /\ HeldIn(Now) => HeldIn(f)
  BY <1>2, <1>3, <1>4, SubmitNextGood
<1> QED
  BY <1>2, <1>4, <1>5, BecomesStep

LEMMA RetryAcceptedStep ==
  ASSUME Inv, NEW b \in Bearers, RetryAccepted(b)
  PROVE  Step
<1> DEFINE n == pending[b]
           M == SubmissionAccepted(ledger, n)
           s == [Now EXCEPT !.ledger = SubmissionAccepted(@, n), !.pending[b] = None,
                            !.net = @ \cup {n}]
<1>1. /\ Good(Now, written, reset) /\ Now \in States
      /\ Now.ledger = ledger /\ Now.next = next /\ Now.pending = pending /\ Now.net = net
      /\ LedgerOK(ledger, next) /\ NotBlocked(ledger, Left(Now))
  BY NowGood
<1>2. n \in PN /\ n < next
  BY <1>1 DEF RetryAccepted, Good, States
<1>3. PICK f \in {s} \cup Copies(s, n) : Becomes(f)
  BY DEF RetryAccepted
<1>4. /\ Safe(ledger, M) /\ M.sent[n] # "blocked"
      /\ \A m \in PN : M.sent[m] = "blocked" => ledger.sent[m] = "blocked"
  BY <1>1, <1>2, AcceptedSafe
<1>5. M \in Ledgers
  BY <1>4 DEF Safe
<1>6. s = [Now EXCEPT !.ledger = M, !.pending = [pending EXCEPT ![b] = None],
                      !.net = net \cup {n}]
  BY <1>1 DEF States
<1> HIDE DEF M, s, n
<1>7. /\ s \in States /\ s.ledger = M /\ s.next = next /\ s.net = net \cup {n}
      /\ s.pending[b] = None /\ \A c \in Bearers \ {b} : s.pending[c] = pending[c]
  BY <1>1, <1>2, <1>5, <1>6 DEF States
<1>8. Left(s) = Left(Now) \cup {n}
  BY <1>1, <1>7 DEF Left
<1>9. NotBlocked(M, Left(s))
  BY <1>1, <1>4, <1>8 DEF NotBlocked, Good
<1>10. \A c \in Bearers : s.pending[c] \in PN => s.pending[c] < s.next
  BY <1>1, <1>7, NoneApart DEF Good
<1>11. \A m \in Left(s) : m \in PN /\ m < s.next
  BY <1>1, <1>2, <1>7, <1>8 DEF Good
<1>12. Good(s, written, reset)
  BY <1>1, <1>4, <1>7, <1>9, <1>10, <1>11, GoodSafe
<1>13. HeldIn(Now) => HeldIn(s)
  <2> SUFFICES ASSUME HeldIn(Now), NEW m \in PN, M.sent[m] = "blocked"
               PROVE  \E c \in Bearers : s.pending[c] = m
    BY <1>7 DEF HeldIn
  <2>1. ledger.sent[m] = "blocked" /\ m # n
    BY <1>4
  <2>2. PICK c \in Bearers : pending[c] = m
    BY <1>1, <2>1 DEF HeldIn
  <2> QED
    BY <1>7, <2>1, <2>2 DEF n
<1>14. usable \subseteq Paths /\ probing \subseteq Paths /\ written \subseteq Ranges
  BY DEF Inv
<1>15. Good(f, written, reset) /\ (up = Bearers /\ HeldIn(Now) => HeldIn(f))
  BY <1>2, <1>3, <1>12, <1>13, <1>14, CopyGood
<1>16. UNCHANGED <<written, up, reset, usable, probing, failed, received, acked>>
  BY DEF RetryAccepted, circuits
<1> QED
  BY <1>3, <1>14, <1>15, <1>16, BecomesStep

\* A path that starts over is charged for nothing, and remembered as reset
\* when it owed something.
LEMMA ResetGood ==
  ASSUME Inv, NEW p \in Paths, NEW Z,
         Z = IF \E n \in PN : ledger.sent[n] = "flight" /\ PathOf(ledger, n) = p
               THEN reset \cup {p} ELSE reset
  PROVE  LET s == Replaced(ResetFlight(ledger, p))
         IN  /\ Good(s, written, Z) /\ (HeldIn(Now) => HeldIn(s))
             /\ s.ledger = ResetFlight(ledger, p) /\ s.next = next /\ s.pending = pending
             /\ s.net = net
<1> DEFINE M == ResetFlight(ledger, p)
           s == Replaced(M)
           flight == Put(ledger.flight, p, 0)
<1>1. /\ Good(Now, written, reset) /\ Now \in States
      /\ Now.ledger = ledger /\ Now.next = next /\ Now.pending = pending /\ Now.net = net
      /\ LedgerOK(ledger, next) /\ NotBlocked(ledger, Left(Now))
  BY NowGood
<1>2. ledger \in Ledgers /\ Fresh(ledger, next)
  BY <1>1 DEF LedgerOK, Placed
<1>3. flight \in [Paths -> Nat] /\ \A q \in Paths : flight[q] = IF q = p THEN 0 ELSE ledger.flight[q]
  BY <1>2 DEF Ledgers, Put
<1>4. M = [ledger EXCEPT !.flight = flight]
  BY DEF ResetFlight
<1> HIDE DEF flight
<1>5. /\ M \in Ledgers /\ M.flight = flight /\ M.sent = ledger.sent /\ M.slot = ledger.slot
      /\ M.buffer = ledger.buffer /\ M.packet = ledger.packet /\ M.prior = ledger.prior
      /\ M.delivered = ledger.delivered
  BY <1>2, <1>3, <1>4 DEF Ledgers
<1> HIDE DEF M
<1>6. Keeps(ledger, M)
  BY <1>2, <1>5 DEF Keeps, Fresh
<1>7. /\ LedgerOK(M, next) /\ OnlyWritten(M, written) /\ ForgottenOK(M, written) /\ AckedOK(M)
  BY <1>1, <1>5, <1>6, KeepsOK DEF Good
<1>8. \A q : Due(M, q) = Due(ledger, q)
  BY <1>5 DEF Due, PathOf
<1>9. Charged(M, Z)
  <2> SUFFICES ASSUME NEW q \in Paths
               PROVE  IF q \in Z THEN flight[q] <= Cardinality(Due(ledger, q))
                                 ELSE flight[q] = Cardinality(Due(ledger, q))
    BY <1>5, <1>8 DEF Charged
  <2>1. Cardinality(Due(ledger, q)) \in Nat
    BY DueFinite
  <2>2. CASE q = p
    <3>1. flight[q] = 0
      BY <1>3, <2>2
    <3>2. q \notin Z => Due(ledger, q) = {}
      BY <2>2 DEF Due
    <3>3. q \notin Z => Cardinality(Due(ledger, q)) = 0
      BY <3>2, FS_EmptySet
    <3> QED
      BY <2>1, <3>1, <3>3
  <2>3. CASE q # p
    <3>1. IF q \in reset THEN ledger.flight[q] <= Cardinality(Due(ledger, q))
                         ELSE ledger.flight[q] = Cardinality(Due(ledger, q))
      BY <1>1 DEF Good, Charged
    <3>2. q \in Z <=> q \in reset
      BY <2>3
    <3> QED
      BY <1>3, <2>3, <3>1, <3>2
  <2> QED
    BY <2>2, <2>3
<1>10. s \in States /\ s.ledger = M /\ s.next = next /\ s.pending = pending /\ s.net = net
  BY <1>1, <1>5 DEF Replaced, States
<1> HIDE DEF s
<1>11. Left(s) = Left(Now)
  BY <1>1, <1>10 DEF Left
<1>12. NotBlocked(M, Left(s))
  BY <1>1, <1>5, <1>11 DEF NotBlocked
<1>13. Good(s, written, Z)
  BY <1>1, <1>7, <1>9, <1>10, <1>11, <1>12 DEF Good
<1>14. HeldIn(Now) => HeldIn(s)
  BY <1>1, <1>5, <1>10 DEF HeldIn
<1> QED
  BY <1>10, <1>13, <1>14 DEF s, M

LEMMA ResumeCircuitStep ==
  ASSUME Inv, NEW p \in Paths, NEW b \in Bearers, ResumeCircuit(p, b)
  PROVE  Step
<1> DEFINE Z == IF \E n \in PN : ledger.sent[n] = "flight" /\ PathOf(ledger, n) = p
                  THEN reset \cup {p} ELSE reset
           fresh == ResetFlight(ledger, p)
           probe == Prepare(fresh, next, None, p, None)
           s == Replaced(fresh)
           t == Advance(s, probe)
<1>1. /\ Good(s, written, Z) /\ (HeldIn(Now) => HeldIn(s))
      /\ s.ledger = fresh /\ s.next = next /\ s.pending = pending /\ s.net = net
  BY ResetGood
<1>2. /\ reset' = Z /\ pending[b] = None
      /\ \/ /\ ledger' = fresh
            /\ UNCHANGED <<next, pending, net>>
         \/ /\ next < MaxPackets /\ next' = next + 1
            /\ \/ ledger' = probe /\ net' = net \cup {next} /\ UNCHANGED pending
               \/ /\ ledger' = SubmissionBlocked(probe, next)
                  /\ pending' = [pending EXCEPT ![b] = next] /\ UNCHANGED net
      /\ UNCHANGED <<written, up, usable, failed, received, acked>>
      /\ probing' = probing \cup {p}
  BY DEF ResumeCircuit
<1>3. usable' \subseteq Paths /\ probing' \subseteq Paths /\ written \subseteq Ranges
  BY <1>2 DEF Inv
<1> HIDE DEF Z, fresh, s
<1>4. ASSUME NEW f, Becomes(f), Good(f, written, Z), up = Bearers /\ HeldIn(Now) => HeldIn(f)
      PROVE  Step
  BY <1>2, <1>3, <1>4, BecomesStep
<1>5. CASE ledger' = fresh /\ UNCHANGED <<next, pending, net>>
  <2>1. Becomes(s)
    BY <1>1, <1>5 DEF Becomes
  <2> QED
    BY <1>1, <1>4, <2>1
<1>6. ASSUME next < MaxPackets
      PROVE  /\ Good(t, written, Z) /\ t \in States /\ t.ledger = probe /\ t.next = next + 1
             /\ t.pending = pending /\ t.net = net
             /\ next \in PN /\ next < t.next /\ next \notin Left(t)
             /\ probe.sent[next] = "flight" /\ (HeldIn(Now) => HeldIn(t))
  <2>1. Good(t, written, Z) /\ Prepared(s, t, p)
    BY <1>1, <1>6, PingGood
  <2>2. s \in States
    BY <1>1 DEF Good
  <2> HIDE DEF probe
  <2>3. t.ledger = probe /\ t.net = net
    BY <1>1, <2>2 DEF Advance, States
  <2> QED
    BY <1>1, <2>1, <2>3 DEF Prepared, Good
<1> HIDE DEF t, probe
<1>7. CASE next < MaxPackets /\ next' = next + 1 /\ ledger' = probe /\ net' = net \cup {next} /\ UNCHANGED pending
  <2> DEFINE f == Submit(t, next, "accepted")
  <2>1. Good(f, written, Z)
    BY <1>6, <1>7, SubmitGood
  <2>2. HeldIn(Now) => HeldIn(f)
    BY <1>6, <1>7, SubmitHeld
  <2>3. f.ledger = probe /\ f.net = net \cup {next} /\ f.next = next + 1 /\ f.pending = pending
    BY <1>6, <1>7 DEF Submit, SubmissionAccepted, States
  <2> HIDE DEF f
  <2>4. Becomes(f)
    BY <1>7, <2>3 DEF Becomes
  <2> QED
    BY <1>4, <2>1, <2>2, <2>4
<1>8. CASE /\ next < MaxPackets /\ next' = next + 1 /\ ledger' = SubmissionBlocked(probe, next)
           /\ pending' = [pending EXCEPT ![b] = next] /\ UNCHANGED net
  <2> DEFINE M == SubmissionBlocked(probe, next)
             pend == [pending EXCEPT ![b] = next]
             f == [t EXCEPT !.ledger = M, !.pending = pend]
  <2>1. /\ Good(t, written, Z) /\ t \in States /\ t.ledger = probe /\ t.next = next + 1
        /\ t.pending = pending /\ t.net = net
        /\ next \in PN /\ next < t.next /\ next \notin Left(t)
        /\ (HeldIn(Now) => HeldIn(t)) /\ LedgerOK(probe, t.next) /\ NotBlocked(probe, Left(t))
    BY <1>6, <1>8 DEF Good
  <2>2. /\ Safe(probe, M)
        /\ \A m \in PN : M.sent[m] = "blocked" => probe.sent[m] = "blocked" \/ m = next
    BY <2>1, BlockedSafe
  <2>3. M \in Ledgers
    BY <2>2 DEF Safe
  <2>4. /\ pend \in [Bearers -> PN \cup {None}] /\ pend[b] = next
        /\ \A c \in Bearers \ {b} : pend[c] = pending[c]
    BY <2>1 DEF States
  <2> HIDE DEF M, pend
  <2>5. f \in States /\ f.ledger = M /\ f.next = next + 1 /\ f.pending = pend /\ f.net = net
    BY <2>1, <2>3, <2>4 DEF States
  <2> HIDE DEF f
  <2>6. Left(f) = Left(t)
    BY <2>1, <2>5 DEF Left
  <2>7. NotBlocked(M, Left(f))
    BY <2>1, <2>2, <2>6 DEF NotBlocked, Good
  <2>8. \A c \in Bearers : f.pending[c] \in PN => f.pending[c] < f.next
    BY <2>1, <2>4, <2>5 DEF Good
  <2>9. Good(f, written, Z)
    BY <2>1, <2>2, <2>5, <2>6, <2>7, <2>8, GoodSafe DEF Good
  <2>10. HeldIn(t) => HeldIn(f)
    <3> SUFFICES ASSUME HeldIn(t), NEW m \in PN, M.sent[m] = "blocked"
                 PROVE  \E c \in Bearers : pend[c] = m
      BY <2>5 DEF HeldIn
    <3>1. CASE m = next
      BY <2>4, <3>1
    <3>2. CASE m # next
      <4>1. PICK c \in Bearers : pending[c] = m
        BY <2>1, <2>2, <3>2 DEF HeldIn
      <4>2. c # b
        BY <1>2, <4>1, NoneApart
      <4> QED
        BY <2>4, <4>1, <4>2
    <3> QED
      BY <3>1, <3>2
  <2>11. Becomes(f)
    BY <1>8, <2>5 DEF Becomes, M, pend
  <2> QED
    BY <1>4, <2>1, <2>9, <2>10, <2>11
<1> QED
  BY <1>2, <1>5, <1>7, <1>8

LEMMA ReceiveAckStep ==
  ASSUME Inv, NEW R \in SUBSET received, ReceiveAck(R)
  PROVE  Step
<1>1. /\ Good(Now, written, reset) /\ Now \in States
      /\ Now.ledger = ledger /\ Now.next = next /\ Now.pending = pending /\ Now.net = net
      /\ LedgerOK(ledger, next) /\ NotBlocked(ledger, Left(Now))
  BY NowGood
<1>2. R \subseteq PN /\ NotBlocked(ledger, R) /\ next \in Nat
  BY <1>1 DEF Good, Left, NotBlocked, States
<1>3. PICK C : ledger' = ApplyAck(ledger, R, C)
  BY DEF ReceiveAck
<1> DEFINE L == RetireAcked(ledger, R)
           M == DetectLosses(L, C)
<1>4. ledger' = M
  BY <1>3 DEF ApplyAck
<1>5. /\ LedgerOK(L, next) /\ L.packet = ledger.packet
      /\ \A Z : Charged(ledger, Z) => Charged(L, Z)
      /\ \A s \in Slots : L.buffer[s] = IF s \in Done(ledger, R) THEN None ELSE ledger.buffer[s]
      /\ \A s \in Slots \ Done(ledger, R) : Evicted(ledger, s) \subseteq Evicted(L, s)
      /\ \A n \in PN : L.sent[n] \in {ledger.sent[n], "none"}
  BY <1>1, <1>2, RetireAckedOK
<1> HIDE DEF L
<1>6. Safe(L, M) /\ \A m \in PN : M.sent[m] = "blocked" => L.sent[m] = "blocked"
  BY <1>5, DetectSafe
<1> HIDE DEF M
<1>7. /\ M \in Ledgers /\ Charged(M, reset)
      /\ M.buffer = L.buffer /\ M.packet = ledger.packet /\ Keeps(L, M)
  BY <1>1, <1>5, <1>6 DEF Safe, Keeps, Good
<1>8. \A n : RangeOf(M, n) = RangeOf(ledger, n)
  BY <1>7 DEF RangeOf
<1>9. /\ Done(ledger, R) \subseteq Slots
      /\ \A s \in Done(ledger, R) :
           ledger.buffer[s] # None /\ \E n \in R : RangeOf(ledger, n) = ledger.buffer[s]
      /\ \A n \in R, s \in Slots :
           ledger.buffer[s] # None /\ ledger.buffer[s] = RangeOf(ledger, n) /\ Few(ledger, s)
             => s \in Done(ledger, R)
  BY <1>1, <1>2, AckedSlots
<1>10. LedgerOK(M, next)
  BY <1>5, <1>7, KeepsOK
<1>11. \A s \in Slots : M.buffer[s] = IF s \in Done(ledger, R) THEN None ELSE ledger.buffer[s]
  BY <1>5, <1>7
<1>12. OnlyWritten(M, written)
  BY <1>1, <1>8, <1>11 DEF Good, OnlyWritten
<1>13. ForgottenOK(M, written)
  <2> SUFFICES ASSUME NEW r \in written, \A s \in Slots : M.buffer[s] # r
               PROVE  \E n \in received : RangeOf(M, n) = r
    BY DEF ForgottenOK
  <2>1. CASE \E s \in Slots : ledger.buffer[s] = r
    BY <1>8, <1>9, <1>11, <2>1
  <2>2. CASE \A s \in Slots : ledger.buffer[s] # r
    BY <1>1, <1>8, <2>2 DEF Good, ForgottenOK
  <2> QED
    BY <2>1, <2>2
<1>14. ASSUME NEW n \in acked \cup R, NEW s \in Slots, M.buffer[s] # None, Few(M, s)
       PROVE  M.buffer[s] # RangeOf(M, n)
  <2>1. s \notin Done(ledger, R) /\ M.buffer[s] = ledger.buffer[s] /\ ledger.buffer[s] # None
    BY <1>11, <1>14
  <2>2. Evicted(L, s) \subseteq Evicted(M, s)
    BY <1>7 DEF Keeps, Evicted, RangeOf
  <2>3. Few(ledger, s)
    BY <1>5, <1>14, <2>1, <2>2, MoreEvicted
  <2>4. CASE n \in R
    BY <1>8, <1>9, <2>1, <2>4, <2>3
  <2>5. CASE n \in acked
    BY <1>1, <1>8, <2>1, <2>5, <2>3 DEF Good, AckedOK
  <2> QED
    BY <2>4, <2>5
<1>15. \A m \in PN : M.sent[m] = "blocked" => ledger.sent[m] = "blocked"
  BY <1>5, <1>6
<1>16. /\ acked' = acked \cup R /\ acked' \subseteq received
       /\ UNCHANGED <<next, written, up, pending, usable, probing, reset, failed, net, received>>
  BY <1>1 DEF ReceiveAck, circuits, Good
<1>17. ForgottenOK(ledger, written)' /\ AckedOK(ledger)'
  <2>1. AckedOK(ledger)'
    BY <1>4, <1>14, <1>16 DEF AckedOK
  <2>2. ForgottenOK(ledger, written)'
    BY <1>4, <1>13, <1>16 DEF ForgottenOK
  <2> QED
    BY <2>1, <2>2
<1>18. Now' \in States
  BY <1>1, <1>4, <1>7, <1>16 DEF Now, States
<1>19. Now.ledger' = M /\ Now.next' = next /\ Now.pending' = pending /\ Now.net' = net
  BY <1>4, <1>16 DEF Now
<1>20. Left(Now)' = Left(Now)
  BY <1>1, <1>16, <1>19 DEF Left
<1>21. NotBlocked(M, Left(Now))
  BY <1>1, <1>15 DEF NotBlocked, Good
<1>22. Good(Now, written, reset)'
  BY <1>1, <1>4, <1>7, <1>10, <1>12, <1>16, <1>17, <1>18, <1>19, <1>20, <1>21 DEF Good
<1>23. HeldIn(Now) => HeldIn(Now)'
  BY <1>1, <1>15, <1>19 DEF HeldIn
<1> QED
  BY <1>16, <1>22, <1>23 DEF Step, Inv, Held

-----------------------------------------------------------------------------
LEMMA InvInit == Init => Inv /\ Held
<1> SUFFICES ASSUME Init PROVE Inv /\ Held
  OBVIOUS
<1> DEFINE L == EmptyLedger
<1>1. /\ L \in Ledgers
      /\ \A n \in PN : L.sent[n] = "none" /\ L.slot[n] = None /\ RangeOf(L, n) = None
      /\ \A s \in Slots : L.buffer[s] = None /\ L.prior[s] = <<>>
      /\ \A p \in Paths : L.flight[p] = 0
  BY DEF EmptyLedger, Ledgers, RangeOf
<1> HIDE DEF L
<1>2. LedgerOK(L, 0)
  <2>1. Range(<<>>) = {} /\ Len(<<>>) = 0
    BY DEF Range
  <2> QED
    BY <1>1, <2>1, EvictedCount
       DEF LedgerOK, Placed, Fresh, SlotsNamed, PriorsNamed, Known, Recorded, Lineage
<1>3. Charged(L, {})
  <2>1. \A p \in Paths : Due(L, p) = {}
    BY <1>1 DEF Due
  <2> QED
    BY <1>1, <2>1, FS_EmptySet DEF Charged
<1>4. OnlyWritten(L, {}) /\ ForgottenOK(L, {}) /\ NotBlocked(L, {})
  BY <1>1 DEF OnlyWritten, ForgottenOK, NotBlocked
<1>5. /\ Now.ledger = L /\ Now.next = 0 /\ Now.net = {} /\ Now.pending = [b \in Bearers |-> None]
      /\ written = {} /\ reset = {} /\ failed = {} /\ received = {} /\ acked = {}
  BY DEF Init, Now, L
<1>6. Now \in States
  BY <1>1 DEF Init, Now, States, L
<1>7. Left(Now) = {} /\ AckedOK(L)
  BY <1>5 DEF Left, AckedOK
<1>8. Good(Now, written, reset)
  BY <1>2, <1>3, <1>4, <1>5, <1>6, <1>7, NoneApart DEF Good
<1>9. HeldIn(Now)
  BY <1>1, <1>5 DEF HeldIn
<1> QED
  BY <1>8, <1>9 DEF Inv, Held, Init

LEMMA NextStep == Inv /\ [Next]_vars => Step
<1> SUFFICES ASSUME Inv, [Next]_vars PROVE Step
  OBVIOUS
<1> QED
  BY QuietStep, DrainFailedStep, RemoveBearerStep, SuspendCircuitStep, SendStep, TimerStep,
     ProbePathStep, RetryAcceptedStep, ResumeCircuitStep, ReceiveAckStep DEF Next, Owner, Environment

LEMMA InvHolds == Spec => []Inv
<1>1. Inv /\ [Next]_vars => Inv'
  BY NextStep DEF Step
<1> QED
  BY <1>1, InvInit, PTL DEF Spec

\* A path is charged for exactly the packets the bearers took that are neither
\* acknowledged nor lost, and never for more after it was resumed, for every
\* interleaving of acceptance, refusal, failure, loss, suspension and ACKs.
THEOREM ChargesMatch == Spec => []FlightMatchesLedger
<1>1. Inv => FlightMatchesLedger
  BY DEF Inv, Good, Now, Charged, Due, FlightMatchesLedger
<1> QED
  BY <1>1, InvHolds, PTL

\* A record that names a slot of send_buffer carried the range in it, however
\* slots are freed and reused: a repair never sends another range's bytes.
THEOREM RecordsAreNotMisled == Spec => []RecordsNameTheirRange
<1>1. Inv => RecordsNameTheirRange
  BY DEF Inv, Good, Now, LedgerOK, Placed, SlotsNamed, RecordsNameTheirRange
<1> QED
  BY <1>1, InvHolds, PTL

\* Bytes and FINs are forgotten only after the peer has received them.
THEOREM NothingForgottenEarly == Spec => []ForgottenWasReceived
<1>1. Inv => ForgottenWasReceived
  BY DEF Inv, Good, Now, ForgottenOK, ForgottenWasReceived, Forgotten
<1> QED
  BY <1>1, InvHolds, PTL

\* An ACK of any transmission of a range releases the range, also when the
\* record of that transmission was evicted from a full ledger before, however
\* many packets the association sends, unless more transmissions of this one
\* range were evicted than prior_packets holds.
THEOREM AckedRangesAreReleased == Spec => []AckedIsForgotten
<1>1. Inv => AckedIsForgotten
  BY DEF Inv, Good, Now, AckedOK, Few, AckedIsForgotten
<1> QED
  BY <1>1, InvHolds, PTL

LEMMA RecoverableFromHeld == Inv /\ Held => RetainedIsRecoverable
<1> SUFFICES ASSUME Inv, Held, NEW s \in Slots, ledger.buffer[s] # None
             PROVE  Recoverable(ledger.buffer[s])
  BY DEF RetainedIsRecoverable
<1>1. ledger \in Ledgers /\ Fresh(ledger, next) /\ SlotsNamed(ledger) /\ Recorded(ledger)
  BY NowGood DEF LedgerOK, Placed
<1>2. PICK n \in PN : ledger.slot[n] = s
  BY <1>1 DEF Recorded
<1>3. ledger.slot[n] # None
  BY <1>2, NoneApart
<1>4. RangeOf(ledger, n) = ledger.buffer[s] /\ Outstanding(ledger, n)
  BY <1>1, <1>2, <1>3 DEF SlotsNamed, Outstanding
<1>5. ledger.sent[n] \in {"flight", "lost", "blocked"}
  BY <1>1, <1>3 DEF Fresh, Ledgers
<1>6. ledger.sent[n] = "blocked" => \E b \in up : pending[b] = n
  BY DEF Held, HeldIn, Now
<1> QED
  BY <1>4, <1>5, <1>6 DEF Recoverable

\* While no bearer is removed, every range the peer may still need has a
\* record that a repair or a probe can start from, or that waits in a bearer.
THEOREM RangesStayRecoverable == ASSUME Removable = {} PROVE Spec => []RetainedIsRecoverable
<1>1. Inv /\ Held /\ [Next]_vars => Inv' /\ Held'
  BY NextStep DEF Step
<1> QED
  BY <1>1, InvInit, RecoverableFromHeld, PTL DEF Spec
=============================================================================
