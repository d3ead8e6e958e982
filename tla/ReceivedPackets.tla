-------------------------- MODULE ReceivedPackets ---------------------------
(***************************************************************************)
(* The packet numbers an endpoint has received (lib.rs, EndpointState:     *)
(* received_packets, receive_packet_floor, highest_received_packet).  They *)
(* are what its ACKs claim and what it recognises a duplicate by.  Both    *)
(* the capacity of the range set and the floor make it forget; the floor   *)
(* rises when the peer acknowledges a packet that carried an ACK.          *)
(*                                                                         *)
(* The peer's packets arrive in any order, any number of times, or never.  *)
(***************************************************************************)
EXTENDS AckRanges

CONSTANTS
  Last,      \* bound: the highest packet number of the peer
  Carriers   \* records of own packets in flight that carry an ACK

ASSUME BoundsAssumption == Last \in Nat

VARIABLES
  ranges,    \* received_packets
  floor,     \* receive_packet_floor
  highest,   \* highest_received_packet, -1 for none
  carried,   \* ack_largest_received by record, -1 for an unused record
  received   \* history: every number that was accepted

vars == <<ranges, floor, highest, carried, received>>

PacketNumbers == 0 .. Last

Init ==
  /\ ranges = {} /\ floor = 0 /\ highest = -1
  /\ carried = [c \in Carriers |-> -1] /\ received = {}

\* has_received_packet: what admission drops as already seen.
Duplicate(n) == n < floor \/ Contains(ranges, n)

\* observe_packet_on_path.
Receive(n) ==
  /\ ~Duplicate(n)
  /\ ranges' = Insert(ranges, n)
  /\ highest' = IF n > highest THEN n ELSE highest
  /\ received' = received \cup {n}
  /\ UNCHANGED <<floor, carried>>

\* A data or control packet leaves with an ACK of all ranges.
SendAck(c) ==
  /\ ranges # {} /\ carried[c] = -1
  /\ carried' = [carried EXCEPT ![c] = Newest(ranges).end]
  /\ UNCHANGED <<ranges, floor, highest, received>>

\* Mutant: everything the peer has confirmed goes, without a span for
\* packets that are still under way.
FloorAtConfirmed(confirmed) == confirmed

\* The span of numbers below the confirmed one that may still arrive.
FloorFor(confirmed) ==
  LET f == confirmed - 2 * AckRangeCapacity
  IN  IF f > floor THEN f ELSE floor

\* apply_ack_ranges_on_path: the peer acknowledges the packets of A.
Confirm(A) ==
  LET proofs == {carried[c] : c \in A} \cup {floor}
      confirmed == CHOOSE m \in proofs : \A k \in proofs : k <= m
      compact == Cardinality(ranges) >= AckRangeCapacity \div 2
  IN  /\ carried' = [c \in Carriers |-> IF c \in A THEN -1 ELSE carried[c]]
      /\ floor' = IF compact THEN FloorFor(confirmed) ELSE floor
      /\ ranges' = IF compact THEN DiscardBelow(ranges, floor') ELSE ranges
      /\ UNCHANGED <<highest, received>>

\* The ledger gives the record of a lost packet to another packet.
DropRecord(c) ==
  /\ carried[c] # -1
  /\ carried' = [carried EXCEPT ![c] = -1]
  /\ UNCHANGED <<ranges, floor, highest, received>>

Next ==
  \/ \E n \in PacketNumbers : Receive(n)
  \/ \E c \in Carriers : SendAck(c) \/ DropRecord(c)
  \/ \E A \in SUBSET {c \in Carriers : carried[c] # -1} : A # {} /\ Confirm(A)

Spec == Init /\ [][Next]_vars

Memory == INSTANCE PacketMemory WITH known <- Numbers(ranges)

\* The array keeps the form that its binary search and its wire encoding
\* rely on: ranges in order with a gap between any two, no more than its
\* capacity, none below the floor, the newest ending at the highest number.
TypeOK ==
  /\ \A r \in ranges : r.start \in PacketNumbers /\ r.end \in r.start .. Last
  /\ \A r, q \in ranges : r = q \/ r.end + 1 < q.start \/ q.end + 1 < r.start
  /\ Cardinality(ranges) <= AckRangeCapacity
  /\ floor \in PacketNumbers /\ \A r \in ranges : r.start >= floor
  /\ highest \in PacketNumbers \cup {-1} /\ carried \in [Carriers -> PacketNumbers \cup {-1}]
  /\ received \subseteq PacketNumbers
  /\ IF ranges = {} THEN highest = -1 ELSE highest = Newest(ranges).end

\* contains finds a number exactly when some range holds it, whatever was
\* merged, evicted or cut before: a miss would deliver a packet twice, a
\* false hit would drop new data and acknowledge it.
SearchAgrees ==
  \A n \in PacketNumbers : Contains(ranges, n) <=> n \in Numbers(ranges)

\* A packet that never arrived stays welcome as long as it is among the
\* 2 * AckRangeCapacity numbers below the newest one: confirmed_piggyback_
\* ack_retires_old_receive_ranges, "recent delayed data must survive
\* confirmation".
RecentIsWelcome ==
  \A n \in PacketNumbers :
    n >= highest - 2 * AckRangeCapacity /\ n \notin received => ~Duplicate(n)

\* An ACK claims only what was received, and compaction, eviction and
\* merging forget only from below and never the newest number.
ImplementsPacketMemory == Memory!Spec
=============================================================================
