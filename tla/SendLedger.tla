----------------------------- MODULE SendLedger -----------------------------
(***************************************************************************)
(* The transmission ledger of quic-lite's EndpointState (lib.rs): the      *)
(* retained stream ranges (send_buffer), one SentPacket record per         *)
(* transmission (sent_packets) and the bytes_in_flight each path charges.  *)
(* Every operation is a function from ledger to ledger; the processes that *)
(* call them are in NodeEgress.                                            *)
(*                                                                         *)
(* Data are abstracted to what recovery tells apart.  A range is sent and  *)
(* acknowledged whole: every transmission of it carries all its bytes and  *)
(* its FIN, so a range is acknowledged when any of its transmissions is.   *)
(* A FIN-only range has no bytes, so "all its data" is acknowledged from   *)
(* the start.  Every packet is one unit of flight.  Time is abstract: the  *)
(* caller says which packets a time or packet threshold condemns, and any  *)
(* candidate may be the oldest.                                            *)
(***************************************************************************)
EXTENDS Integers, Sequences, FiniteSets, FiniteSetsExt

CONSTANTS
  Ranges,             \* stream ranges the application writes
  FinRanges,          \* the ranges that end their stream
  EmptyRanges,        \* the ranges that are nothing but a FIN
  PriorityRanges,     \* the ranges of streams the application gave priority
  Paths,
  HistoryLimit,       \* slots of send_buffer
  TransmissionLimit,  \* slots of sent_packets
  LineageLimit,       \* slots of prior_packets, which every range has
  Window,             \* congestion window of a path, in packets
  MaxPackets,         \* bound: packet numbers a behaviour may use
  None                \* no range, no slot, no packet

ASSUME RangesAssumption ==
  /\ EmptyRanges \subseteq FinRanges /\ FinRanges \cup PriorityRanges \subseteq Ranges
  /\ None \notin Ranges \cup Nat
ASSUME LimitsAssumption ==
  /\ HistoryLimit \in Nat \ {0}
  /\ TransmissionLimit \in Nat \ {0}
  /\ LineageLimit \in Nat \ {0}
  /\ Window \in Nat \ {0}
  /\ MaxPackets \in Nat \ {0}

PN == 0 .. MaxPackets - 1
Slots == 1 .. HistoryLimit

\* The record of packet n is none, in "flight" (accepted and not lost),
\* "blocked" (refused by the bearer and not yet accepted) or "lost".
EmptyLedger == [
  sent      |-> [n \in PN |-> "none"],
  slot      |-> [n \in PN |-> None],        \* send_buffer_slot
  delivered |-> [n \in PN |-> FALSE],       \* data_delivered
  packet    |-> [n \in PN |-> [range |-> None, path |-> None]],
  buffer    |-> [s \in Slots |-> None],
  prior     |-> [s \in Slots |-> <<>>],     \* prior_packets
  flight    |-> [p \in Paths |-> 0],        \* congestion.bytes_in_flight
  largest   |-> [p \in Paths |-> -1]]       \* largest_acked_send_order

RangeOf(L, n) == L.packet[n].range
PathOf(L, n) == L.packet[n].path
Records(L) == {n \in PN : L.sent[n] # "none"}
LedgerFull(L) == Cardinality(Records(L)) >= TransmissionLimit
CanSend(L, p) == L.flight[p] + 1 <= Window

Put(f, x, v) == [y \in DOMAIN f |-> IF y = x THEN v ELSE f[y]]

\* saturating_sub, as remove_in_flight and on_packet_lost do.
Monus(a, b) == IF a >= b THEN a - b ELSE 0

\* flight after the records Gone left it.
FlightWithout(L, Gone) ==
  [p \in Paths |-> Monus(L.flight[p], Cardinality({n \in Gone : PathOf(L, n) = p}))]

\* The records Gone are removed from sent_packets.
Retire(L, Gone) == [L EXCEPT
  !.sent = [n \in PN |-> IF n \in Gone THEN "none" ELSE L.sent[n]],
  !.slot = [n \in PN |-> IF n \in Gone THEN None ELSE L.slot[n]],
  !.delivered = [n \in PN |-> L.delivered[n] /\ n \notin Gone]]

\* The packet carries a FIN that no acknowledgement has covered.
FinPending(L, n) ==
  /\ RangeOf(L, n) \in FinRanges
  /\ L.slot[n] # None
  /\ L.buffer[L.slot[n]] \in FinRanges

-----------------------------------------------------------------------------
\* A fresh record; a packet without a range is a PING.
Prepare(L, n, r, p, s) == [L EXCEPT
  !.sent = Put(@, n, "flight"),
  !.slot = Put(@, n, s),
  !.delivered = Put(@, n, (r = None)),
  !.packet = Put(@, n, [range |-> r, path |-> p]),
  !.flight = Put(@, p, L.flight[p] + 1)]

FirstFree(L, s) == L.buffer[s] = None /\ \A t \in Slots : L.buffer[t] = None => s <= t

CanEncode(L, p) == CanSend(L, p) /\ ~LedgerFull(L)

Encode(L, n, r, p, s) == Prepare([L EXCEPT !.buffer = Put(@, s, r)], n, r, p, s)

\* add_prior_packet: the oldest gives way when there is no slot left.
AddPrior(q, n) == Append(IF Len(q) < LineageLimit THEN q ELSE Tail(q), n)

\* Send the range of record n again, as packet m on path p.  With a full
\* ledger a lost record gives up its own slot and stays known as a prior
\* packet of the range.
CanRetransmit(L, n) == LedgerFull(L) => L.sent[n] = "lost"

\* Mutant: the evicted transmission is not remembered.
RetransmitForgets(L, n, m, p) ==
  Prepare(IF LedgerFull(L) THEN Retire(L, {n}) ELSE L, m, L.buffer[L.slot[n]], p, L.slot[n])

Retransmit(L, n, m, p) ==
  LET s == L.slot[n]
      evicted == [Retire(L, {n}) EXCEPT !.prior = Put(@, s, AddPrior(@[s], n))]
  IN  Prepare(IF LedgerFull(L) THEN evicted ELSE L, m, L.buffer[s], p, s)

\* The transmissions of the range in slot s that have no record any more.
Evicted(L, s) ==
  {n \in PN : RangeOf(L, n) # None /\ RangeOf(L, n) = L.buffer[s] /\ L.slot[n] = None}

-----------------------------------------------------------------------------
\* The bearer kept the packet for a later retry.
SubmissionBlocked(L, n) ==
  IF L.sent[n] = "flight"
    THEN [L EXCEPT !.sent = Put(@, n, "blocked"), !.flight = FlightWithout(L, {n})]
    ELSE L

\* The bearer took the packet.
SubmissionAccepted(L, n) ==
  IF L.sent[n] = "blocked"
    THEN [L EXCEPT !.sent = Put(@, n, "flight"),
                    !.flight = Put(@, PathOf(L, n), L.flight[PathOf(L, n)] + 1)]
    ELSE L

\* Mutant: a packet that is already lost leaves flight again.
SubmissionFailedTwice(L, n) ==
  IF L.sent[n] = "none" THEN L
  ELSE [L EXCEPT !.sent = Put(@, n, "lost"), !.flight = FlightWithout(L, {n})]

\* The packet was dropped, or an accepted one definitely failed.
SubmissionFailed(L, n) ==
  LET lost == [L EXCEPT !.sent = Put(@, n, "lost"), !.flight = FlightWithout(L, {n})]
  IN  IF L.sent[n] # "flight" THEN L
      ELSE IF L.delivered[n] /\ ~FinPending(L, n) THEN Retire(lost, {n})
      ELSE lost

\* Paths P lost their last address: their flight is repaired on other paths.
SuspendPaths(L, P) ==
  LET gone == {n \in PN : L.sent[n] = "flight" /\ PathOf(L, n) \in P}
  IN  [L EXCEPT !.sent = [n \in PN |-> IF n \in gone THEN "lost" ELSE L.sent[n]],
                !.flight = FlightWithout(L, gone)]

\* reset_for_resumption: path p starts over, whatever it is still charged for.
ResetFlight(L, p) == [L EXCEPT !.flight = Put(@, p, 0)]

-----------------------------------------------------------------------------
\* Packets below the path's acknowledged frontier, the only ones a packet or
\* time threshold can declare lost.
Overtaken(L) == {n \in PN : L.sent[n] = "flight" /\ n < L.largest[PathOf(L, n)]}

\* detect_ack_losses on every path; condemned is what the thresholds select.
DetectLosses(L, condemned) ==
  LET gone == Overtaken(L) \cap condemned
      marked == [L EXCEPT !.sent = [n \in PN |-> IF n \in gone THEN "lost" ELSE L.sent[n]],
                          !.flight = FlightWithout(L, gone)]
      settled == {n \in PN : /\ marked.sent[n] = "lost"
                             /\ L.largest[PathOf(L, n)] # -1
                             /\ L.delivered[n] /\ ~FinPending(L, n)}
  IN  Retire(marked, settled)

\* Ranges acknowledged by an ACK of the packets R: through a live record or
\* through a prior packet whose record was evicted.
AckedRanges(L, R) ==
  {RangeOf(L, n) : n \in {m \in R : L.sent[m] \in {"flight", "lost"} /\ L.slot[m] # None}}
    \cup {L.buffer[s] : s \in {t \in Slots : Range(L.prior[t]) \cap R # {}}}

\* The accepted records an ACK of R covers.
Newly(L, R) == {n \in R : L.sent[n] \in {"flight", "lost"}}

\* Mutant: all the data of a range is acknowledged, so the range is done.
DoneAtOnce(L, R) ==
  {s \in Slots : L.buffer[s] # None /\ L.buffer[s] \in AckedRanges(L, R) \cup EmptyRanges}

\* The ranges to retire: all their data and their FIN are acknowledged.
Done(L, R) ==
  LET acked == AckedRanges(L, R)
  IN  {s \in Slots : L.buffer[s] # None /\ L.buffer[s] \in acked}

\* Mutant: the other records of a retired range keep its slot.
FreedNone(L, R) == {}

\* The other records of a retired range let go of its slot.
Freed(L, R) ==
  LET done == Done(L, R) IN {n \in PN \ Newly(L, R) : L.slot[n] \in done}

\* The highest acknowledged packet of each path.
Frontier(L, R) ==
  [p \in Paths |-> Max({L.largest[p]} \cup {n \in Newly(L, R) : PathOf(L, n) = p})]

\* apply_ack_ranges_on_path up to loss detection: the acknowledged records
\* go, then the ranges, then the lost records of those ranges.
RetireAcked(L, R) ==
  LET newly == Newly(L, R)
      done == Done(L, R)
      freed == Freed(L, R)
      bare == {n \in PN : L.slot[n] # None /\ L.buffer[L.slot[n]] \in EmptyRanges}
      acknowledged == [L EXCEPT
        !.delivered = [n \in PN |-> L.delivered[n] \/ n \in freed \cup bare],
        !.slot = [n \in PN |-> IF n \in freed THEN None ELSE L.slot[n]],
        !.buffer = [s \in Slots |-> IF s \in done THEN None ELSE L.buffer[s]],
        !.prior = [s \in Slots |-> IF s \in done THEN <<>> ELSE L.prior[s]],
        !.flight = FlightWithout(L, {n \in newly : L.sent[n] = "flight"}),
        !.largest = Frontier(L, R)]
  IN  Retire(acknowledged, newly \cup {n \in freed : L.sent[n] = "lost"})

ApplyAck(L, R, condemned) == DetectLosses(RetireAcked(L, R), condemned)

-----------------------------------------------------------------------------
\* A newer packet of the range is still in flight.
Covered(L, n) ==
  \E m \in PN : m > n /\ L.sent[m] = "flight" /\ L.slot[m] = L.slot[n]

\* The record still has something to repeat.
Outstanding(L, n) ==
  /\ L.slot[n] # None
  /\ ~L.delivered[n] \/ RangeOf(L, n) \in FinRanges

LossCandidates(L) ==
  {n \in PN : L.sent[n] = "lost" /\ Outstanding(L, n) /\ ~Covered(L, n)}

PtoCandidates(L) == {n \in PN : L.sent[n] = "flight" /\ Outstanding(L, n)}

\* Paths with flight but nothing to repeat are probed with a PING.
PingPaths(L) == {PathOf(L, n) : n \in {m \in PN : L.sent[m] = "flight"}}

\* The first transmission of a FIN, or of a priority stream's range, may be
\* copied to another path.
MayCopy(L, n) ==
  /\ L.sent[n] = "flight"
  /\ L.slot[n] # None
  /\ \A m \in 0 .. n - 1 : RangeOf(L, m) # RangeOf(L, n)
  /\ RangeOf(L, n) \in FinRanges \cup PriorityRanges
  /\ ~L.delivered[n]
=============================================================================
