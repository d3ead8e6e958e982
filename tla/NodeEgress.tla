----------------------------- MODULE NodeEgress -----------------------------
(***************************************************************************)
(* How quic-lite's node submits the packets of one association: node.rs's  *)
(* submit_node_packet, drain_bearer_events, remove_bearer and timer, over  *)
(* the registered bearers of bearer.rs and the ledger of SendLedger.       *)
(*                                                                         *)
(* The owner task is sequential; drivers, the network and the peer run     *)
(* beside it.  A driver accepts a packet or answers WouldBlock, in which   *)
(* case the bearer retains that one packet and the owner retries it on the *)
(* driver's next readiness callback.  A callback that arrives after the    *)
(* drain at the start of a submission waits for the next drain, so the     *)
(* drains are actions of their own.                                        *)
(***************************************************************************)
EXTENDS SendLedger

CONSTANTS
  Bearers,
  Removable,    \* the bearers the application may remove
  Resumable,    \* the paths the application may suspend and resume
  Routes,       \* Routes[p]: known addresses of path p, the active one first
  MaxFaults     \* bound: lost packets and ACKs, drivers' failures, removed
                \* bearers, suspended and resumed paths, and PINGs sent
                \* before a probe was due, together

ASSUME BearersAssumption ==
  /\ Removable \subseteq Bearers /\ Resumable \subseteq Paths
  /\ Routes \in [Paths -> Seq(Bearers)]
ASSUME FaultsAssumption == MaxFaults \in Nat

VARIABLES
  ledger,    \* the endpoint's transmission ledger
  next,      \* next_packet_number
  written,   \* ranges the application has written
  up,        \* registered bearers
  pending,   \* pending[b]: the packet bearer b retains after WouldBlock
  addresses, \* addresses[p]: known_addresses of path p, the active one first
  usable,    \* paths that are validated and not suspended
  probing,   \* paths that are resumed and not yet validated again
  challenge, \* pending_probe: the packet whose challenge a path waits for
  reset,     \* history: paths resumed while they were charged for a packet
  ready,     \* readiness callbacks the owner has not drained
  failed,    \* failed completions the owner has not drained
  net,       \* packets a driver accepted that are still travelling
  received,  \* packets the peer has received
  ack,       \* the peer's latest ACK, if it is travelling
  acked,     \* history: packets that an applied ACK has covered
  faults     \* how much of MaxFaults is used

circuits == <<usable, probing, challenge, reset>>
owner == <<ledger, next, written, up, pending, addresses, circuits>>
vars == <<owner, ready, failed, net, received, ack, acked, faults>>

Init ==
  /\ ledger = EmptyLedger /\ next = 0 /\ written = {}
  /\ up = Bearers /\ pending = [b \in Bearers |-> None]
  /\ addresses = Routes /\ usable = {p \in Paths : Routes[p] # <<>>}
  /\ probing = {} /\ challenge = [p \in Paths |-> None] /\ reset = {}
  /\ ready = {} /\ failed = {}
  /\ net = {} /\ received = {} /\ ack = {} /\ acked = {} /\ faults = 0

-----------------------------------------------------------------------------
\* submit_egress_tagged and submit_node_packet for a prepared packet: what
\* becomes of the ledger, the retained packets and the network.  A packet
\* without an address is dropped after it was prepared.
Outcomes(p, held) ==
  IF addresses[p] = <<>> THEN {"unrouted"}
  ELSE IF Head(addresses[p]) \in up /\ held[Head(addresses[p])] = None
         THEN {"accepted", "blocked"} ELSE {"failed"}

Submit(s, n, outcome) ==
  CASE outcome = "accepted" -> [s EXCEPT !.ledger = SubmissionAccepted(@, n), !.net = @ \cup {n}]
    [] outcome = "blocked"  -> [s EXCEPT !.ledger = SubmissionBlocked(@, n),
                                  !.pending[Head(addresses[PathOf(s.ledger, n)])] = n]
    [] outcome = "failed"   -> [s EXCEPT !.ledger = SubmissionFailed(@, n)]
    [] OTHER                -> s

\* schedule_proactive_tail_copy: an accepted first transmission of a FIN or of
\* a priority stream may be copied to another usable path whose bearer can
\* take it now.
CopyPaths(s, n) ==
  {p \in usable \ {PathOf(s.ledger, n)} :
     /\ MayCopy(s.ledger, n) /\ CanEncode(s.ledger, p)
     /\ s.next < MaxPackets
     /\ Outcomes(p, s.pending) = {"accepted", "blocked"}}

Copied(s, n, p) == [s EXCEPT !.ledger = Retransmit(@, n, s.next, p), !.next = @ + 1]

Copies(s, n) ==
  UNION {{Submit(Copied(s, n, p), s.next, o) : o \in {"accepted", "blocked"}} :
           p \in CopyPaths(s, n)}

Now == [ledger |-> ledger, next |-> next, pending |-> pending, net |-> net]

Becomes(s) ==
  /\ ledger' = s.ledger /\ next' = s.next
  /\ pending' = s.pending /\ net' = s.net

\* Submit the packet just prepared, and copy it if it was accepted.
SubmitNext(prepared, p) ==
  \E outcome \in Outcomes(p, pending) :
    LET s == Submit([Now EXCEPT !.ledger = prepared, !.next = @ + 1], next, outcome)
    IN  \E final \in {s} \cup (IF outcome = "accepted" THEN Copies(s, next) ELSE {}) :
          Becomes(final)

-----------------------------------------------------------------------------
\* The application writes a range and the node sends it.
Send(r, p) ==
  /\ r \notin written /\ p \in usable /\ next < MaxPackets
  /\ CanEncode(ledger, p)
  /\ \E s \in Slots : FirstFree(ledger, s) /\ SubmitNext(Encode(ledger, next, r, p, s), p)
  /\ written' = written \cup {r}
  /\ UNCHANGED <<up, addresses, circuits, ready, failed, received, ack, acked, faults>>

\* timer_expired: detect losses, then send at most one packet: a repair of a
\* declared loss, else a PTO probe, else a PING.
TimerQuiet(L) ==
  /\ ledger' = L
  /\ UNCHANGED <<next, pending, net>>

Repair(L) ==
  /\ next < MaxPackets
  /\ \E n \in LossCandidates(L), p \in usable :
       CanSend(L, p) /\ SubmitNext(Retransmit(L, n, next, p), p)

PtoPaths(L, n) ==
  IF usable \subseteq {PathOf(L, n)} THEN {PathOf(L, n)} ELSE usable \ {PathOf(L, n)}

\* Mutant: a probe waits for room in the congestion window.
ProbeInWindow(L) ==
  /\ next < MaxPackets
  /\ \E n \in PtoCandidates(L) : \E p \in PtoPaths(L, n) :
       /\ CanSend(L, p) /\ CanRetransmit(L, n)
       /\ SubmitNext(Retransmit(L, n, next, p), p)

Probe(L) ==
  /\ next < MaxPackets
  /\ \E n \in PtoCandidates(L) : \E p \in PtoPaths(L, n) :
       CanRetransmit(L, n) /\ SubmitNext(Retransmit(L, n, next, p), p)

\* probe_delivered_flight: no candidate for a probe is due, because there is
\* none or because each was sent or probed for too recently.
Ping(L) ==
  /\ next < MaxPackets /\ ~LedgerFull(L)
  /\ \/ PtoCandidates(L) = {} /\ UNCHANGED faults
     \/ PtoCandidates(L) # {} /\ faults < MaxFaults /\ faults' = faults + 1
  /\ \E p \in PingPaths(L) : SubmitNext(Prepare(L, next, None, p, None), p)

Timer ==
  /\ \E condemned \in SUBSET Overtaken(ledger) :
       LET L == DetectLosses(ledger, condemned)
       IN  \/ Repair(L) /\ UNCHANGED faults
           \/ Probe(L) /\ UNCHANGED faults
           \/ Ping(L)
           \/ condemned # {} /\ TimerQuiet(L) /\ UNCHANGED faults
  /\ UNCHANGED <<written, up, addresses, circuits, ready, failed, received, ack, acked>>

\* drain_bearer_events, one completion: a definite failure retires flight.
DrainFailed(n) ==
  /\ n \in failed
  /\ failed' = failed \ {n}
  /\ ledger' = SubmissionFailed(ledger, n)
  /\ UNCHANGED <<next, written, up, pending, addresses, circuits, ready, net, received, ack, acked, faults>>

\* drain_bearer_events, one readiness: the driver takes the retained packet.
RetryAccepted(b) ==
  /\ b \in ready \cap up /\ pending[b] # None
  /\ ready' = ready \ {b}
  /\ LET n == pending[b]
         s == [Now EXCEPT !.ledger = SubmissionAccepted(@, n), !.pending[b] = None,
                          !.net = @ \cup {n}]
     IN  \E final \in {s} \cup Copies(s, n) : Becomes(final)
  /\ UNCHANGED <<written, up, addresses, circuits, failed, received, ack, acked, faults>>

\* Mutant: a packet that is refused again is not put back.
RetryRefusedDrops(b) ==
  /\ b \in ready
  /\ ready' = ready \ {b} /\ pending' = [pending EXCEPT ![b] = None]
  /\ UNCHANGED <<ledger, next, written, up, addresses, circuits, failed, net, received, ack, acked, faults>>

\* drain_bearer_events, one readiness: nothing to retry, or refused again.
RetryRefused(b) ==
  /\ b \in ready
  /\ ready' = ready \ {b}
  /\ UNCHANGED <<owner, failed, net, received, ack, acked, faults>>

\* suspend_path for the paths P.
MarkSuspended(P) ==
  /\ ledger' = SuspendPaths(ledger, P)
  /\ usable' = usable \ P /\ probing' = probing \ P
  /\ challenge' = [p \in Paths |-> IF p \in P THEN None ELSE challenge[p]]

\* remove_bearer: the registration and the packet it retains are dropped,
\* its addresses are forgotten, and a path without an address is suspended.
RemoveBearer(b) ==
  LET left == [p \in Paths |-> SelectSeq(addresses[p], LAMBDA c : c # b)]
      lone == {p \in usable \cup probing : left[p] = <<>>}
  IN  /\ b \in up \cap Removable
      /\ faults < MaxFaults /\ faults' = faults + 1
      /\ up' = up \ {b}
      /\ pending' = [pending EXCEPT ![b] = None]
      /\ addresses' = left
      /\ MarkSuspended(lone)
      /\ UNCHANGED <<reset, next, written, ready, failed, net, received, ack, acked>>

\* suspend_circuit.  Its addresses and a packet that a bearer retains stay.
SuspendCircuit(p) ==
  /\ p \in Resumable /\ p \in usable \cup probing
  /\ faults < MaxFaults /\ faults' = faults + 1
  /\ MarkSuspended({p})
  /\ UNCHANGED <<reset, next, written, up, pending, addresses, ready, failed, net, received,
                 ack, acked>>

\* resume_circuit, for a suspended or still probing path: recovery starts
\* over, and a challenge goes out through bearer b.  When the ledger is full
\* only the challenge is missing, and the timer sends it.
ResumeCircuit(p, b) ==
  LET fresh == ResetFlight(ledger, p)
      probe == Prepare(fresh, next, None, p, None)
      charged == \E n \in PN : ledger.sent[n] = "flight" /\ PathOf(ledger, n) = p
  IN  /\ p \in Resumable \ usable /\ b \in up /\ pending[b] = None
      /\ faults < MaxFaults /\ faults' = faults + 1
      /\ addresses' = [addresses EXCEPT ![p] = <<b>> \o SelectSeq(@, LAMBDA c : c # b)]
      /\ probing' = probing \cup {p}
      /\ reset' = IF charged THEN reset \cup {p} ELSE reset
      /\ \/ /\ LedgerFull(ledger)
            /\ ledger' = fresh /\ challenge' = [challenge EXCEPT ![p] = None]
            /\ UNCHANGED <<next, pending, net>>
         \/ /\ ~LedgerFull(ledger) /\ next < MaxPackets
            /\ next' = next + 1 /\ challenge' = [challenge EXCEPT ![p] = next]
            /\ \/ ledger' = probe /\ net' = net \cup {next} /\ UNCHANGED pending
               \/ /\ ledger' = SubmissionBlocked(probe, next)
                  /\ pending' = [pending EXCEPT ![b] = next] /\ UNCHANGED net
      /\ UNCHANGED <<written, up, usable, ready, failed, received, ack, acked>>

\* timer_expired, a due probe: the challenge is repeated under a new number.
ProbePath(p) ==
  /\ p \in probing /\ next < MaxPackets /\ CanEncode(ledger, p)
  /\ challenge' = [challenge EXCEPT ![p] = next]
  /\ SubmitNext(Prepare(ledger, next, None, p, None), p)
  /\ UNCHANGED <<written, up, addresses, usable, probing, reset, ready, failed, received, ack,
                 acked, faults>>

\* PATH_RESPONSE: the peer received the latest challenge, and its answer
\* arrived.
ReceiveResponse(p) ==
  /\ p \in probing /\ challenge[p] \in received
  /\ usable' = usable \cup {p} /\ probing' = probing \ {p}
  /\ challenge' = [challenge EXCEPT ![p] = None]
  /\ UNCHANGED <<reset, ledger, next, written, up, pending, addresses, ready, failed, net,
                 received, ack, acked, faults>>

\* apply_ack_ranges_on_path for an ACK that just arrived; a delayed or
\* duplicated one reports less.
ReceiveAck(R) ==
  /\ R # {}
  /\ acked' = acked \cup R
  /\ ack' = IF R = ack THEN {} ELSE ack
  /\ \E condemned \in SUBSET Overtaken(RetireAcked(ledger, R)) :
       ledger' = ApplyAck(ledger, R, condemned)
  /\ UNCHANGED <<next, written, up, pending, addresses, circuits, ready, failed, net, received, faults>>

-----------------------------------------------------------------------------
\* A driver reports room after WouldBlock.
DriverReady(b) ==
  /\ pending[b] # None
  /\ ready' = ready \cup {b}
  /\ UNCHANGED <<owner, failed, net, received, ack, acked, faults>>

\* An accepted packet definitely failed: its completion says so.
DriverFails(n) ==
  /\ n \in net /\ faults < MaxFaults
  /\ net' = net \ {n} /\ failed' = failed \cup {n} /\ faults' = faults + 1
  /\ UNCHANGED <<owner, ready, received, ack, acked>>

Lose(n) ==
  /\ n \in net /\ faults < MaxFaults
  /\ net' = net \ {n} /\ faults' = faults + 1
  /\ UNCHANGED <<owner, ready, failed, received, ack, acked>>

LoseAck ==
  /\ ack # {} /\ faults < MaxFaults
  /\ ack' = {} /\ faults' = faults + 1
  /\ UNCHANGED <<owner, ready, failed, net, received, acked>>

\* The peer receives a packet and acknowledges what it has received.
Deliver(n) ==
  /\ n \in net
  /\ net' = net \ {n} /\ received' = received \cup {n} /\ ack' = received \cup {n}
  /\ UNCHANGED <<owner, ready, failed, acked, faults>>

Owner ==
  \/ \E r \in Ranges, p \in Paths : Send(r, p)
  \/ Timer
  \/ \E n \in PN : DrainFailed(n)
  \/ \E b \in Bearers : RetryAccepted(b) \/ RetryRefused(b) \/ RemoveBearer(b)
  \/ \E p \in Paths : SuspendCircuit(p) \/ ProbePath(p) \/ ReceiveResponse(p)
  \/ \E p \in Paths, b \in Bearers : ResumeCircuit(p, b)
  \/ \E R \in SUBSET received : ReceiveAck(R)

Environment ==
  \/ \E b \in Bearers : DriverReady(b)
  \/ \E n \in PN : DriverFails(n) \/ Lose(n) \/ Deliver(n)
  \/ LoseAck

Next == Owner \/ Environment

\* The owner's loop runs: it drains its mailboxes, serves due timers and
\* processes what arrives.  A driver that refused a packet reports room again
\* and does not refuse forever; a packet that is not dropped arrives.
Fairness ==
  /\ WF_vars(Timer)
  /\ WF_vars(ReceiveAck(ack))
  /\ \A n \in PN : WF_vars(DrainFailed(n)) /\ WF_vars(Deliver(n))
  /\ \A b \in Bearers : WF_vars(DriverReady(b)) /\ SF_vars(RetryAccepted(b))

Spec == Init /\ [][Next]_vars
FairSpec == Spec /\ Fairness
-----------------------------------------------------------------------------
\* A path is charged for exactly the packets the bearers took and that are
\* neither acknowledged nor lost, however acceptance, refusal, failure, loss,
\* suspension and acknowledgement interleave: no charge leaks, none is
\* returned twice (saturating_sub would hide it).  A path that is resumed
\* while it is charged starts over from nothing: it is never charged for too
\* much afterwards, so resumption cannot block it.
FlightMatchesLedger ==
  \A p \in Paths :
    LET due == Cardinality({n \in PN : ledger.sent[n] = "flight" /\ PathOf(ledger, n) = p})
    IN  IF p \in reset THEN ledger.flight[p] <= due ELSE ledger.flight[p] = due

\* send_buffer slots are reused: a record that names a slot names the range it
\* carried, so a repair never sends another range's bytes in its place.
RecordsNameTheirRange ==
  \A n \in PN : ledger.slot[n] # None =>
    ledger.buffer[ledger.slot[n]] = RangeOf(ledger, n) /\ RangeOf(ledger, n) # None

Forgotten(r) == \A s \in Slots : ledger.buffer[s] # r

\* Bytes and FINs are forgotten only after the peer has received them.
ForgottenWasReceived ==
  \A r \in written : Forgotten(r) =>
    \E n \in received : RangeOf(ledger, n) = r

\* An ACK of any transmission of a range releases the range, even when the
\* record of that transmission was evicted from a full ledger long before,
\* as long as no more of the range's transmissions were evicted than
\* prior_packets holds.
AckedIsForgotten ==
  \A n \in acked, s \in Slots :
    ledger.buffer[s] # None /\ Cardinality(Evicted(ledger, s)) <= LineageLimit
      => ledger.buffer[s] # RangeOf(ledger, n)

\* Recovery starts from records: every range the peer may still need has one
\* that a repair or a probe can start from, or that waits in a bearer.
Recoverable(r) ==
  \E n \in PN : /\ RangeOf(ledger, n) = r
                /\ \/ ledger.sent[n] \in {"flight", "lost"} /\ Outstanding(ledger, n)
                   \/ ledger.sent[n] = "blocked" /\ \E b \in up : pending[b] = n
RetainedIsRecoverable ==
  \A s \in Slots : ledger.buffer[s] # None => Recoverable(ledger.buffer[s])

\* Recovery never stalls: while packet numbers last, a written range is
\* repeated until the peer's acknowledgement arrives, whatever was refused,
\* failed or lost.
RecoveryNeverStalls ==
  \A r \in Ranges : r \in written ~> (Forgotten(r) \/ next = MaxPackets)
=============================================================================
