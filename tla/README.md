# Verification of dmesh: the quic-lite transport

dmesh is a mesh-networking stack. Its heart is `crates/quic-lite`: a small,
allocation-bounded QUIC-like transport that one *owner* (a task or a
microcontroller loop) drives and that *bearers* (UDP, framed byte streams,
radio, UART) carry. This directory models the parts of quic-lite in which
something can go wrong that a unit test would hardly reach: lock-free hand-over
between driver callbacks and the owner, recovery of packets that are refused,
failed, lost and copied in any order, ordered delivery to an application that
takes data in parts, the exchange of flow-control credit, the life of an
association through retries, restarts and resets, and the relay setup protocol
with its deadlines and leases. The modules are checked with TLC on small
instances, and the central invariants are proved with TLAPS for every value of
the constants.

`PROJECT.json` holds the machine-readable side: components, runs, mutants, the
map from definitions to source lines, findings, hazards and theorems. Paths
below are relative to `src/crates/quic-lite/src` unless they say otherwise.

    tlc -workers 2 -config MCNodeEgress.cfg MCNodeEgress
    tlapm RelaySetupProofs.tla

## 1. Inventory

### quic-lite

| Part | State | Operations | Hard behaviour |
|---|---|---|---|
| Heap packet pool (`heap_packet_pool.rs`) | per slot a buffer pointer and an atomic count, a capacity, a spin lock | resize, acquire_writer, commit, clone, drop, raw access | the owner resizes while driver callbacks acquire and drop; callbacks may not wait |
| Completion mailbox (`bearer.rs`, CallbackSlots) | slot states, slot memory, cursor | push by callbacks, pop by the owner | lock-free, unordered, panics when full |
| Bearer registration and readiness (`bearer.rs`, `bearer_framed.rs`, `node.rs`, `tokio.rs`) | the one refused packet per bearer, the ready mailbox, notifications | submit_or_retain, send_ready, pop_ready, retry_pending | lost wake-ups, lost readiness, duplicates in the mailbox |
| Transmission ledger (`lib.rs`, EndpointState) | retained ranges, one record per transmission, flight per path | encode, retransmit, accept, block, fail, acknowledge, declare lost | records outlive ranges, slots are reused, saturating arithmetic hides errors |
| Node egress (`node.rs`) | ledger, bearers, addresses per path | submit, drain, timer, remove_bearer | refusal, late failure, loss, copies and removal in any order |
| Relay setup (`relay.rs`, `node.rs`) | setup table with counters, DCID registry with rules and leases | PATH_OPEN, PATH_OPEN_ACK, forwarding, sweep | retries, late, repeated and reordered answers, deadlines and leases |
| Received packet numbers (`lib.rs`) | a bounded array of ranges, a floor, the highest number | observe, discard below, search, acknowledge | out-of-order arrival at a full array; the floor rises behind packets under way |
| Callback streams (`callback.rs`, `mux.rs`, `node.rs`, `lib.rs`) | cursor and retained ranges per stream, counts of received and consumed bytes, retired streams | receive, retain, resume, acknowledge, retire | memory runs out in the middle of a frame; repeats of finished streams |
| Flow-control credit (`lib.rs`) | limits, streams that wait to be published, the publication in flight | consume, grant, retire, publish, acknowledge | a publication overtaken by newer credit or by the end of its stream |
| Connection setup and associations (`connection.rs`, `node.rs`, `tokio.rs`) | association table, connection IDs, bootstrap attempts, idle clock, reset tokens | associate, OPEN, OPEN_ACK, close, reset, idle timeout | late and repeated OPENs, one side restarting, resets that arrive late |
| Opener circuits, `crypto.rs` (`node.rs`) | circuits per association, probes | open, validate, fail over | answer and timeout race |
| Fixed packet pool, peer table (`packet_pool.rs`, `peer_table.rs`) | slots with counts | acquire, release, evict | as the heap pool, without resizing |
| Runtimes (`tokio.rs`, `nostd.rs`), datagrams and probes, UDP bearer, wire format, simulators | little of their own | drive the node | covered where they touch a part above |

How they interact: the application writes to an association, whose endpoint
records the range and the transmission in the ledger and takes a packet from
the pool. The node submits it to a bearer, which takes it or answers
WouldBlock; in that case the registration retains that one packet. The driver
later calls back: a completion returns the lease through the completion mailbox,
a readiness names the bearer in the ready mailbox, and both notify the owner.
The owner drains the mailboxes, retries what was retained, serves timers and
applies what arrives: a packet is routed by its connection ID to an association,
its number is remembered, its acknowledgements go to the ledger, its credit to
the sender and its stream data to the application, and what the application
consumes becomes new credit. A relay is the same node: packets whose destination CID
belongs to a forwarding rule leave again under another CID, and the rules come
from setup transactions.

### The rest of the repository

`dmesh-server` (host daemon; its path builder and registry hold state),
`lmesh-wifi`, `rawnan`, `lmesh*` (radio control over netlink, HCI and external
daemons), `dmesh-discovery` (node inventory with expiry), `dmesh-store` (small
persistent store), `uart-codec` (framing and host pairing), `tun` (user-space
TCP proxy), `dmesh-android`, `android-control`, `dmeshtui` (glue, pairing
cryptography, user interface). None of it is modelled yet; `PROJECT.json` gives
the reason for each.

## 2. Modules

| Module | Models | Extended by |
|---|---|---|
| `HeapPacketPool` | the pool, one step per observable atomic access | `PacketLeaseProofs` |
| `CompletionMailbox` | CallbackSlots with the life of a lease around it | `PacketLeaseProofs` |
| `BearerReadiness` | refusal, readiness, wake-up and retry | `MCBearerReadiness`, `BearerReadinessProofs` |
| `SendLedger` | operators on the transmission ledger | `NodeEgress` |
| `NodeEgress` | owner, bearers, network and peer around one ledger | `MCNodeEgress`, `NodeEgressProofs` |
| `AckRanges` | operators on the bounded set of received ranges | `ReceivedPackets` |
| `PacketMemory` | abstract: a set of numbers that gives up only old ones | instantiated by `ReceivedPackets` |
| `ReceivedPackets` | what an endpoint remembers and acknowledges | `ReceivedPacketsProofs` |
| `OrderedDelivery` | operators of callback.rs on one stream | `StreamDelivery` |
| `ReliableStreams` | abstract: the written bytes once, in order, then the end | instantiated by `StreamDelivery` |
| `StreamDelivery` | server mux and client node around ordered delivery | `MCStreamDelivery`, `StreamDeliveryProofs` |
| `CreditExchange` | receiver, network and sender of credit | `MCCreditExchange`, `CreditExchangeProofs` |
| `AssociationLife` | a client node, a server node and the network between them | `AssociationLifeProofs` |
| `SetupTransactionTable` | operators on the relay's retry table | `RelaySetup` |
| `ForwardRules` | operators on the DCID registry | `RelaySetup` |
| `RelaySetup` | one relay node and a network that misbehaves | `MCRelaySetup`, `RelaySetupProofs` |

Operators whose comment begins with "Mutant:" are not part of the model. Each is
a plausible bug, placed before the definition it stands in for, with which the
corresponding property must fail.

### HeapPacketPool

The owner's `resize` walks through the body of the function: it reads the buffer
pointers and allocates, spins for the lock, installs or retires, publishes the
capacity, reclaims and unlocks. A callback's call is a walk of its own; it only
tries the lock. `writers` and `leases` count the handles that Rust's ownership
keeps and are not pool state. Packet bytes are left out, any allocation may
fail, and `MaxLeases` bounds the clones of one lease.

### CompletionMailbox

The lease is the unit of concurrency: it is in the pool, in flight, being pushed,
stored, or popped. Push and pop are split at every atomic access. The assumption
`PoolFitsMailbox` states what the constructor establishes and what a pool that
grows afterwards would break. `Init`, `Next` and the other names of a
specification carry the prefix `Mailbox` here, because `PacketLeaseProofs` extends
this module together with `HeapPacketPool`.

### BearerReadiness

The scans of callbacks and owner over the ready mailbox interleave slot by slot.
`Refused`, `Written`, `PartlyWritten` and `Broken` are the outcomes of the framed
bearer's submit. Submission and the writer's progress hold the bearer's lock and
are single steps. Atomics are sequentially consistent. A bearer whose writer
task has ended is exempt from the properties: nothing in the code says what the
node owes its packet.

### SendLedger and NodeEgress

A ledger is a record of functions, and every operation of `lib.rs` on it is an
operator from ledger to ledger. `NodeEgress` composes them into the handlers of
`node.rs` with their trailing calls: a submission includes what an accepted
packet entails, such as the proactive copy of a stream's tail or of a priority
stream's range (`PriorityRanges`). `RemoveBearer`
suspends the paths it leaves without an address; `SuspendCircuit` and
`ResumeCircuit` do it on request, and a resumed path is usable again when the
answer to its latest challenge arrives (`ProbePath`, `ReceiveResponse`).
`MaxFaults` is one budget for lost packets and ACKs, driver failures, removals,
suspensions, resumptions, and PINGs that the timer sends although records wait
for a probe that is not due yet. When a path is resumed while it is still charged for a
packet (one that was refused earlier and accepted after the suspension), its
flight restarts at zero; `FlightMatchesLedger` is exact for all other
paths and says of such a path (`reset`) that it never counts more than is due. Abstractions: one
association; a range is sent and acknowledged whole; a packet is one unit of
flight; time is abstract, so any packet that a threshold could condemn may be
condemned; control copies, window growth, RTT and pacing are left out; a drain
nested inside the submission of a proactive copy is left out, since it needs a
third bearer to matter. `LineageLimit` is the room of `prior_packets`, sixteen in
the code: of the transmissions of a range whose records were evicted, the ledger
remembers that many, and a later ACK of an older one says nothing to it.
`AckedIsForgotten` therefore exempts a range of which more transmissions were
evicted (`Evicted`) than that; it is tight, since exempting one eviction later
fails. The run has room for one, so that the oldest does give way.

### AckRanges and ReceivedPackets

A set of received ranges is modelled as a set of intervals, its array order being
the order of the numbers. `Insert` extends the newest range on its fast path, or
joins what it touches and gives up the oldest range when the array is full;
`Search` is the binary search of `contains`, whose result the run compares with
plain membership. The floor rises when the peer acknowledges a packet that
carried an ACK. `PacketMemory` says what all this promises, and
`ImplementsPacketMemory` that it is kept. Counters of out-of-order packets are
left out.

### OrderedDelivery and StreamDelivery

`OrderedDelivery` holds what one arriving frame does to one stream: delivered
directly, delivered in part with the rest retained, retained whole, recognised
as old, or refused. `StreamDelivery` puts the endpoint's account and the two
adapters around it: `ServerReceive` tests admission before it acknowledges,
`ClientReceive` does not. Any range that was written may arrive at any time, and
any number of times. Memory may be short at every frame, and the application may
take any part of what it is offered. Assumptions: the small bookkeeping
allocations succeed, a packet carries one frame, and the peer repeats a range
with the boundaries it was first sent with. Sums of bytes over streams are
cardinalities of sets of positions (`AllBytes`), which is what makes them provable. Left out: leased delivery
(`receive_leased`, `done`) and callbacks that return an error.

### CreditExchange

Receiver, network and sender in one module. `Publish` chooses how many of the
waiting streams fit into the packet, `Copy` sends an accepted publication on
another path too, `Acked` is the acknowledgement of the tracked publication or of
its copy, and an ACK of an older one does nothing. `Retire` may happen once the
bytes are consumed, or never: the code tries it at three places (`lib.rs:6868`,
`7307`, `8133`), the last of which may be missed (finding 7). Timers may fire
whenever they are set. Left out: unidirectional streams, streams that the
receiver opens itself, and the delayed-ACK timer.

### AssociationLife

One client node, one server node and the packets between them. Handlers look
only at what is on the wire, connection ID and number, while every packet also
carries, as history, the association it was sent for (`life`). `Tick` ages the
idle clocks; the retries of a bootstrap take less than one tick, as 4 attempts of
the initial probe timeout do against 30 s. A restart loses every association
and keeps the reset key; `FreshSeed` says whether the next connection IDs are
new ones (`initial_local_cid_seed` of hosts, where random 61-bit bases are taken
not to collide) or start from the first again (firmware). `IdsApart` adds that
the two nodes never hand out the same ID. `life` names an association
of the client; two associations that a server admits for repeated OPENs of one
client association have the same `life`, and the properties do not tell them
apart. The network holds at
most `MaxUnderWay` packets and loses what is more. Left out: limits that are
negotiated, cryptography, bootstrap through a relay, several clients, and the
control packet that may precede CLOSE.

### SetupTransactionTable, ForwardRules and RelaySetup

The relay is one node; the network loses, repeats, delays and reorders. A
request an opener may send can arrive at any time and any number of times, and
so can any answer to a request that was forwarded. Clocks are kept as the time
left. `RepeatPathOpen`, `UnroutedPathOpen`, `ForwardPathOpen` and
`LocalPathOpen` are the outcomes of the PATH_OPEN handler, where the last one is
JOIN or CREATE at the endpoint. `RecvPathOpenAck` validates an answer, installs the
pair, then completes the transaction and takes the pair away again when
completion comes too late. `RefusePacket` and `ForwardPacket` check the lease,
take quota and renew. `TimerExpired` sweeps. Abstractions: a reply is one unit of
the reserved bytes; the reverse CID is the next after the forward CID, because the
handler allocates them in a row; how a route is resolved is the constant `Route`;
the endpoint behind an answer is named by the request it was made for, which is
what lets `PathServesOneRequest` say that the two ends belong together. Left
out: requests that do not decode, manually installed rules without a lease
group, the counter of control packets, which nothing reads, and the replay of a
duplicate answer, which changes nothing. CIDs come from a counter that never
returns to a number in use, so the cancellation that follows a failed allocation
in `ForwardPathOpen` (`node.rs:6931`) cannot happen here, and where `LocalPathOpen`
passes over CIDs that the request names (`node.rs:6664`) it takes one number.

## 3. Runs

| Run | Expect | What it shows |
|---|---|---|
| `heap_pool` | pass | storage in use is kept, counts are exact, writers are alone, the reserve holds, stranded storage is reclaimed, a resize ends |
| `completions` | pass | no callback finds the mailbox full, nothing is lost, overwritten or read early, every lease comes back |
| `readiness` | pass | no readiness, partial write or wake-up is lost, a refused packet is taken in the end |
| `egress` | pass | flight is exact, records name their range, nothing is forgotten early or kept after its ACK, with removal, suspension and resumption |
| `egress_live` | pass | with room in the ledger and all bearers present, a FIN is repeated until acknowledged |
| `relay_setup` | pass | counters match the table, pairs are whole, no rule without a grant, replayed grants are live, a path serves one request, transactions end |
| `relay_setup_same_ids` | violation | the answer to one opener completes the transaction of another |
| `received_packets` | pass | the array keeps its form, the search is exact, a packet that may still be under way is not below the floor, `PacketMemory` is implemented |
| `streams` | pass | what is acknowledged is delivered or retained, three accounts of the same bytes agree, some frame or the application can always move the stream, `ReliableStreams` is implemented |
| `client_redelivery` | violation | a client gives a finished response to the application again |
| `credit` | pass | the sender stays within what was granted, no limit is forgotten, every stream the receiver allows is served to its end, although publications and their acknowledgements are lost |
| `association_life` | pass | an acknowledged packet reached the application of its own association, a reset under way names no live association, an end whose peer is gone goes too |

### Bounds and why they are enough

* Pool: three slots, two callbacks, a reserve of one, two clones. Every pair of
  call, resize and final drop can overlap, with slots inside and beyond the
  capacity at the same time.
* Completions: three leases over three slots, the tightest ratio that
  `PoolFitsMailbox` allows, so a scan can be overtaken twice.
* Readiness: two bearers over two slots.
* Egress: two ranges, one of priority and one FIN-only, two paths, two bearers,
  a ledger of two records, a lineage of one, four packet numbers and two faults:
  eviction, rotation of the lineage, copying, reuse of a slot, removal, and
  suspension followed by resumption all occur.
* Egress liveness: one range, path and bearer, since stalls need no company;
  the packet numbers bound the behaviour, and the property allows for their
  exhaustion. The ledger has a record for every packet number and no bearer is
  removed: findings 5 and 6 are what happens otherwise.
* Relay: a table of two entries for three keys, so that `Full` happens; one
  transaction id reused with another body, so that `Conflict` happens; leases
  as short as the retention and longer (the code's defaults are 60 s and 5 s; a
  shorter lease is excluded by the premise of `ReplayedGrantIsLive`); a quota of two with a reserve of one;
  four CIDs (two paths); three routes, so that the second pair does not fit
  beside an endpoint; two forwarded packets. The passing run gives the two
  forwarded transactions different ids; `relay_setup_same_ids` drops that.

* Received packets: a capacity of four ranges, eleven numbers and two packets
  that carry ACKs. A floor is a confirmed number less twice the capacity, so
  numbers up to ten reach it; four ranges make the search take each of its turns.
* Streams: two streams of three bytes in frames of at most two, a window and a
  retention of two bytes: a frame can be taken in part, retained in part and
  refused, and one stream can use up what the other needs. Both adapters are
  initial states. The server's own half is open in `streams`; the client's in
  `client_redelivery` only.
* Credit: two streams of which one may be open, windows of two and one, two
  publications under way: a publication can be overtaken, copied, be made dirty,
  and lose a stream it names, and the second stream waits for MAX_STREAMS. The
  invariants were also checked with three streams of which two may be open
  (`tlc -config MCCreditExchangeWide.cfg MCCreditExchange`, six million states),
  and all three properties with three streams of one byte, of which two may be
  open, and one publication under way.
* Association life: two associations of the client, two connection IDs and one
  table entry at the server, two OPENs per bootstrap, packet numbers to 2, two
  packets under way, one copy or restart. A late OPEN makes an association
  nobody uses, the table is found full, and a restart is followed by packets and
  resets for IDs that are gone. The invariants were also checked with three
  server IDs and two faults (1.7 million states), and all properties with two
  table entries at packet numbers to 1.

`CHECK_DEADLOCK FALSE` appears where the system really may stop: in the readiness
run when every writer task has ended, in the egress runs when the packet numbers
are used up, in the credit run when everything was sent, and in the association
run when every association has ended.

### Fairness

* Driver callbacks and tasks run to completion (`WF` on their steps), and the
  owner, notified by every push, polls (`WF` on its steps). This is what the
  executor and interrupt context provide.
* `SF` on taking the pool lock: callbacks hold it for finitely many steps and the
  owner spins, so it does not lose every race.
* `SF` on the completion of a started frame and on the acceptance of a retried
  packet: a carrier whose peer keeps reading does not refuse for ever.
* `WF` on delivery of packets that are not dropped, with finitely many drops.
* Credit: the owner polls, reads and writes go on, not every publication lacks
  room, a frame that is sent again and again is heard, and a tracked publication
  is not outrun by its repetition every time (it waits for several probe
  timeouts before it is repeated). Every clause is about repetition that the
  code does; none says that a given packet arrives. Nothing is assumed of grants,
  copies and retirements: the code may miss a retirement (finding 7), and
  `AdmittedIsServed` promises nothing to a stream that waits for one.
* Associations: time passes and due timers are served. The network and the
  applications owe nothing.
* Relay: the clock advances and the timer is served when due. Openers and the
  network are under no fairness at all.

## 4. Findings

The first two are `violation` runs, whose property states what a comment or a
document of the repository says; `PROJECT.json` quotes it.

1. `validate_downstream_reply` (`relay.rs:332`) leaves the previous hop out of the
   match, while transaction ids of different openers coincide, because each node
   counts from one (`relay_setup_same_ids`).
2. A client suppresses repeats only of streams that the endpoint has retired, not
   of those whose receive side is complete (`node.rs:8358`): until its own half is
   acknowledged, a repeated response is delivered again (`client_redelivery`).

The others have a configuration of their own, to be run by hand. Each checks one
property, which TLC finds violated.

3. `HeapPacketPool::resize` decides which slots need storage before it takes
   the lock (`heap_packet_pool.rs:129`), and may publish a capacity that counts a
   slot without storage:
   `tlc -config HeapPacketPoolCapacity.cfg HeapPacketPool`.
4. `send_ready` coalesces only with the first slot that is empty or its own
   (`bearer.rs:1046`), although "Coalesce repeats so callbacks cannot fill the
   mailbox with duplicates" (`bearer.rs:1051`): two bearers fill three slots and the
   next callback panics:
   `tlc -config MCBearerReadinessFull.cfg MCBearerReadiness`.
5. `remove_bearer` (`node.rs:1181`) drops a retained packet and leaves its record
   waiting for an acceptance that cannot come:
   `tlc -config MCNodeEgressRemove.cfg MCNodeEgress`.
6. With a full ledger and no packet declared lost (`lib.rs:8833`), a PTO probe is
   refused with HistoryFull and recovery stops, although "A PTO probe must be able
   to elicit an ACK even when lost copies have filled the window" (`lib.rs:7732`):
   `tlc -config MCNodeEgressFull.cfg MCNodeEgress`.
7. A stream is tried for retirement only when an ACK covers its FIN
   (`lib.rs:8132`), and not while earlier data is unacknowledged. When the FIN is
   acknowledged first, nothing tries again and the stream keeps its slot:
   `tlc -config MCStreamDeliveryRetire.cfg MCStreamDelivery`.
8. A client whose OPEN_ACK is lost or overtaken by the server's first packet takes
   its own connection ID for the peer's (`connection.rs:845`, kept for older peers)
   and sends to an ID the server does not know; the OPEN_ACK that follows is
   refused, so nothing the client sends reaches the association:
   `tlc -config AssociationLifeFirst.cfg AssociationLife`.
9. The endpoint of a client accepts a frame and tries to retire its stream before
   ordered delivery looks for a slot (`lib.rs:6859`, `callback.rs:408`). A stream that
   is nothing but a FIN, in a client whose slots are all taken and whose own half
   is acknowledged, is retired although the application never heard of it; the
   repetition is acknowledged as that of a retired stream, and the end is lost. It
   takes `max_pending_streams` below the number of streams with data under way.
   The attempt to prove `AckedIsHeld` brought it out:
   `tlc -config MCStreamDeliverySlots.cfg MCStreamDelivery`.

With `FreshSeed = FALSE` the safety properties of `AssociationLife` fail as well:
a firmware node that restarts reuses connection IDs its peer still holds, as the
comment at `tokio.rs:48` says.

They also need the IDs of the two nodes to be apart (`IdsApart`), which the attempt
to prove them brought out. When the server's first packet overtakes its OPEN_ACK,
the client takes its own connection ID for the peer's (finding 8). If that number
is the server's ID of another association, the client's packets reach that one and
are acknowledged there: with `FirstServerCid = 2`, `MaxAssociations = 2` and
`MaxFaults = 0`, TLC finds `AckedIsDelivered` violated. Two hosts draw random bases,
so their IDs are apart for practical purposes; two nodes of one process have
neighbouring bases (`tokio.rs:56`) that meet after one association, and firmware
counts from one on both sides.

## 5. Proofs

All theorems hold for every value of the constants that satisfies the named
assumptions, and are checked to the last leaf.

| Module | Theorems |
|---|---|
| `PacketLeaseProofs` | pool: `TypeCorrect`, `StorageSafety`, `ReferenceSafety`, `ReserveIsKept`; mailbox: `PushSafety`, `SlotSafety`, `PopSafety` |
| `BearerReadinessProofs` | `NoLostReadiness`, `NoAbandonedWrite`, `NoMissedWake` |
| `NodeEgressProofs` | `ChargesMatch`, `RecordsAreNotMisled`, `NothingForgottenEarly`, `AckedRangesAreReleased`, `RangesStayRecoverable` |
| `ReceivedPacketsProofs` | `RangesKeepForm`, `ReceivedIsMemory`, `SearchIsExact`, `LatePacketsAreWelcome` |
| `CreditExchangeProofs` | `CreditTypes`, `NothingUngranted`, `CreditNeverForgotten` |
| `RelaySetupProofs` | `RelayTypes`, `CountersNeverLeak`, `PathsAreWhole`, `NoOrphanRules`, `ReplayedGrantsAreLive`, `PathsServeOneTransaction` |
| `AssociationLifeProofs` | `IdsNameOneLife`, `AcknowledgedIsDelivered`, `ResetsSpareTheLiving` |
| `StreamDeliveryProofs` | `ReliableStreamsTheorem`, `AckedIsHeldTheorem`, `AccountsAgreeTheorem`, `NothingStallsTheorem`, `DeliveredOnceTheorem` |

Every invariant, safety action property and refinement that a passing run checks is
stated by one of them, except `PathServesOneRequest`: it holds in the run because the
two forwarded requests have different transaction ids, which nothing in the code
ensures (finding 1). What is proved for all ids is `OnlyEqualIdsMix`: the two ends of a
path asked under one id through one next hop. TLC agrees, also on the
configuration of `relay_setup_same_ids`.

Beyond the named assumptions, four hypotheses appear in theorems. Each is met by
the run that checks the property, and each is needed: without it TLC finds the
property violated.

| Hypothesis | Theorems | Without it |
|---|---|---|
| `IdsApart`: fresh connection IDs after a restart, and different ones at the two nodes | all of `AssociationLifeProofs` | the end of section 4 |
| `Removable = {}`: no bearer is removed | `RangesStayRecoverable` | finding 5 |
| `Served`: a server, or a client that has nothing of its own unacknowledged on its streams and a slot for each of them | all of `StreamDeliveryProofs` | findings 2 and 9 |
| `Window <= RetentionLimit`: a whole window can be retained, which `retention_for_receive_window` (`callback.rs:309`) establishes unless `max_buffered_stream_bytes` is configured smaller (`node.rs:2915`) | `NothingStallsTheorem` | `MCStreamDelivery.cfg` with `Window = 3` |

**Pool.** The reference counts and the existence of storage are inductive
together: storage is freed only under the lock from a count of zero, which the
count's relation to the handles turns into "nobody holds the slot".
`ReserveIsKept`, an action property, adds `LockHeld` (who is inside a critical
section holds the lock) and `SpareKnown` (a callback about to claim a slot has more
free slots than the reserve): between the count and the claim the others can only
drop handles, which frees slots and never takes one.

**Mailbox.** That a scan never runs off the end is not inductive. The
strengthening is `CrowdBound`: at most `Capacity - i` leases are at or beyond
slot `i`, because a producer passes a slot only while another lease occupies it.
It rests on `PoolFitsMailbox` and on cardinality lemmas.

**Readiness.** Each of the three properties needs the others' bookkeeping:
where the owner is in its scan, whether a permit is held, and that a task at a
given point has published or will.

**Node egress.** The inductive invariant `Inv` speaks of a ledger and of what
surrounds it. `LedgerOK` says which records and evicted packets stand for which
range: unused numbers have no record (`Fresh`), a record and an evicted packet
name a slot only while it holds their range (`SlotsNamed`, `PriorsNamed`), every
packet that carried a retained range is known (`Known`, while its evictions are
`Few`), a slot remembers no more evictions than its range has suffered
(`Lineage`), and a retained range has a record (`Recorded`). The evictions of a
range only grow while it is retained (`MoreEvicted`), so when they are few now, no
rotation has dropped one before; this is why `AckedRangesAreReleased` needs no
bound on the packets of an association. `Charged` compares each
path's flight with a count of its records; `NotBlocked` says that what left a
bearer is not waiting in one; `ForgottenOK` and `AckedOK` tie the ledger to what the
peer received. There is one lemma per ledger operation, from a ledger to a
ledger, then lemmas for a submission with the copies it entails, then one per
action. Saturating subtraction would hide a packet that is discharged twice; the
proof shows that it never saturates on a path that was not resumed.
Recoverability adds `Held`: a refused packet waits in some bearer.

**Received packets.** The refinement needs an invariant of its own: the ranges
keep their form, they are finitely many, and no number an ACK has carried is
above the highest received. It does not need the binary search to be exact: a
number that a range already holds touches that range alone, so inserting it again
changes nothing and the step is a stutter of `PacketMemory`. `SearchIsExact` is a
statement about a recursive function. Instead of an induction principle its
proof uses that a set of naturals has a least element: once to show that the
recursion has a solution (`SearchDefined`), and once to show that there is no
smallest window on which the answer is wrong (`SearchExact`), one round of the
search being exact (`ProbeExact`). Positions of the array are ranks, and a rank
names exactly one range (`AtIs`). `LatePacketsAreWelcome` follows with `Late`: the
floor stays a span below the newest number, and what the ranges hold was received.

**Credit.** `GrantedOnly` needs that limits lead (`LimitsLead`: what was consumed
is within what was granted, and what is under way or known within the limits).
`NoCreditForgotten` needs to say of every stream where its credit is: waiting in
the list, in the publication in flight, or known to the sender (`Waiting`,
`Tracked`, `Settled`), together with the lengths of the list and of its part in
flight (`Lengths`). `Tracked` speaks of the publication and of its copy, since the
ACK of either settles it. A retirement moves positions in the list, which is what most
of the lemmas are about.

**Relay.** The inductive invariant has four parts: types; `Counted` (the counters
are a recount); `Paired`, which adds to `PairsWhole` that both rules name the
group of the pair; and `CidsOK`, which adds to `NoRuleWithoutGrant` that the
CIDs of two relayed transactions differ and that the CID counter is ahead of
everything registered. Without the last part an answer could install its pair on
the CIDs of another transaction. The lemmas are one per table or registry
operation, then one per action. On top of it, `GrantsLive` says that the lease of a
granted pair outlasts the retention of the reply that grants it, and `Asked` that
the request of a forwarded entry was one its opener sent, routed to the entry's hop.
With `Asked`, an answer can only complete a transaction of its own id at its own
hop, which is `OnlyEqualIdsMix`.

**Association life.** `IdInv` says what a connection ID stands for: IDs of the
client number its associations, IDs of the server are spent once, every packet
under way names an ID of the association it was sent for or one that is gone
(`PacketsOK`), and a server ID that anybody takes for some association's, in a
table, in a packet or as a peer, is taken for that of one only (`MentionsOK`). Handlers look only at IDs and numbers, so this is what makes the
history variables agree with them.

**Streams.** The proof goes from one stream to all. Frames of a stream do not
overlap and leave no gap (`InOrder`, `Covers`), and a retained range is what is left
of one frame behind the cursor (`Waiting`). On these, `DeliverFacts` says of every
branch of ordered delivery (direct, direct in part, retained, old, refused) what it
may do: `Delivers` relates the frames it was given, the cursor and ranges before
and after, the bytes taken, stored and released, the end and the refusal. The
inductive invariant `StreamsInv` then says that a stream is one of two things.
While it is `Open`, the application was given exactly the bytes before the cursor,
every acknowledged frame behind the cursor is retained, and an end that the
endpoint has seen is still ahead (`Sound`, `Going`); this last part is what keeps the
endpoint from retiring a stream whose end was not given. When it is `Over`,
everything and the end was given, the slot is free, and repeats change nothing but
what is acknowledged. Every step is a write, a delivery to one stream (`Forward`)
or nothing to the streams (`StepKinds`); these are the steps of `ReliableStreams`
and its stutters. `BytesInv` adds that the counters are cardinalities of sets of
positions and that the peer wrote within its credit. For `NothingStalls`, what is
retained and what is left of the frame at the cursor are disjoint, written, and
not given, so together they are at most a window, and admission cannot refuse
that frame.

### Only model-checked

* Liveness (`StrandedIsReclaimed`, `ResizeEnds`, `CompletedIsReturned`,
  `RefusedIsTaken`, `RecoveryNeverStalls`, `TransactionsEnd`, `AdmittedIsServed`,
  `OrphansEnd`): outside the prover's reach.

Induction over data is outside its reach too. It was needed twice, for the binary
search and for the place up to which retained ranges reach (`ReachFacts`), and is
replaced there by the least element of a set of naturals.

## 6. Not modelled, and the plan

Not modelled in the parts above: weak memory ordering; the wire format;
congestion-window growth, RTT and pacing; periodic probes of validated paths;
leased delivery and callback errors; several frames in one packet; negotiation of
limits; more than one association per node beside `AssociationLife`. A
relaxed load in `send_ready` (`bearer.rs:1046`) and a pool that grows after its node
was built (`node.rs:2126`) lie outside the models.

Order of further work, most important first:

1. The opener's circuits and the bootstrap through a relay, with `RelaySetup` as
   the environment and `AssociationLife` at the ends.
2. Leased delivery of `callback.rs`, and packets with several frames.
3. `StreamDelivery` composed with `SendLedger`, so that the repetition of ranges
   is generated and not assumed.
4. Fixed packet pool and peer table, by refinement of the discipline of
   `HeapPacketPool` if it fits.
5. Outside quic-lite: `uart-codec` host pairing, `rawnan` now_sync,
   `dmesh-server` path builder and registry, `dmesh-discovery` engine,
   `dmesh-store`, `tun` TCP proxy, `lmesh-wifi` mesh_core.
6. Proofs: `AckedIsHeld` for a client that is still sending, once finding 2 is
   fixed, which would drop the first half of `Served`.

Runs are kept to one per question; a finding that is fixed in the code makes its
configuration a passing run.
