--------------------------- MODULE AssociationLife --------------------------
(***************************************************************************)
(* The life of quic-lite associations between a client node and a server   *)
(* node (node.rs, connection.rs): OPEN with its retries, admission and     *)
(* replay at the server, OPEN_ACK, packets that are routed by connection   *)
(* ID alone, CLOSE, idle timeout, stateless reset, and restarts that lose  *)
(* everything but the reset key.                                           *)
(*                                                                         *)
(* The network loses and delays packets and, at the cost of a fault,       *)
(* copies them.  A packet's `life' says for which association of the       *)
(* client it was sent.  It is history: no handler looks at it.             *)
(***************************************************************************)
EXTENDS Integers, FiniteSets

CONSTANTS
  Attempts,          \* CLIENT_BOOTSTRAP_ATTEMPTS
  MaxAssociations,   \* node_limits.max_associations of the server
  FirstServerCid,    \* the server's first connection ID
  FreshSeed,         \* whether a node that restarts goes on to unused IDs
                     \* (tokio) or counts from its first one (firmware)
  IdleLimit,         \* idle_timeout_us, in ticks
  Lives,             \* bound: associations of the client
  ServerCids,        \* bound: connection IDs the server hands out
  MaxNumber,         \* bound: packet numbers of one side of an association
  MaxUnderWay,       \* bound: packets under way at a time
  MaxFaults          \* bound: copies and restarts

ASSUME LifeAssumption ==
  /\ Attempts \in Nat \ {0} /\ MaxAssociations \in Nat /\ FirstServerCid \in Nat \ {0}
  /\ FreshSeed \in BOOLEAN /\ IdleLimit \in Nat \ {0}
  /\ Lives \in Nat /\ ServerCids \in Nat /\ MaxNumber \in Nat
  /\ MaxUnderWay \in Nat /\ MaxFaults \in Nat

NoCid == 0

\* The IDs of restarts are fresh, and those of the two nodes are apart: what
\* the random bases of two host processes give, and neither firmware nor two
\* nodes of one process do.
IdsApart == FreshSeed /\ Lives < FirstServerCid

VARIABLES
  client,      \* the client's association, or NoClient
  clientCid,   \* next_local_cid of the client
  lives,       \* how many associations the client has started
  servers,     \* the server's associations, by its connection ID
  serverCid,   \* next_local_cid of the server
  handed,      \* how many connection IDs the server has handed out
  net,         \* packets under way
  faults,
  misled       \* history: data packets that were acknowledged and not given to
               \* the application of their own association

vars == <<client, clientCid, lives, servers, serverCid, handed, net, faults, misled>>
clientSide == <<client, clientCid, lives>>
serverSide == <<servers, serverCid, handed>>

\* What both kinds of association keep: the packets received, the next
\* number to send, the ticks since the last activity, and
\* ack_eliciting_sent_since_receive.
Endpoint(number) == [heard |-> {}, number |-> number, quiet |-> 0, spoke |-> FALSE]

\* `peer' is the peer's connection ID, `token' the one whose reset token is
\* known, `attempt' the next OPEN of the bootstrap.
NewClient(life, cid) ==
  [life |-> life, cid |-> cid, peer |-> NoCid, token |-> NoCid,
   attempt |-> 1, end |-> Endpoint(0)]
NoClient == NewClient(0, NoCid)

Connected == client.cid # NoCid
Established == Connected /\ client.peer # NoCid
Bootstrapping == Connected /\ client.peer = NoCid

NewServer(life, cid, number) == [life |-> life, peer |-> cid, end |-> Endpoint(number)]

Open(c, number) == [type |-> "open", to |-> "server", cid |-> c.cid, number |-> number, life |-> c.life]
OpenAck(life, cid, server) ==
  [type |-> "ack", to |-> "client", cid |-> cid, server |-> server, life |-> life]
Short(type, to, cid, number, life) ==
  [type |-> type, to |-> to, cid |-> cid, number |-> number, life |-> life]
Reset(to, cid) == [type |-> "reset", to |-> to, cid |-> cid]

\* A full network loses what it is given.
Carry(packets, new) ==
  IF Cardinality(packets \cup {new}) <= MaxUnderWay THEN packets \cup {new} ELSE packets

Init ==
  /\ client = NoClient /\ clientCid = 1 /\ lives = 0
  /\ servers = [s \in {} |-> NewServer(0, NoCid, 0)]
  /\ serverCid = FirstServerCid /\ handed = 0
  /\ net = {} /\ faults = 0 /\ misled = {}

-----------------------------------------------------------------------------
(* Activity and the idle timeout.                                          *)

\* remember_address, remember_ingress_path_address.
Active(e) == [e EXCEPT !.quiet = 0, !.spoke = FALSE]

\* Mutant: every packet that is sent restarts the idle timeout.
SpokeAlways(e) == [e EXCEPT !.quiet = 0, !.spoke = TRUE]

\* packet_submission_accepted of an ack-eliciting packet: only the first
\* one since something was received restarts the idle timeout.
Spoke(e) == IF e.spoke THEN e ELSE [e EXCEPT !.quiet = 0, !.spoke = TRUE]

\* The next packet takes the next number.
SpokeNew(e) == [Spoke(e) EXCEPT !.number = @ + 1]

Older(e) == [e EXCEPT !.quiet = IF @ < IdleLimit THEN @ + 1 ELSE @]

\* All retries of a bootstrap take less than one tick.
Tick ==
  /\ ~Bootstrapping
  /\ client' = IF Connected THEN [client EXCEPT !.end = Older(@)] ELSE client
  /\ servers' = [s \in DOMAIN servers |-> [servers[s] EXCEPT !.end = Older(@)]]
  /\ <<client, servers>>' # <<client, servers>>
  /\ UNCHANGED <<clientCid, lives, serverCid, handed, net, faults, misled>>

Without(s) == [t \in DOMAIN servers \ {s} |-> servers[t]]

\* remove, which takes the association and its route together.
DropClient == client' = NoClient /\ UNCHANGED <<clientCid, lives>>
DropServer(s) == servers' = Without(s) /\ UNCHANGED <<serverCid, handed>>

ClientIdle ==
  /\ Connected /\ client.end.quiet = IdleLimit
  /\ DropClient
  /\ UNCHANGED <<serverSide, net, faults, misled>>

ServerIdle(s) ==
  /\ servers[s].end.quiet = IdleLimit
  /\ DropServer(s)
  /\ UNCHANGED <<clientSide, net, faults, misled>>

-----------------------------------------------------------------------------
(* The client's bootstrap: start_association, timer_expired.               *)

Associate ==
  /\ ~Connected /\ lives < Lives
  /\ lives' = lives + 1
  /\ clientCid' = clientCid + 1
  /\ client' = NewClient(lives + 1, clientCid)
  /\ net' = Carry(net, Open(client', 0))
  /\ UNCHANGED <<serverSide, faults, misled>>

RetryOpen ==
  /\ Bootstrapping /\ client.attempt < Attempts
  /\ client' = [client EXCEPT !.attempt = @ + 1]
  /\ net' = Carry(net, Open(client, client.attempt))
  /\ UNCHANGED <<clientCid, lives, serverSide, faults, misled>>

BootstrapTimedOut ==
  /\ Bootstrapping /\ client.attempt >= Attempts
  /\ DropClient
  /\ UNCHANGED <<serverSide, net, faults, misled>>

-----------------------------------------------------------------------------
(* Arrivals.  `rest' is the network after the packet was taken from it.  A *)
(* packet that would change nothing is like one that is lost: an OPEN that *)
(* the application declines, an OPEN_ACK or a reset that fits nobody.  So  *)
(* is a reset that is not sent, for want of a key or of length.            *)

\* The association an OPEN belongs to: by the client's connection ID, not
\* by the address it came from.
Replay(m) == {s \in DOMAIN servers : servers[s].peer = m.cid}

ReplayOpen(m, rest) ==
  \E s \in Replay(m) :
    /\ servers' = [servers EXCEPT ![s].end = Active(@)]
    /\ net' = Carry(rest, OpenAck(m.life, m.cid, s))
    /\ UNCHANGED <<clientSide, serverCid, handed, misled>>

\* allocate_local_cid passes over IDs in use; the client's own number is
\* passed over too.
NextFree(cid) ==
  CHOOSE s \in serverCid .. serverCid + Cardinality(DOMAIN servers) + 1 :
    /\ s \notin DOMAIN servers \cup {cid}
    /\ \A t \in serverCid .. s - 1 : t \in DOMAIN servers \cup {cid}

\* accept_initial: the ID is spent although the table may be full.
AdmitOpen(m, rest) ==
  LET s == NextFree(m.cid)
      full == Cardinality(DOMAIN servers) >= MaxAssociations
  IN  /\ Replay(m) = {} /\ handed < ServerCids
      /\ serverCid' = s + 1 /\ handed' = handed + 1
      /\ servers' = IF full THEN servers
                    ELSE [t \in DOMAIN servers \cup {s} |->
                            IF t = s THEN NewServer(m.life, m.cid, m.number + 1) ELSE servers[t]]
      /\ net' = IF full THEN rest ELSE Carry(rest, OpenAck(m.life, m.cid, s))
      /\ UNCHANGED <<clientSide, misled>>

\* receive_open_ack_packet.  The acknowledgement of another association
\* than the established one is refused.
RecvOpenAck(m, rest) ==
  /\ Connected /\ m.cid = client.cid /\ client.peer \in {NoCid, m.server}
  /\ client' = [client EXCEPT
       !.peer = m.server,
       !.token = IF Bootstrapping THEN m.server ELSE @,
       !.end = Active(IF Bootstrapping THEN [@ EXCEPT !.number = client.attempt] ELSE @)]
  /\ net' = rest
  /\ UNCHANGED <<clientCid, lives, serverSide, misled>>

\* A number that was received before is acknowledged again and its data
\* not delivered.
Duplicate(e, m) == \E h \in e.heard : h.number = m.number
Heard(e, m) == [Active(e) EXCEPT !.heard = IF Duplicate(e, m) THEN @ ELSE @ \cup {m}]

\* Packet m is acknowledged by an endpoint of association `life'.
Acknowledge(e, m, life) ==
  misled' = IF life = m.life /\ m \in Heard(e, m).heard THEN misled ELSE misled \cup {m}

\* receive_initial_short_header: a client that has no OPEN_ACK yet takes
\* its own connection ID for the peer's, and learns no reset token.
Symmetric(c) ==
  IF c.peer = NoCid
    THEN [c EXCEPT !.peer = c.cid, !.end = [@ EXCEPT !.number = c.attempt]]
    ELSE c

ClientData(m, rest) ==
  /\ Connected /\ m.cid = client.cid
  /\ client' = [Symmetric(client) EXCEPT !.end = Heard(@, m)]
  /\ Acknowledge(client.end, m, client.life)
  /\ net' = rest
  /\ UNCHANGED <<clientCid, lives, serverSide>>

ServerData(m, rest) ==
  /\ m.cid \in DOMAIN servers
  /\ servers' = [servers EXCEPT ![m.cid].end = Heard(@, m)]
  /\ Acknowledge(servers[m.cid].end, m, servers[m.cid].life)
  /\ net' = rest
  /\ UNCHANGED <<clientSide, serverCid, handed>>

ClientClosed(m, rest) ==
  /\ Connected /\ m.cid = client.cid
  /\ DropClient /\ net' = rest
  /\ UNCHANGED <<serverSide, misled>>

ServerClosed(m, rest) ==
  /\ m.cid \in DOMAIN servers
  /\ DropServer(m.cid) /\ net' = rest
  /\ UNCHANGED <<clientSide, misled>>

\* A short packet for an unknown connection ID is answered with that ID's
\* reset token.
Unknown(m, rest) ==
  /\ IF m.to = "client" THEN ~Connected \/ m.cid # client.cid
                        ELSE m.cid \notin DOMAIN servers
  /\ net' = Carry(rest, Reset(IF m.to = "client" THEN "server" ELSE "client", m.cid))
  /\ UNCHANGED <<clientSide, serverSide, misled>>

\* A token is the peer's, for the connection ID the peer issued.
ClientReset(m, rest) ==
  /\ Connected /\ client.token = m.cid
  /\ DropClient /\ net' = rest
  /\ UNCHANGED <<serverSide, misled>>

ServerReset(m, rest) ==
  \E s \in DOMAIN servers :
    /\ servers[s].peer = m.cid
    /\ DropServer(s) /\ net' = rest
    /\ UNCHANGED <<clientSide, misled>>

Arrive(m, rest) ==
  \/ m.type = "open" /\ (ReplayOpen(m, rest) \/ AdmitOpen(m, rest))
  \/ m.type = "ack" /\ RecvOpenAck(m, rest)
  \/ m.type = "data" /\ m.to = "client" /\ ClientData(m, rest)
  \/ m.type = "data" /\ m.to = "server" /\ ServerData(m, rest)
  \/ m.type = "close" /\ m.to = "client" /\ ClientClosed(m, rest)
  \/ m.type = "close" /\ m.to = "server" /\ ServerClosed(m, rest)
  \/ m.type \in {"data", "close"} /\ Unknown(m, rest)
  \/ m.type = "reset" /\ m.to = "client" /\ ClientReset(m, rest)
  \/ m.type = "reset" /\ m.to = "server" /\ ServerReset(m, rest)

Deliver(m) == Arrive(m, net \ {m}) /\ UNCHANGED faults

DeliverCopy(m) == faults < MaxFaults /\ faults' = faults + 1 /\ Arrive(m, net)

Lose(m) == net' = net \ {m} /\ UNCHANGED <<clientSide, serverSide, faults, misled>>

-----------------------------------------------------------------------------
(* Traffic.                                                                *)

ClientSend ==
  /\ Established /\ client.end.number <= MaxNumber
  /\ net' = Carry(net, Short("data", "server", client.peer, client.end.number, client.life))
  /\ client' = [client EXCEPT !.end = SpokeNew(@)]
  /\ UNCHANGED <<clientCid, lives, serverSide, faults, misled>>

ServerSend(s) ==
  /\ servers[s].end.number <= MaxNumber
  /\ net' = Carry(net, Short("data", "client", servers[s].peer, servers[s].end.number, servers[s].life))
  /\ servers' = [servers EXCEPT ![s].end = SpokeNew(@)]
  /\ UNCHANGED <<clientSide, serverCid, handed, faults, misled>>

\* A repetition that is lost leaves nothing but the time it was sent.
ClientRepeats ==
  /\ Established
  /\ client' = [client EXCEPT !.end = Spoke(@)]
  /\ UNCHANGED <<clientCid, lives, serverSide, net, faults, misled>>

ServerRepeats(s) ==
  /\ servers' = [servers EXCEPT ![s].end = Spoke(@)]
  /\ UNCHANGED <<clientSide, serverCid, handed, net, faults, misled>>

\* close_association: CLOSE leaves and the association is gone at once.  A
\* bootstrapping client cannot be closed.
ClientClose ==
  /\ Established /\ DropClient
  /\ net' = Carry(net, Short("close", "server", client.peer, client.end.number, client.life))
  /\ UNCHANGED <<serverSide, faults, misled>>

ServerClose(s) ==
  /\ DropServer(s)
  /\ net' = Carry(net, Short("close", "client", servers[s].peer, servers[s].end.number, servers[s].life))
  /\ UNCHANGED <<clientSide, faults, misled>>

-----------------------------------------------------------------------------
(* Restarts.                                                               *)

\* Mutant: a node counts its connection IDs from the first again.
SeedAgain(next, first) == first

\* initial_local_cid_seed.
Seed(next, first) == IF FreshSeed THEN next ELSE first

RestartClient ==
  /\ faults < MaxFaults /\ faults' = faults + 1
  /\ Connected /\ client' = NoClient /\ clientCid' = Seed(clientCid, 1)
  /\ UNCHANGED <<lives, serverSide, net, misled>>

RestartServer ==
  /\ faults < MaxFaults /\ faults' = faults + 1
  /\ DOMAIN servers # {}
  /\ servers' = [s \in {} |-> NewServer(0, NoCid, 0)]
  /\ serverCid' = Seed(serverCid, FirstServerCid)
  /\ UNCHANGED <<clientSide, handed, net, misled>>

-----------------------------------------------------------------------------

ClientNext ==
  \/ Associate \/ RetryOpen \/ BootstrapTimedOut \/ ClientIdle
  \/ ClientSend \/ ClientRepeats \/ ClientClose \/ RestartClient

ServerNext ==
  \/ \E s \in DOMAIN servers :
       ServerIdle(s) \/ ServerSend(s) \/ ServerRepeats(s) \/ ServerClose(s)
  \/ RestartServer

NetworkNext == \E m \in net : Deliver(m) \/ DeliverCopy(m) \/ Lose(m)

Next == Tick \/ ClientNext \/ ServerNext \/ NetworkNext

Spec == Init /\ [][Next]_vars

\* Timers are served and time passes; the network and the applications owe
\* nothing.
Fairness ==
  /\ WF_vars(Tick) /\ WF_vars(RetryOpen \/ BootstrapTimedOut)
  /\ WF_vars(ClientIdle) /\ WF_vars(\E s \in DOMAIN servers : ServerIdle(s))

FairSpec == Spec /\ Fairness

-----------------------------------------------------------------------------

\* A data packet that was acknowledged was given to the application of the
\* association it was sent for, whatever was retried, replayed, closed,
\* reset or restarted: packets are matched by connection ID and number
\* alone, so an ID that comes back would have them taken for duplicates or
\* for packets of another association.
AckedIsDelivered == misled = {}

\* No reset under way would end a live association: the ID it names is not
\* handed out again.
ResetsNameTheDead ==
  \A m \in net : m.type = "reset" =>
    /\ m.to = "client" /\ Connected /\ client.token = m.cid => m.cid \notin DOMAIN servers
    /\ m.to = "server" /\ Connected /\ client.cid = m.cid =>
         \A s \in DOMAIN servers : servers[s].peer # m.cid

\* The two ends know each other: an established client sends to an ID that
\* the server issued for it ("The current bootstrap wire contract requires
\* distinct numeric client and server CIDs").
EndsAgree == Established => client.peer # client.cid

HasServer(l) == \E s \in DOMAIN servers : servers[s].life = l

\* An association whose other end is gone ends too (unless a late OPEN
\* gives a client its server), although the node repeats its packets for
\* ever: "Retransmissions cannot keep a silent peer alive."
OrphansEnd ==
  \A l \in 1 .. Lives :
    /\ (client.life = l /\ ~HasServer(l)) ~> (client.life # l \/ HasServer(l))
    /\ (HasServer(l) /\ client.life # l) ~> ~HasServer(l)
=============================================================================
