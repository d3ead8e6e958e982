----------------------- MODULE AssociationLifeProofs ------------------------
(***************************************************************************)
(* Proofs about AssociationLife: under IdsApart, what is acknowledged was  *)
(* delivered to its own association, and no reset under way names a live   *)
(* association.                                                            *)
(***************************************************************************)
EXTENDS AssociationLife, FiniteSetTheorems, TLAPS

Sides == {"client", "server"}
OpenPackets == [type : {"open"}, to : {"server"}, cid : Nat, number : Nat, life : Nat]
AckPackets == [type : {"ack"}, to : {"client"}, cid : Nat, server : Nat, life : Nat]
ShortPackets == [type : {"data", "close"}, to : Sides, cid : Nat, number : Nat, life : Nat]
ResetPackets == [type : {"reset"}, to : Sides, cid : Nat]
Packets == OpenPackets \cup AckPackets \cup ShortPackets \cup ResetPackets

Endpoints == [heard : SUBSET ShortPackets, number : Nat, quiet : Nat, spoke : BOOLEAN]
ClientStates ==
  [life : Nat, cid : Nat, peer : Nat, token : Nat, attempt : Nat, end : Endpoints]
ServerStates == [life : Nat, peer : Nat, end : Endpoints]

TypeOK ==
  /\ client \in ClientStates /\ clientCid \in Nat /\ lives \in Nat
  /\ IsFiniteSet(DOMAIN servers) /\ DOMAIN servers \subseteq Nat
  /\ servers \in [DOMAIN servers -> ServerStates]
  /\ serverCid \in Nat
  /\ net \subseteq Packets

\* What the endpoint of an association has heard: data sent to its own ID
\* for its own life, so that two packets of one number are one packet.
OwnData(heard, to, cid, life) ==
  \A h \in heard : h.type = "data" /\ h.to = to /\ h.cid = cid /\ h.life = life

\* The client's IDs number its lives.
ClientOK ==
  /\ clientCid = lives + 1 /\ lives <= Lives
  /\ client.cid = client.life /\ client.cid <= lives
  /\ OwnData(client.end.heard, "client", client.cid, client.life)

ServersOK ==
  /\ serverCid >= FirstServerCid
  /\ \A s \in DOMAIN servers :
       /\ FirstServerCid <= s /\ s < serverCid
       /\ servers[s].peer = servers[s].life /\ servers[s].peer <= lives
       /\ OwnData(servers[s].end.heard, "server", s, servers[s].life)

\* What a packet under way may name.
PacketOK(m) ==
  /\ m.type = "open" => m.cid = m.life /\ m.cid <= lives
  /\ m.type \in {"ack", "data", "close"} /\ m.to = "client" => m.cid = m.life /\ m.cid <= lives
  /\ m.type \in {"data", "close"} /\ m.to = "server" => m.cid < serverCid
  /\ m.type = "reset" /\ m.to = "client" => m.cid < serverCid /\ m.cid \notin DOMAIN servers
  /\ m.type = "reset" /\ m.to = "server" => m.cid <= lives /\ ~(Connected /\ client.cid = m.cid)

PacketsOK == \A m \in net : PacketOK(m)

\* Somebody takes s for the server's ID of life l.
Mention(s, l) ==
  \/ s \in DOMAIN servers /\ servers[s].life = l
  \/ \E m \in net : m.type = "ack" /\ m.server = s /\ m.life = l
  \/ \E m \in net : m.type = "data" /\ m.to = "server" /\ m.cid = s /\ m.life = l
  \/ Established /\ client.peer = s /\ client.life = l

\* An ID is mentioned for one life only, and is spent; one that is no
\* server's is the client's own (Symmetric).
MentionsOK ==
  \A s, l : Mention(s, l) =>
    /\ s < serverCid /\ (s = l \/ s >= FirstServerCid)
    /\ \A k : Mention(s, k) => k = l

IdInv == TypeOK /\ ClientOK /\ ServersOK /\ PacketsOK /\ MentionsOK /\ AckedIsDelivered

-----------------------------------------------------------------------------
(* The operators.                                                          *)

\* The network is given at most the new packet.
LEMMA CarryFacts ==
  \A packets, new : Carry(packets, new) \subseteq packets \cup {new}
BY DEF Carry

\* The packets the nodes send have their types.
LEMMA PacketTypes ==
  /\ \A c \in ClientStates, n \in Nat : Open(c, n) \in OpenPackets
  /\ \A l, c, s \in Nat : OpenAck(l, c, s) \in AckPackets
  /\ \A type \in {"data", "close"}, to \in Sides, c, n, l \in Nat :
       Short(type, to, c, n, l) \in ShortPackets
  /\ \A to \in Sides, c \in Nat : Reset(to, c) \in ResetPackets
BY DEF Open, OpenAck, Short, Reset, OpenPackets, AckPackets, ShortPackets, ResetPackets,
       ClientStates

\* The type of a packet under way tells its kind.
LEMMA PacketKinds ==
  \A m \in Packets :
    /\ m.type = "open" => m \in OpenPackets
    /\ m.type = "ack" => m \in AckPackets
    /\ m.type \in {"data", "close"} => m \in ShortPackets
    /\ m.type = "reset" => m \in ResetPackets
BY DEF Packets, OpenPackets, AckPackets, ShortPackets, ResetPackets

\* Activity, sending and the passing of time change nothing that was heard.
LEMMA EndpointFacts ==
  \A e \in Endpoints :
    /\ Active(e) \in Endpoints /\ Active(e).heard = e.heard
    /\ Spoke(e) \in Endpoints /\ Spoke(e).heard = e.heard
    /\ Older(e) \in Endpoints /\ Older(e).heard = e.heard
    /\ SpokeNew(e) \in Endpoints /\ SpokeNew(e).heard = e.heard
<1> SUFFICES ASSUME NEW e \in Endpoints
             PROVE  /\ Active(e) \in Endpoints /\ Active(e).heard = e.heard
                    /\ Spoke(e) \in Endpoints /\ Spoke(e).heard = e.heard
                    /\ Older(e) \in Endpoints /\ Older(e).heard = e.heard
                    /\ SpokeNew(e) \in Endpoints /\ SpokeNew(e).heard = e.heard
  OBVIOUS
<1>1. \A q \in Nat, b \in BOOLEAN :
        LET f == [e EXCEPT !.quiet = q, !.spoke = b]
        IN  f \in Endpoints /\ f.heard = e.heard
  BY DEF Endpoints
<1>2. \A q \in Nat :
        LET f == [e EXCEPT !.quiet = q]
        IN  f \in Endpoints /\ f.heard = e.heard
  BY DEF Endpoints
<1>3. Active(e) \in Endpoints /\ Active(e).heard = e.heard
  BY <1>1 DEF Active
<1>4. Spoke(e) \in Endpoints /\ Spoke(e).heard = e.heard
  BY <1>1 DEF Spoke
<1>5. Older(e) \in Endpoints /\ Older(e).heard = e.heard
  <2>1. (IF e.quiet < IdleLimit THEN e.quiet + 1 ELSE e.quiet) \in Nat
    BY LifeAssumption DEF Endpoints
  <2> QED
    BY <1>2, <2>1 DEF Older
<1>6. SpokeNew(e) \in Endpoints /\ SpokeNew(e).heard = e.heard
  BY <1>4 DEF SpokeNew, Endpoints
<1> QED
  BY <1>3, <1>4, <1>5, <1>6

LEMMA NewEndpoint ==
  \A n \in Nat : Endpoint(n) \in Endpoints /\ Endpoint(n).heard = {}
BY DEF Endpoint, Endpoints

\* An endpoint that numbers its packets from n on has heard what it had.
LEMMA NumberFacts ==
  \A e \in Endpoints, n \in Nat :
    /\ [e EXCEPT !.number = n] \in Endpoints
    /\ [e EXCEPT !.number = n].heard = e.heard
BY DEF Endpoints

\* Receiving adds the packet at most.
LEMMA HeardType ==
  \A e \in Endpoints, m \in ShortPackets :
    /\ Heard(e, m) \in Endpoints
    /\ Heard(e, m).heard = IF Duplicate(e, m) THEN e.heard ELSE e.heard \cup {m}
BY EndpointFacts DEF Heard, Endpoints

\* A data packet of the endpoint's own association is among what it has heard
\* once it was received: one of the same number is the same packet.
LEMMA HeardOwn ==
  ASSUME NEW e \in Endpoints, NEW m \in ShortPackets, m.type = "data",
         OwnData(e.heard, m.to, m.cid, m.life)
  PROVE  /\ m \in Heard(e, m).heard
         /\ OwnData(Heard(e, m).heard, m.to, m.cid, m.life)
<1>1. CASE Duplicate(e, m)
  <2>1. PICK h \in e.heard : h.number = m.number
    BY <1>1 DEF Duplicate
  <2>2. h \in ShortPackets
    BY DEF Endpoints
  <2>3. h = m
    BY <2>1, <2>2 DEF OwnData, ShortPackets
  <2> QED
    BY <1>1, <2>3, HeardType
<1>2. CASE ~Duplicate(e, m)
  BY <1>2, HeardType, ZenonT(30) DEF OwnData
<1> QED
  BY <1>1, <1>2

\* allocate_local_cid: no ID at or beyond the counter is in use, and the
\* client's are below it.
LEMMA NextFreeIsNext ==
  ASSUME IdInv, IdsApart, NEW m \in net, m.type = "open"
  PROVE  NextFree(m.cid) = serverCid
<1> DEFINE busy == DOMAIN servers \cup {m.cid}
           range == serverCid .. serverCid + Cardinality(DOMAIN servers) + 1
           Free(s) == s \notin busy /\ \A t \in serverCid .. s - 1 : t \in busy
<1>1. Cardinality(DOMAIN servers) \in Nat
  BY FS_CardinalityType DEF IdInv, TypeOK
<1>2. serverCid \in Nat /\ m.cid \in Nat /\ lives \in Nat
  BY PacketKinds DEF IdInv, TypeOK, OpenPackets
<1>3. serverCid \notin busy
  BY <1>2, LifeAssumption DEF IdInv, IdsApart, ClientOK, ServersOK, PacketsOK, PacketOK
<1>4. serverCid \in range /\ Free(serverCid)
  BY <1>1, <1>2, <1>3
<1>5. ASSUME NEW s \in range, Free(s)
      PROVE  s = serverCid
  BY <1>1, <1>2, <1>3, <1>5
<1>6. NextFree(m.cid) = CHOOSE s \in range : Free(s)
  BY DEF NextFree
<1> HIDE DEF range, Free
<1> QED
  BY <1>4, <1>5, <1>6

-----------------------------------------------------------------------------
(* What a step keeps.                                                      *)

\* A mention that is no news: one that was there, or the client's own ID.
Known(s, l) == Mention(s, l) \/ (s = l /\ s < FirstServerCid)

\* A step that mentions nothing new keeps the mentions, if the server's
\* counter does not go back.
LEMMA MentionsKept ==
  ASSUME MentionsOK, serverCid \in Nat, serverCid' \in Nat, serverCid' >= serverCid,
         serverCid >= FirstServerCid,
         \A s, l : Mention(s, l)' => Known(s, l) /\ s \in Nat
  PROVE  MentionsOK'
<1> SUFFICES ASSUME NEW s, NEW l, Mention(s, l)'
             PROVE  /\ s < serverCid' /\ (s = l \/ s >= FirstServerCid)
                    /\ \A k : Mention(s, k)' => k = l
  BY DEF MentionsOK
<1>1. Known(s, l) /\ s \in Nat
  OBVIOUS
<1>2. ASSUME NEW k, Known(s, k)
      PROVE  /\ s < serverCid' /\ (s = k \/ s >= FirstServerCid)
             /\ Mention(s, l) => k = l
  BY <1>1, <1>2, LifeAssumption DEF MentionsOK, Known
<1>3. \A k : Known(s, k) => k = l
  BY <1>1, LifeAssumption DEF MentionsOK, Known
<1> QED
  BY <1>1, <1>2, <1>3

\* A packet that was under way stays right: lives and the server's counter do
\* not go back, and no ID that was spent comes back.
LEMMA PacketsKept ==
  ASSUME TypeOK, PacketsOK, lives' \in Nat, lives' >= lives,
         serverCid' \in Nat, serverCid' >= serverCid,
         \A s \in DOMAIN servers' : s \in DOMAIN servers \/ s >= serverCid,
         Connected' => (Connected /\ client'.cid = client.cid) \/ client'.cid > lives,
         \A m \in net' : m \in net \/ PacketOK(m)'
  PROVE  PacketsOK'
<1> SUFFICES ASSUME NEW m \in net', m \in net
             PROVE  PacketOK(m)'
  BY DEF PacketsOK
<1>1. PacketOK(m) /\ m \in Packets
  BY DEF PacketsOK, TypeOK
<1>2. m.cid \in Nat
  BY <1>1 DEF Packets, OpenPackets, AckPackets, ShortPackets, ResetPackets
<1>3. lives \in Nat /\ serverCid \in Nat
  BY DEF TypeOK
<1>4. CASE m.type = "reset" /\ m.to = "server"
  <2>1. m.cid <= lives /\ ~(Connected /\ client.cid = m.cid)
    BY <1>1, <1>4 DEF PacketOK
  <2>2. m.cid <= lives' /\ ~(Connected' /\ client'.cid = m.cid)
    BY <1>2, <1>3, <2>1
  <2> QED
    BY <1>4, <2>2 DEF PacketOK
<1>5. CASE m.type = "reset" /\ m.to = "client"
  BY <1>1, <1>2, <1>3, <1>5 DEF PacketOK
<1>6. CASE m.type # "reset"
  BY <1>1, <1>2, <1>3, <1>6 DEF PacketOK
<1>7. m.type = "reset" => m.to \in Sides
  BY <1>1, PacketKinds DEF ResetPackets
<1> QED
  BY <1>4, <1>5, <1>6, <1>7 DEF Sides, PacketOK

-----------------------------------------------------------------------------
(* Steps of one side.                                                      *)

\* What a packet of a step must be: one that was under way, or one that
\* names no more than was known.
Sent(m) ==
  \/ m \in net
  \/ /\ m \in Packets /\ PacketOK(m)'
     /\ m.type = "ack" => Known(m.server, m.life)
     /\ m.type = "data" /\ m.to = "server" => Known(m.cid, m.life)

\* Where the packets of the network come from, for the mentions.
LEMMA SentMentions ==
  ASSUME TypeOK, NEW m \in net', Sent(m)
  PROVE  /\ m \in Packets
         /\ m.type = "ack" => Known(m.server, m.life) /\ m.server \in Nat
         /\ m.type = "data" /\ m.to = "server" => Known(m.cid, m.life) /\ m.cid \in Nat
<1>1. m \in Packets
  BY DEF Sent, TypeOK
<1>2. m.type = "ack" => m.server \in Nat
  BY <1>1, PacketKinds DEF AckPackets
<1>3. m.type = "data" => m.cid \in Nat
  BY <1>1, PacketKinds DEF ShortPackets
<1>4. m.type = "ack" => Known(m.server, m.life)
  BY DEF Sent, Known, Mention
<1>5. m.type = "data" /\ m.to = "server" => Known(m.cid, m.life)
  BY DEF Sent, Known, Mention
<1> QED
  BY <1>1, <1>2, <1>3, <1>4, <1>5

\* A step of the client's association, or its end: the server is not
\* touched.
LEMMA ClientMoves ==
  ASSUME IdInv, IdsApart,
         UNCHANGED <<clientCid, lives, servers, serverCid>>, misled' = {},
         client' \in ClientStates,
         client' = NoClient \/ (client'.cid = client.cid /\ client'.life = client.life),
         OwnData(client'.end.heard, "client", client'.cid, client'.life),
         Established' => Known(client'.peer, client'.life),
         \A m \in net' : Sent(m)
  PROVE  IdInv'
<1>1. client'.cid = client'.life /\ client'.cid <= lives /\ client'.cid \in Nat
  BY DEF IdInv, ClientOK, TypeOK, NoClient, NewClient, NoCid, ClientStates
<1>2. TypeOK'
  BY SentMentions DEF IdInv, TypeOK
<1>3. ClientOK'
  BY <1>1 DEF IdInv, ClientOK
<1>4. ServersOK'
  BY DEF IdInv, ServersOK
<1>5. Connected' => Connected /\ client'.cid = client.cid
  BY DEF Connected, NoClient, NewClient, NoCid
<1>6. PacketsOK'
  <2>1. \A m \in net' : m \in net \/ PacketOK(m)'
    BY DEF Sent
  <2> QED
    BY <1>5, <2>1, PacketsKept DEF IdInv, TypeOK
<1>7. MentionsOK'
  <2>1. ASSUME NEW s, NEW l, Mention(s, l)'
        PROVE  Known(s, l) /\ s \in Nat
    <3>1. CASE s \in DOMAIN servers' /\ servers'[s].life = l
      BY <3>1 DEF IdInv, TypeOK, Known, Mention
    <3>2. CASE \E m \in net' : m.type = "ack" /\ m.server = s /\ m.life = l
      BY <3>2, SentMentions DEF IdInv
    <3>3. CASE \E m \in net' : m.type = "data" /\ m.to = "server" /\ m.cid = s /\ m.life = l
      BY <3>3, SentMentions DEF IdInv
    <3>4. CASE Established' /\ client'.peer = s /\ client'.life = l
      BY <3>4 DEF ClientStates
    <3> QED
      BY <2>1, <3>1, <3>2, <3>3, <3>4 DEF Mention
  <2> QED
    BY <2>1, MentionsKept DEF IdInv, TypeOK, ServersOK
<1> QED
  BY <1>2, <1>3, <1>4, <1>6, <1>7 DEF IdInv, AckedIsDelivered

\* A step of an association of the server, or its end: the client is not
\* touched.
LEMMA ServerMoves ==
  ASSUME IdInv, IdsApart,
         UNCHANGED <<client, clientCid, lives, serverCid>>, misled' = {},
         DOMAIN servers' \subseteq DOMAIN servers,
         servers' \in [DOMAIN servers' -> ServerStates],
         \A s \in DOMAIN servers' :
           /\ servers'[s].life = servers[s].life /\ servers'[s].peer = servers[s].peer
           /\ OwnData(servers'[s].end.heard, "server", s, servers'[s].life),
         \A m \in net' : Sent(m)
  PROVE  IdInv'
<1>1. IsFiniteSet(DOMAIN servers')
  BY FS_Subset DEF IdInv, TypeOK
<1>2. TypeOK'
  BY <1>1, SentMentions DEF IdInv, TypeOK
<1>3. ClientOK'
  BY DEF IdInv, ClientOK
<1>4. ServersOK'
  BY DEF IdInv, ServersOK
<1>5. PacketsOK'
  <2>1. \A m \in net' : m \in net \/ PacketOK(m)'
    BY DEF Sent
  <2>2. Connected' => Connected /\ client'.cid = client.cid
    BY DEF Connected
  <2> QED
    BY <2>1, <2>2, PacketsKept DEF IdInv, TypeOK
<1>6. MentionsOK'
  <2>1. ASSUME NEW s, NEW l, Mention(s, l)'
        PROVE  Known(s, l) /\ s \in Nat
    <3>1. CASE s \in DOMAIN servers' /\ servers'[s].life = l
      BY <3>1 DEF IdInv, TypeOK, Known, Mention
    <3>2. CASE \E m \in net' : m.type = "ack" /\ m.server = s /\ m.life = l
      BY <3>2, SentMentions DEF IdInv
    <3>3. CASE \E m \in net' : m.type = "data" /\ m.to = "server" /\ m.cid = s /\ m.life = l
      BY <3>3, SentMentions DEF IdInv
    <3>4. CASE Established' /\ client'.peer = s /\ client'.life = l
      BY <3>4 DEF IdInv, TypeOK, ClientStates, Known, Mention, Established, Connected
    <3> QED
      BY <2>1, <3>1, <3>2, <3>3, <3>4 DEF Mention
  <2> QED
    BY <2>1, MentionsKept DEF IdInv, TypeOK, ServersOK
<1> QED
  BY <1>2, <1>3, <1>4, <1>5, <1>6 DEF IdInv, AckedIsDelivered

-----------------------------------------------------------------------------
(* The client.                                                             *)

LEMMA NoClientFacts ==
  /\ NoClient \in ClientStates /\ NoClient.cid = NoCid /\ NoClient.life = NoCid
  /\ NoClient.end.heard = {}
BY NewEndpoint DEF NoClient, NewClient, ClientStates, NoCid

\* A step that ends the client's association sends at most a packet to the
\* server.
LEMMA ClientEnds ==
  ASSUME IdInv, IdsApart, client' = NoClient, UNCHANGED <<clientCid, lives, serverSide>>,
         misled' = misled, \A m \in net' : Sent(m)
  PROVE  IdInv'
<1>1. ~Established'
  BY NoClientFacts DEF Established, Connected
<1>2. OwnData(client'.end.heard, "client", client'.cid, client'.life)
  BY NoClientFacts DEF OwnData
<1> QED
  BY <1>1, <1>2, NoClientFacts, ClientMoves DEF serverSide, IdInv, AckedIsDelivered

LEMMA UnderWayIsSent == \A m \in net : Sent(m)
BY DEF Sent

LEMMA ClientIdleKeeps == ASSUME IdInv, IdsApart, ClientIdle PROVE IdInv'
BY ClientEnds, UnderWayIsSent DEF ClientIdle, DropClient

LEMMA BootstrapTimedOutKeeps == ASSUME IdInv, IdsApart, BootstrapTimedOut PROVE IdInv'
BY ClientEnds, UnderWayIsSent DEF BootstrapTimedOut, DropClient

LEMMA RestartClientKeeps == ASSUME IdInv, IdsApart, RestartClient PROVE IdInv'
<1>1. clientCid' = clientCid
  BY DEF RestartClient, Seed, IdsApart
<1> QED
  BY <1>1, ClientEnds, UnderWayIsSent DEF RestartClient

\* What the client sends to the peer it knows.
LEMMA ClientPacketSent ==
  ASSUME IdInv, IdsApart, Established, UNCHANGED serverCid,
         NEW type \in {"data", "close"}, NEW n \in Nat,
         NEW p, p = Short(type, "server", client.peer, n, client.life)
  PROVE  Sent(p)
<1>1. p \in ShortPackets
  BY PacketTypes DEF IdInv, TypeOK, ClientStates, Sides
<1>2. p.type = type /\ p.to = "server" /\ p.cid = client.peer /\ p.life = client.life
  BY DEF Short
<1>3. Mention(client.peer, client.life)
  BY DEF Mention
<1>4. client.peer < serverCid
  BY <1>3 DEF IdInv, MentionsOK
<1>5. PacketOK(p)'
  BY <1>2, <1>4 DEF PacketOK
<1> QED
  BY <1>1, <1>2, <1>3, <1>5 DEF Sent, Packets, Known

LEMMA ClientSendKeeps == ASSUME IdInv, IdsApart, ClientSend PROVE IdInv'
<1>1. client.end \in Endpoints /\ client.end.number \in Nat
  BY DEF IdInv, TypeOK, ClientStates, Endpoints
<1>2. SpokeNew(client.end) \in Endpoints /\ SpokeNew(client.end).heard = client.end.heard
  BY <1>1, EndpointFacts
<1>3. /\ client' \in ClientStates /\ client'.cid = client.cid /\ client'.life = client.life
      /\ client'.peer = client.peer /\ client'.end = SpokeNew(client.end)
  BY <1>2 DEF ClientSend, IdInv, TypeOK, ClientStates
<1>4. \A m \in net' :
        m \in net \/ m = Short("data", "server", client.peer, client.end.number, client.life)
  BY CarryFacts DEF ClientSend
<1>5. \A m \in net' : Sent(m)
  BY <1>1, <1>4, UnderWayIsSent, ClientPacketSent DEF ClientSend, serverSide
<1>6. Established' => Known(client'.peer, client'.life)
  BY <1>3 DEF ClientSend, Known, Mention
<1> QED
  BY <1>2, <1>3, <1>5, <1>6, ClientMoves
  DEF ClientSend, serverSide, IdInv, ClientOK, AckedIsDelivered

LEMMA ClientRepeatsKeeps == ASSUME IdInv, IdsApart, ClientRepeats PROVE IdInv'
<1>1. Spoke(client.end) \in Endpoints /\ Spoke(client.end).heard = client.end.heard
  BY EndpointFacts DEF IdInv, TypeOK, ClientStates
<1>2. /\ client' \in ClientStates /\ client'.cid = client.cid /\ client'.life = client.life
      /\ client'.peer = client.peer /\ client'.end = Spoke(client.end)
  BY <1>1 DEF ClientRepeats, IdInv, TypeOK, ClientStates
<1>3. Established' => Known(client'.peer, client'.life)
  BY <1>2 DEF ClientRepeats, Known, Mention
<1> QED
  BY <1>1, <1>2, <1>3, UnderWayIsSent, ClientMoves
  DEF ClientRepeats, serverSide, IdInv, ClientOK, AckedIsDelivered

LEMMA ClientCloseKeeps == ASSUME IdInv, IdsApart, ClientClose PROVE IdInv'
<1>1. \A m \in net' :
        m \in net \/ m = Short("close", "server", client.peer, client.end.number, client.life)
  BY CarryFacts DEF ClientClose
<1>2. client.end.number \in Nat
  BY DEF IdInv, TypeOK, ClientStates, Endpoints
<1>3. \A m \in net' : Sent(m)
  BY <1>1, <1>2, UnderWayIsSent, ClientPacketSent DEF ClientClose, serverSide
<1> QED
  BY <1>3, ClientEnds DEF ClientClose, DropClient, serverSide

\* An OPEN of the client names the ID of its life.
LEMMA OpenSent ==
  ASSUME NEW c \in ClientStates, NEW n \in Nat, c.cid = c.life, c.cid <= lives',
         NEW p, p = Open(c, n)
  PROVE  p \in Packets /\ PacketOK(p)' /\ p.type = "open"
<1>1. p \in OpenPackets
  BY PacketTypes
<1>2. p.type = "open" /\ p.cid = c.cid /\ p.life = c.life
  BY DEF Open
<1>3. PacketOK(p)'
  BY <1>2 DEF PacketOK
<1> QED
  BY <1>1, <1>2, <1>3 DEF Packets

LEMMA RetryOpenKeeps == ASSUME IdInv, IdsApart, RetryOpen PROVE IdInv'
<1>1. /\ client' \in ClientStates /\ client'.cid = client.cid /\ client'.life = client.life
      /\ client'.peer = client.peer /\ client'.end = client.end
  BY DEF RetryOpen, IdInv, TypeOK, ClientStates
<1>2. ~Established'
  BY <1>1 DEF RetryOpen, Bootstrapping, Established
<1>3. \A m \in net' : m \in net \/ m = Open(client, client.attempt)
  BY CarryFacts DEF RetryOpen
<1>4. /\ client \in ClientStates /\ client.attempt \in Nat
      /\ client.cid = client.life /\ client.cid <= lives'
  BY DEF RetryOpen, IdInv, TypeOK, ClientStates, ClientOK
<1>5. \A m \in net' : Sent(m)
  BY <1>3, <1>4, UnderWayIsSent, OpenSent DEF Sent
<1> QED
  BY <1>1, <1>2, <1>5, ClientMoves
  DEF RetryOpen, serverSide, IdInv, ClientOK, AckedIsDelivered

LEMMA AssociateKeeps == ASSUME IdInv, IdsApart, Associate PROVE IdInv'
<1>1. /\ lives \in Nat /\ lives' = lives + 1 /\ clientCid' = lives' + 1 /\ lives' <= Lives
      /\ client' = NewClient(lives', lives')
  BY LifeAssumption DEF Associate, IdInv, TypeOK, ClientOK
<1>2. /\ client' \in ClientStates /\ client'.cid = lives' /\ client'.life = lives'
      /\ client'.peer = NoCid /\ client'.end.heard = {}
  BY <1>1, NewEndpoint DEF NewClient, ClientStates, NoCid
<1>3. ASSUME NEW m \in net'
      PROVE  m \in net \/ (m \in Packets /\ PacketOK(m)' /\ m.type = "open")
  <2>1. m \in net \/ m = Open(client', 0)
    BY CarryFacts DEF Associate
  <2> QED
    BY <1>1, <1>2, <2>1, OpenSent
<1>4. TypeOK'
  BY <1>1, <1>2, <1>3 DEF Associate, serverSide, IdInv, TypeOK
<1>5. ClientOK'
  BY <1>1, <1>2 DEF ClientOK, OwnData
<1>6. ServersOK'
  <2>1. \A s \in DOMAIN servers : servers[s].peer \in Nat
    BY DEF IdInv, TypeOK, ServerStates
  <2> QED
    BY <1>1, <2>1 DEF Associate, serverSide, IdInv, ServersOK
<1>7. PacketsOK'
  BY <1>1, <1>2, <1>3, PacketsKept DEF Associate, serverSide, IdInv, TypeOK
<1>8. MentionsOK'
  <2>1. ASSUME NEW s, NEW l, Mention(s, l)'
        PROVE  Known(s, l) /\ s \in Nat
    <3>1. ~Established'
      BY <1>2 DEF Established
    <3>2. Mention(s, l)
      BY <1>3, <2>1, <3>1 DEF Associate, serverSide, Mention
    <3>3. s \in Nat
      BY <3>2, PacketKinds DEF Mention, IdInv, TypeOK, AckPackets, ShortPackets, ClientStates
    <3> QED
      BY <3>2, <3>3 DEF Known
  <2> QED
    BY <2>1, MentionsKept DEF Associate, serverSide, IdInv, TypeOK, ServersOK
<1> QED
  BY <1>4, <1>5, <1>6, <1>7, <1>8 DEF Associate, IdInv, AckedIsDelivered

-----------------------------------------------------------------------------
(* The server.                                                             *)

\* The endpoint of one association changes, with what it has heard still its
\* own.
LEMMA ServerEndChanges ==
  ASSUME IdInv, IdsApart, NEW s \in DOMAIN servers, NEW e \in Endpoints,
         OwnData(e.heard, "server", s, servers[s].life),
         servers' = [servers EXCEPT ![s].end = e],
         UNCHANGED <<client, clientCid, lives, serverCid, misled>>,
         \A m \in net' : Sent(m)
  PROVE  IdInv'
<1>1. servers \in [DOMAIN servers -> ServerStates]
  BY DEF IdInv, TypeOK
<1>2. DOMAIN servers' = DOMAIN servers /\ servers' \in [DOMAIN servers' -> ServerStates]
  BY <1>1 DEF ServerStates
<1>3. ASSUME NEW t \in DOMAIN servers
      PROVE  /\ servers'[t].life = servers[t].life /\ servers'[t].peer = servers[t].peer
             /\ OwnData(servers'[t].end.heard, "server", t, servers'[t].life)
  <2>1. CASE t = s
    BY <1>1, <2>1 DEF ServerStates
  <2>2. CASE t # s
    BY <1>1, <2>2 DEF IdInv, ServersOK
  <2> QED
    BY <2>1, <2>2
<1> QED
  BY <1>2, <1>3, ServerMoves DEF IdInv, AckedIsDelivered

\* An association of the server ends.
LEMMA ServerEnds ==
  ASSUME IdInv, IdsApart, NEW s \in DOMAIN servers, DropServer(s),
         UNCHANGED <<clientSide, misled>>, \A m \in net' : Sent(m)
  PROVE  IdInv'
<1>1. servers \in [DOMAIN servers -> ServerStates]
  BY DEF IdInv, TypeOK
<1>2. /\ DOMAIN servers' \subseteq DOMAIN servers
      /\ servers' \in [DOMAIN servers' -> ServerStates]
      /\ \A t \in DOMAIN servers' : servers'[t] = servers[t]
  BY <1>1 DEF DropServer, Without
<1>3. \A t \in DOMAIN servers : OwnData(servers[t].end.heard, "server", t, servers[t].life)
  BY DEF IdInv, ServersOK
<1> QED
  BY <1>2, <1>3, ServerMoves DEF DropServer, clientSide, IdInv, AckedIsDelivered

\* What the server sends to the client of one of its associations.
LEMMA ServerPacketSent ==
  ASSUME IdInv, NEW s \in DOMAIN servers, UNCHANGED lives,
         NEW type \in {"data", "close"}, NEW n \in Nat,
         NEW p, p = Short(type, "client", servers[s].peer, n, servers[s].life)
  PROVE  Sent(p)
<1>1. servers[s] \in ServerStates
  BY DEF IdInv, TypeOK
<1>2. p \in ShortPackets
  BY <1>1, PacketTypes DEF ServerStates, Sides
<1>3. p.type = type /\ p.to = "client" /\ p.cid = servers[s].peer /\ p.life = servers[s].life
  BY DEF Short
<1>4. PacketOK(p)'
  BY <1>3 DEF PacketOK, IdInv, ServersOK
<1> QED
  BY <1>2, <1>3, <1>4 DEF Sent, Packets

LEMMA ServerEndFacts ==
  ASSUME IdInv, NEW s \in DOMAIN servers
  PROVE  /\ servers[s].end \in Endpoints /\ servers[s].end.number \in Nat
         /\ OwnData(servers[s].end.heard, "server", s, servers[s].life)
         /\ servers[s].life \in Nat /\ servers[s].peer \in Nat
         /\ servers[s].peer = servers[s].life /\ servers[s].peer <= lives
<1>1. servers[s] \in ServerStates
  BY DEF IdInv, TypeOK
<1> QED
  BY <1>1 DEF ServerStates, Endpoints, IdInv, ServersOK

LEMMA ServerIdleKeeps ==
  ASSUME IdInv, IdsApart, NEW s \in DOMAIN servers, ServerIdle(s) PROVE IdInv'
BY ServerEnds, UnderWayIsSent DEF ServerIdle

LEMMA ServerSendKeeps ==
  ASSUME IdInv, IdsApart, NEW s \in DOMAIN servers, ServerSend(s) PROVE IdInv'
<1>1. \A m \in net' :
        \/ m \in net
        \/ m = Short("data", "client", servers[s].peer, servers[s].end.number, servers[s].life)
  BY CarryFacts DEF ServerSend
<1>2. \A m \in net' : Sent(m)
  BY <1>1, UnderWayIsSent, ServerEndFacts, ServerPacketSent DEF ServerSend, clientSide
<1>3. /\ SpokeNew(servers[s].end) \in Endpoints
      /\ SpokeNew(servers[s].end).heard = servers[s].end.heard
  BY ServerEndFacts, EndpointFacts
<1>4. servers' = [servers EXCEPT ![s].end = SpokeNew(servers[s].end)]
  BY DEF ServerSend
<1> QED
  BY <1>2, <1>3, <1>4, ServerEndFacts, ServerEndChanges DEF ServerSend, clientSide

LEMMA ServerRepeatsKeeps ==
  ASSUME IdInv, IdsApart, NEW s \in DOMAIN servers, ServerRepeats(s) PROVE IdInv'
<1>1. /\ Spoke(servers[s].end) \in Endpoints
      /\ Spoke(servers[s].end).heard = servers[s].end.heard
  BY ServerEndFacts, EndpointFacts
<1>2. servers' = [servers EXCEPT ![s].end = Spoke(servers[s].end)]
  BY DEF ServerRepeats
<1> QED
  BY <1>1, <1>2, ServerEndFacts, ServerEndChanges, UnderWayIsSent DEF ServerRepeats, clientSide

LEMMA ServerCloseKeeps ==
  ASSUME IdInv, IdsApart, NEW s \in DOMAIN servers, ServerClose(s) PROVE IdInv'
<1>1. \A m \in net' :
        \/ m \in net
        \/ m = Short("close", "client", servers[s].peer, servers[s].end.number, servers[s].life)
  BY CarryFacts DEF ServerClose
<1>2. \A m \in net' : Sent(m)
  BY <1>1, UnderWayIsSent, ServerEndFacts, ServerPacketSent DEF ServerClose, clientSide
<1> QED
  BY <1>2, ServerEnds DEF ServerClose

LEMMA RestartServerKeeps == ASSUME IdInv, IdsApart, RestartServer PROVE IdInv'
<1>1. DOMAIN servers' = {} /\ servers' \in [DOMAIN servers' -> ServerStates]
  BY DEF RestartServer
<1>2. serverCid' = serverCid
  BY DEF RestartServer, Seed, IdsApart
<1> QED
  BY <1>1, <1>2, UnderWayIsSent, ServerMoves
  DEF RestartServer, clientSide, IdInv, AckedIsDelivered

-----------------------------------------------------------------------------
(* Arrivals.                                                               *)

\* An acknowledgement of OPEN for a server's ID that is already mentioned.
LEMMA AckSent ==
  ASSUME NEW l \in Nat, NEW c \in Nat, NEW s \in Nat, c = l, c <= lives', Known(s, l),
         NEW p, p = OpenAck(l, c, s)
  PROVE  Sent(p)
<1>1. p \in AckPackets
  BY PacketTypes
<1>2. p.type = "ack" /\ p.to = "client" /\ p.cid = c /\ p.life = l /\ p.server = s
  BY DEF OpenAck
<1>3. PacketOK(p)'
  BY <1>2 DEF PacketOK
<1> QED
  BY <1>1, <1>2, <1>3 DEF Sent, Packets

LEMMA OpenFacts ==
  ASSUME IdInv, NEW m \in net, m.type = "open"
  PROVE  m \in OpenPackets /\ m.cid \in Nat /\ m.number \in Nat /\ m.life \in Nat
         /\ m.cid = m.life /\ m.cid <= lives
<1>1. m \in OpenPackets
  BY PacketKinds DEF IdInv, TypeOK
<1> QED
  BY <1>1 DEF OpenPackets, IdInv, PacketsOK, PacketOK

LEMMA ReplayOpenKeeps ==
  ASSUME IdInv, IdsApart, NEW m \in net, m.type = "open", NEW rest \in SUBSET net,
         ReplayOpen(m, rest)
  PROVE  IdInv'
<1>1. PICK s \in Replay(m) :
        /\ servers' = [servers EXCEPT ![s].end = Active(@)]
        /\ net' = Carry(rest, OpenAck(m.life, m.cid, s))
        /\ UNCHANGED <<clientSide, serverCid, handed, misled>>
  BY DEF ReplayOpen
<1>2. s \in DOMAIN servers /\ servers[s].peer = m.cid /\ s \in Nat
  BY DEF Replay, IdInv, TypeOK
<1>3. Known(s, m.life)
  BY <1>2, OpenFacts, ServerEndFacts DEF Known, Mention
<1>4. \A p \in net' : p \in net \/ p = OpenAck(m.life, m.cid, s)
  BY <1>1, CarryFacts
<1>5. \A p \in net' : Sent(p)
  BY <1>1, <1>2, <1>3, <1>4, OpenFacts, AckSent, UnderWayIsSent DEF clientSide
<1>6. /\ Active(servers[s].end) \in Endpoints
      /\ Active(servers[s].end).heard = servers[s].end.heard
  BY <1>2, ServerEndFacts, EndpointFacts
<1>7. servers' = [servers EXCEPT ![s].end = Active(servers[s].end)]
  BY <1>1
<1> QED
  BY <1>1, <1>2, <1>5, <1>6, <1>7, ServerEndFacts, ServerEndChanges DEF clientSide

\* A table that is full spends the ID and changes nothing else.
LEMMA FullTableKeeps ==
  ASSUME IdInv, IdsApart, servers' = servers, serverCid' = serverCid + 1,
         UNCHANGED <<clientSide, misled>>, net' \subseteq net
  PROVE  IdInv'
<1>1. TypeOK' /\ ClientOK'
  BY DEF IdInv, TypeOK, ClientOK, clientSide
<1>2. ServersOK'
  BY LifeAssumption DEF IdInv, TypeOK, ServersOK, clientSide
<1>3. PacketsOK'
  BY PacketsKept DEF IdInv, TypeOK, clientSide, Connected
<1>4. MentionsOK'
  <2>1. ASSUME NEW s, NEW l, Mention(s, l)'
        PROVE  Known(s, l) /\ s \in Nat
    <3>1. Mention(s, l)
      BY <2>1 DEF Mention, clientSide, Established, Connected
    <3>2. s \in Nat
      BY <3>1, PacketKinds DEF Mention, IdInv, TypeOK, AckPackets, ShortPackets, ClientStates
    <3> QED
      BY <3>1, <3>2 DEF Known
  <2>2. serverCid \in Nat /\ serverCid' \in Nat /\ serverCid' >= serverCid
    BY DEF IdInv, TypeOK
  <2> QED
    BY <2>1, <2>2, MentionsKept DEF IdInv, ServersOK
<1> QED
  BY <1>1, <1>2, <1>3, <1>4 DEF IdInv, AckedIsDelivered

\* The new association takes an ID that nobody mentions.
LEMMA AdmittedKeeps ==
  ASSUME IdInv, IdsApart, NEW m \in net, m.type = "open",
         servers' = [t \in DOMAIN servers \cup {serverCid} |->
                       IF t = serverCid THEN NewServer(m.life, m.cid, m.number + 1)
                       ELSE servers[t]],
         serverCid' = serverCid + 1, UNCHANGED <<clientSide, misled>>,
         \A p \in net' : p \in net \/ p = OpenAck(m.life, m.cid, serverCid)
  PROVE  IdInv'
<1> DEFINE new == NewServer(m.life, m.cid, m.number + 1)
<1>1. serverCid \in Nat /\ serverCid >= FirstServerCid
  BY DEF IdInv, TypeOK, ServersOK
<1>2. /\ new \in ServerStates /\ new.life = m.life /\ new.peer = m.cid
      /\ new.end.heard = {}
  BY OpenFacts, NewEndpoint DEF NewServer, ServerStates
<1>3. servers \in [DOMAIN servers -> ServerStates] /\ serverCid \notin DOMAIN servers
  BY <1>1 DEF IdInv, TypeOK, ServersOK
<1>4. /\ DOMAIN servers' = DOMAIN servers \cup {serverCid}
      /\ servers'[serverCid] = new
      /\ \A t \in DOMAIN servers : servers'[t] = servers[t]
  BY <1>3
<1> HIDE DEF new
<1>5. ASSUME NEW p \in net'
      PROVE  \/ p \in net
             \/ /\ p \in Packets /\ PacketOK(p)' /\ p.type = "ack"
                /\ p.server = serverCid /\ p.life = m.life
  <2>1. CASE p = OpenAck(m.life, m.cid, serverCid)
    <3>1. p \in AckPackets
      BY <1>1, <2>1, OpenFacts, PacketTypes
    <3>2. /\ p.type = "ack" /\ p.to = "client" /\ p.cid = m.cid
          /\ p.life = m.life /\ p.server = serverCid
      BY <2>1 DEF OpenAck
    <3>3. PacketOK(p)'
      BY <3>2, OpenFacts DEF PacketOK, clientSide
    <3> QED
      BY <3>1, <3>2, <3>3 DEF Packets
  <2> QED
    BY <2>1
<1>6. TypeOK'
  <2>1. IsFiniteSet(DOMAIN servers')
    BY <1>4, FS_AddElement DEF IdInv, TypeOK
  <2>2. servers' \in [DOMAIN servers' -> ServerStates]
    BY <1>2, <1>3, <1>4
  <2>3. net' \subseteq Packets
    BY <1>5 DEF IdInv, TypeOK
  <2> QED
    BY <1>1, <1>4, <2>1, <2>2, <2>3 DEF IdInv, TypeOK, clientSide
<1>7. ClientOK'
  BY DEF IdInv, ClientOK, clientSide
<1>8. ServersOK'
  <2>1. OwnData(new.end.heard, "server", serverCid, new.life)
    BY <1>2 DEF OwnData
  <2>2. FirstServerCid \in Nat /\ serverCid' >= FirstServerCid
    BY <1>1, LifeAssumption
  <2>3. ASSUME NEW s \in DOMAIN servers'
        PROVE  /\ FirstServerCid <= s /\ s < serverCid'
               /\ servers'[s].peer = servers'[s].life /\ servers'[s].peer <= lives'
               /\ OwnData(servers'[s].end.heard, "server", s, servers'[s].life)
    <3>1. CASE s = serverCid
      <4>1. FirstServerCid <= s /\ s < serverCid'
        BY <1>1, <2>2, <3>1
      <4>2. servers'[s].peer = servers'[s].life /\ servers'[s].peer <= lives'
        BY <1>2, <1>4, <3>1, OpenFacts DEF clientSide
      <4> QED
        BY <1>4, <2>1, <3>1, <4>1, <4>2
    <3>2. CASE s \in DOMAIN servers
      <4>1. s \in Nat
        BY <3>2 DEF IdInv, TypeOK
      <4> QED
        BY <1>1, <1>4, <3>2, <4>1 DEF IdInv, ServersOK, clientSide
    <3> QED
      BY <1>4, <3>1, <3>2
  <2> QED
    BY <2>2, <2>3 DEF ServersOK
<1>9. PacketsOK'
  <2>1. \A p \in net' : p \in net \/ PacketOK(p)'
    BY <1>5
  <2>2. \A s \in DOMAIN servers' : s \in DOMAIN servers \/ s >= serverCid
    BY <1>1, <1>4
  <2> QED
    BY <1>1, <2>1, <2>2, PacketsKept DEF IdInv, TypeOK, clientSide, Connected
<1>10. MentionsOK'
  <2>1. ASSUME NEW s, NEW l, Mention(s, l)'
        PROVE  s \in Nat /\ (Mention(s, l) \/ (s = serverCid /\ l = m.life))
    <3>1. CASE s \in DOMAIN servers' /\ servers'[s].life = l
      BY <1>1, <1>2, <1>4, <3>1 DEF IdInv, TypeOK, Mention
    <3>2. CASE \E p \in net' : p.type = "ack" /\ p.server = s /\ p.life = l
      <4>1. PICK p \in net' : p.type = "ack" /\ p.server = s /\ p.life = l
        BY <3>2
      <4>2. p \in Packets
        BY <1>5 DEF IdInv, TypeOK
      <4>3. s \in Nat
        BY <4>1, <4>2, PacketKinds DEF AckPackets
      <4> QED
        BY <1>5, <4>1, <4>3 DEF Mention
    <3>3. CASE \E p \in net' : p.type = "data" /\ p.to = "server" /\ p.cid = s /\ p.life = l
      <4>1. PICK p \in net' : p.type = "data" /\ p.to = "server" /\ p.cid = s /\ p.life = l
        BY <3>3
      <4>2. p \in net
        BY <1>5, <4>1
      <4>3. s \in Nat
        BY <4>1, <4>2, PacketKinds DEF ShortPackets, IdInv, TypeOK
      <4> QED
        BY <4>1, <4>2, <4>3 DEF Mention
    <3>4. CASE Established' /\ client'.peer = s /\ client'.life = l
      BY <3>4 DEF IdInv, TypeOK, ClientStates, Mention, Established, Connected, clientSide
    <3> QED
      BY <2>1, <3>1, <3>2, <3>3, <3>4 DEF Mention
  <2>2. \A s, l : Mention(s, l) => s < serverCid /\ (s = l \/ s >= FirstServerCid)
    BY DEF IdInv, MentionsOK
  <2>3. \A s, l, k : Mention(s, l) /\ Mention(s, k) => k = l
    BY DEF IdInv, MentionsOK
  <2>4. ASSUME NEW s, NEW l, Mention(s, l)'
        PROVE  s < serverCid' /\ (s = l \/ s >= FirstServerCid)
    BY <1>1, <2>1, <2>2, <2>4
  <2>5. ASSUME NEW s, NEW l, NEW k, Mention(s, l)', Mention(s, k)'
        PROVE  k = l
    <3>1. s \in Nat /\ ~(Mention(s, l) /\ s = serverCid) /\ ~(Mention(s, k) /\ s = serverCid)
      BY <1>1, <2>1, <2>2, <2>5
    <3> QED
      BY <2>1, <2>3, <2>5, <3>1
  <2> QED
    BY <2>4, <2>5 DEF MentionsOK
<1> QED
  BY <1>6, <1>7, <1>8, <1>9, <1>10 DEF IdInv, AckedIsDelivered

LEMMA AdmitOpenKeeps ==
  ASSUME IdInv, IdsApart, NEW m \in net, m.type = "open", NEW rest \in SUBSET net,
         AdmitOpen(m, rest)
  PROVE  IdInv'
<1>1. NextFree(m.cid) = serverCid
  BY NextFreeIsNext
<1>2. CASE Cardinality(DOMAIN servers) >= MaxAssociations
  BY <1>1, <1>2, FullTableKeeps DEF AdmitOpen
<1>3. CASE ~(Cardinality(DOMAIN servers) >= MaxAssociations)
  <2>1. net' = Carry(rest, OpenAck(m.life, m.cid, serverCid))
    BY <1>1, <1>3 DEF AdmitOpen
  <2>2. \A p \in net' : p \in net \/ p = OpenAck(m.life, m.cid, serverCid)
    BY <2>1, CarryFacts
  <2> QED
    BY <1>1, <1>3, <2>2, AdmittedKeeps DEF AdmitOpen
<1> QED
  BY <1>2, <1>3

\* receive_open_ack_packet: the peer is the server of the client's own life.
LEMMA RecvOpenAckKeeps ==
  ASSUME IdInv, IdsApart, NEW m \in net, m.type = "ack", NEW rest \in SUBSET net,
         RecvOpenAck(m, rest)
  PROVE  IdInv'
<1> DEFINE e == IF Bootstrapping THEN [client.end EXCEPT !.number = client.attempt]
                ELSE client.end
           token == IF Bootstrapping THEN m.server ELSE client.token
<1>1. m \in AckPackets
  BY PacketKinds DEF IdInv, TypeOK
<1>2. m.server \in Nat /\ m.life = m.cid /\ m.cid = client.cid /\ client.life = client.cid
  BY <1>1 DEF AckPackets, RecvOpenAck, IdInv, PacketsOK, PacketOK, ClientOK
<1>3. client \in ClientStates /\ client.end \in Endpoints /\ client.attempt \in Nat
  BY DEF IdInv, TypeOK, ClientStates
<1>4. e \in Endpoints /\ e.heard = client.end.heard
  BY <1>3, NumberFacts
<1>5. Active(e) \in Endpoints /\ Active(e).heard = client.end.heard
  BY <1>4, EndpointFacts
<1>6. token \in Nat
  BY <1>2, <1>3 DEF ClientStates
<1>7. client' = [client EXCEPT !.peer = m.server, !.token = token, !.end = Active(e)]
  BY DEF RecvOpenAck
<1> HIDE DEF e, token
<1>8. /\ client' \in ClientStates /\ client'.cid = client.cid /\ client'.life = client.life
      /\ client'.peer = m.server /\ client'.end = Active(e)
  BY <1>2, <1>3, <1>5, <1>6, <1>7 DEF ClientStates
<1>9. Known(client'.peer, client'.life)
  BY <1>2, <1>8 DEF Known, Mention
<1>10. \A p \in net' : Sent(p)
  BY UnderWayIsSent DEF RecvOpenAck
<1> QED
  BY <1>5, <1>8, <1>9, <1>10, ClientMoves
  DEF RecvOpenAck, serverSide, IdInv, ClientOK, AckedIsDelivered

\* A data packet that the client acknowledges is its own, and was delivered.
LEMMA ClientDataKeeps ==
  ASSUME IdInv, IdsApart, NEW m \in net, m.type = "data", m.to = "client",
         NEW rest \in SUBSET net, ClientData(m, rest)
  PROVE  IdInv'
<1> DEFINE c == Symmetric(client)
<1>1. m \in ShortPackets
  BY PacketKinds DEF IdInv, TypeOK
<1>2. m.cid = client.cid /\ m.life = client.life /\ client.life = client.cid
  BY DEF ClientData, IdInv, PacketsOK, PacketOK, ClientOK
<1>3. client \in ClientStates /\ client.end \in Endpoints /\ client.attempt \in Nat
  BY DEF IdInv, TypeOK, ClientStates
<1>4. OwnData(client.end.heard, m.to, m.cid, m.life)
  BY <1>2 DEF IdInv, ClientOK
<1>5. misled' = {}
  BY <1>1, <1>2, <1>3, <1>4, HeardOwn DEF ClientData, Acknowledge, IdInv, AckedIsDelivered
<1>6. /\ c \in ClientStates /\ c.cid = client.cid /\ c.life = client.life
      /\ c.end \in Endpoints /\ c.end.heard = client.end.heard
      /\ c.peer = client.peer \/ c.peer = client.cid
  <2>1. CASE client.peer = NoCid
    <3> DEFINE f == [client.end EXCEPT !.number = client.attempt]
    <3>1. f \in Endpoints /\ f.heard = client.end.heard
      BY <1>3, NumberFacts
    <3>2. c = [client EXCEPT !.peer = client.cid, !.end = f]
      BY <2>1 DEF Symmetric
    <3> HIDE DEF c, f
    <3> QED
      BY <1>3, <3>1, <3>2 DEF ClientStates
  <2>2. CASE client.peer # NoCid
    BY <1>3, <2>2 DEF Symmetric
  <2> QED
    BY <2>1, <2>2
<1>7. client' = [c EXCEPT !.end = Heard(c.end, m)]
  BY DEF ClientData
<1> HIDE DEF c
<1>8. /\ Heard(c.end, m) \in Endpoints
      /\ OwnData(Heard(c.end, m).heard, "client", client.cid, client.life)
  BY <1>1, <1>2, <1>4, <1>6, HeardType, HeardOwn
<1>9. /\ client' \in ClientStates /\ client'.cid = client.cid /\ client'.life = client.life
      /\ client'.peer = c.peer /\ client'.end = Heard(c.end, m)
  BY <1>6, <1>7, <1>8 DEF ClientStates
<1>10. Established' => Known(client'.peer, client'.life)
  <2>1. CASE c.peer = client.cid
    <3>1. client.cid < FirstServerCid
      BY <1>3, LifeAssumption DEF IdInv, TypeOK, ClientOK, IdsApart, ClientStates
    <3> QED
      BY <1>2, <1>9, <2>1, <3>1 DEF Known
  <2>2. CASE c.peer = client.peer
    BY <1>9, <2>2 DEF Known, Mention, Established, Connected
  <2> QED
    BY <1>6, <2>1, <2>2
<1>11. \A p \in net' : Sent(p)
  BY UnderWayIsSent DEF ClientData
<1> QED
  BY <1>5, <1>8, <1>9, <1>10, <1>11, ClientMoves DEF ClientData, serverSide

\* So is one that the server acknowledges: an ID that two associations had
\* would be mentioned for two lives.
LEMMA ServerDataKeeps ==
  ASSUME IdInv, IdsApart, NEW m \in net, m.type = "data", m.to = "server",
         NEW rest \in SUBSET net, ServerData(m, rest)
  PROVE  IdInv'
<1> DEFINE s == m.cid
<1>1. m \in ShortPackets
  BY PacketKinds DEF IdInv, TypeOK
<1>2. s \in DOMAIN servers
  BY DEF ServerData
<1>3. m.life = servers[s].life
  <2>1. Mention(s, m.life) /\ Mention(s, servers[s].life)
    BY <1>2 DEF Mention
  <2> QED
    BY <2>1 DEF IdInv, MentionsOK
<1>4. servers[s].end \in Endpoints /\ OwnData(servers[s].end.heard, m.to, m.cid, m.life)
  BY <1>2, <1>3, ServerEndFacts
<1>5. misled' = misled
  BY <1>1, <1>3, <1>4, HeardOwn DEF ServerData, Acknowledge
<1>6. /\ Heard(servers[s].end, m) \in Endpoints
      /\ OwnData(Heard(servers[s].end, m).heard, "server", s, servers[s].life)
  BY <1>1, <1>3, <1>4, HeardType, HeardOwn
<1>7. servers' = [servers EXCEPT ![s].end = Heard(servers[s].end, m)]
  BY DEF ServerData
<1>8. \A p \in net' : Sent(p)
  BY UnderWayIsSent DEF ServerData
<1> QED
  BY <1>2, <1>5, <1>6, <1>7, <1>8, ServerEndChanges DEF ServerData, clientSide

LEMMA ClientClosedKeeps ==
  ASSUME IdInv, IdsApart, NEW m \in net, NEW rest \in SUBSET net, ClientClosed(m, rest)
  PROVE  IdInv'
BY UnderWayIsSent, ClientEnds DEF ClientClosed, DropClient

LEMMA ServerClosedKeeps ==
  ASSUME IdInv, IdsApart, NEW m \in net, NEW rest \in SUBSET net, ServerClosed(m, rest)
  PROVE  IdInv'
BY UnderWayIsSent, ServerEnds DEF ServerClosed

LEMMA ClientResetKeeps ==
  ASSUME IdInv, IdsApart, NEW m \in net, NEW rest \in SUBSET net, ClientReset(m, rest)
  PROVE  IdInv'
BY UnderWayIsSent, ClientEnds DEF ClientReset, DropClient

LEMMA ServerResetKeeps ==
  ASSUME IdInv, IdsApart, NEW m \in net, NEW rest \in SUBSET net, ServerReset(m, rest)
  PROVE  IdInv'
BY UnderWayIsSent, ServerEnds DEF ServerReset

\* The network alone moves.
LEMMA NetworkMoves ==
  ASSUME IdInv, IdsApart, UNCHANGED <<client, clientCid, lives, servers, serverCid, misled>>,
         \A m \in net' : Sent(m)
  PROVE  IdInv'
<1>1. Established' => Known(client'.peer, client'.life)
  BY DEF Known, Mention, Established, Connected
<1> QED
  BY <1>1, ClientMoves DEF IdInv, TypeOK, ClientOK, AckedIsDelivered

\* A reset names an ID that is spent and that nobody has.
LEMMA UnknownKeeps ==
  ASSUME IdInv, IdsApart, NEW m \in net, m.type \in {"data", "close"},
         NEW rest \in SUBSET net, Unknown(m, rest)
  PROVE  IdInv'
<1> DEFINE to == IF m.to = "client" THEN "server" ELSE "client"
<1>1. m \in ShortPackets
  BY PacketKinds DEF IdInv, TypeOK
<1>2. m.cid \in Nat /\ m.to \in Sides /\ to \in Sides
  BY <1>1 DEF ShortPackets, Sides
<1>3. \A p \in net' : p \in net \/ p = Reset(to, m.cid)
  BY CarryFacts DEF Unknown
<1>4. ASSUME NEW p, p = Reset(to, m.cid)
      PROVE  Sent(p)
  <2>1. p \in ResetPackets
    BY <1>2, <1>4, PacketTypes
  <2>2. p.type = "reset" /\ p.to = to /\ p.cid = m.cid
    BY <1>4 DEF Reset
  <2>3. CASE m.to = "client"
    <3>1. m.cid <= lives /\ ~(Connected /\ client.cid = m.cid)
      BY <2>3 DEF Unknown, IdInv, PacketsOK, PacketOK
    <3>2. PacketOK(p)'
      BY <2>2, <2>3, <3>1 DEF PacketOK, Unknown, clientSide, Connected
    <3> QED
      BY <2>1, <2>2, <3>2 DEF Sent, Packets
  <2>4. CASE m.to = "server"
    <3>1. m.cid < serverCid /\ m.cid \notin DOMAIN servers
      BY <2>4 DEF Unknown, IdInv, PacketsOK, PacketOK
    <3>2. PacketOK(p)'
      BY <2>2, <2>4, <3>1 DEF PacketOK, Unknown, serverSide
    <3> QED
      BY <2>1, <2>2, <3>2 DEF Sent, Packets
  <2> QED
    BY <1>2, <2>3, <2>4 DEF Sides
<1> HIDE DEF to
<1>5. \A p \in net' : Sent(p)
  BY <1>3, <1>4, UnderWayIsSent
<1> QED
  BY <1>5, NetworkMoves DEF Unknown, clientSide, serverSide

LEMMA ArriveKeeps ==
  ASSUME IdInv, IdsApart, NEW m \in net, NEW rest \in SUBSET net, Arrive(m, rest)
  PROVE  IdInv'
BY ReplayOpenKeeps, AdmitOpenKeeps, RecvOpenAckKeeps, ClientDataKeeps, ServerDataKeeps,
   ClientClosedKeeps, ServerClosedKeeps, UnknownKeeps, ClientResetKeeps, ServerResetKeeps
DEF Arrive

-----------------------------------------------------------------------------
(* Time, and the theorems.                                                 *)

LEMMA TickKeeps == ASSUME IdInv, IdsApart, Tick PROVE IdInv'
<1>1. /\ client' \in ClientStates /\ client'.cid = client.cid /\ client'.life = client.life
      /\ client'.peer = client.peer /\ client'.end.heard = client.end.heard
  <2>1. client \in ClientStates /\ client.end \in Endpoints
    BY DEF IdInv, TypeOK, ClientStates
  <2>2. Older(client.end) \in Endpoints /\ Older(client.end).heard = client.end.heard
    BY <2>1, EndpointFacts
  <2>3. CASE Connected
    <3>1. client' = [client EXCEPT !.end = Older(client.end)]
      BY <2>3 DEF Tick
    <3> QED
      BY <2>1, <2>2, <3>1 DEF ClientStates
  <2>4. CASE ~Connected
    BY <2>1, <2>4 DEF Tick
  <2> QED
    BY <2>3, <2>4
<1>2. ASSUME NEW s \in DOMAIN servers
      PROVE  /\ servers'[s] \in ServerStates
             /\ servers'[s].life = servers[s].life /\ servers'[s].peer = servers[s].peer
             /\ servers'[s].end.heard = servers[s].end.heard
  <2>1. servers[s] \in ServerStates
    BY DEF IdInv, TypeOK
  <2>2. /\ Older(servers[s].end) \in Endpoints
        /\ Older(servers[s].end).heard = servers[s].end.heard
    BY ServerEndFacts, EndpointFacts
  <2>3. servers'[s] = [servers[s] EXCEPT !.end = Older(servers[s].end)]
    BY DEF Tick
  <2> QED
    BY <2>1, <2>2, <2>3 DEF ServerStates
<1>3. DOMAIN servers' = DOMAIN servers /\ servers' \in [DOMAIN servers' -> ServerStates]
  BY <1>2 DEF Tick
<1>4. UNCHANGED <<clientCid, lives, serverCid, net, misled>>
  BY DEF Tick
<1>5. TypeOK'
  BY <1>1, <1>3, <1>4 DEF IdInv, TypeOK
<1>6. ClientOK'
  BY <1>1, <1>4 DEF IdInv, ClientOK
<1>7. ServersOK'
  BY <1>2, <1>3, <1>4 DEF IdInv, ServersOK
<1>8. PacketsOK'
  BY <1>1, <1>3, <1>4, PacketsKept DEF IdInv, TypeOK, Connected
<1>9. MentionsOK'
  <2>1. ASSUME NEW s, NEW l, Mention(s, l)'
        PROVE  Mention(s, l)
    BY <1>1, <1>2, <1>3, <1>4, <2>1 DEF Mention, Established, Connected
  <2>2. \A s, l : Mention(s, l) => s \in Nat
    BY PacketKinds DEF Mention, IdInv, TypeOK, AckPackets, ShortPackets, ClientStates
  <2> QED
    BY <1>4, <2>1, <2>2, MentionsKept DEF IdInv, TypeOK, ServersOK, Known
<1> QED
  BY <1>4, <1>5, <1>6, <1>7, <1>8, <1>9 DEF IdInv, AckedIsDelivered

LEMMA InitEstablishes == ASSUME IdsApart, Init PROVE IdInv
<1>1. DOMAIN servers = {} /\ servers \in [DOMAIN servers -> ServerStates]
  BY DEF Init
<1>2. TypeOK
  BY <1>1, NoClientFacts, FS_EmptySet, LifeAssumption DEF Init, TypeOK
<1>3. ClientOK
  BY NoClientFacts, LifeAssumption DEF Init, ClientOK, OwnData, NoCid
<1>4. ServersOK
  BY <1>1, LifeAssumption DEF Init, ServersOK
<1>5. ~Established
  BY NoClientFacts DEF Init, Established, Connected
<1> QED
  BY <1>1, <1>2, <1>3, <1>4, <1>5
  DEF Init, IdInv, PacketsOK, MentionsOK, Mention, AckedIsDelivered

LEMMA NextKeeps == ASSUME IdInv, IdsApart, [Next]_vars PROVE IdInv'
<1>1. CASE ClientNext
  BY <1>1, AssociateKeeps, RetryOpenKeeps, BootstrapTimedOutKeeps, ClientIdleKeeps,
     ClientSendKeeps, ClientRepeatsKeeps, ClientCloseKeeps, RestartClientKeeps
  DEF ClientNext
<1>2. CASE ServerNext
  BY <1>2, ServerIdleKeeps, ServerSendKeeps, ServerRepeatsKeeps, ServerCloseKeeps,
     RestartServerKeeps
  DEF ServerNext
<1>3. CASE NetworkNext
  <2>1. PICK m \in net : Deliver(m) \/ DeliverCopy(m) \/ Lose(m)
    BY <1>3 DEF NetworkNext
  <2>2. CASE Deliver(m)
    <3>1. net \ {m} \in SUBSET net
      OBVIOUS
    <3> QED
      BY <2>2, <3>1, ArriveKeeps DEF Deliver
  <2>3. CASE DeliverCopy(m)
    <3>1. net \in SUBSET net
      OBVIOUS
    <3> QED
      BY <2>3, <3>1, ArriveKeeps DEF DeliverCopy
  <2>4. CASE Lose(m)
    BY <2>4, NetworkMoves, UnderWayIsSent DEF Lose, clientSide, serverSide
  <2> QED
    BY <2>1, <2>2, <2>3, <2>4
<1>4. CASE UNCHANGED vars
  BY <1>4, NetworkMoves, UnderWayIsSent DEF vars
<1> QED
  BY <1>1, <1>2, <1>3, <1>4, TickKeeps DEF Next

\* The inductive invariant: IDs number lives, are spent once and are never
\* taken for those of another life.
THEOREM IdsNameOneLife == ASSUME IdsApart PROVE Spec => []IdInv
<1>1. Init => IdInv
  BY InitEstablishes
<1>2. IdInv /\ [Next]_vars => IdInv'
  BY NextKeeps
<1> QED
  BY <1>1, <1>2, PTL DEF Spec

\* What is acknowledged was given to the application of the association it
\* was sent for, through every retry, replay, close, reset and restart, when
\* the IDs of the nodes are apart.
THEOREM AcknowledgedIsDelivered == ASSUME IdsApart PROVE Spec => []AckedIsDelivered
<1>1. IdInv => AckedIsDelivered
  BY DEF IdInv
<1> QED
  BY <1>1, IdsNameOneLife, PTL

\* A reset under way never names an association that both ends still have.
THEOREM ResetsSpareTheLiving == ASSUME IdsApart PROVE Spec => []ResetsNameTheDead
<1>1. IdInv => ResetsNameTheDead
  BY DEF IdInv, PacketsOK, PacketOK, ResetsNameTheDead
<1> QED
  BY <1>1, IdsNameOneLife, PTL
=============================================================================
