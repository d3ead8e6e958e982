--------------------------- MODULE StreamDelivery ---------------------------
(***************************************************************************)
(* The receive side of a quic-lite association, from a STREAM frame to the *)
(* application: the endpoint's account of every stream (lib.rs,            *)
(* ConnectionState), ordered delivery (OrderedDelivery) and the two        *)
(* adapters that join them, the mux of a server (mux.rs) and the node of a *)
(* client (node.rs).  They decide when a packet is acknowledged, what an   *)
(* application may still refuse, and when a stream is forgotten.           *)
(*                                                                         *)
(* The peer repeats a written range under a fresh packet number until it   *)
(* is acknowledged, and the network loses, delays and copies packets: any  *)
(* written range may arrive at any time, and under a number that is        *)
(* already known once a packet with it was acknowledged.  The peer writes  *)
(* within the credit of CreditExchange: what was consumed and one window.  *)
(***************************************************************************)
EXTENDS OrderedDelivery, Sequences

CONSTANTS
  Streams,
  Window,           \* max_data, the receive window of the association
  RetentionLimit,   \* max_retained_bytes
  MaxPending,       \* max_streams of ordered delivery, by adapter
  Length,           \* bound: bytes of a stream
  Chunk,            \* bound: bytes of one frame
  HalfOpen          \* adapters whose own half of a stream may be unfinished

ASSUME StreamAssumption ==
  /\ IsFiniteSet(Streams)
  /\ Window \in Nat /\ RetentionLimit \in Nat
  /\ Length \in Nat /\ Chunk \in Nat
  /\ MaxPending \in [{"server", "client"} -> Nat]
  /\ HalfOpen \subseteq {"server", "client"}

VARIABLES
  adapter,      \* which side of the association this is
  written,      \* frames the peer has written, by stream
  received,     \* StreamState.received
  consumed,     \* StreamState.consumed
  finished,     \* StreamState.finished
  retired,      \* retired_streams
  unacked,      \* packets of the own half with a record, by stream
  total,        \* receive.connection.consumed
  ordered,      \* CallbackStreams.streams, for the streams that have a slot
  retainedBytes,\* CallbackStreams.retained_bytes
  acked,        \* history: frames of packets that were acknowledged
  delivered     \* history: positions of the bytes the application was given, -1 for the end

endpoint == <<received, consumed, finished, retired, total>>
delivery == <<ordered, retainedBytes, delivered>>
vars == <<adapter, written, unacked, acked, endpoint, delivery>>

Init ==
  /\ adapter \in {"server", "client"}
  /\ written = [s \in Streams |-> {}]
  /\ received = [s \in Streams |-> 0] /\ consumed = [s \in Streams |-> 0]
  /\ finished = [s \in Streams |-> FALSE] /\ retired = {}
  /\ unacked = [s \in Streams |-> IF adapter \in HalfOpen THEN {"data", "fin"} ELSE {}]
  /\ total = 0
  /\ ordered = [s \in {} |-> NewStream] /\ retainedBytes = 0
  /\ acked = [s \in Streams |-> {}]
  /\ delivered = [s \in Streams |-> <<>>]

-----------------------------------------------------------------------------
(* The peer and the local half.                                            *)

Size(s) == Max({0} \cup {EndOf(f) : f \in written[s]})
Closed(s) == \E f \in written[s] : f.fin

\* Bytes of several streams: P[s] holds positions in stream s.
AllBytes(P) == UNION {{s} \X P[s] : s \in DOMAIN P}

WrittenBytes == AllBytes([s \in Streams |-> 0 .. Size(s) - 1])

Write(s, n, fin) ==
  /\ ~Closed(s) /\ (n > 0 \/ fin) /\ Size(s) + n <= Length
  /\ Cardinality(WrittenBytes) + n <= total + Window
  /\ written' = [written EXCEPT ![s] = @ \cup {[offset |-> Size(s), len |-> n, fin |-> fin]}]
  /\ UNCHANGED <<adapter, unacked, acked, endpoint, delivery>>

-----------------------------------------------------------------------------
(* The endpoint.                                                           *)

\* is_complete, of the account a packet has just changed.
Complete(s, rcv, con, fin) == fin /\ con = rcv

\* stream_delivery_complete.
DeliveryComplete(s) ==
  s \in retired \/ Complete(s, received[s], consumed[s], finished[s])

\* accept, the delivery of `took' bytes and try_retire_stream, in one packet.
\* A frame of a retired stream or of a known packet number is not accepted.
Account(s, f, accepted, took) ==
  LET rcv == IF accepted /\ EndOf(f) > received[s] THEN EndOf(f) ELSE received[s]
      fin == finished[s] \/ (accepted /\ f.fin)
      con == IF consumed[s] + took < rcv THEN consumed[s] + took ELSE rcv
      event == (accepted /\ f.fin) \/ took > 0
  IN  /\ received' = [received EXCEPT ![s] = rcv]
      /\ finished' = [finished EXCEPT ![s] = fin]
      /\ consumed' = [consumed EXCEPT ![s] = con]
      /\ total' = total + took
      /\ retired' = IF event /\ unacked[s] = {} /\ Complete(s, rcv, con, fin)
                      THEN retired \cup {s} ELSE retired

\* apply_ack_ranges_on_path: packets A of the own half are acknowledged.
\* Only the acknowledgement of FIN tries to retire the stream.
AckLocal(s, A) ==
  /\ unacked' = [unacked EXCEPT ![s] = @ \ A]
  /\ retired' = IF /\ "fin" \in A /\ unacked[s] \ A = {}
                   /\ Complete(s, received[s], consumed[s], finished[s])
                  THEN retired \cup {s} ELSE retired
  /\ UNCHANGED <<adapter, written, received, consumed, finished, total, acked, delivery>>

-----------------------------------------------------------------------------
(* Ordered delivery of one frame, and its outcome.                         *)

Ordered(s) == IF s \in DOMAIN ordered THEN ordered[s] ELSE NewStream

HasSlot(s) ==
  s \in DOMAIN ordered \/ Cardinality(DOMAIN ordered) < MaxPending[adapter]

Available == IF retainedBytes < RetentionLimit THEN RetentionLimit - retainedBytes ELSE 0

Try(s, f, room, memory) == Deliver(Ordered(s), f, room, memory, Available)

\* The slot of a stream that ended is free again.
Apply(s, d) ==
  LET from == Ordered(s).consumed
      chunk == [i \in 1 .. d.took |-> from + i - 1]
      slots == IF d.ended THEN DOMAIN ordered \ {s} ELSE DOMAIN ordered \cup {s}
  IN  /\ ordered' = [t \in slots |-> IF t = s THEN d.stream ELSE ordered[t]]
      /\ retainedBytes' = retainedBytes + d.stored - d.released
      /\ delivered' = [delivered EXCEPT
                         ![s] = @ \o chunk \o (IF d.ended THEN <<-1>> ELSE <<>>)]

\* commit_stream_packet_receive: the packet number enters the ACK ranges.
Commit(s, f) == acked' = [acked EXCEPT ![s] = @ \cup {f}]

-----------------------------------------------------------------------------
(* A server: mux.rs, receive_stream_events_with_retention.                 *)

\* Mutant: a frame that may not fit is refused without a dry run.
ServerAdmitsByBytes(s, f, memory) ==
  /\ HasSlot(s)
  /\ retainedBytes + f.len <= RetentionLimit

\* validate_packet_frames, and the dry run with an application that takes
\* everything when the frame may not fit.
ServerAdmits(s, f, memory) ==
  /\ HasSlot(s)
  /\ retainedBytes + f.len > RetentionLimit => ~Try(s, f, Length, memory).refused

\* Mutant: what could not be retained is acknowledged all the same.
ServerReceiveAcksRefused(s, f, known, room, memory) ==
  LET d == Try(s, f, room, memory)
  IN  /\ ~DeliveryComplete(s) /\ ServerAdmits(s, f, memory)
      /\ Account(s, f, ~known, d.took)
      /\ Apply(s, d)
      /\ Commit(s, f)
      /\ UNCHANGED <<adapter, written, unacked>>

\* A frame of a stream that is not complete.  The frames of a known number
\* are delivered too: they may resume what the application left.
ServerReceive(s, f, known, room, memory) ==
  LET d == Try(s, f, room, memory)
  IN  /\ ~DeliveryComplete(s) /\ ServerAdmits(s, f, memory)
      /\ Account(s, f, ~known, d.took)
      /\ Apply(s, d)
      /\ IF d.refused \/ known THEN UNCHANGED acked ELSE Commit(s, f)
      /\ UNCHANGED <<adapter, written, unacked>>

\* A late frame of a complete stream is only acknowledged.
ServerReceiveLate(s, f) ==
  /\ DeliveryComplete(s)
  /\ Account(s, f, s \notin retired, 0)
  /\ Commit(s, f)
  /\ UNCHANGED <<adapter, written, unacked, delivery>>

-----------------------------------------------------------------------------
(* A client: node.rs, the endpoint first and delivery after it.            *)

ClientReceive(s, f, room, memory) ==
  LET d == Try(s, f, room, memory)
  IN  /\ s \notin retired
      /\ IF HasSlot(s)
           THEN /\ Account(s, f, TRUE, d.took)
                /\ Apply(s, d)
                /\ IF d.refused THEN UNCHANGED acked ELSE Commit(s, f)
           ELSE /\ Account(s, f, TRUE, 0)
                /\ UNCHANGED <<acked, delivery>>
      /\ UNCHANGED <<adapter, written, unacked>>

\* The endpoint drops the frames of a retired stream and of a known number.
ClientReceiveLate(s, f) ==
  /\ s \in retired
  /\ Commit(s, f)
  /\ UNCHANGED <<adapter, written, unacked, endpoint, delivery>>

-----------------------------------------------------------------------------

\* The application has room again: resume_stream_events and its client twin.
ResumeStream(s, room) ==
  LET d == Resume(ordered[s], room)
  IN  /\ s \in DOMAIN ordered /\ RetainedAt(ordered[s], ordered[s].consumed)
      /\ Account(s, [offset |-> 0, len |-> 0, fin |-> FALSE], FALSE, d.took)
      /\ Apply(s, d)
      /\ UNCHANGED <<adapter, written, unacked, acked>>

Arrive(s, f) ==
  \/ /\ adapter = "server"
     /\ \E known \in {b \in BOOLEAN : b => f \in acked[s]}, room \in 0 .. Length,
           memory \in BOOLEAN : ServerReceive(s, f, known, room, memory)
  \/ adapter = "server" /\ ServerReceiveLate(s, f)
  \/ /\ adapter = "client"
     /\ \E room \in 0 .. Length, memory \in BOOLEAN : ClientReceive(s, f, room, memory)
  \/ adapter = "client" /\ ClientReceiveLate(s, f)

Next ==
  \E s \in Streams :
    \/ \E n \in 0 .. Chunk, fin \in BOOLEAN : Write(s, n, fin)
    \/ \E A \in SUBSET unacked[s] : A # {} /\ AckLocal(s, A)
    \/ \E f \in written[s] : Arrive(s, f)
    \/ \E room \in 1 .. Length : ResumeStream(s, room)

Spec == Init /\ [][Next]_vars

-----------------------------------------------------------------------------

\* The ranges of a stream wait at or behind its cursor and do not overlap,
\* streams hold no more slots than they may, and what is retained is within
\* the limit.
RetentionForm ==
  /\ DOMAIN ordered \subseteq Streams
  /\ Cardinality(DOMAIN ordered) <= MaxPending[adapter]
  /\ \A s \in DOMAIN ordered :
       /\ ordered[s].consumed \in 0 .. Length
       /\ \A i \in ordered[s].retained :
            i.offset >= ordered[s].consumed /\ i.len \in 0 .. Length
       /\ \A i, j \in ordered[s].retained : i = j \/ Bytes(i) \cap Bytes(j) = {}
  /\ retainedBytes \in 0 .. RetentionLimit
  /\ \A s \in Streams : consumed[s] <= received[s]

Given(s) == Cardinality({i \in DOMAIN delivered[s] : delivered[s][i] # -1})
Ended(s) == \E i \in DOMAIN delivered[s] : delivered[s][i] = -1

GivenBytes == AllBytes([s \in Streams |-> 0 .. Given(s) - 1])
HeldBytes == AllBytes([s \in Streams |-> UNION {Bytes(i) : i \in Ordered(s).retained}])

Reliable == INSTANCE ReliableStreams WITH
  length <- [s \in Streams |-> Size(s)],
  closed <- [s \in Streams |-> Closed(s)]

\* Reliable delivery: whatever is lost, copied, reordered, refused for want
\* of memory or taken in parts, the application is given the written bytes
\* once and in order, then the end once.
ImplementsReliableStreams == Reliable!Spec

\* An acknowledged frame is never sent again, so everything in it was
\* delivered or is retained (retention_for_receive_window: "a smaller
\* ceiling would let a packet be acknowledged and then fail retention,
\* losing data the peer will never resend").
AckedIsHeld ==
  \A s \in Streams : \A f \in acked[s] :
    LET held == Ordered(s).retained
    IN  \/ Ended(s)
        \/ /\ \A b \in Bytes(f) : b < Given(s) \/ \E i \in held : b \in Bytes(i)
           /\ f.fin => \E i \in held : i.fin

\* Three accounts of the same bytes agree: the counter that admission tests
\* and the ranges it stands for, the cursor of delivery and the consumption
\* that credit is granted for, the consumption of streams and association.
\* What is retained has its form.
AccountsAgree ==
  /\ RetentionForm
  /\ retainedBytes = Cardinality(HeldBytes)
  /\ \A s \in Streams : consumed[s] = Given(s)
  /\ total = Cardinality(GivenBytes)

\* While the peer has written more than the application was given, some
\* frame would be admitted and move the cursor, or the application can
\* resume: full_reorder_window_accepts_the_missing_prefix_and_drains.
NothingStalls ==
  \A s \in Streams :
    (Given(s) < Size(s) \/ (Closed(s) /\ ~Ended(s))) /\ HasSlot(s) =>
      \/ RetainedAt(Ordered(s), Ordered(s).consumed)
      \/ \E f \in written[s] :
           LET d == Try(s, f, Length, TRUE)
           IN  /\ ~d.refused /\ (d.took > 0 \/ d.ended)
               /\ adapter = "server" => ~DeliveryComplete(s) /\ ServerAdmits(s, f, TRUE)
               /\ adapter = "client" => s \notin retired

\* stream_delivery_complete: "delivery adapters use this earlier receive-
\* side state to suppress late retransmissions".
DeliveredOnce ==
  \A s \in Streams : \A i, j \in DOMAIN delivered[s] :
    i # j => delivered[s][i] # delivered[s][j]

\* late_retransmission_does_not_reopen_retired_peer_stream: the stream is
\* removed "once the local send half is acknowledged and the receive half
\* is consumed".
RetiredWhenDone ==
  \A s \in Streams :
    unacked[s] = {} /\ Complete(s, received[s], consumed[s], finished[s])
      => s \in retired
=============================================================================
