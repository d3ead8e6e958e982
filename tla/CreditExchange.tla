--------------------------- MODULE CreditExchange ---------------------------
(***************************************************************************)
(* Flow-control credit of quic-lite (lib.rs): a receiver that consumes     *)
(* bytes and retires streams raises its limits and publishes them in       *)
(* MAX_DATA, MAX_STREAM_DATA and MAX_STREAMS frames; a sender writes and   *)
(* opens streams within the limits it has heard of.  One publication is    *)
(* tracked at a time: until it is acknowledged it is repeated on a timer,  *)
(* and what changes meanwhile makes it dirty.  A publication may have room *)
(* for only some of the streams that wait, and may be copied on another    *)
(* path.                                                                   *)
(*                                                                         *)
(* Packets and their acknowledgements are lost, delayed and overtaken.     *)
(* Time is left out: a timer may fire whenever it is set.  Data itself is  *)
(* reliable (StreamDelivery), so what was sent can be consumed.            *)
(***************************************************************************)
EXTENDS Integers, Sequences, FiniteSets

CONSTANTS
  StreamTotal,    \* bound: streams the sender will open, one after another
  Length,         \* bound: bytes of each stream, at least one
  ConnWindow,     \* receive_growth_limits.max_data
  StreamWindow,   \* receive_growth_limits.max_stream_data
  StreamsWindow,  \* receive_growth_limits.max_streams_bidi
  Threshold,      \* consumed bytes that make a new limit worth sending
  Packets         \* bound: identities of the publications under way

ASSUME CreditAssumption ==
  /\ StreamTotal \in Nat /\ Length \in [0 .. StreamTotal - 1 -> Nat \ {0}]
  /\ ConnWindow \in Nat \ {0} /\ StreamWindow \in Nat \ {0}
  /\ StreamsWindow \in Nat \ {0} /\ Threshold \in Nat \ {0}
  /\ Threshold <= ConnWindow /\ Threshold <= StreamWindow

Streams == 0 .. StreamTotal - 1   \* ordinals of the sender's streams
NoPacket == "none"

ASSUME PacketAssumption == NoPacket \notin Packets

VARIABLES
  \* the receiver
  consumed,        \* StreamState.consumed
  consumedData,    \* receive.connection.consumed
  maxStream,       \* StreamState.max_data
  maxData,         \* receive.connection.max_data
  maxStreams,      \* receive.limits.max_streams_bidi
  retired,         \* retired_streams
  pending,         \* pending_stream_ids
  creditPending,   \* credit_pending
  dirty,           \* credit_dirty
  raised,          \* max_streams_bidi_pending
  packet,          \* credit_packet_number
  inflight,        \* credit_inflight_stream_count
  inflightRaised,  \* credit_inflight_max_streams_bidi
  \* the network
  net,             \* by identity: the publication under way, or none
  heard,           \* whether the tracked publication was received, so that
                   \* an acknowledgement of it may arrive
  copy,            \* its copy on another path, if one was made
  \* the sender
  sent,            \* SendStreamCredit.sent, 0 for a stream not yet opened
  sentData,        \* send.sent_data
  knownStream,     \* SendStreamCredit.max_data
  knownData,       \* send.max_data
  knownStreams     \* peer_max_streams_bidi

limits == <<consumed, consumedData, maxStream, maxData, maxStreams, retired>>
publication == <<pending, creditPending, dirty, raised, packet, inflight, inflightRaised>>
network == <<net, heard, copy>>
sender == <<sent, sentData, knownStream, knownData, knownStreams>>
vars == <<limits, publication, network, sender>>

\* MAX_DATA, MAX_STREAM_DATA by stream and MAX_STREAMS, 0 where there is none.
NoMessage == [data |-> 0, stream |-> [s \in Streams |-> 0], streams |-> 0]

Init ==
  /\ consumed = [s \in Streams |-> 0] /\ consumedData = 0
  /\ maxStream = [s \in Streams |-> StreamWindow]
  /\ maxData = ConnWindow /\ maxStreams = StreamsWindow /\ retired = {}
  /\ pending = <<>> /\ creditPending = FALSE /\ dirty = FALSE /\ raised = FALSE
  /\ packet = NoPacket /\ inflight = 0 /\ inflightRaised = FALSE
  /\ net = [p \in Packets |-> NoMessage] /\ heard = FALSE /\ copy = NoPacket
  /\ sent = [s \in Streams |-> 0] /\ sentData = 0
  /\ knownStream = [s \in Streams |-> StreamWindow]
  /\ knownData = ConnWindow /\ knownStreams = StreamsWindow

Larger(a, b) == IF a >= b THEN a ELSE b
Smaller(a, b) == IF a <= b THEN a ELSE b

-----------------------------------------------------------------------------
(* The sender.                                                             *)

\* Mutant: a byte at the limit is within it.
SendOnePast(s) ==
  /\ sent[s] = 0 => s < knownStreams
  /\ sent[s] < Length[s]
  /\ sent[s] <= knownStream[s] /\ sentData + 1 <= knownData
  /\ sent' = [sent EXCEPT ![s] = @ + 1]
  /\ sentData' = sentData + 1
  /\ UNCHANGED <<knownStream, knownData, knownStreams, limits, publication, network>>

\* open_bidi_stream at the first byte, then can_send and reserve.
Send(s) ==
  /\ sent[s] = 0 => s < knownStreams
  /\ sent[s] < Length[s]
  /\ sent[s] + 1 <= knownStream[s] /\ sentData + 1 <= knownData
  /\ sent' = [sent EXCEPT ![s] = @ + 1]
  /\ sentData' = sentData + 1
  /\ UNCHANGED <<knownStream, knownData, knownStreams, limits, publication, network>>

-----------------------------------------------------------------------------
(* The receiver's limits.                                                  *)

\* queue_stream_credit.
Queue(s) ==
  /\ dirty' = (dirty \/ packet # NoPacket)
  /\ creditPending' = TRUE
  /\ pending' = IF \E i \in DOMAIN pending : pending[i] = s THEN pending ELSE Append(pending, s)
  /\ UNCHANGED <<raised, packet, inflight, inflightRaised>>

\* stream_consumed_inner: a limit moves once it is worth a publication.
Consume(s) ==
  LET total == consumedData + 1
      dataDue == total + ConnWindow - maxData >= Threshold
      streamDue == consumed[s] + 1 + StreamWindow - maxStream[s] >= Threshold
  IN  /\ consumed[s] < sent[s]
      /\ consumed' = [consumed EXCEPT ![s] = @ + 1] /\ consumedData' = total
      /\ maxData' = IF dataDue THEN Larger(maxData, total + ConnWindow) ELSE maxData
      /\ maxStream' = IF streamDue
           THEN [maxStream EXCEPT ![s] = Larger(@, consumed[s] + 1 + StreamWindow)]
           ELSE maxStream
      /\ IF dataDue \/ streamDue THEN Queue(s) ELSE UNCHANGED publication
      /\ UNCHANGED <<maxStreams, retired, network, sender>>

\* grant_receive_window: the application publishes what it has room for.
Grant(s, window) ==
  /\ sent[s] > 0 /\ s \notin retired
  /\ maxData' = Larger(maxData, consumedData + Smaller(window, ConnWindow))
  /\ maxStream' = [maxStream EXCEPT
       ![s] = Larger(@, consumed[s] + Smaller(window, StreamWindow))]
  /\ Queue(s)
  /\ UNCHANGED <<consumed, consumedData, maxStreams, retired, network, sender>>

\* The list q, in which a stream waits at most once, without stream s.
Without(q, s) ==
  IF \E i \in DOMAIN q : q[i] = s
    THEN LET at == CHOOSE i \in DOMAIN q : q[i] = s
         IN  [i \in 1 .. Len(q) - 1 |-> IF i < at THEN q[i] ELSE q[i + 1]]
    ELSE q

\* Mutant: the publication in flight is not marked as out of date.
RetireNotDirty(s) ==
  LET before == {i \in DOMAIN pending : i <= inflight /\ pending[i] = s}
      target == Cardinality(retired) + 1 + StreamsWindow
  IN  /\ consumed[s] = Length[s] /\ s \notin retired
      /\ retired' = retired \cup {s}
      /\ pending' = Without(pending, s)
      /\ inflight' = inflight - Cardinality(before)
      /\ maxStreams' = Larger(maxStreams, target)
      /\ raised' = (raised \/ target > maxStreams)
      /\ creditPending' = TRUE
      /\ UNCHANGED <<dirty, consumed, consumedData, maxStream, maxData, packet, inflightRaised, network, sender>>

\* try_retire_stream: the stream is complete in both directions.  It is tried
\* when the last byte is consumed, when the FIN arrives and when the FIN of
\* the other direction is acknowledged; the latter two come at any time after
\* the bytes, or never, and no fairness is assumed of them.
Retire(s) ==
  LET before == {i \in DOMAIN pending : i <= inflight /\ pending[i] = s}
      target == Cardinality(retired) + 1 + StreamsWindow
  IN  /\ consumed[s] = Length[s] /\ s \notin retired
      /\ retired' = retired \cup {s}
      /\ pending' = Without(pending, s)
      /\ inflight' = inflight - Cardinality(before)
      /\ maxStreams' = Larger(maxStreams, target)
      /\ raised' = (raised \/ target > maxStreams)
      /\ dirty' = (dirty \/ packet # NoPacket)
      /\ creditPending' = TRUE
      /\ UNCHANGED <<consumed, consumedData, maxStream, maxData, packet, inflightRaised, network, sender>>

-----------------------------------------------------------------------------
(* Publication: encode_control_frames_on_path, commit_control_frames.      *)

\* Streams a publication names: a repetition only those it named before.
Limit ==
  IF packet # NoPacket /\ ~dirty
    THEN IF inflight <= Len(pending) THEN inflight ELSE Len(pending)
    ELSE Len(pending)

\* The frames of a publication that names the first k streams that wait,
\* with MAX_STREAMS or not.
Limits(k, withStreams) ==
  LET named == {pending[i] : i \in 1 .. k}
  IN  [data |-> maxData,
       stream |-> [s \in Streams |-> IF s \in named THEN maxStream[s] ELSE 0],
       streams |-> IF withStreams THEN maxStreams ELSE 0]

Free == {q \in Packets : net[q] = NoMessage}

\* Mutant: a publication is not repeated.
PublishOnce(k, fits) ==
  LET p == CHOOSE q \in Free : TRUE
  IN  /\ creditPending /\ Free # {} /\ (packet = NoPacket \/ dirty)
      /\ net' = [net EXCEPT ![p] = Limits(k, raised /\ fits)]
      /\ packet' = p /\ inflight' = k /\ inflightRaised' = (raised /\ fits)
      /\ dirty' = FALSE /\ heard' = FALSE /\ copy' = NoPacket
      /\ UNCHANGED <<pending, creditPending, raised, limits, sender>>

\* A publication with room for k streams, and for MAX_STREAMS or not.
Publish(k, fits) ==
  LET p == CHOOSE q \in Free : TRUE
  IN  /\ creditPending /\ Free # {}
      /\ net' = [net EXCEPT ![p] = Limits(k, raised /\ fits)]
      /\ packet' = p /\ inflight' = k /\ inflightRaised' = (raised /\ fits)
      /\ dirty' = FALSE /\ heard' = FALSE /\ copy' = NoPacket
      /\ UNCHANGED <<pending, creditPending, raised, limits, sender>>

\* duplicate_credit_control_on_path: once the publication is accepted it is
\* copied on another path, with the limits of today and as many streams as
\* it named (where one was retired since, the next in the list moves up).
Copy(k) ==
  LET p == CHOOSE q \in Free : TRUE
  IN  /\ packet # NoPacket /\ creditPending /\ copy = NoPacket /\ Free # {}
      /\ net' = [net EXCEPT ![p] = Limits(k, inflightRaised)]
      /\ copy' = p
      /\ UNCHANGED <<heard, limits, publication, sender>>

\* receive_flow_control_packet: the sender hears of new limits.
Hear(p) ==
  /\ net[p] # NoMessage
  /\ knownData' = Larger(knownData, net[p].data)
  /\ knownStream' = [s \in Streams |-> Larger(knownStream[s], net[p].stream[s])]
  /\ knownStreams' = Larger(knownStreams, net[p].streams)
  /\ net' = [net EXCEPT ![p] = NoMessage]
  /\ heard' = (heard \/ p \in {packet, copy})
  /\ UNCHANGED <<copy, sent, sentData, limits, publication>>

Lose(p) ==
  /\ net[p] # NoMessage
  /\ net' = [net EXCEPT ![p] = NoMessage]
  /\ UNCHANGED <<heard, copy, limits, publication, sender>>

\* apply_ack_ranges_on_path: an ACK of the tracked packet or of its copy
\* settles what the packet named, unless something changed since it left.
\* The ACK of another packet changes nothing here.
Acked ==
  /\ heard /\ heard' = FALSE /\ copy' = NoPacket
  /\ packet' = NoPacket /\ inflight' = 0 /\ inflightRaised' = FALSE
  /\ IF dirty
       THEN creditPending' = TRUE /\ UNCHANGED <<pending, raised>>
       ELSE /\ pending' = SubSeq(pending, inflight + 1, Len(pending))
            /\ raised' = (raised /\ ~inflightRaised)
            /\ creditPending' = (pending' # <<>> \/ raised')
  /\ UNCHANGED <<dirty, net, limits, sender>>

Next ==
  \/ \E s \in Streams : Send(s) \/ Consume(s) \/ Retire(s)
  \/ \E s \in Streams, w \in 1 .. StreamWindow : Grant(s, w)
  \/ \E k \in 0 .. Limit, fits \in BOOLEAN : Publish(k, fits)
  \/ \E k \in inflight .. Len(pending) : Copy(k)
  \/ \E p \in Packets : Hear(p) \/ Lose(p)
  \/ Acked

Spec == Init /\ [][Next]_vars

\* The owner polls until nothing is left to send, reads and writes go on,
\* and pending_control_path names a path while credit is pending (a timer
\* ends every wait).  Not every new publication is without room for all its
\* frames.  A frame that is sent again and again is heard, and a tracked
\* publication, which waits up to eight probe timeouts before it is
\* repeated, is not outrun by its repetition every time.  Nothing is assumed
\* of grants, copies and retirements.
Fairness ==
  /\ \A s \in Streams : WF_vars(Send(s)) /\ WF_vars(Consume(s))
  /\ WF_vars(\E k \in 0 .. Limit, fits \in BOOLEAN : Publish(k, fits))
  /\ SF_vars(Limit = Len(pending) /\ Publish(Limit, TRUE))
  /\ \A s \in Streams : SF_vars(\E p \in Packets : net[p].stream[s] # 0 /\ Hear(p))
  /\ SF_vars(\E p \in Packets : net[p].streams # 0 /\ Hear(p))
  /\ SF_vars(\E p \in Packets : p = packet /\ Hear(p))
  /\ SF_vars(Acked)
  /\ \A p \in Packets : WF_vars(Hear(p))

FairSpec == Spec /\ Fairness

-----------------------------------------------------------------------------

Messages ==
  [data : Nat, stream : [Streams -> Nat], streams : Nat]

\* A stream waits at most once, the part of the list that is in flight is a
\* part of it, and only live streams wait.
TypeOK ==
  /\ consumed \in [Streams -> Nat] /\ consumedData \in Nat
  /\ maxStream \in [Streams -> Nat] /\ maxData \in Nat /\ maxStreams \in Nat
  /\ retired \subseteq Streams
  /\ pending \in Seq(Streams \ retired)
  /\ \A i, j \in DOMAIN pending : pending[i] = pending[j] => i = j
  /\ inflight \in 0 .. Len(pending) /\ packet \in Packets \cup {NoPacket}
  /\ {creditPending, dirty, raised, inflightRaised} \subseteq BOOLEAN
  /\ net \in [Packets -> Messages]
  /\ heard \in BOOLEAN /\ copy \in Packets \cup {NoPacket}
  /\ sent \in [Streams -> Nat] /\ sentData \in Nat
  /\ knownStream \in [Streams -> Nat] /\ knownData \in Nat /\ knownStreams \in Nat

\* The sender stays within the limits the receiver holds when the bytes
\* arrive, whichever publications were lost or overtaken: accept never
\* answers FlowControl or StreamLimit.
GrantedOnly ==
  /\ sentData <= maxData
  /\ \A s \in Streams : sent[s] <= maxStream[s] /\ (sent[s] > 0 => s < maxStreams)

\* When nothing is pending the sender has heard of every limit: no change
\* that came while a publication was in flight is settled by its
\* acknowledgement (max_streams_raised_while_credit_in_flight_is_sent).
NoCreditForgotten ==
  ~creditPending =>
    /\ knownData = maxData /\ knownStreams = maxStreams
    /\ \A s \in Streams \ retired : knownStream[s] = maxStream[s]

\* No sender waits for ever for credit: a stream within the receiver's stream
\* limit, be it from the start or since another stream was retired, is opened
\* and read to its end, although publications and acknowledgements are lost
\* any number of times.
AdmittedIsServed ==
  \A s \in Streams : s < maxStreams ~> consumed[s] = Length[s]
=============================================================================
