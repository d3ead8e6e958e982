------------------------ MODULE CreditExchangeProofs ------------------------
(***************************************************************************)
(* What CreditExchange promises for every number and length of streams,    *)
(* every window and threshold and any number of packets under way.         *)
(*                                                                         *)
(* That the sender stays within the limits needs only that the receiver's  *)
(* limits lead whatever is under way or known.  That no credit is          *)
(* forgotten needs what an acknowledgement proves: as long as nothing has  *)
(* made the tracked publication out of date, it carries the limits of      *)
(* today, and once it was heard the sender knows them.                     *)
(***************************************************************************)
EXTENDS CreditExchange, FiniteSetTheorems, SequenceTheorems, TLAPS

USE CreditAssumption, PacketAssumption

\* Nobody but the receiver raises a limit: a publication under way and what
\* the sender has heard are behind the receiver's limits.
LimitsLead ==
  /\ knownData <= maxData /\ knownStreams <= maxStreams
  /\ \A s \in Streams : knownStream[s] <= maxStream[s]
  /\ \A p \in Packets :
       /\ net[p].data <= maxData /\ net[p].streams <= maxStreams
       /\ \A s \in Streams : net[p].stream[s] <= maxStream[s]

\* What the sender has not heard of waits to be published.
Waiting ==
  /\ knownData # maxData \/ raised \/ pending # <<>> => creditPending
  /\ knownStreams # maxStreams => raised
  /\ \A s \in Streams \ retired :
       knownStream[s] # maxStream[s] => \E i \in DOMAIN pending : pending[i] = s

\* The tracked publication and its copy carry the limits, unless the
\* publication is out of date.
Carries(m) ==
  /\ m.data = maxData /\ (inflightRaised => m.streams = maxStreams)
  /\ \A i \in 1 .. inflight : m.stream[pending[i]] = maxStream[pending[i]]

Tracked ==
  /\ copy # NoPacket => packet # NoPacket
  /\ packet # NoPacket /\ ~dirty =>
       \A q \in {packet, copy} \ {NoPacket} : net[q] # NoMessage => Carries(net[q])

\* Once it was heard the sender knows them.
Knows ==
  /\ knownData = maxData /\ (inflightRaised => knownStreams = maxStreams)
  /\ \A i \in 1 .. inflight : knownStream[pending[i]] = maxStream[pending[i]]

Settled == heard => packet # NoPacket /\ (~dirty => Knows)

\* No more is read than was sent, and a retired stream was read to its end.
Lengths ==
  \A s \in Streams :
    /\ consumed[s] <= sent[s] /\ sent[s] <= Length[s]
    /\ s \in retired => consumed[s] = Length[s]

Core ==
  /\ TypeOK /\ LimitsLead /\ GrantedOnly
  /\ Waiting /\ Tracked /\ Settled

Inv == Core /\ Lengths

LEMMA InvInit == Init => Inv
<1>. SUFFICES ASSUME Init PROVE Inv
  OBVIOUS
<1>1. NoMessage \in Messages
  BY DEF NoMessage, Messages
<1>2. TypeOK
  <2>1. /\ pending \in Seq(Streams \ retired)
        /\ \A i, j \in DOMAIN pending : pending[i] = pending[j] => i = j
        /\ inflight \in 0 .. Len(pending)
    BY DEF Init
  <2>. QED
    BY <1>1, <2>1 DEF Init, TypeOK, Streams
<1>3. LimitsLead
  BY DEF Init, LimitsLead, NoMessage
<1>4. GrantedOnly
  BY DEF Init, GrantedOnly
<1>5. Waiting /\ Tracked /\ Settled
  BY DEF Init, Waiting, Tracked, Settled
<1>6. Lengths
  BY DEF Init, Lengths, Streams
<1>. QED
  BY <1>2, <1>3, <1>4, <1>5, <1>6 DEF Inv, Core

\* A byte is sent within the limits the sender knows, which are behind the
\* receiver's.
LEMMA SendStep ==
  ASSUME Inv, NEW s \in Streams, Send(s) PROVE Inv'
<1>. USE DEF Inv, Core
<1>1. TypeOK'
  BY DEF TypeOK, Send, limits, publication, network
<1>2. LimitsLead' /\ Waiting' /\ Tracked' /\ Settled'
  BY DEF Send, limits, publication, network, LimitsLead, Waiting, Tracked, Settled, Carries, Knows
<1>3. GrantedOnly'
  <2>1. /\ sentData + 1 <= maxData /\ sent[s] + 1 <= maxStream[s]
        /\ s < maxStreams
    BY DEF TypeOK, Send, LimitsLead, GrantedOnly, Streams
  <2>. QED
    BY <2>1 DEF TypeOK, Send, limits, GrantedOnly
<1>4. Lengths'
  BY DEF TypeOK, Lengths, Send, limits, Streams
<1>. QED
  BY <1>1, <1>2, <1>3, <1>4

\* The list a is the list q of distinct members of S with s at its end.
OneMore(a, q, s, S) ==
  /\ a \in Seq(S) /\ Len(a) >= Len(q)
  /\ \E i \in DOMAIN a : a[i] = s
  /\ \A i \in DOMAIN q : i \in DOMAIN a /\ a[i] = q[i]
  /\ \A i, j \in DOMAIN a : a[i] = a[j] => i = j

\* A list of distinct streams with one more.
LEMMA AppendOne ==
  ASSUME NEW S, NEW q \in Seq(S), NEW s \in S,
         \A i \in DOMAIN q : q[i] # s,
         \A i, j \in DOMAIN q : q[i] = q[j] => i = j
  PROVE  OneMore(Append(q, s), q, s, S)
<1>. DEFINE a == Append(q, s)
            n == Len(q)
<1>1. /\ a \in Seq(S) /\ Len(a) = n + 1 /\ n \in Nat /\ a[n + 1] = s
      /\ \A i \in 1 .. n : a[i] = q[i]
      /\ DOMAIN q = 1 .. n /\ DOMAIN a = 1 .. n + 1
  BY AppendProperties
<1>. HIDE DEF a, n
<1>2. \A i \in 1 .. n : a[i] # s
  BY <1>1
<1>3. ASSUME NEW i \in 1 .. n + 1, NEW j \in 1 .. n + 1, a[i] = a[j] PROVE i = j
  <2>1. CASE i = n + 1 \/ j = n + 1
    BY <1>1, <1>2, <1>3, <2>1
  <2>2. CASE i \in 1 .. n /\ j \in 1 .. n
    BY <1>1, <1>3, <2>2
  <2>. QED
    BY <1>1, <2>1, <2>2
<1>4. n + 1 \in 1 .. n + 1 /\ n + 1 >= n /\ \A i \in 1 .. n : i \in 1 .. n + 1
  BY <1>1
<1>5. n = Len(q)
  BY DEF n
<1>. QED
  BY <1>1, <1>3, <1>4, <1>5 DEF a, OneMore

\* The limits stay or rise, and the stream whose limit may have risen is
\* queued for publication.
LEMMA QueueStep ==
  ASSUME Core, NEW s \in Streams \ retired, Queue(s),
         UNCHANGED <<maxStreams, retired, network, sender>>,
         maxData' \in Nat, maxData' >= maxData,
         maxStream' \in [Streams -> Nat],
         \A t \in Streams : maxStream'[t] >= maxStream[t],
         \A t \in Streams \ {s} : maxStream'[t] = maxStream[t],
         consumed' \in [Streams -> Nat], consumedData' \in Nat
  PROVE  Core'
<1>. USE DEF Core
<1>1. /\ pending' \in Seq(Streams \ retired) /\ Len(pending') >= Len(pending)
      /\ \E i \in DOMAIN pending' : pending'[i] = s
      /\ \A i \in DOMAIN pending : i \in DOMAIN pending' /\ pending'[i] = pending[i]
      /\ \A i, j \in DOMAIN pending' : pending'[i] = pending'[j] => i = j
  <2>1. CASE \E i \in DOMAIN pending : pending[i] = s
    <3>1. pending' = pending
      BY <2>1 DEF Queue
    <3>2. pending \in Seq(Streams \ retired) /\ Len(pending) \in Nat
      BY DEF TypeOK
    <3>. QED
      BY <2>1, <3>1, <3>2 DEF TypeOK
  <2>2. CASE ~ \E i \in DOMAIN pending : pending[i] = s
    <3>1. pending' = Append(pending, s) /\ pending \in Seq(Streams \ retired)
      BY <2>2 DEF TypeOK, Queue
    <3>2. \A k \in DOMAIN pending : pending[k] # s
      BY <2>2
    <3>3. \A k, j \in DOMAIN pending : pending[k] = pending[j] => k = j
      BY DEF TypeOK
    <3>4. OneMore(Append(pending, s), pending, s, Streams \ retired)
      BY <3>1, <3>2, <3>3, AppendOne, ZenonT(30)
    <3>. QED
      BY <3>1, <3>4, Zenon DEF OneMore
  <2>. QED
    BY <2>1, <2>2
<1>2. TypeOK'
  <2>1. {creditPending', dirty', raised', inflightRaised'} \subseteq BOOLEAN
    BY Zenon DEF TypeOK, Queue
  <2>2. inflight' \in 0 .. Len(pending')
    BY <1>1 DEF TypeOK, Queue
  <2>. QED
    BY <1>1, <2>1, <2>2 DEF TypeOK, Queue, network, sender
<1>3. LimitsLead'
  <2>1. \A p \in Packets : /\ net[p].data \in Nat /\ net[p].streams \in Nat
                           /\ \A t \in Streams : net[p].stream[t] \in Nat
    BY SMTT(30) DEF TypeOK, Messages
  <2>2. /\ net' = net /\ maxStreams' = maxStreams /\ knownData' = knownData
        /\ knownStream' = knownStream /\ knownStreams' = knownStreams
    BY DEF network, sender
  <2>3. /\ maxData \in Nat /\ knownData \in Nat
        /\ \A t \in Streams : /\ knownStream[t] \in Nat /\ maxStream[t] \in Nat
                               /\ maxStream'[t] \in Nat
    BY DEF TypeOK
  <2>4. ASSUME NEW p \in Packets
        PROVE  /\ net[p].data <= maxData' /\ net[p].streams <= maxStreams
               /\ \A t \in Streams : net[p].stream[t] <= maxStream'[t]
    <3>1. /\ net[p].data <= maxData /\ net[p].streams <= maxStreams
          /\ \A t \in Streams : net[p].stream[t] <= maxStream[t]
      BY DEF LimitsLead
    <3>2. /\ net[p].data \in Nat
          /\ \A t \in Streams : net[p].stream[t] \in Nat
      BY <2>1
    <3>3. net[p].data <= maxData'
      BY <2>3, <3>1, <3>2
    <3>4. \A t \in Streams : net[p].stream[t] <= maxStream'[t]
      BY <2>3, <3>1, <3>2
    <3>. QED
      BY <3>1, <3>3, <3>4
  <2>5. knownData <= maxData' /\ \A t \in Streams : knownStream[t] <= maxStream'[t]
    BY <2>3 DEF LimitsLead
  <2>. QED
    BY <2>2, <2>4, <2>5 DEF LimitsLead
<1>4. GrantedOnly'
  BY SMTT(30) DEF TypeOK, GrantedOnly, sender
<1>5. Waiting'
  <2>1. creditPending'
    BY DEF Queue
  <2>2. knownStreams' # maxStreams' => raised'
    BY DEF Waiting, Queue, sender
  <2>3. ASSUME NEW t \in Streams \ retired', knownStream'[t] # maxStream'[t]
        PROVE  \E i \in DOMAIN pending' : pending'[i] = t
    <3>1. t \in Streams \ retired /\ knownStream' = knownStream
      BY DEF sender
    <3>2. CASE t = s
      BY <1>1, <3>2
    <3>3. CASE t # s
      <4>1. knownStream[t] # maxStream[t]
        BY <2>3, <3>1, <3>3
      <4>2. PICK i \in DOMAIN pending : pending[i] = t
        BY <3>1, <4>1 DEF Waiting
      <4>. QED
        BY <1>1, <4>2
    <3>. QED
      BY <3>2, <3>3
  <2>. QED
    BY <2>1, <2>2, <2>3 DEF Waiting
<1>6. packet' # NoPacket => dirty'
  BY DEF Queue
<1>7. Tracked' /\ Settled'
  <2>1. heard' => packet' # NoPacket
    BY DEF Settled, Queue, network
  <2>2. copy' # NoPacket => packet' # NoPacket
    BY DEF Tracked, Queue, network
  <2>. QED
    BY <1>6, <2>1, <2>2 DEF Tracked, Settled
<1>. QED
  BY <1>2, <1>3, <1>4, <1>5, <1>7

\* Reading a byte raises a limit only together with a publication.
LEMMA ConsumeStep ==
  ASSUME Inv, NEW s \in Streams, Consume(s) PROVE Inv'
<1>. USE DEF Inv, Core
<1>1. /\ s \notin retired /\ consumed[s] \in Nat /\ sent[s] \in Nat
      /\ maxData \in Nat /\ maxStream[s] \in Nat /\ consumedData \in Nat
  <2>1. /\ consumed[s] \in Nat /\ sent[s] \in Nat /\ Length[s] \in Nat
        /\ maxData \in Nat /\ maxStream[s] \in Nat /\ consumedData \in Nat
    BY DEF TypeOK, Streams
  <2>2. consumed[s] < sent[s] /\ sent[s] <= Length[s]
    BY DEF Consume, Lengths
  <2>3. s \in retired => consumed[s] = Length[s]
    BY DEF Lengths
  <2>. QED
    BY <2>1, <2>2, <2>3
<1>2. /\ consumed' \in [Streams -> Nat] /\ consumedData' \in Nat
      /\ maxData' \in Nat /\ maxData' >= maxData
  <2>1. consumed' = [consumed EXCEPT ![s] = consumed[s] + 1] /\ consumedData' = consumedData + 1
    BY DEF Consume
  <2>2. maxData' = Larger(maxData, consumedData + 1 + ConnWindow) \/ maxData' = maxData
    BY DEF Consume
  <2>3. consumed' \in [Streams -> Nat]
    BY <1>1, <2>1 DEF TypeOK
  <2>. QED
    BY <1>1, <2>1, <2>2, <2>3 DEF Larger
<1>3. /\ maxStream' \in [Streams -> Nat]
      /\ \A t \in Streams : maxStream'[t] >= maxStream[t]
      /\ \A t \in Streams \ {s} : maxStream'[t] = maxStream[t]
  <2>1. Larger(maxStream[s], consumed[s] + 1 + StreamWindow) \in Nat
    BY <1>1 DEF Larger
  <2>2. Larger(maxStream[s], consumed[s] + 1 + StreamWindow) >= maxStream[s]
    BY <1>1 DEF Larger
  <2>3. maxStream \in [Streams -> Nat]
    BY DEF TypeOK
  <2>4. \/ maxStream' = maxStream
        \/ maxStream' = [maxStream EXCEPT ![s] = Larger(maxStream[s], consumed[s] + 1 + StreamWindow)]
    BY DEF Consume
  <2>5. CASE maxStream' = maxStream
    BY <2>3, <2>5
  <2>. HIDE DEF Inv, Core
  <2>. QED
    BY <2>1, <2>2, <2>3, <2>4, <2>5
<1>4. UNCHANGED <<maxStreams, retired, network, sender>>
  BY DEF Consume
<1>5. Core'
  <2>1. CASE Queue(s)
    BY <1>1, <1>2, <1>3, <1>4, <2>1, QueueStep
  <2>2. CASE maxData' = maxData /\ maxStream' = maxStream /\ UNCHANGED publication
    BY <1>2, <1>4, <2>2, SMTT(30) DEF TypeOK, LimitsLead, GrantedOnly, Waiting, Tracked, Settled,
       Carries, Knows, publication, network, sender
  <2>. QED
    BY <2>1, <2>2 DEF Consume
<1>6. Lengths'
  <2>1. /\ consumed \in [Streams -> Nat] /\ sent \in [Streams -> Nat]
        /\ consumed' = [consumed EXCEPT ![s] = consumed[s] + 1] /\ consumed[s] < sent[s]
        /\ sent' = sent /\ retired' = retired
    BY <1>4 DEF Consume, TypeOK, sender
  <2>2. \A t \in Streams : /\ consumed[t] <= sent[t] /\ sent[t] <= Length[t]
                           /\ t \in retired => consumed[t] = Length[t]
    BY DEF Lengths
  <2>. HIDE DEF Inv, Core
  <2>. QED
    BY <1>1, <2>1, <2>2 DEF Lengths
<1>. QED
  BY <1>5, <1>6

LEMMA GrantStep ==
  ASSUME Inv, NEW s \in Streams, NEW w \in 1 .. StreamWindow, Grant(s, w)
  PROVE  Inv'
<1>. USE DEF Inv, Core
<1>1. /\ s \in Streams \ retired /\ consumed[s] \in Nat
      /\ maxData \in Nat /\ maxStream[s] \in Nat /\ consumedData \in Nat
      /\ w \in Nat
  BY DEF Grant, TypeOK
<1>2. /\ consumed' \in [Streams -> Nat] /\ consumedData' \in Nat
      /\ maxData' \in Nat /\ maxData' >= maxData
  BY <1>1 DEF Grant, TypeOK, Larger, Smaller
<1>3. /\ maxStream' \in [Streams -> Nat]
      /\ \A t \in Streams : maxStream'[t] >= maxStream[t]
      /\ \A t \in Streams \ {s} : maxStream'[t] = maxStream[t]
  <2>1. Larger(maxStream[s], consumed[s] + Smaller(w, StreamWindow)) \in Nat
    BY <1>1 DEF Larger, Smaller
  <2>2. Larger(maxStream[s], consumed[s] + Smaller(w, StreamWindow)) >= maxStream[s]
    BY <1>1 DEF Larger, Smaller
  <2>3. /\ maxStream \in [Streams -> Nat]
        /\ maxStream' =
             [maxStream EXCEPT ![s] = Larger(maxStream[s], consumed[s] + Smaller(w, StreamWindow))]
    BY DEF Grant, TypeOK
  <2>. HIDE DEF Inv, Core
  <2>. QED
    BY <2>1, <2>2, <2>3
<1>4. UNCHANGED <<maxStreams, retired, network, sender>> /\ Queue(s)
  BY DEF Grant
<1>5. Core'
  BY <1>1, <1>2, <1>3, <1>4, QueueStep
<1>6. Lengths'
  BY <1>4 DEF Lengths, Grant, sender
<1>. QED
  BY <1>5, <1>6

\* A list of distinct streams without one of them.
LEMMA WithoutOne ==
  ASSUME NEW S, NEW q \in Seq(S), NEW s,
         \A i, j \in DOMAIN q : q[i] = q[j] => i = j
  PROVE  /\ Without(q, s) \in Seq(S \ {s})
         /\ \A i, j \in DOMAIN Without(q, s) : Without(q, s)[i] = Without(q, s)[j] => i = j
         /\ \A i \in DOMAIN q : q[i] # s =>
              \E j \in DOMAIN Without(q, s) : Without(q, s)[j] = q[i]
         /\ \A i \in DOMAIN q : q[i] = s => Len(Without(q, s)) = Len(q) - 1
         /\ (\A i \in DOMAIN q : q[i] # s) => Without(q, s) = q
<1>1. Len(q) \in Nat /\ DOMAIN q = 1 .. Len(q) /\ \A i \in 1 .. Len(q) : q[i] \in S
  OBVIOUS
<1>2. CASE \A i \in DOMAIN q : q[i] # s
  <2>1. Without(q, s) = q
    BY <1>2 DEF Without
  <2>2. q \in Seq(S \ {s})
    <3>1. q \in [1 .. Len(q) -> S \ {s}]
      BY <1>1, <1>2
    <3>2. q \in UNION {[1 .. n -> S \ {s}] : n \in Nat}
      BY <1>1, <3>1
    <3>. QED
      BY <3>2, SeqDef, Zenon
  <2>. QED
    BY <1>2, <2>1, <2>2
<1>3. CASE \E i \in DOMAIN q : q[i] = s
  <2>. DEFINE at == CHOOSE i \in DOMAIN q : q[i] = s
              n == Len(q) - 1
              f(i) == IF i < at THEN q[i] ELSE q[i + 1]
              w == [i \in 1 .. n |-> f(i)]
  <2>1. at \in 1 .. Len(q) /\ q[at] = s
    BY <1>1, <1>3
  <2>2. Without(q, s) = w
    BY <1>3 DEF Without
  <2>. HIDE DEF at
  <2>3. n \in Nat /\ \A i \in 1 .. n : f(i) \in S \ {s}
    BY <1>1, <2>1
  <2>4. w \in Seq(S \ {s}) /\ Len(w) = n /\ DOMAIN w = 1 .. n
    <3>1. w \in [1 .. n -> S \ {s}]
      BY <2>3
    <3>. QED
      BY <2>3, <3>1, SeqDef
  <2>5. \A i, j \in 1 .. n : w[i] = w[j] => i = j
    <3>1. ASSUME NEW i \in 1 .. n, NEW j \in 1 .. n, f(i) = f(j) PROVE i = j
      <4>1. CASE i < at /\ j < at
        <5>1. i \in DOMAIN q /\ j \in DOMAIN q /\ q[i] = q[j]
          BY <1>1, <2>1, <3>1, <4>1
        <5>. QED
          BY <5>1
      <4>2. CASE i >= at /\ j >= at
        <5>1. i + 1 \in DOMAIN q /\ j + 1 \in DOMAIN q /\ q[i + 1] = q[j + 1]
          BY <1>1, <2>1, <3>1, <4>2
        <5>2. i + 1 = j + 1
          BY <5>1
        <5>. QED
          BY <5>2
      <4>3. CASE i < at /\ j >= at
        <5>1. i \in DOMAIN q /\ j + 1 \in DOMAIN q /\ q[i] = q[j + 1]
          BY <1>1, <2>1, <3>1, <4>3
        <5>2. i = j + 1
          BY <5>1
        <5>. QED
          BY <2>1, <4>3, <5>2
      <4>4. CASE i >= at /\ j < at
        <5>1. i + 1 \in DOMAIN q /\ j \in DOMAIN q /\ q[i + 1] = q[j]
          BY <1>1, <2>1, <3>1, <4>4
        <5>2. i + 1 = j
          BY <5>1
        <5>. QED
          BY <2>1, <4>4, <5>2
      <4>. QED
        BY <2>1, <4>1, <4>2, <4>3, <4>4
    <3>. QED
      BY <3>1
  <2>6. ASSUME NEW i \in 1 .. Len(q), q[i] # s
        PROVE  \E j \in 1 .. n : w[j] = q[i]
    <3>1. CASE i < at
      <4>1. i \in 1 .. n /\ f(i) = q[i]
        BY <2>1, <3>1
      <4>. QED
        BY <4>1
    <3>2. CASE i > at
      <4>1. i - 1 \in 1 .. n /\ f(i - 1) = q[i]
        BY <2>1, <3>2
      <4>. QED
        BY <4>1
    <3>. QED
      BY <2>1, <2>6, <3>1, <3>2
  <2>. HIDE DEF w, n
  <2>7. n = Len(q) - 1
    BY DEF n
  <2>. QED
    BY <1>1, <1>3, <2>2, <2>4, <2>5, <2>6, <2>7
<1>. QED
  BY <1>2, <1>3

LEMMA RetireStep ==
  ASSUME Inv, NEW s \in Streams, Retire(s) PROVE Inv'
<1>. USE DEF Inv, Core
<1>. DEFINE before == {i \in DOMAIN pending : i <= inflight /\ pending[i] = s}
            target == Cardinality(retired) + 1 + StreamsWindow
<1>1. /\ UNCHANGED <<consumed, consumedData, maxStream, maxData, packet, inflightRaised>>
      /\ UNCHANGED <<network, sender>>
      /\ retired' = retired \cup {s} /\ pending' = Without(pending, s)
      /\ inflight' = inflight - Cardinality(before)
      /\ maxStreams' = Larger(maxStreams, target)
      /\ raised' = (raised \/ target > maxStreams)
      /\ dirty' = (dirty \/ packet # NoPacket) /\ creditPending' = TRUE
      /\ consumed[s] = Length[s] /\ s \notin retired
  BY DEF Retire
<1>2. target \in Nat
  <2>1. IsFiniteSet(Streams)
    <3>1. 0 \in Int /\ StreamTotal - 1 \in Int
      OBVIOUS
    <3>. QED
      BY <3>1, FS_Interval DEF Streams
  <2>2. retired \subseteq Streams
    BY DEF TypeOK
  <2>3. Cardinality(retired) \in Nat
    BY <2>1, <2>2, FS_Subset, FS_CardinalityType
  <2>. QED
    BY <2>3
<1>. HIDE DEF target, before
<1>3. /\ maxStreams' \in Nat /\ maxStreams' >= maxStreams
      /\ maxStreams' # maxStreams => raised'
  <2>1. /\ maxStreams' \in Nat /\ maxStreams' >= maxStreams
        /\ maxStreams' # maxStreams => target > maxStreams
    BY <1>1, <1>2 DEF TypeOK, Larger
  <2>2. target > maxStreams => raised'
    BY <1>1
  <2>. QED
    BY <2>1, <2>2
<1>4. /\ pending \in Seq(Streams \ retired) /\ Len(pending) \in Nat
      /\ DOMAIN pending = 1 .. Len(pending) /\ inflight \in 0 .. Len(pending)
      /\ \A i, j \in DOMAIN pending : pending[i] = pending[j] => i = j
  BY DEF TypeOK
<1>5. /\ pending' \in Seq((Streams \ retired) \ {s})
      /\ \A i, j \in DOMAIN pending' : pending'[i] = pending'[j] => i = j
      /\ \A i \in DOMAIN pending : pending[i] # s => \E j \in DOMAIN pending' : pending'[j] = pending[i]
      /\ \A i \in DOMAIN pending : pending[i] = s => Len(pending') = Len(pending) - 1
      /\ (\A i \in DOMAIN pending : pending[i] # s) => pending' = pending
  <2>1. /\ Without(pending, s) \in Seq((Streams \ retired) \ {s})
        /\ \A i, j \in DOMAIN Without(pending, s) :
             Without(pending, s)[i] = Without(pending, s)[j] => i = j
        /\ \A i \in DOMAIN pending : pending[i] # s =>
             \E j \in DOMAIN Without(pending, s) : Without(pending, s)[j] = pending[i]
        /\ \A i \in DOMAIN pending : pending[i] = s =>
             Len(Without(pending, s)) = Len(pending) - 1
        /\ (\A i \in DOMAIN pending : pending[i] # s) => Without(pending, s) = pending
    BY <1>4, WithoutOne, Zenon
  <2>. QED
    BY <1>1, <2>1, Zenon
<1>6. pending' \in Seq(Streams \ retired') /\ Len(pending') \in Nat
  <2>1. (Streams \ retired) \ {s} = Streams \ retired'
    BY <1>1
  <2>. QED
    BY <1>5, <2>1
<1>7. inflight' \in 0 .. Len(pending')
  <2>1. CASE \A i \in DOMAIN pending : pending[i] # s
    <3>1. Cardinality(before) = 0
      BY <2>1, FS_EmptySet DEF before
    <3>2. inflight' = inflight
      BY <1>1, <1>4, <3>1
    <3>3. pending' = pending
      BY <1>5, <2>1
    <3>. QED
      BY <1>4, <3>2, <3>3
  <2>2. CASE \E i \in DOMAIN pending : pending[i] = s
    <3>1. PICK i \in DOMAIN pending : pending[i] = s
      BY <2>2
    <3>2. Len(pending') = Len(pending) - 1
      BY <1>5, <3>1
    <3>3. CASE i <= inflight
      <4>1. before = {i}
        BY <1>4, <3>1, <3>3 DEF before
      <4>2. Cardinality(before) = 1
        BY <4>1, FS_Singleton
      <4>. QED
        BY <1>1, <1>4, <3>1, <3>2, <3>3, <4>2
    <3>4. CASE i > inflight
      <4>1. before = {}
        BY <1>4, <3>1, <3>4 DEF before
      <4>2. Cardinality(before) = 0
        BY <4>1, FS_EmptySet
      <4>. QED
        BY <1>1, <1>4, <3>1, <3>2, <3>4, <4>2
    <3>. QED
      BY <1>4, <3>1, <3>3, <3>4
  <2>. QED
    BY <2>1, <2>2
<1>8. TypeOK'
  <2>1. {creditPending', dirty', raised', inflightRaised'} \subseteq BOOLEAN
    BY <1>1, Zenon DEF TypeOK
  <2>2. retired' \subseteq Streams
    BY <1>1 DEF TypeOK
  <2>. QED
    BY <1>1, <1>3, <1>5, <1>6, <1>7, <2>1, <2>2 DEF TypeOK, network, sender
<1>9. LimitsLead' /\ GrantedOnly'
  <2>1. /\ net' = net /\ maxData' = maxData /\ maxStream' = maxStream
        /\ UNCHANGED <<sent, sentData, knownData, knownStream, knownStreams>>
    BY <1>1 DEF network, sender
  <2>2. \A p \in Packets : net[p].streams \in Nat /\ net[p].streams <= maxStreams
    BY DEF TypeOK, Messages, LimitsLead
  <2>3. \A p \in Packets : net[p].streams <= maxStreams'
    BY <1>3, <2>2 DEF TypeOK
  <2>4. knownStreams <= maxStreams'
    BY <1>3 DEF TypeOK, LimitsLead
  <2>5. \A t \in Streams : t < maxStreams => t < maxStreams'
    BY <1>3 DEF TypeOK, Streams
  <2>6. LimitsLead'
    BY <2>1, <2>3, <2>4 DEF LimitsLead
  <2>7. GrantedOnly'
    BY <2>1, <2>5 DEF GrantedOnly
  <2>. QED
    BY <2>6, <2>7
<1>10. Waiting'
  <2>1. knownStreams' # maxStreams' => raised'
    BY <1>1, <1>3 DEF Waiting, sender
  <2>2. ASSUME NEW t \in Streams \ retired', knownStream'[t] # maxStream'[t]
        PROVE  \E j \in DOMAIN pending' : pending'[j] = t
    <3>1. t \in Streams \ retired /\ t # s /\ knownStream[t] # maxStream[t]
      BY <1>1, <2>2 DEF sender
    <3>2. PICK i \in DOMAIN pending : pending[i] = t
      BY <3>1 DEF Waiting
    <3>. QED
      BY <1>5, <3>1, <3>2
  <2>. QED
    BY <1>1, <2>1, <2>2 DEF Waiting
<1>11. Tracked' /\ Settled'
  <2>1. packet' # NoPacket => dirty'
    BY <1>1
  <2>2. heard' => packet' # NoPacket
    BY <1>1 DEF Settled, network
  <2>3. copy' # NoPacket => packet' # NoPacket
    BY <1>1 DEF Tracked, network
  <2>. QED
    BY <2>1, <2>2, <2>3 DEF Tracked, Settled
<1>12. Lengths'
  BY <1>1 DEF Lengths, sender
<1>. QED
  BY <1>8, <1>9, <1>10, <1>11, <1>12

\* What a publication carries.
LEMMA LimitsFacts ==
  ASSUME TypeOK, NEW k \in 0 .. Len(pending), NEW w \in BOOLEAN
  PROVE  /\ Limits(k, w) \in Messages
         /\ Limits(k, w).data = maxData
         /\ Limits(k, w).streams <= maxStreams /\ (w => Limits(k, w).streams = maxStreams)
         /\ \A s \in Streams : Limits(k, w).stream[s] <= maxStream[s]
         /\ \A i \in 1 .. k : Limits(k, w).stream[pending[i]] = maxStream[pending[i]]
<1>. DEFINE named == {pending[i] : i \in 1 .. k}
            stream == [s \in Streams |-> IF s \in named THEN maxStream[s] ELSE 0]
            streams == IF w THEN maxStreams ELSE 0
<1>1. Limits(k, w) = [data |-> maxData, stream |-> stream, streams |-> streams]
  BY DEF Limits
<1>2. /\ maxData \in Nat /\ maxStreams \in Nat
      /\ \A s \in Streams : maxStream[s] \in Nat
  BY DEF TypeOK
<1>3. /\ stream \in [Streams -> Nat] /\ \A s \in Streams : stream[s] <= maxStream[s]
      /\ streams \in Nat /\ streams <= maxStreams /\ (w => streams = maxStreams)
  BY <1>2
<1>4. ASSUME NEW i \in 1 .. k PROVE stream[pending[i]] = maxStream[pending[i]]
  <2>1. i \in DOMAIN pending /\ pending \in Seq(Streams \ retired)
    BY DEF TypeOK
  <2>2. pending[i] \in Streams /\ pending[i] \in named
    BY <2>1
  <2>. QED
    BY <2>2
<1>. HIDE DEF stream, streams
<1>. QED
  BY <1>1, <1>2, <1>3, <1>4 DEF Messages

\* A message within the limits enters the network.
LEMMA EnterStep ==
  ASSUME Inv, NEW p \in Packets, NEW m \in Messages, net' = [net EXCEPT ![p] = m],
         m.data <= maxData, m.streams <= maxStreams,
         \A s \in Streams : m.stream[s] <= maxStream[s],
         UNCHANGED <<limits, sender>>
  PROVE  /\ LimitsLead' /\ net' \in [Packets -> Messages]
         /\ net'[p] = m /\ \A q \in Packets \ {p} : net'[q] = net[q]
<1>. USE DEF Inv, Core
<1>1. /\ net' \in [Packets -> Messages] /\ net'[p] = m
      /\ \A q \in Packets \ {p} : net'[q] = net[q]
  BY DEF TypeOK
<1>2. ASSUME NEW q \in Packets
      PROVE  /\ net'[q].data <= maxData /\ net'[q].streams <= maxStreams
             /\ \A s \in Streams : net'[q].stream[s] <= maxStream[s]
  <2>1. CASE q = p
    BY <1>1, <2>1
  <2>2. CASE q # p
    BY <1>1, <2>2 DEF LimitsLead
  <2>. QED
    BY <2>1, <2>2
<1>. QED
  BY <1>1, <1>2 DEF LimitsLead, limits, sender

LEMMA PublishStep ==
  ASSUME Inv, NEW k \in 0 .. Limit, NEW fits \in BOOLEAN, Publish(k, fits)
  PROVE  Inv'
<1>. USE DEF Inv, Core
<1>1. PICK w \in BOOLEAN : w = (raised /\ fits)
  OBVIOUS
<1>2. PICK p \in Packets : p = CHOOSE q \in Free : TRUE
  BY DEF Publish, Free
<1>3. PICK m : m = Limits(k, w)
  OBVIOUS
<1>4. /\ net' = [net EXCEPT ![p] = m]
      /\ packet' = p /\ inflight' = k /\ inflightRaised' = w
      /\ dirty' = FALSE /\ heard' = FALSE /\ copy' = NoPacket
      /\ UNCHANGED <<pending, creditPending, raised, limits, sender>>
      /\ creditPending
  BY <1>1, <1>2, <1>3 DEF Publish
<1>5. k \in 0 .. Len(pending)
  BY DEF Limit, TypeOK
<1>6. /\ m \in Messages /\ m.data = maxData
      /\ m.streams <= maxStreams /\ (w => m.streams = maxStreams)
      /\ \A s \in Streams : m.stream[s] <= maxStream[s]
      /\ \A i \in 1 .. k : m.stream[pending[i]] = maxStream[pending[i]]
  BY <1>3, <1>5, LimitsFacts
<1>7. /\ LimitsLead' /\ net' \in [Packets -> Messages]
      /\ net'[p] = m /\ \A q \in Packets \ {p} : net'[q] = net[q]
  <2>1. m.data <= maxData
    BY <1>6 DEF TypeOK
  <2>. QED
    BY <1>4, <1>6, <2>1, EnterStep
<1>8. TypeOK'
  <2>1. {creditPending', dirty', raised', inflightRaised'} \subseteq BOOLEAN
    BY <1>4, Zenon DEF TypeOK
  <2>. QED
    BY <1>4, <1>5, <1>7, <2>1 DEF TypeOK, limits, sender
<1>9. GrantedOnly' /\ Waiting' /\ Lengths'
  BY <1>4 DEF GrantedOnly, Waiting, Lengths, limits, sender
<1>10. Tracked' /\ Settled'
  <2>1. /\ maxData' = maxData /\ maxStreams' = maxStreams /\ maxStream' = maxStream
        /\ pending' = pending
    BY <1>4 DEF limits
  <2>2. Carries(net[packet])'
    BY <1>4, <1>6, <1>7, <2>1 DEF Carries
  <2>. QED
    BY <1>4, <2>2 DEF Tracked, Settled
<1>. QED
  BY <1>7, <1>8, <1>9, <1>10

\* A copy carries at least what the publication does.
LEMMA CopyStep ==
  ASSUME Inv, NEW k \in inflight .. Len(pending), Copy(k) PROVE Inv'
<1>. USE DEF Inv, Core
<1>1. PICK w \in BOOLEAN : w = inflightRaised
  BY Zenon DEF TypeOK
<1>2. PICK p \in Packets : p = CHOOSE q \in Free : TRUE
  BY DEF Copy, Free
<1>3. PICK m : m = Limits(k, w)
  OBVIOUS
<1>4. /\ net' = [net EXCEPT ![p] = m] /\ copy' = p /\ packet # NoPacket
      /\ UNCHANGED heard /\ UNCHANGED <<limits, sender>>
      /\ UNCHANGED <<pending, creditPending, dirty, raised, packet, inflight, inflightRaised>>
  BY <1>1, <1>2, <1>3 DEF Copy, publication
<1>5. k \in 0 .. Len(pending) /\ inflight \in Nat /\ inflight <= k
  BY DEF TypeOK
<1>6. /\ m \in Messages /\ m.data = maxData
      /\ m.streams <= maxStreams /\ (w => m.streams = maxStreams)
      /\ \A s \in Streams : m.stream[s] <= maxStream[s]
      /\ \A i \in 1 .. k : m.stream[pending[i]] = maxStream[pending[i]]
  BY <1>3, <1>5, LimitsFacts
<1>7. /\ LimitsLead' /\ net' \in [Packets -> Messages]
      /\ net'[p] = m /\ \A q \in Packets \ {p} : net'[q] = net[q]
  <2>1. m.data <= maxData
    BY <1>6 DEF TypeOK
  <2>. QED
    BY <1>4, <1>6, <2>1, EnterStep
<1>8. TypeOK'
  <2>1. {creditPending', dirty', raised', inflightRaised'} \subseteq BOOLEAN
    BY <1>4, Zenon DEF TypeOK
  <2>. QED
    BY <1>4, <1>7, <2>1 DEF TypeOK, limits, sender
<1>9. GrantedOnly' /\ Waiting' /\ Lengths' /\ Settled'
  BY <1>4 DEF GrantedOnly, Waiting, Lengths, Settled, Knows, limits, sender
<1>10. Tracked'
  <2>1. /\ maxData' = maxData /\ maxStreams' = maxStreams /\ maxStream' = maxStream
    BY <1>4 DEF limits
  <2>2. Carries(net[copy])'
    BY <1>1, <1>4, <1>5, <1>6, <1>7, <2>1 DEF Carries
  <2>3. ASSUME ~dirty', packet # p, net'[packet] # NoMessage PROVE Carries(net[packet])'
    <3>1. packet \in Packets /\ net'[packet] = net[packet]
      BY <1>4, <1>7, <2>3 DEF TypeOK
    <3>2. Carries(net[packet])
      BY <1>4, <2>3, <3>1 DEF Tracked
    <3>. QED
      BY <1>4, <2>1, <3>1, <3>2 DEF Carries
  <2>4. packet = p => Carries(net[packet])'
    BY <1>4, <2>2 DEF Carries
  <2>. QED
    BY <1>4, <2>2, <2>3, <2>4 DEF Tracked
<1>. QED
  BY <1>7, <1>8, <1>9, <1>10

\* Whatever leaves the network, a message that stays is what it was.
LEMMA HearStep ==
  ASSUME Inv, NEW p \in Packets, Hear(p) PROVE Inv'
<1>. USE DEF Inv, Core
<1>1. /\ net[p] # NoMessage
      /\ knownData' = Larger(knownData, net[p].data)
      /\ knownStream' = [s \in Streams |-> Larger(knownStream[s], net[p].stream[s])]
      /\ knownStreams' = Larger(knownStreams, net[p].streams)
      /\ net' = [net EXCEPT ![p] = NoMessage]
      /\ heard' = (heard \/ p \in {packet, copy})
      /\ UNCHANGED <<copy, sent, sentData, limits, publication>>
  BY DEF Hear
<1>2. /\ net[p].data \in Nat /\ net[p].streams \in Nat
      /\ knownData \in Nat /\ knownStreams \in Nat /\ maxData \in Nat /\ maxStreams \in Nat
      /\ \A s \in Streams :
           knownStream[s] \in Nat /\ net[p].stream[s] \in Nat /\ maxStream[s] \in Nat
  BY DEF TypeOK, Messages
<1>3. /\ knownData <= maxData /\ net[p].data <= maxData
      /\ knownStreams <= maxStreams /\ net[p].streams <= maxStreams
      /\ \A s \in Streams :
           knownStream[s] <= maxStream[s] /\ net[p].stream[s] <= maxStream[s]
  BY DEF LimitsLead
<1>4. /\ knownData' \in Nat /\ knownData' <= maxData
      /\ knownData = maxData \/ net[p].data = maxData => knownData' = maxData
  BY <1>1, <1>2, <1>3 DEF Larger
<1>5. /\ knownStreams' \in Nat /\ knownStreams' <= maxStreams
      /\ knownStreams = maxStreams \/ net[p].streams = maxStreams => knownStreams' = maxStreams
  BY <1>1, <1>2, <1>3 DEF Larger
<1>6. \A s \in Streams :
        /\ knownStream'[s] \in Nat /\ knownStream'[s] <= maxStream[s]
        /\ knownStream[s] = maxStream[s] \/ net[p].stream[s] = maxStream[s]
             => knownStream'[s] = maxStream[s]
  BY <1>1, <1>2, <1>3 DEF Larger
<1>7. net' \in [Packets -> Messages] /\ \A q \in Packets : net'[q] = net[q] \/ net'[q] = NoMessage
  <2>1. NoMessage \in Messages
    BY DEF NoMessage, Messages
  <2>. QED
    BY <1>1, <2>1 DEF TypeOK
<1>8. /\ UNCHANGED <<copy, sent, sentData>>
      /\ UNCHANGED <<consumed, consumedData, maxStream, maxData, maxStreams, retired>>
      /\ UNCHANGED <<pending, creditPending, dirty, raised, packet, inflight, inflightRaised>>
  BY <1>1 DEF limits, publication
<1>9. TypeOK'
  <2>1. knownStream' \in [Streams -> Nat]
    BY <1>1, <1>6
  <2>2. heard' \in BOOLEAN
    BY <1>1
  <2>. QED
    BY <1>4, <1>5, <1>7, <1>8, <2>1, <2>2 DEF TypeOK
<1>10. LimitsLead'
  <2>1. ASSUME NEW q \in Packets
        PROVE  /\ net'[q].data <= maxData /\ net'[q].streams <= maxStreams
               /\ \A s \in Streams : net'[q].stream[s] <= maxStream[s]
    <3>1. CASE net'[q] = net[q]
      BY <3>1 DEF LimitsLead
    <3>2. CASE net'[q] = NoMessage
      BY <1>2, <3>2 DEF NoMessage
    <3>. QED
      BY <1>7, <3>1, <3>2
  <2>. QED
    BY <1>4, <1>5, <1>6, <1>8, <2>1 DEF LimitsLead
<1>11. GrantedOnly' /\ Lengths'
  BY <1>8 DEF GrantedOnly, Lengths
<1>12. Waiting'
  BY <1>4, <1>5, <1>6, <1>8 DEF Waiting
<1>13. Tracked'
  <2>1. \A q \in {packet, copy} \ {NoPacket} : net'[q] # NoMessage => net'[q] = net[q]
    BY <1>7 DEF TypeOK
  <2>. QED
    BY <1>8, <2>1 DEF Tracked, Carries
<1>14. Settled'
  <2>1. \A i \in 1 .. inflight : pending[i] \in Streams
    BY DEF TypeOK
  <2>2. ASSUME heard, ~dirty PROVE Knows'
    <3>1. Knows
      BY <2>2 DEF Settled
    <3>. QED
      BY <1>4, <1>5, <1>6, <1>8, <2>1, <3>1 DEF Knows
  <2>3. ASSUME p \in {packet, copy}, ~dirty PROVE Knows'
    <3>1. Carries(net[p])
      BY <1>1, <2>3 DEF Tracked
    <3>. QED
      BY <1>4, <1>5, <1>6, <1>8, <2>1, <3>1 DEF Knows, Carries
  <2>4. heard' => packet' # NoPacket
    BY <1>1, <1>8 DEF Settled, Tracked
  <2>. QED
    BY <1>1, <1>8, <2>2, <2>3, <2>4 DEF Settled
<1>. QED
  BY <1>9, <1>10, <1>11, <1>12, <1>13, <1>14

LEMMA LoseStep ==
  ASSUME Inv, NEW p \in Packets, Lose(p) PROVE Inv'
<1>. USE DEF Inv, Core
<1>1. net' \in [Packets -> Messages] /\ \A q \in Packets : net'[q] = net[q] \/ net'[q] = NoMessage
  <2>1. NoMessage \in Messages
    BY DEF NoMessage, Messages
  <2>. QED
    BY <2>1 DEF TypeOK, Lose
<1>2. /\ UNCHANGED <<heard, copy>> /\ UNCHANGED <<sent, sentData, knownStream, knownData, knownStreams>>
      /\ UNCHANGED <<consumed, consumedData, maxStream, maxData, maxStreams, retired>>
      /\ UNCHANGED <<pending, creditPending, dirty, raised, packet, inflight, inflightRaised>>
  BY DEF Lose, limits, publication, sender
<1>3. TypeOK'
  BY <1>1, <1>2 DEF TypeOK
<1>4. LimitsLead'
  <2>1. ASSUME NEW q \in Packets
        PROVE  /\ net'[q].data <= maxData /\ net'[q].streams <= maxStreams
               /\ \A s \in Streams : net'[q].stream[s] <= maxStream[s]
    <3>1. CASE net'[q] = net[q]
      BY <3>1 DEF LimitsLead
    <3>2. CASE net'[q] = NoMessage
      BY <3>2 DEF NoMessage, TypeOK
    <3>. QED
      BY <1>1, <3>1, <3>2
  <2>. QED
    BY <1>2, <2>1 DEF LimitsLead
<1>5. GrantedOnly' /\ Lengths' /\ Waiting'
  BY <1>2 DEF GrantedOnly, Lengths, Waiting
<1>6. Tracked' /\ Settled'
  <2>1. \A q \in {packet, copy} \ {NoPacket} : net'[q] # NoMessage => net'[q] = net[q]
    BY <1>1 DEF TypeOK
  <2>. QED
    BY <1>2, <2>1 DEF Tracked, Carries, Settled, Knows
<1>. QED
  BY <1>3, <1>4, <1>5, <1>6

\* What an acknowledgement settles, the sender has heard of.
LEMMA AckedStep ==
  ASSUME Inv, Acked PROVE Inv'
<1>. USE DEF Inv, Core
<1>1. /\ heard /\ heard' = FALSE /\ packet' = NoPacket /\ inflight' = 0
      /\ inflightRaised' = FALSE /\ copy' = NoPacket
      /\ UNCHANGED <<dirty, net, limits, sender>>
  BY DEF Acked
<1>2. /\ pending \in Seq(Streams \ retired) /\ Len(pending) \in Nat
      /\ DOMAIN pending = 1 .. Len(pending) /\ inflight \in 0 .. Len(pending)
      /\ \A i, j \in 1 .. Len(pending) : pending[i] = pending[j] => i = j
      /\ retired' = retired
  <2>1. /\ pending \in Seq(Streams \ retired) /\ inflight \in 0 .. Len(pending)
        /\ \A i, j \in DOMAIN pending : pending[i] = pending[j] => i = j
    BY DEF TypeOK
  <2>2. Len(pending) \in Nat /\ DOMAIN pending = 1 .. Len(pending)
    BY <2>1
  <2>. QED
    BY <1>1, <2>1, <2>2 DEF limits
<1>3. LimitsLead' /\ GrantedOnly' /\ Lengths' /\ Tracked' /\ Settled'
  BY <1>1 DEF LimitsLead, GrantedOnly, Lengths, Tracked, Settled, limits, sender
<1>4. CASE dirty
  <2>1. creditPending' = TRUE /\ UNCHANGED <<pending, raised>>
    BY <1>4 DEF Acked
  <2>2. TypeOK'
    <3>1. {creditPending', dirty', raised', inflightRaised'} \subseteq BOOLEAN
      BY <1>1, <2>1, Zenon DEF TypeOK
    <3>. QED
      <4>1. /\ pending' \in Seq(Streams \ retired') /\ inflight' \in 0 .. Len(pending')
            /\ \A i, j \in DOMAIN pending' : pending'[i] = pending'[j] => i = j
        BY <1>1, <1>2, <2>1
      <4>. QED
        BY <1>1, <3>1, <4>1 DEF TypeOK, limits, sender
  <2>3. Waiting'
    BY <1>1, <2>1 DEF Waiting, limits, sender
  <2>. QED
    BY <1>3, <2>2, <2>3
<1>5. CASE ~dirty
  <2>. DEFINE n == Len(pending) - inflight
  <2>1. /\ pending' = SubSeq(pending, inflight + 1, Len(pending))
        /\ raised' = (raised /\ ~inflightRaised)
        /\ creditPending' = (pending' # <<>> \/ raised')
    BY <1>5 DEF Acked
  <2>2. /\ pending' \in Seq(Streams \ retired) /\ Len(pending') = n /\ n \in Nat
        /\ DOMAIN pending' = 1 .. n
        /\ \A i \in 1 .. n : pending'[i] = pending[inflight + i]
    <3>1. inflight + 1 \in 1 .. Len(pending) + 1
      BY <1>2
    <3>2. SubSeq(pending, inflight + 1, Len(pending)) \in Seq(Streams \ retired)
      BY <1>2, <3>1, SubSeqProperties
    <3>3. \A i \in inflight + 1 .. Len(pending) : pending[i] \in Streams \ retired
      BY <1>2
    <3>4. /\ Len(pending') = IF inflight + 1 <= Len(pending)
                              THEN Len(pending) - (inflight + 1) + 1 ELSE 0
          /\ \A i \in 1 .. Len(pending) - (inflight + 1) + 1 :
               pending'[i] = pending[inflight + 1 + i - 1]
      <4>1. inflight + 1 \in Int /\ Len(pending) \in Int
        BY <1>2
      <4>. QED
        BY <2>1, <3>3, <4>1, SubSeqProperties
    <3>5. n \in Nat /\ Len(pending') = n /\ Len(pending) - (inflight + 1) + 1 = n
      <4>. DEFINE len == Len(pending)
      <4>1. len \in Nat /\ inflight \in Nat /\ inflight <= len
        BY <1>2
      <4>2. Len(pending') = IF inflight + 1 <= len THEN len - (inflight + 1) + 1 ELSE 0
        BY <3>4
      <4>. HIDE DEF len
      <4>3. /\ len - inflight \in Nat /\ Len(pending') = len - inflight
            /\ len - (inflight + 1) + 1 = len - inflight
        BY <4>1, <4>2
      <4>. QED
        BY <4>3 DEF len
    <3>6. ASSUME NEW i \in 1 .. n PROVE pending'[i] = pending[inflight + i]
      <4>1. inflight + 1 + i - 1 = inflight + i
        BY <1>2, <3>5
      <4>. QED
        BY <3>4, <3>5, <4>1
    <3>7. DOMAIN pending' = 1 .. n
      BY <2>1, <3>2, <3>5
    <3>. QED
      BY <2>1, <3>2, <3>5, <3>6, <3>7
  <2>3. \A i, j \in 1 .. n : pending'[i] = pending'[j] => i = j
    <3>1. ASSUME NEW i \in 1 .. n, NEW j \in 1 .. n, pending'[i] = pending'[j] PROVE i = j
      <4>1. /\ inflight + i \in 1 .. Len(pending) /\ inflight + j \in 1 .. Len(pending)
            /\ pending[inflight + i] = pending[inflight + j]
        BY <1>2, <2>2, <3>1
      <4>2. inflight + i = inflight + j
        BY <1>2, <4>1
      <4>. QED
        BY <1>2, <4>2
    <3>. QED
      BY <3>1
  <2>4. TypeOK'
    <3>1. {creditPending', dirty', raised', inflightRaised'} \subseteq BOOLEAN
      BY <1>1, <1>2, <2>1, Zenon DEF TypeOK
    <3>. QED
      <4>1. /\ pending' \in Seq(Streams \ retired') /\ inflight' \in 0 .. Len(pending')
            /\ \A i, j \in DOMAIN pending' : pending'[i] = pending'[j] => i = j
        BY <1>1, <1>2, <2>2, <2>3
      <4>. QED
        BY <1>1, <3>1, <4>1 DEF TypeOK, limits, sender
  <2>5. Knows
    BY <1>1, <1>5 DEF Settled
  <2>6. Waiting'
    <3>1. knownStreams' # maxStreams' => raised'
      BY <1>1, <2>1, <2>5 DEF Waiting, Knows, limits, sender
    <3>2. knownData' = maxData'
      BY <1>1, <2>5 DEF Knows, limits, sender
    <3>3. raised' \/ pending' # <<>> => creditPending'
      BY <2>1
    <3>4. ASSUME NEW s \in Streams \ retired', knownStream'[s] # maxStream'[s]
          PROVE  \E i \in DOMAIN pending' : pending'[i] = s
      <4>1. s \in Streams \ retired /\ knownStream[s] # maxStream[s]
        BY <1>1, <3>4 DEF limits, sender
      <4>2. PICK i \in 1 .. Len(pending) : pending[i] = s
        BY <1>2, <4>1 DEF Waiting
      <4>3. i \notin 1 .. inflight
        BY <2>5, <4>1, <4>2 DEF Knows
      <4>4. i - inflight \in 1 .. n /\ inflight + (i - inflight) = i
        BY <1>2, <4>3
      <4>5. pending'[i - inflight] = s
        BY <2>2, <4>2, <4>4
      <4>. QED
        BY <2>2, <4>4, <4>5
    <3>. QED
      BY <3>1, <3>2, <3>3, <3>4 DEF Waiting
  <2>. QED
    BY <1>3, <2>4, <2>6
<1>. QED
  BY <1>4, <1>5

LEMMA InvStep == Inv /\ [Next]_vars => Inv'
<1>. SUFFICES ASSUME Inv, [Next]_vars PROVE Inv'
  OBVIOUS
<1>1. CASE UNCHANGED vars
  BY <1>1 DEF Inv, Core, TypeOK, LimitsLead, GrantedOnly, Waiting, Tracked, Settled,
     Carries, Knows, Lengths, vars, limits, publication, network, sender
<1>2. CASE Next
  BY <1>2, SendStep, ConsumeStep, RetireStep, GrantStep, PublishStep, CopyStep, HearStep, LoseStep,
     AckedStep DEF Next
<1>. QED
  BY <1>1, <1>2

LEMMA InvHolds == Spec => []Inv
BY InvInit, InvStep, PTL DEF Spec

\* The state stays well typed: a stream waits at most once for publication,
\* the part of the list in flight is a part of it (try_retire_stream removes
\* from both), and only live streams wait.
THEOREM CreditTypes == Spec => []TypeOK
<1>1. Inv => TypeOK
  BY DEF Inv, Core
<1>. QED
  BY <1>1, InvHolds, PTL

\* Bytes and streams within the limits a sender knows are within the
\* receiver's when they arrive, so ConnectionState::accept refuses none,
\* whichever MAX frames were lost or overtaken.
THEOREM NothingUngranted == Spec => []GrantedOnly
<1>1. Inv => GrantedOnly
  BY DEF Inv, Core
<1>. QED
  BY <1>1, InvHolds, PTL

\* When credit_pending is false the sender knows every limit: no change made
\* while a publication was in flight is settled by its acknowledgement.
THEOREM CreditNeverForgotten == Spec => []NoCreditForgotten
<1>1. Inv => NoCreditForgotten
  <2>. SUFFICES ASSUME Inv, ~creditPending PROVE /\ knownData = maxData /\ knownStreams = maxStreams
                        /\ \A s \in Streams \ retired : knownStream[s] = maxStream[s]
    BY DEF NoCreditForgotten
  <2>1. Waiting /\ pending \in Seq(Streams \ retired)
    BY DEF Inv, Core, TypeOK
  <2>2. pending = <<>>
    BY <2>1 DEF Waiting
  <2>3. DOMAIN pending = {}
    BY <2>2
  <2>. QED
    BY <2>1, <2>3 DEF Waiting
<1>. QED
  BY <1>1, InvHolds, PTL
=============================================================================
