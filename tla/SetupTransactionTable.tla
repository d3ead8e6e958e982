----------------------- MODULE SetupTransactionTable -----------------------
(***************************************************************************)
(* The retry table of a relay (relay.rs, SetupTransactionTable): one entry *)
(* per setup a previous hop asked for, with the counters that admission    *)
(* reads.  Every operation is a function from table to table; RelaySetup   *)
(* calls them.                                                             *)
(*                                                                         *)
(* An entry is keyed by previous hop and transaction id, which the lookup  *)
(* of begin keeps unique.  Clocks are kept as the time that is left: `left'*)
(* until the pending deadline (negative once it is past, and no further    *)
(* back than Retention, where nothing depends on it) and `keep' until the  *)
(* cached entry may go.  Every caller reserves the same reply size, which  *)
(* is one unit of storage.  An entry is given its downstream hop and its   *)
(* relay state by the handler that begins it, so one field says both: the  *)
(* forward CID of the state, the reverse CID being the next one.           *)
(***************************************************************************)
EXTENDS Integers, FiniteSets

CONSTANTS
  PreviousHops,      \* bearer addresses requests arrive from
  DownstreamHops,    \* bearer addresses requests are forwarded to
  TransactionIds,
  Requests,          \* request bodies
  MaxPending,        \* max_pending
  MaxCached,         \* max_cached_replies: entries of any status
  MaxReserved,       \* max_reserved_reply_bytes, in replies
  PendingTimeout,    \* DEFAULT_SETUP_PENDING_TIMEOUT_US, in ticks
  Retention,         \* retention_us, in ticks
  None               \* no entry, no hop, no reply

ASSUME TableAssumption ==
  /\ MaxPending \in Nat /\ MaxCached \in Nat /\ MaxReserved \in Nat
  /\ PendingTimeout \in Nat \ {0} /\ Retention \in Nat \ {0}
  /\ None \notin DownstreamHops \cup Requests
  /\ IsFiniteSet(PreviousHops) /\ IsFiniteSet(TransactionIds)

Keys == PreviousHops \X TransactionIds
PreviousHop(k) == k[1]
TransactionId(k) == k[2]

EmptyTable == [
  entries  |-> [k \in Keys |-> None],
  pending  |-> 0,        \* pending_count
  cached   |-> 0,        \* cached_count
  reserved |-> 0]        \* reserved_reply_bytes

Present(s) == {k \in Keys : s.entries[k] # None}
InStatus(s, status) == {k \in Present(s) : s.entries[k].status = status}

Monus(a, b) == IF a >= b THEN a - b ELSE 0

\* The counters are what a recount of the entries would give.
Counted(s) ==
  /\ s.pending = Cardinality(InStatus(s, "pending"))
  /\ s.cached = Cardinality(InStatus(s, "ready"))
  /\ s.reserved = s.pending + s.cached

\* What becomes of a pending entry that expires or is cancelled.
MarkExpired(e) ==
  [e EXCEPT !.status = "expired", !.keep = e.left + Retention]

\* expire: pending entries past their deadline become expired ones, and
\* entries kept long enough go, in the same pass when both are due.
Lapsed(s) == {k \in InStatus(s, "pending") : s.entries[k].left <= 0}
Aged(s, k) == IF k \in Lapsed(s) THEN MarkExpired(s.entries[k]) ELSE s.entries[k]
Gone(s) == {k \in Present(s) : Aged(s, k).status # "pending" /\ Aged(s, k).keep <= 0}
Uncached(s) == Gone(s) \cap InStatus(s, "ready")

Expire(s) ==
  [entries  |-> [k \in Keys |->
                  IF k \in Present(s) \ Gone(s) THEN Aged(s, k) ELSE None],
   pending  |-> s.pending - Cardinality(Lapsed(s)),
   cached   |-> s.cached - Cardinality(Uncached(s)),
   reserved |-> Monus(s.reserved, Cardinality(Lapsed(s)) + Cardinality(Uncached(s)))]

\* The answer of begin, once it has expired what is due.
Lookup(s, k, q) ==
  LET e == s.entries[k]
  IN CASE e # None /\ e.request # q -> "Conflict"
       [] e # None /\ e.request = q /\ e.status = "expired" -> "Expired"
       [] e # None /\ e.request = q /\ e.status = "ready" -> "Replay"
       [] e # None /\ e.request = q /\ e.status = "pending" -> "PendingRetry"
       [] e = None /\ (\/ s.pending >= MaxPending
                       \/ Cardinality(Present(s)) >= MaxCached
                       \/ s.reserved + 1 > MaxReserved) -> "Full"
       [] OTHER -> "New"

\* begin when the lookup says New; hop and forward are None and 0 when this
\* node is itself the endpoint.
Begin(s, k, q, hop, forward) ==
  [entries  |-> [s.entries EXCEPT ![k] =
                  [request |-> q, status |-> "pending",
                   left |-> PendingTimeout, keep |-> 0,
                   hop |-> hop, forward |-> forward,
                   answer |-> None, reply |-> None]],
   pending  |-> s.pending + 1,
   cached   |-> s.cached,
   reserved |-> s.reserved + 1]

\* Mutant: the reservation of a cancelled transaction is not given back.
CancelKeepsReservation(s, k) ==
  IF s.entries[k].status # "pending" THEN s
  ELSE [s EXCEPT !.entries = [s.entries EXCEPT ![k] = MarkExpired(s.entries[k])],
                 !.pending = s.pending - 1]

\* cancel, of an entry that is there.
Cancel(s, k) ==
  IF s.entries[k].status # "pending" THEN s
  ELSE [entries  |-> [s.entries EXCEPT ![k] = MarkExpired(s.entries[k])],
        pending  |-> s.pending - 1,
        cached   |-> s.cached,
        reserved |-> Monus(s.reserved, 1)]

\* complete succeeds only before the deadline, whatever expire has done.
CanComplete(s, k) ==
  /\ s.entries[k] # None
  /\ s.entries[k].status = "pending"
  /\ s.entries[k].left > 0

Complete(s, k, reply) ==
  [entries  |-> [s.entries EXCEPT ![k] =
                  [s.entries[k] EXCEPT !.status = "ready", !.keep = Retention,
                                       !.reply = reply]],
   pending  |-> s.pending - 1,
   cached   |-> s.cached + 1,
   reserved |-> s.reserved]

\* Mutant: an answer is matched by the hop it came from alone.
MatchesByHop(s, hop, t) == {k \in Present(s) : s.entries[k].hop = hop}

\* The entry validate_downstream_reply takes an answer from `hop' to: the
\* first in the vector, which is the one with the least forward CID, because
\* entries are appended and CIDs count up.
Matches(s, hop, t) ==
  {k \in Present(s) : s.entries[k].hop = hop /\ TransactionId(k) = t}
IsFirstMatch(s, hop, t, k) ==
  /\ k \in Matches(s, hop, t)
  /\ \A j \in Matches(s, hop, t) : s.entries[k].forward <= s.entries[j].forward

\* validate_downstream_reply keeps the first answer byte for byte.
KeepAnswer(s, k, r) ==
  [entries  |-> [s.entries EXCEPT ![k] = [s.entries[k] EXCEPT !.answer = r]],
   pending  |-> s.pending,
   cached   |-> s.cached,
   reserved |-> s.reserved]

\* Time passes by one tick.
Later(e) == [e EXCEPT
  !.left = IF e.left > -Retention THEN e.left - 1 ELSE e.left,
  !.keep = Monus(e.keep, 1)]
Older(s) ==
  [entries  |-> [k \in Keys |->
                  IF s.entries[k] = None THEN None ELSE Later(s.entries[k])],
   pending  |-> s.pending,
   cached   |-> s.cached,
   reserved |-> s.reserved]
============================================================================
