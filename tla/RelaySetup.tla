----------------------------- MODULE RelaySetup -----------------------------
(***************************************************************************)
(* One relay node of quic-lite (node.rs, receive_packet and timer_expired):*)
(* PATH_OPEN requests arrive from previous hops, are remembered in the     *)
(* setup table and forwarded, or answered here when this node is the       *)
(* endpoint they name; PATH_OPEN_ACKs come back from downstream and install*)
(* a pair of forwarding rules; packets use the rules and renew their lease;*)
(* time passes, and the node's timer sweeps what it made due.              *)
(*                                                                         *)
(* The network may lose, repeat, delay and reorder everything: a request   *)
(* that an opener sends may arrive at any time and any number of times, and*)
(* so may any answer to a request that was forwarded.                      *)
(***************************************************************************)
EXTENDS SetupTransactionTable, ForwardRules

CONSTANTS
  Sendable,       \* <<key, request>>: what openers may ask for
  Route,          \* Route[q]: downstream hop, Here, or None when unresolved
  Here,           \* this node is the endpoint of the request
  LeaseOffers,    \* leases an accepting endpoint may grant
  HopLease,       \* lease_us of this hop's instruction
  MaxPackets      \* bound: packets a behaviour may forward

ASSUME RelayAssumption ==
  /\ Sendable \subseteq Keys \X Requests
  /\ Route \in [Requests -> DownstreamHops \cup {Here, None}]
  /\ Here \notin DownstreamHops \cup {None}
  /\ LeaseOffers \subseteq Nat \ {0} /\ HopLease \in Nat \ {0}
  /\ MaxPackets \in Nat

VARIABLES
  setup,      \* router.setup_transactions
  registry,   \* router.registry
  nextCid,    \* next_local_cid
  sent,       \* <<key, request>> of every PATH_OPEN forwarded so far
  packets     \* packets forwarded so far
vars == <<setup, registry, nextCid, sent, packets>>

\* A downstream node answers a request it was sent.  Accepting makes an
\* endpoint for that request, which its CID in the answer stands for.
Accepted(origin, lease) == [ok |-> TRUE, origin |-> origin, lease |-> lease]
Rejected == [ok |-> FALSE, origin |-> None, lease |-> 0]
Answers == {Accepted(o, l) : o \in Sendable, l \in LeaseOffers} \cup {Rejected}
AnswersTo(o) == {Accepted(o, l) : l \in LeaseOffers} \cup {Rejected}

\* What the relay tells the previous hop: forward is the head of relay_cids.
Grant(origin, forward) == [ok |-> TRUE, origin |-> origin, forward |-> forward]
Refusal == [ok |-> FALSE, origin |-> None, forward |-> 0]
Replies == {Grant(o, f) : o \in Sendable, f \in 0 .. MaxCids} \cup {Refusal}

\* Mutant: the longer of the two leases is taken.
LongerLease(r) == IF r.lease < HopLease THEN HopLease ELSE r.lease

\* An accepted path lives for the shorter of the granted and the asked lease.
EffectiveLease(r) == IF r.lease < HopLease THEN r.lease ELSE HopLease

Init ==
  /\ setup = EmptyTable
  /\ registry = EmptyRegistry
  /\ nextCid = 1
  /\ sent = {}
  /\ packets = 0

----------------------------------------------------------------------------
\* Mutant: a retry starts the pending deadline afresh.
RetryExtendsDeadline(k, q) ==
  LET s == Expire(setup)
  IN /\ Lookup(s, k, q) # "New"
     /\ setup' = IF Lookup(s, k, q) = "PendingRetry"
                   THEN [s EXCEPT !.entries[k] = [s.entries[k] EXCEPT !.left = PendingTimeout]]
                   ELSE s
     /\ UNCHANGED <<registry, nextCid, sent, packets>>

\* A PATH_OPEN whose transaction is known, or which finds the table full, is
\* answered from the table: replayed, forwarded again or rejected.
RepeatPathOpen(k, q) ==
  /\ Lookup(Expire(setup), k, q) # "New"
  /\ setup' = Expire(setup)
  /\ UNCHANGED <<registry, nextCid, sent, packets>>

\* No next hop resolves: the fresh transaction is cancelled and rejected.
UnroutedPathOpen(k, q) ==
  /\ Lookup(Expire(setup), k, q) = "New"
  /\ Route[q] = None
  /\ setup' = Cancel(Begin(Expire(setup), k, q, None, 0), k)
  /\ UNCHANGED <<registry, nextCid, sent, packets>>

\* The request goes on to the next hop with two fresh CIDs reserved for it.
ForwardPathOpen(k, q) ==
  /\ Lookup(Expire(setup), k, q) = "New"
  /\ Route[q] \in DownstreamHops
  /\ nextCid + 1 <= MaxCids
  /\ setup' = Begin(Expire(setup), k, q, Route[q], nextCid)
  /\ nextCid' = nextCid + 2
  /\ sent' = sent \cup {<<k, q>>}
  /\ UNCHANGED <<registry, packets>>

\* This node is the endpoint: the handler begins the transaction and ends it.
\* A decline, an unknown association or a stale circuit is a cached
\* rejection, or stays pending when the pool has no packet for the rejection;
\* a CID, route or buffer that an acceptance cannot have cancels.
LocalPathOpen(k, q) ==
  /\ Lookup(Expire(setup), k, q) = "New"
  /\ Route[q] = Here
  /\ nextCid <= MaxCids
  /\ LET s == Begin(Expire(setup), k, q, None, 0)
     IN \/ /\ setup' \in {s, Complete(s, k, Refusal)}
           /\ UNCHANGED <<registry, nextCid>>
        \/ /\ setup' = Cancel(s, k)
           /\ nextCid' = nextCid + 1
           /\ UNCHANGED registry
        \/ /\ HasRoom(registry, 1)
           /\ registry' = RegisterEndpoint(registry, nextCid)
           /\ setup' = Complete(s, k, Grant(<<k, q>>, 0))
           /\ nextCid' = nextCid + 1
  /\ UNCHANGED <<sent, packets>>

\* An association ends and its CID leaves the registry.
RemoveAssociation(c) ==
  /\ c \in registry.endpoints
  /\ registry' = RemoveEndpoint(registry, c)
  /\ UNCHANGED <<setup, nextCid, sent, packets>>

----------------------------------------------------------------------------
\* validate_downstream_reply takes answer r, which came from `hop' for
\* transaction t, to entry k.  The answer's circuit is compared with itself,
\* so it rules nothing out.
Validates(k, hop, t, r) ==
  /\ IsFirstMatch(setup, hop, t, k)
  /\ setup.entries[k].status # "expired"
  /\ setup.entries[k].answer \in {None, r}
  /\ ~(setup.entries[k].answer = r /\ setup.entries[k].status = "ready")

\* The rules an accepted answer to entry k installs, and what it answers.
There(k, r) ==
  LET e == setup.entries[k]
  IN Rule(e.hop, r.origin, e.forward, EffectiveLease(r))
Back(k, r) ==
  LET e == setup.entries[k]
  IN Rule(PreviousHop(k), <<k, e.request>>, e.forward, EffectiveLease(r))

Installs(k, r) ==
  /\ r.ok
  /\ CanInstallPair(registry, setup.entries[k].forward, setup.entries[k].forward + 1)
Installed(k, r) ==
  LET e == setup.entries[k]
  IN IF Installs(k, r)
       THEN InstallPair(registry, e.forward, There(k, r), e.forward + 1, Back(k, r))
       ELSE registry
Upstream(k, r) ==
  IF Installs(k, r) THEN Grant(r.origin, setup.entries[k].forward) ELSE Refusal

\* The first good answer: its pair is installed, then the transaction is
\* completed; an answer that comes too late for that takes its pair away.
\* An answer that cannot be extended or encoded stops before that, with the
\* answer kept and no pair.
RecvPathOpenAck(hop, o, r) ==
  /\ o \in sent /\ Route[o[2]] = hop /\ r \in AnswersTo(o)
  /\ \E k \in Keys :
       /\ Validates(k, hop, TransactionId(o[1]), r)
       /\ LET s == KeepAnswer(setup, k, r)
              done == Installed(k, r)
          IN \/ /\ CanComplete(s, k)
                /\ setup' = Complete(s, k, Upstream(k, r))
                /\ registry' = done
             \/ /\ ~CanComplete(s, k)
                /\ setup' = s
                /\ registry' = IF Installs(k, r)
                                 THEN RemovePair(done, setup.entries[k].forward)
                                 ELSE done
             \/ /\ setup' = s
                /\ UNCHANGED registry
  /\ UNCHANGED <<nextCid, sent, packets>>

----------------------------------------------------------------------------
\* A packet arrives on CID c.  The lease is checked, then the packet pool may
\* refuse it, then the quota, and an established packet renews the lease.
RefusePacket(c) ==
  /\ registry' = AfterLeaseCheck(registry, c)
  /\ UNCHANGED <<setup, nextCid, sent, packets>>

ForwardPacket(c, control, established) ==
  /\ packets < MaxPackets
  /\ c \in Ruled(registry)
  /\ LeaseActive(registry, c)
  /\ LET used == ConsumeQuota(registry, c, control)
     IN registry' = IF Admits(OpenWindow(registry.rules[c]), control) /\ established
                      THEN RefreshLease(used, c) ELSE used
  /\ packets' = packets + 1
  /\ UNCHANGED <<setup, nextCid, sent>>

Tick ==
  /\ setup' = Older(setup)
  /\ registry' = OlderRules(registry)
  /\ UNCHANGED <<nextCid, sent, packets>>

\* timer_expired
TimerExpired ==
  /\ registry' = ExpireLeases(registry)
  /\ setup' = Expire(setup)
  /\ UNCHANGED <<nextCid, sent, packets>>

Next ==
  \/ \E o \in Sendable :
       \/ RepeatPathOpen(o[1], o[2])
       \/ UnroutedPathOpen(o[1], o[2])
       \/ ForwardPathOpen(o[1], o[2])
       \/ LocalPathOpen(o[1], o[2])
  \/ \E hop \in DownstreamHops, o \in Sendable, r \in Answers : RecvPathOpenAck(hop, o, r)
  \/ \E c \in Cids : RemoveAssociation(c) \/ RefusePacket(c)
  \/ \E c \in Cids, control, established \in BOOLEAN :
       ForwardPacket(c, control, established)
  \/ Tick
  \/ TimerExpired

Spec == Init /\ [][Next]_vars

\* The clock does not stop, and the node's loop runs its timer when due.
FairSpec == Spec /\ WF_vars(Tick) /\ WF_vars(TimerExpired)

----------------------------------------------------------------------------
Entry == [
  request : Requests, status : {"pending", "ready", "expired"},
  left : -Retention .. PendingTimeout, keep : 0 .. PendingTimeout + Retention,
  hop : DownstreamHops \cup {None}, forward : 0 .. MaxCids,
  answer : Answers \cup {None},
  reply : Replies \cup {None}]

RuleType == [
  hop : DownstreamHops \cup PreviousHops, dest : Keys \X Requests, group : Cids,
  lease : 1 .. HopLease, left : 0 .. HopLease, used : 0 .. Quota,
  age : 0 .. 2 * HopLease]

Tables == [entries : [Keys -> Entry \cup {None}],
           pending : Nat, cached : Nat, reserved : Nat]
Registries == [endpoints : SUBSET Cids, rules : [Cids -> RuleType \cup {NoRule}]]

ASSUME NullAssumption == None \notin Entry \cup Answers /\ NoRule \notin RuleType

\* Every field has its type; in particular no rule counts more packets than
\* its quota or lives longer than this hop was asked to keep it.
TypeOK ==
  /\ setup \in Tables
  /\ registry \in Registries
  /\ nextCid \in 1 .. MaxCids + 1
  /\ sent \subseteq Sendable
  /\ packets \in 0 .. MaxPackets

\* The counters admission reads stay in step with the table through every
\* expiry, cancellation and completion: a unit that leaks would in time make
\* begin answer Full for good.
CountersMatchTable == Counted(setup)

\* The two directions of a path exist together and lapse at the same instant:
\* no packet can be carried one way when nothing can come back.
PairsWhole ==
  \A c \in Ruled(registry) :
    LET g == registry.rules[c].group
    IN /\ c \in {g, g + 1}
       /\ {g, g + 1} \subseteq Ruled(registry)
       /\ registry.rules[g].left = registry.rules[g + 1].left
       /\ registry.rules[g].lease = registry.rules[g + 1].lease

\* A transaction that is pending, cancelled, expired or refused has no rules:
\* an answer that came too late left nothing behind.
NoRuleWithoutGrant ==
  \A k \in Present(setup) :
    LET e == setup.entries[k]
    IN e.hop # None /\ ~(e.status = "ready" /\ e.reply.ok)
         => {e.forward, e.forward + 1} \cap Routes(registry) = {}

\* While the grant of a path may still be replayed to a retrying opener, the
\* path it grants is there, when its lease is no shorter than the retention.
ReplayedGrantIsLive ==
  \A k \in Present(setup) :
    LET e == setup.entries[k]
    IN /\ e.hop # None /\ e.status = "ready" /\ e.reply.ok /\ e.keep > 0
       /\ EffectiveLease(e.answer) >= Retention
       => /\ {e.forward, e.forward + 1} \subseteq Ruled(registry)
          /\ registry.rules[e.forward].left > 0

\* A path joins the opener that asked for it to the endpoint that was made
\* for it: the two rules of a pair serve one request.
PathServesOneRequest ==
  \A c, d \in Ruled(registry) :
    registry.rules[c].group = registry.rules[d].group
      => registry.rules[c].dest = registry.rules[d].dest

\* Whatever transaction ids openers choose, the requests at the two ends of a
\* path went to one next hop under one id.  So the path of a request whose id
\* no other request to its next hop has serves that request at both ends, and
\* two requests can be mixed up only with each other.
Alike(o, p) ==
  /\ Route[o[2]] \in DownstreamHops /\ Route[o[2]] = Route[p[2]]
  /\ TransactionId(o[1]) = TransactionId(p[1])
OnlyEqualIdsMix ==
  \A c, d \in Ruled(registry) :
    registry.rules[c].group = registry.rules[d].group
      => Alike(registry.rules[c].dest, registry.rules[d].dest)

\* Every relayed transaction, which its forward CID tells from a later one
\* under the same key, leaves the table however often it is retried: "retries
\* never extend the original pending deadline".
Remembered(f) == \E k \in Present(setup) : setup.entries[k].forward = f
TransactionsEnd == \A f \in Cids : Remembered(f) ~> ~Remembered(f)
============================================================================
