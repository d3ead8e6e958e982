---------------------------- MODULE ForwardRules ----------------------------
(***************************************************************************)
(* The DCID registry of a relay (relay.rs, DcidRegistry and PacketRouter): *)
(* one namespace of local CIDs, each an endpoint's or a forwarding rule's. *)
(* Every operation is a function from registry to registry.                *)
(*                                                                         *)
(* A registry is the set of endpoint CIDs and the rules by CID.  A rule    *)
(* keeps the time left on its inactivity lease and the age of its quota    *)
(* window instead of two instants.  The age stops at twice the lease, which*)
(* no rule with a lease still running reaches.  forwarded_control_packets  *)
(* is a statistic nothing reads and is left out.                           *)
(***************************************************************************)
EXTENDS Integers, FiniteSets

CONSTANTS
  MaxCids,     \* bound: local CIDs a behaviour may use
  MaxRoutes,   \* max_entries
  Quota,       \* packet_quota of an installed direction
  NoRule       \* a CID without a forwarding rule

ASSUME RulesAssumption ==
  MaxCids \in Nat /\ MaxRoutes \in Nat /\ Quota \in Nat \ {0}

Cids == 1 .. MaxCids

EmptyRegistry == [endpoints |-> {}, rules |-> [c \in Cids |-> NoRule]]

Ruled(g) == {c \in Cids : g.rules[c] # NoRule}
Routes(g) == g.endpoints \cup Ruled(g)
Group(g, c) == {d \in Ruled(g) : g.rules[d].group = g.rules[c].group}
WithRules(g, rules) == [endpoints |-> g.endpoints, rules |-> rules]
Without(g, cids) ==
  WithRules(g, [c \in Cids |-> IF c \in cids THEN NoRule ELSE g.rules[c]])

HasRoom(g, n) == Cardinality(Routes(g)) + n <= MaxRoutes

\* insert_endpoint
RegisterEndpoint(g, c) == [endpoints |-> g.endpoints \cup {c}, rules |-> g.rules]
\* remove_endpoint
RemoveEndpoint(g, c) == [endpoints |-> g.endpoints \ {c}, rules |-> g.rules]

\* install_forward_pair accepts distinct free CIDs of a group nothing uses.
CanInstallPair(g, forward, reverse) ==
  /\ forward # reverse
  /\ \A c \in Ruled(g) : g.rules[c].group # forward
  /\ {forward, reverse} \cap Routes(g) = {}
  /\ HasRoom(g, 2)

Rule(hop, dest, group, lease) ==
  [hop |-> hop, dest |-> dest, group |-> group, lease |-> lease,
   left |-> lease, used |-> 0, age |-> 0]

InstallPair(g, forward, there, reverse, back) ==
  WithRules(g, [c \in Cids |->
    IF c = forward THEN there ELSE IF c = reverse THEN back ELSE g.rules[c]])

\* Mutant: the pair of an answer that came too late is left installed.
RemovePairForgotten(g, forward) == g

\* remove_forward_pair
RemovePair(g, forward) == Without(g, Group(g, forward))

\* Mutant: a lease lapses one tick early.
ExpireLeasesEarly(g) == Without(g, {c \in Ruled(g) : g.rules[c].left <= 1})

\* expire_forward_leases
ExpireLeases(g) == Without(g, {c \in Ruled(g) : g.rules[c].left <= 0})

\* forward_lease_active: a rule found past its lease goes with its pair.
LeaseActive(g, c) == c \in Ruled(g) => g.rules[c].left > 0
AfterLeaseCheck(g, c) ==
  IF LeaseActive(g, c) THEN g ELSE Without(g, Group(g, c))

\* consume_forward_quota: whole windows that have passed are skipped, then
\* data packets leave the control reserve alone.
ControlReserve == IF Quota \div 16 > 1 THEN Quota \div 16 ELSE 1
OpenWindow(r) ==
  IF r.age >= r.lease THEN [r EXCEPT !.age = r.age % r.lease, !.used = 0] ELSE r
Admits(r, control) ==
  /\ r.used < Quota
  /\ control \/ r.used < Quota - ControlReserve
ConsumeQuota(g, c, control) ==
  LET r == OpenWindow(g.rules[c])
  IN WithRules(g, [g.rules EXCEPT ![c] =
       IF Admits(r, control) THEN [r EXCEPT !.used = r.used + 1] ELSE r])

\* Mutant: traffic renews only the direction it uses.
RefreshLeaseOneWay(g, c) ==
  WithRules(g, [g.rules EXCEPT ![c] = [@ EXCEPT !.left = g.rules[c].lease]])

\* refresh_forward_lease renews both directions of the pair.
RefreshLease(g, c) ==
  WithRules(g, [d \in Cids |->
    IF d \in Group(g, c)
      THEN [g.rules[d] EXCEPT !.left = g.rules[c].lease]
      ELSE g.rules[d]])

\* Time passes by one tick.
OlderRule(r) == [r EXCEPT
  !.left = IF r.left > 0 THEN r.left - 1 ELSE 0,
  !.age  = IF r.age < 2 * r.lease THEN r.age + 1 ELSE r.age]
OlderRules(g) ==
  WithRules(g, [c \in Cids |->
    IF c \in Ruled(g) THEN OlderRule(g.rules[c]) ELSE NoRule])
============================================================================
