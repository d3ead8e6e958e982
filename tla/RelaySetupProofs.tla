-------------------------- MODULE RelaySetupProofs --------------------------
(***************************************************************************)
(* What RelaySetup promises for every set of openers, requests, routes,    *)
(* limits, leases and bounds.  The counters and types are inductive        *)
(* together.  The rules of a pair stay together because every operation    *)
(* that takes a rule away or renews it does so for its whole group.  That  *)
(* a transaction without a grant has no rules needs the CIDs of different  *)
(* transactions to be different, which holds because they are handed out   *)
(* by a counter ahead of everything registered.  Replayed grants are live  *)
(* because a lease is renewed as a whole and outlasts the retention.       *)
(***************************************************************************)
EXTENDS RelaySetup, FiniteSetTheorems, TLAPS

USE TableAssumption, RulesAssumption, RelayAssumption, NullAssumption

\* The keys are finitely many, and so is any set of them.
LEMMA KeysFinite == ASSUME NEW S, S \subseteq Keys PROVE IsFiniteSet(S)
BY FS_Product, FS_Subset DEF Keys

\* A set minus a part of it is smaller by the size of the part.
LEMMA MinusPart ==
  ASSUME NEW S, S \subseteq Keys, NEW T, T \subseteq S
  PROVE  /\ Cardinality(S) \in Nat /\ Cardinality(T) \in Nat
         /\ Cardinality(S \ T) = Cardinality(S) - Cardinality(T)
         /\ Cardinality(T) <= Cardinality(S)
<1>1. IsFiniteSet(S) /\ IsFiniteSet(T)
  BY KeysFinite
<1>2. S \cap T = T
  OBVIOUS
<1>. QED
  BY <1>1, <1>2, FS_CardinalityType, FS_Difference, FS_Subset

\* An entry marked as expired, or that time has passed over, is an entry.
LEMMA MarkExpiredType ==
  ASSUME NEW e \in Entry
  PROVE  /\ MarkExpired(e) \in Entry
         /\ MarkExpired(e).status = "expired"
         /\ MarkExpired(e).hop = e.hop /\ MarkExpired(e).forward = e.forward
         /\ Later(e) \in Entry
         /\ Later(e).status = e.status /\ Later(e).reply = e.reply
         /\ Later(e).hop = e.hop /\ Later(e).forward = e.forward
<1>1. /\ e.left \in -Retention .. PendingTimeout
      /\ e.keep \in 0 .. PendingTimeout + Retention
  BY DEF Entry
<1>2. e.left + Retention \in 0 .. PendingTimeout + Retention
  BY <1>1
<1>3. /\ (IF e.left > -Retention THEN e.left - 1 ELSE e.left) \in -Retention .. PendingTimeout
      /\ Monus(e.keep, 1) \in 0 .. PendingTimeout + Retention
  BY <1>1 DEF Monus
<1>4. MarkExpired(e) \in Entry
  BY <1>2 DEF Entry, MarkExpired
<1>5. Later(e) \in Entry
  BY <1>3 DEF Entry, Later
<1>. QED
  BY <1>4, <1>5 DEF Entry, MarkExpired, Later

\* What expire leaves of an entry.
LEMMA ExpireEntries ==
  ASSUME NEW s \in Tables
  PROVE  /\ Expire(s).entries \in [Keys -> Entry \cup {None}]
         /\ \A k \in Present(Expire(s)) :
              /\ k \in Present(s)
              /\ Expire(s).entries[k].hop = s.entries[k].hop
              /\ Expire(s).entries[k].forward = s.entries[k].forward
              /\ \/ Expire(s).entries[k] = s.entries[k]
                 \/ /\ s.entries[k].status = "pending"
                    /\ Expire(s).entries[k].status = "expired"
         /\ InStatus(Expire(s), "pending") = InStatus(s, "pending") \ Lapsed(s)
         /\ InStatus(Expire(s), "ready") = InStatus(s, "ready") \ Uncached(s)
<1>1. \A k \in Present(s) : s.entries[k] \in Entry /\ k \in Keys
  BY DEF Tables, Present
<1>2. \A k \in Present(s) : /\ Aged(s, k) \in Entry
                            /\ Aged(s, k) # None
                            /\ Aged(s, k).hop = s.entries[k].hop
                            /\ Aged(s, k).forward = s.entries[k].forward
                            /\ k \in Lapsed(s) => Aged(s, k).status = "expired"
                            /\ k \notin Lapsed(s) => Aged(s, k) = s.entries[k]
  BY <1>1, MarkExpiredType DEF Aged
<1>3. \A k \in Keys : Expire(s).entries[k] =
                        IF k \in Present(s) \ Gone(s) THEN Aged(s, k) ELSE None
  BY DEF Expire
<1>4. Expire(s).entries \in [Keys -> Entry \cup {None}]
  BY <1>2 DEF Expire
<1>5. Present(Expire(s)) = Present(s) \ Gone(s)
  BY <1>2, <1>3 DEF Present
<1>6. \A k \in Present(Expire(s)) : Expire(s).entries[k] = Aged(s, k)
  BY <1>3, <1>5 DEF Present
<1>7. \A k \in Lapsed(s) : k \in Present(s) /\ s.entries[k].status = "pending"
  BY DEF Lapsed, InStatus
<1>8. \A k \in Gone(s) : k \in Present(s) /\ Aged(s, k).status # "pending"
  BY DEF Gone
<1>9. InStatus(Expire(s), "pending") = InStatus(s, "pending") \ Lapsed(s)
  BY <1>2, <1>5, <1>6, <1>7, <1>8 DEF InStatus
<1>10. InStatus(Expire(s), "ready") = InStatus(s, "ready") \ Uncached(s)
  BY <1>2, <1>5, <1>6, <1>7, <1>8 DEF InStatus, Uncached
<1>. QED
  BY <1>2, <1>4, <1>5, <1>6, <1>7, <1>9, <1>10

\* expire keeps the counters in step with the entries.
LEMMA ExpireOK ==
  ASSUME NEW s \in Tables, Counted(s)
  PROVE  Expire(s) \in Tables /\ Counted(Expire(s))
<1>1. /\ InStatus(s, "pending") \subseteq Keys /\ InStatus(s, "ready") \subseteq Keys
      /\ Lapsed(s) \subseteq InStatus(s, "pending")
      /\ Uncached(s) \subseteq InStatus(s, "ready")
  BY DEF InStatus, Present, Lapsed, Uncached
<1>. DEFINE P == Cardinality(InStatus(s, "pending"))
            R == Cardinality(InStatus(s, "ready"))
            L == Cardinality(Lapsed(s))
            U == Cardinality(Uncached(s))
<1>2. /\ P \in Nat /\ R \in Nat /\ L \in Nat /\ U \in Nat /\ L <= P /\ U <= R
      /\ Cardinality(InStatus(s, "pending") \ Lapsed(s)) = P - L
      /\ Cardinality(InStatus(s, "ready") \ Uncached(s)) = R - U
  BY <1>1, MinusPart
<1>3. s.pending = P /\ s.cached = R /\ s.reserved = P + R
  BY DEF Counted
<1>4. /\ Expire(s).pending = P - L
      /\ Expire(s).cached = R - U
      /\ Expire(s).reserved = Monus(P + R, L + U)
  BY <1>3 DEF Expire
<1>. HIDE DEF P, R, L, U
<1>5. Monus(P + R, L + U) = (P - L) + (R - U)
  BY <1>2 DEF Monus
<1>6. P - L \in Nat /\ R - U \in Nat /\ (P - L) + (R - U) \in Nat
  BY <1>2
<1>7. Expire(s) \in Tables
  BY <1>4, <1>5, <1>6, ExpireEntries DEF Tables, Expire
<1>8. Counted(Expire(s))
  BY <1>2, <1>4, <1>5, ExpireEntries DEF Counted
<1>. QED
  BY <1>7, <1>8

\* A set with one more, or one fewer, of the keys.
LEMMA OneMore ==
  ASSUME NEW S, S \subseteq Keys, NEW k \in Keys
  PROVE  /\ Cardinality(S) \in Nat
         /\ k \notin S => Cardinality(S \cup {k}) = Cardinality(S) + 1
         /\ k \in S => Cardinality(S \ {k}) = Cardinality(S) - 1 /\ Cardinality(S) >= 1
<1>1. IsFiniteSet(S)
  BY KeysFinite
<1>2. Cardinality(S) \in Nat
  BY <1>1, FS_CardinalityType
<1>3. k \notin S => Cardinality(S \cup {k}) = Cardinality(S) + 1
  BY <1>1, FS_AddElement
<1>4. k \in S => Cardinality(S \ {k}) = Cardinality(S) - 1
  BY <1>1, FS_RemoveElement
<1>5. k \in S => Cardinality(S \ {k}) \in Nat
  BY <1>1, FS_RemoveElement, FS_CardinalityType
<1>. QED
  BY <1>2, <1>3, <1>4, <1>5

\* A new transaction is counted as pending.
LEMMA BeginOK ==
  ASSUME NEW s \in Tables, Counted(s), NEW k \in Keys, s.entries[k] = None,
         NEW q \in Requests, NEW hop \in DownstreamHops \cup {None},
         NEW f \in 0 .. MaxCids
  PROVE  /\ Begin(s, k, q, hop, f) \in Tables
         /\ Counted(Begin(s, k, q, hop, f))
<1>. DEFINE b == Begin(s, k, q, hop, f)
            e == [request |-> q, status |-> "pending", left |-> PendingTimeout,
                  keep |-> 0, hop |-> hop, forward |-> f,
                  answer |-> None, reply |-> None]
<1>1. e \in Entry
  BY DEF Entry
<1>2. b = [entries |-> [s.entries EXCEPT ![k] = e], pending |-> s.pending + 1,
           cached |-> s.cached, reserved |-> s.reserved + 1]
  BY DEF Begin
<1>. HIDE DEF e, b
<1>3. b \in Tables
  BY <1>1, <1>2 DEF Tables
<1>4. /\ b.entries[k] = e /\ \A j \in Keys : j # k => b.entries[j] = s.entries[j]
      /\ b.pending = s.pending + 1 /\ b.cached = s.cached
      /\ b.reserved = s.reserved + 1
  BY <1>2 DEF Tables
<1>5. e # None /\ e.status = "pending"
  BY <1>1 DEF e
<1>6. InStatus(b, "pending") = InStatus(s, "pending") \cup {k}
  BY <1>4, <1>5 DEF InStatus, Present
<1>7. InStatus(b, "ready") = InStatus(s, "ready")
  BY <1>4, <1>5 DEF InStatus, Present
<1>8. k \notin InStatus(s, "pending") /\ InStatus(s, "pending") \subseteq Keys
  BY DEF InStatus, Present
<1>9. Counted(b)
  BY <1>4, <1>6, <1>7, <1>8, OneMore DEF Counted, Tables
<1>. QED
  BY <1>3, <1>9 DEF b

\* A cancelled transaction is no longer counted.
LEMMA CancelOK ==
  ASSUME NEW s \in Tables, Counted(s), NEW k \in Present(s)
  PROVE  Cancel(s, k) \in Tables /\ Counted(Cancel(s, k))
<1>. DEFINE b == Cancel(s, k)
            e == MarkExpired(s.entries[k])
<1>1. CASE s.entries[k].status # "pending"
  BY <1>1 DEF Cancel
<1>2. CASE s.entries[k].status = "pending"
  <2>1. s.entries[k] \in Entry /\ k \in Keys
    BY DEF Tables, Present
  <2>2. e \in Entry /\ e.status = "expired"
    BY <2>1, MarkExpiredType
  <2>3. b = [entries |-> [s.entries EXCEPT ![k] = e], pending |-> s.pending - 1,
             cached |-> s.cached, reserved |-> Monus(s.reserved, 1)]
    BY <1>2 DEF Cancel
  <2>4. k \in InStatus(s, "pending") /\ InStatus(s, "pending") \subseteq Keys
        /\ InStatus(s, "ready") \subseteq Keys
    BY <1>2 DEF InStatus, Present
  <2>5. /\ s.pending \in Nat /\ s.cached \in Nat /\ s.pending >= 1
        /\ Cardinality(InStatus(s, "pending") \ {k}) = s.pending - 1
        /\ s.reserved = s.pending + s.cached
    BY <2>1, <2>4, OneMore, ZenonT(30) DEF Counted
  <2>6. s.pending - 1 \in Nat /\ Monus(s.reserved, 1) = (s.pending - 1) + s.cached
    BY <2>5 DEF Monus
  <2>. HIDE DEF e, b
  <2>7. b \in Tables
    BY <2>1, <2>2, <2>3, <2>5, <2>6 DEF Tables
  <2>8. /\ b.entries[k] = e /\ \A j \in Keys : j # k => b.entries[j] = s.entries[j]
        /\ b.pending = s.pending - 1 /\ b.cached = s.cached
        /\ b.reserved = (s.pending - 1) + s.cached
    BY <2>1, <2>3, <2>6 DEF Tables
  <2>9. e # None
    BY <2>2
  <2>10. InStatus(b, "pending") = InStatus(s, "pending") \ {k}
    BY <1>2, <2>1, <2>2, <2>8, <2>9 DEF InStatus, Present
  <2>11. InStatus(b, "ready") = InStatus(s, "ready")
    BY <1>2, <2>1, <2>2, <2>8, <2>9 DEF InStatus, Present
  <2>12. Counted(b)
    BY <2>5, <2>8, <2>10, <2>11 DEF Counted
  <2>. QED
    BY <2>7, <2>12 DEF b
<1>. QED
  BY <1>1, <1>2

\* A completed transaction is counted as cached, and keeps its reservation.
LEMMA CompleteOK ==
  ASSUME NEW s \in Tables, Counted(s), NEW k \in Keys, CanComplete(s, k),
         NEW r \in Replies
  PROVE  /\ Complete(s, k, r) \in Tables /\ Counted(Complete(s, k, r))
<1>. DEFINE b == Complete(s, k, r)
            e == [s.entries[k] EXCEPT !.status = "ready", !.keep = Retention,
                                      !.reply = r]
<1>1. s.entries[k] \in Entry /\ k \in Present(s) /\ s.entries[k].status = "pending"
  BY DEF Tables, Present, CanComplete
<1>2. Retention \in 0 .. PendingTimeout + Retention
  OBVIOUS
<1>3. e \in Entry /\ e.status = "ready"
  BY <1>1, <1>2 DEF Entry
<1>4. b = [entries |-> [s.entries EXCEPT ![k] = e], pending |-> s.pending - 1,
           cached |-> s.cached + 1, reserved |-> s.reserved]
  BY DEF Complete
<1>5. /\ k \in InStatus(s, "pending") /\ k \notin InStatus(s, "ready")
      /\ InStatus(s, "pending") \subseteq Keys /\ InStatus(s, "ready") \subseteq Keys
  BY <1>1 DEF InStatus, Present
<1>6. /\ s.pending \in Nat /\ s.cached \in Nat /\ s.pending >= 1
      /\ Cardinality(InStatus(s, "pending") \ {k}) = s.pending - 1
      /\ Cardinality(InStatus(s, "ready") \cup {k}) = s.cached + 1
      /\ s.reserved = s.pending + s.cached
  BY <1>5, OneMore DEF Counted
<1>. HIDE DEF e, b
<1>7. b \in Tables
  BY <1>3, <1>4, <1>6 DEF Tables
<1>8. /\ b.entries[k] = e /\ \A j \in Keys : j # k => b.entries[j] = s.entries[j]
      /\ b.pending = s.pending - 1 /\ b.cached = s.cached + 1
      /\ b.reserved = s.reserved
  BY <1>4 DEF Tables
<1>9. e # None
  BY <1>3
<1>10. InStatus(b, "pending") = InStatus(s, "pending") \ {k}
  BY <1>1, <1>3, <1>8, <1>9 DEF InStatus, Present
<1>11. InStatus(b, "ready") = InStatus(s, "ready") \cup {k}
  BY <1>1, <1>3, <1>8, <1>9 DEF InStatus, Present
<1>12. b.reserved = b.pending + b.cached
  BY <1>6, <1>8
<1>13. Counted(b)
  BY <1>6, <1>8, <1>10, <1>11, <1>12 DEF Counted
<1>. QED
  BY <1>7, <1>13 DEF b

\* Keeping an answer, or letting time pass, changes no status.
LEMMA KeepAnswerOK ==
  ASSUME NEW s \in Tables, Counted(s), NEW k \in Present(s), NEW r \in Answers
  PROVE  /\ KeepAnswer(s, k, r) \in Tables /\ Counted(KeepAnswer(s, k, r))
         /\ \A j \in Keys :
              /\ j # k => KeepAnswer(s, k, r).entries[j] = s.entries[j]
              /\ KeepAnswer(s, k, r).entries[j] = None <=> s.entries[j] = None
              /\ KeepAnswer(s, k, r).entries[j].status = s.entries[j].status
              /\ KeepAnswer(s, k, r).entries[j].hop = s.entries[j].hop
              /\ KeepAnswer(s, k, r).entries[j].forward = s.entries[j].forward
              /\ KeepAnswer(s, k, r).entries[j].reply = s.entries[j].reply
              /\ KeepAnswer(s, k, r).entries[j].left = s.entries[j].left
<1>. DEFINE b == KeepAnswer(s, k, r)
            e == [s.entries[k] EXCEPT !.answer = r]
<1>1. s.entries[k] \in Entry /\ k \in Keys
  BY DEF Tables, Present
<1>2. /\ e \in Entry /\ e.status = s.entries[k].status /\ e.hop = s.entries[k].hop
      /\ e.forward = s.entries[k].forward /\ e.reply = s.entries[k].reply
      /\ e.left = s.entries[k].left
  BY <1>1 DEF Entry
<1>3. b = [entries |-> [s.entries EXCEPT ![k] = e], pending |-> s.pending,
           cached |-> s.cached, reserved |-> s.reserved]
  BY DEF KeepAnswer
<1>. HIDE DEF e, b
<1>4. b \in Tables
  BY <1>2, <1>3 DEF Tables
<1>5. /\ b.entries[k] = e /\ \A j \in Keys : j # k => b.entries[j] = s.entries[j]
      /\ b.pending = s.pending /\ b.cached = s.cached /\ b.reserved = s.reserved
  BY <1>1, <1>3 DEF Tables
<1>6. \A st : InStatus(b, st) = InStatus(s, st)
  BY <1>1, <1>2, <1>5 DEF InStatus, Present
<1>7. Counted(b)
  BY <1>5, <1>6 DEF Counted
<1>. QED
  BY <1>1, <1>2, <1>4, <1>5, <1>7 DEF b

\* Time passing changes no status, hop, CID or reply.
LEMMA OlderOK ==
  ASSUME NEW s \in Tables, Counted(s)
  PROVE  /\ Older(s) \in Tables /\ Counted(Older(s))
         /\ Present(Older(s)) = Present(s)
         /\ \A k \in Present(s) :
              /\ Older(s).entries[k].status = s.entries[k].status
              /\ Older(s).entries[k].hop = s.entries[k].hop
              /\ Older(s).entries[k].forward = s.entries[k].forward
              /\ Older(s).entries[k].reply = s.entries[k].reply
<1>. DEFINE b == Older(s)
<1>1. b.entries = [k \in Keys |-> IF s.entries[k] = None THEN None ELSE Later(s.entries[k])]
      /\ b.pending = s.pending /\ b.cached = s.cached /\ b.reserved = s.reserved
  BY DEF Older
<1>2. \A k \in Present(s) : s.entries[k] \in Entry /\ k \in Keys
  BY DEF Tables, Present
<1>3. \A k \in Present(s) :
        /\ b.entries[k] = Later(s.entries[k]) /\ b.entries[k] \in Entry
        /\ b.entries[k] # None
        /\ b.entries[k].status = s.entries[k].status
        /\ b.entries[k].hop = s.entries[k].hop
        /\ b.entries[k].forward = s.entries[k].forward
        /\ b.entries[k].reply = s.entries[k].reply
  BY <1>1, <1>2, MarkExpiredType DEF Present
<1>4. \A k \in Keys : k \notin Present(s) => b.entries[k] = None
  BY <1>1 DEF Present
<1>5. b.entries \in [Keys -> Entry \cup {None}]
  BY <1>1, <1>3, <1>4
<1>6. b \in Tables
  BY <1>5 DEF Tables, Older
<1>. HIDE DEF b
<1>7. Present(b) = Present(s)
  BY <1>3, <1>4 DEF Present
<1>8. \A st : InStatus(b, st) = InStatus(s, st)
  BY <1>3, <1>7 DEF InStatus
<1>9. Counted(b)
  BY <1>1, <1>8 DEF Counted
<1>. QED
  BY <1>3, <1>6, <1>7, <1>9 DEF b
----------------------------------------------------------------------------
\* PairsWhole made inductive: both rules of a pair also name its group.
Paired(g) ==
  \A c \in Ruled(g) :
    LET p == g.rules[c].group
    IN /\ c \in {p, p + 1}
       /\ {p, p + 1} \subseteq Ruled(g)
       /\ g.rules[p].group = p /\ g.rules[p + 1].group = p
       /\ g.rules[p].left = g.rules[p + 1].left
       /\ g.rules[p].lease = g.rules[p + 1].lease

\* A rule by its fields.
LEMMA RuleFields ==
  ASSUME NEW g \in Registries, NEW c \in Ruled(g)
  PROVE  g.rules[c] \in RuleType /\ c \in Cids
BY DEF Ruled, Registries

\* Taking away a set of CIDs that holds all or none of each group.
LEMMA WithoutOK ==
  ASSUME NEW g \in Registries, Paired(g), NEW S,
         \A c, d \in Ruled(g) :
           g.rules[c].group = g.rules[d].group /\ c \in S => d \in S
  PROVE  /\ Without(g, S) \in Registries /\ Paired(Without(g, S))
         /\ Ruled(Without(g, S)) = Ruled(g) \ S
         /\ Without(g, S).endpoints = g.endpoints
<1>. DEFINE h == Without(g, S)
<1>1. h = [endpoints |-> g.endpoints,
           rules |-> [c \in Cids |-> IF c \in S THEN NoRule ELSE g.rules[c]]]
  BY DEF Without, WithRules
<1>. HIDE DEF h
<1>2. h \in Registries
  BY <1>1 DEF Registries
<1>3. Ruled(h) = Ruled(g) \ S
  BY <1>1 DEF Ruled
<1>4. \A c \in Ruled(h) : h.rules[c] = g.rules[c]
  BY <1>1, <1>3 DEF Ruled
<1>5. Paired(h)
  <2>. SUFFICES ASSUME NEW c \in Ruled(h)
                PROVE  LET p == h.rules[c].group
                       IN /\ c \in {p, p + 1}
                          /\ {p, p + 1} \subseteq Ruled(h)
                          /\ h.rules[p].group = p /\ h.rules[p + 1].group = p
                          /\ h.rules[p].left = h.rules[p + 1].left
                          /\ h.rules[p].lease = h.rules[p + 1].lease
    BY DEF Paired
  <2>. DEFINE p == g.rules[c].group
  <2>1. c \in Ruled(g) /\ c \notin S /\ h.rules[c].group = p
    BY <1>3, <1>4
  <2>2. /\ c \in {p, p + 1} /\ {p, p + 1} \subseteq Ruled(g)
        /\ g.rules[p].group = p /\ g.rules[p + 1].group = p
        /\ g.rules[p].left = g.rules[p + 1].left
        /\ g.rules[p].lease = g.rules[p + 1].lease
    BY <2>1 DEF Paired
  <2>3. p \notin S /\ p + 1 \notin S
    BY <2>1, <2>2
  <2>4. {p, p + 1} \subseteq Ruled(h)
    BY <1>3, <2>2, <2>3
  <2>5. h.rules[p] = g.rules[p] /\ h.rules[p + 1] = g.rules[p + 1]
    BY <1>4, <2>4
  <2>. HIDE DEF p
  <2>. QED
    BY <2>1, <2>2, <2>4, <2>5
<1>. QED
  BY <1>1, <1>2, <1>3, <1>5 DEF h

\* Changing rules without touching group, lease or presence, and left alike
\* in the two rules of a pair.
LEMMA RewriteOK ==
  ASSUME NEW g \in Registries, Paired(g), NEW h \in Registries,
         Ruled(h) = Ruled(g),
         \A c \in Ruled(g) : /\ h.rules[c].group = g.rules[c].group
                             /\ h.rules[c].lease = g.rules[c].lease,
         \A c, d \in Ruled(g) :
           /\ g.rules[c].group = g.rules[d].group
           /\ g.rules[c].left = g.rules[d].left
           /\ g.rules[c].lease = g.rules[d].lease
           => h.rules[c].left = h.rules[d].left
  PROVE  Paired(h)
<1>. SUFFICES ASSUME NEW c \in Ruled(h)
              PROVE  LET p == h.rules[c].group
                     IN /\ c \in {p, p + 1}
                        /\ {p, p + 1} \subseteq Ruled(h)
                        /\ h.rules[p].group = p /\ h.rules[p + 1].group = p
                        /\ h.rules[p].left = h.rules[p + 1].left
                        /\ h.rules[p].lease = h.rules[p + 1].lease
  BY DEF Paired
<1>. DEFINE p == g.rules[c].group
<1>1. c \in Ruled(g) /\ h.rules[c].group = p
  OBVIOUS
<1>2. /\ c \in {p, p + 1} /\ {p, p + 1} \subseteq Ruled(g)
      /\ g.rules[p].group = p /\ g.rules[p + 1].group = p
      /\ g.rules[p].left = g.rules[p + 1].left
      /\ g.rules[p].lease = g.rules[p + 1].lease
  BY <1>1 DEF Paired
<1>. HIDE DEF p
<1>3. p \in Ruled(g) /\ p + 1 \in Ruled(g)
  BY <1>2
<1>4. h.rules[p].left = h.rules[p + 1].left
  BY <1>2, <1>3
<1>5. /\ h.rules[p].group = p /\ h.rules[p + 1].group = p
      /\ h.rules[p].lease = h.rules[p + 1].lease
  BY <1>2, <1>3
<1>. QED
  BY <1>1, <1>2, <1>4, <1>5

\* The two rules of a group have the same time left.
LEMMA GroupsLapseTogether ==
  ASSUME NEW g \in Registries, Paired(g), NEW c \in Ruled(g), NEW d \in Ruled(g),
         g.rules[c].group = g.rules[d].group
  PROVE  g.rules[c].left = g.rules[d].left /\ g.rules[c].lease = g.rules[d].lease
<1> DEFINE p == g.rules[c].group
<1>1. /\ c \in {p, p + 1}
      /\ g.rules[p].left = g.rules[p + 1].left /\ g.rules[p].lease = g.rules[p + 1].lease
  BY SMTT(30) DEF Paired
<1>2. d \in {p, p + 1}
  BY SMTT(30) DEF Paired
<1> HIDE DEF p
<1> QED
  BY <1>1, <1>2

\* Leases that have run out have run out in both directions.
LEMMA ExpireLeasesOK ==
  ASSUME NEW g \in Registries, Paired(g)
  PROVE  /\ ExpireLeases(g) \in Registries /\ Paired(ExpireLeases(g))
         /\ Routes(ExpireLeases(g)) \subseteq Routes(g)
<1>. DEFINE S == {c \in Ruled(g) : g.rules[c].left <= 0}
<1>1. ASSUME NEW c \in Ruled(g), NEW d \in Ruled(g),
             g.rules[c].group = g.rules[d].group
      PROVE  g.rules[c].left = g.rules[d].left
  BY <1>1, GroupsLapseTogether
<1>2. \A c, d \in Ruled(g) :
        g.rules[c].group = g.rules[d].group /\ c \in S => d \in S
  BY <1>1
<1>. QED
  BY <1>2, WithoutOK DEF ExpireLeases, Routes

\* Taking a group away.
LEMMA WithoutGroupOK ==
  ASSUME NEW g \in Registries, Paired(g), NEW c
  PROVE  /\ Without(g, Group(g, c)) \in Registries
         /\ Paired(Without(g, Group(g, c)))
         /\ Routes(Without(g, Group(g, c))) \subseteq Routes(g)
<1>1. \A b, d \in Ruled(g) :
        g.rules[b].group = g.rules[d].group /\ b \in Group(g, c) => d \in Group(g, c)
  BY DEF Group
<1>. QED
  BY <1>1, WithoutOK DEF Routes

\* A new pair on free CIDs of an unused group.
LEMMA InstallPairOK ==
  ASSUME NEW g \in Registries, Paired(g), NEW f \in Cids, f + 1 \in Cids,
         NEW t \in RuleType, NEW b \in RuleType,
         t.group = f, b.group = f, t.left = b.left, t.lease = b.lease,
         CanInstallPair(g, f, f + 1)
  PROVE  LET h == InstallPair(g, f, t, f + 1, b)
         IN /\ h \in Registries /\ Paired(h)
            /\ Routes(h) = Routes(g) \cup {f, f + 1}
            /\ RemovePair(h, f) = g
<1>. DEFINE h == InstallPair(g, f, t, f + 1, b)
<1>1. h = [endpoints |-> g.endpoints,
           rules |-> [c \in Cids |-> IF c = f THEN t
                                     ELSE IF c = f + 1 THEN b ELSE g.rules[c]]]
  BY DEF InstallPair, WithRules
<1>2. t # NoRule /\ b # NoRule /\ f # f + 1 /\ f \in Int
  BY DEF Cids
<1>3. f \notin Ruled(g) /\ f + 1 \notin Ruled(g) /\ \A c \in Ruled(g) : g.rules[c].group # f
  BY DEF CanInstallPair, Routes
<1>. HIDE DEF h
<1>4. h \in Registries
  BY <1>1 DEF Registries
<1>5. /\ h.rules[f] = t /\ h.rules[f + 1] = b
      /\ \A c \in Cids : c # f /\ c # f + 1 => h.rules[c] = g.rules[c]
      /\ h.endpoints = g.endpoints
  BY <1>1, <1>2
<1>6. Ruled(h) = Ruled(g) \cup {f, f + 1}
  BY <1>2, <1>5 DEF Ruled
<1>7. Paired(h)
  <2>. SUFFICES ASSUME NEW c \in Ruled(h)
                PROVE  LET p == h.rules[c].group
                       IN /\ c \in {p, p + 1}
                          /\ {p, p + 1} \subseteq Ruled(h)
                          /\ h.rules[p].group = p /\ h.rules[p + 1].group = p
                          /\ h.rules[p].left = h.rules[p + 1].left
                          /\ h.rules[p].lease = h.rules[p + 1].lease
    BY DEF Paired
  <2>1. CASE c \in {f, f + 1}
    BY <1>5, <1>6, <2>1
  <2>2. CASE c \notin {f, f + 1}
    <3>. DEFINE p == g.rules[c].group
    <3>1. c \in Ruled(g) /\ c \in Cids
      BY <1>6, <2>2 DEF Ruled
    <3>2. /\ c \in {p, p + 1} /\ {p, p + 1} \subseteq Ruled(g)
          /\ g.rules[p].group = p /\ g.rules[p + 1].group = p
          /\ g.rules[p].left = g.rules[p + 1].left
          /\ g.rules[p].lease = g.rules[p + 1].lease
      BY <3>1 DEF Paired
    <3>3. h.rules[c].group = p
      BY <1>5, <2>2, <3>1
    <3>. HIDE DEF p
    <3>4. /\ p \in Cids /\ p + 1 \in Cids
          /\ p \notin {f, f + 1} /\ p + 1 \notin {f, f + 1}
      BY <1>3, <3>2 DEF Ruled
    <3>5. h.rules[p] = g.rules[p] /\ h.rules[p + 1] = g.rules[p + 1]
      BY <1>5, <3>4
    <3>. QED
      BY <1>6, <3>2, <3>3, <3>5
  <2>. QED
    BY <2>1, <2>2
<1>8. Routes(h) = Routes(g) \cup {f, f + 1}
  BY <1>5, <1>6 DEF Routes
<1>9. RemovePair(h, f) = g
  <2>1. Group(h, f) = {f, f + 1}
    BY <1>3, <1>5, <1>6 DEF Group, Ruled
  <2>2. RemovePair(h, f) =
          [endpoints |-> h.endpoints,
           rules |-> [c \in Cids |-> IF c \in {f, f + 1} THEN NoRule ELSE h.rules[c]]]
    BY <2>1 DEF RemovePair, Without, WithRules
  <2>3. g.rules \in [Cids -> RuleType \cup {NoRule}]
        /\ g = [endpoints |-> g.endpoints, rules |-> g.rules]
    BY DEF Registries
  <2>4. g.rules[f] = NoRule /\ g.rules[f + 1] = NoRule
    BY <1>3 DEF Ruled
  <2>5. [c \in Cids |-> IF c \in {f, f + 1} THEN NoRule ELSE h.rules[c]] = g.rules
    BY <1>5, <2>3, <2>4
  <2>. QED
    BY <1>5, <2>2, <2>3, <2>5
<1>. QED
  BY <1>4, <1>7, <1>8, <1>9 DEF h

\* A rule whose window has been opened, or that has counted a packet.
LEMMA WindowOK ==
  ASSUME NEW r \in RuleType, NEW control \in BOOLEAN
  PROVE  LET o == OpenWindow(r)
             u == IF Admits(o, control) THEN [o EXCEPT !.used = o.used + 1] ELSE o
         IN /\ u \in RuleType
            /\ u.group = r.group /\ u.lease = r.lease /\ u.left = r.left
<1>. DEFINE o == OpenWindow(r)
<1>1. r.age \in 0 .. 2 * HopLease /\ r.lease \in 1 .. HopLease /\ r.used \in 0 .. Quota
  BY DEF RuleType
<1>2. r.age % r.lease \in 0 .. r.lease - 1
  BY <1>1
<1>3. r.age % r.lease \in 0 .. 2 * HopLease
  BY <1>1, <1>2
<1>4. o \in RuleType /\ o.group = r.group /\ o.lease = r.lease /\ o.left = r.left
  <2>1. CASE r.age >= r.lease
    <3>1. o = [r EXCEPT !.age = r.age % r.lease, !.used = 0]
      BY <2>1 DEF OpenWindow
    <3>2. 0 \in 0 .. Quota
      OBVIOUS
    <3>. HIDE DEF o
    <3>. QED
      BY <1>3, <3>1, <3>2 DEF RuleType
  <2>2. CASE ~(r.age >= r.lease)
    BY <2>2 DEF OpenWindow
  <2>. QED
    BY <2>1, <2>2
<1>. HIDE DEF o
<1>5. o.used \in 0 .. Quota
  BY <1>4 DEF RuleType
<1>6. Admits(o, control) => o.used + 1 \in 0 .. Quota
  BY <1>5 DEF Admits
<1>7. CASE Admits(o, control)
  <2>1. [o EXCEPT !.used = o.used + 1] \in RuleType
    BY <1>4, <1>6, <1>7 DEF RuleType
  <2>2. /\ [o EXCEPT !.used = o.used + 1].group = o.group
        /\ [o EXCEPT !.used = o.used + 1].lease = o.lease
        /\ [o EXCEPT !.used = o.used + 1].left = o.left
    BY <1>4 DEF RuleType
  <2>. QED
    BY <1>4, <1>7, <2>1, <2>2 DEF o
<1>8. CASE ~Admits(o, control)
  BY <1>4, <1>8 DEF o
<1>. QED
  BY <1>7, <1>8

\* Counting a packet leaves every pair as it was.
LEMMA ConsumeQuotaOK ==
  ASSUME NEW g \in Registries, Paired(g), NEW c \in Ruled(g), NEW control \in BOOLEAN
  PROVE  /\ ConsumeQuota(g, c, control) \in Registries
         /\ Paired(ConsumeQuota(g, c, control))
         /\ Ruled(ConsumeQuota(g, c, control)) = Ruled(g)
         /\ ConsumeQuota(g, c, control).endpoints = g.endpoints
<1>. DEFINE o == OpenWindow(g.rules[c])
            u == IF Admits(o, control) THEN [o EXCEPT !.used = o.used + 1] ELSE o
            h == ConsumeQuota(g, c, control)
<1>1. g.rules[c] \in RuleType /\ c \in Cids
  BY RuleFields
<1>2. /\ u \in RuleType /\ u.group = g.rules[c].group
      /\ u.lease = g.rules[c].lease /\ u.left = g.rules[c].left
  BY <1>1, WindowOK
<1>3. h = [endpoints |-> g.endpoints, rules |-> [g.rules EXCEPT ![c] = u]]
  BY DEF ConsumeQuota, WithRules
<1>. HIDE DEF u, h
<1>4. h \in Registries
  BY <1>2, <1>3 DEF Registries
<1>5. h.rules[c] = u /\ \A d \in Cids : d # c => h.rules[d] = g.rules[d]
  BY <1>1, <1>3 DEF Registries
<1>6. Ruled(h) = Ruled(g)
  BY <1>2, <1>5 DEF Ruled
<1>7. \A d \in Ruled(g) : /\ h.rules[d].group = g.rules[d].group
                          /\ h.rules[d].lease = g.rules[d].lease
                          /\ h.rules[d].left = g.rules[d].left
  BY <1>2, <1>5 DEF Ruled
<1>8. Paired(h)
  BY <1>4, <1>6, <1>7, RewriteOK
<1>. QED
  BY <1>3, <1>4, <1>6, <1>8 DEF h

\* Renewing a lease renews it for the pair.
LEMMA RefreshLeaseOK ==
  ASSUME NEW g \in Registries, Paired(g), NEW c \in Ruled(g)
  PROVE  /\ RefreshLease(g, c) \in Registries /\ Paired(RefreshLease(g, c))
         /\ Ruled(RefreshLease(g, c)) = Ruled(g)
         /\ RefreshLease(g, c).endpoints = g.endpoints
<1>. DEFINE h == RefreshLease(g, c)
            l == g.rules[c].lease
            Renewed(d) == [g.rules[d] EXCEPT !.left = l]
<1>1. l \in 0 .. HopLease
  BY RuleFields DEF RuleType
<1>2. h = [endpoints |-> g.endpoints,
           rules |-> [d \in Cids |-> IF d \in Group(g, c)
                                       THEN Renewed(d)
                                       ELSE g.rules[d]]]
  BY DEF RefreshLease, WithRules
<1>3. ASSUME NEW d \in Ruled(g)
      PROVE  /\ Renewed(d) \in RuleType
             /\ Renewed(d).left = l
             /\ Renewed(d).group = g.rules[d].group
             /\ Renewed(d).lease = g.rules[d].lease
  BY <1>1, RuleFields DEF RuleType
<1>. HIDE DEF h, l, Renewed
<1>4. Group(g, c) \subseteq Ruled(g) /\ Ruled(g) \subseteq Cids
  BY DEF Group, Ruled
<1>5. h \in Registries
  BY <1>2, <1>3, <1>4 DEF Registries
<1>6. /\ \A d \in Group(g, c) : h.rules[d] = Renewed(d)
      /\ \A d \in Cids : d \notin Group(g, c) => h.rules[d] = g.rules[d]
      /\ h.endpoints = g.endpoints
  BY <1>2, <1>4
<1>7. Ruled(h) = Ruled(g)
  BY <1>3, <1>4, <1>6 DEF Ruled
<1>8. \A d \in Ruled(g) : /\ h.rules[d].group = g.rules[d].group
                          /\ h.rules[d].lease = g.rules[d].lease
                          /\ h.rules[d].left = IF d \in Group(g, c) THEN l ELSE g.rules[d].left
  BY <1>3, <1>4, <1>6
<1>9. \A b, d \in Ruled(g) : g.rules[b].group = g.rules[d].group
                               => (b \in Group(g, c) <=> d \in Group(g, c))
  BY DEF Group
<1>10. \A b, d \in Ruled(g) : /\ g.rules[b].group = g.rules[d].group
                              /\ g.rules[b].left = g.rules[d].left
                              => h.rules[b].left = h.rules[d].left
  BY <1>8, <1>9
<1>11. Paired(h)
  BY <1>5, <1>7, <1>8, <1>10, RewriteOK
<1>. QED
  BY <1>5, <1>6, <1>7, <1>11 DEF h

\* Time passes alike for the rules of a pair.
LEMMA OlderRulesOK ==
  ASSUME NEW g \in Registries, Paired(g)
  PROVE  /\ OlderRules(g) \in Registries /\ Paired(OlderRules(g))
         /\ Ruled(OlderRules(g)) = Ruled(g)
         /\ OlderRules(g).endpoints = g.endpoints
<1>. DEFINE h == OlderRules(g)
<1>1. h = [endpoints |-> g.endpoints,
           rules |-> [c \in Cids |-> IF c \in Ruled(g) THEN OlderRule(g.rules[c]) ELSE NoRule]]
  BY DEF OlderRules, WithRules
<1>. HIDE DEF h
<1>2. ASSUME NEW c \in Ruled(g)
      PROVE  /\ OlderRule(g.rules[c]) \in RuleType
             /\ OlderRule(g.rules[c]).group = g.rules[c].group
             /\ OlderRule(g.rules[c]).lease = g.rules[c].lease
             /\ OlderRule(g.rules[c]).left =
                  IF g.rules[c].left > 0 THEN g.rules[c].left - 1 ELSE 0
  <2>. DEFINE r == g.rules[c]
  <2>1. r \in RuleType
    BY RuleFields
  <2>. HIDE DEF r
  <2>2. r.left \in 0 .. HopLease /\ r.age \in 0 .. 2 * HopLease /\ r.lease \in 1 .. HopLease
    BY <2>1 DEF RuleType
  <2>3. /\ (IF r.left > 0 THEN r.left - 1 ELSE 0) \in 0 .. HopLease
        /\ (IF r.age < 2 * r.lease THEN r.age + 1 ELSE r.age) \in 0 .. 2 * HopLease
    BY <2>2
  <2>4. OlderRule(r) \in RuleType
    BY <2>1, <2>3 DEF RuleType, OlderRule
  <2>5. /\ OlderRule(r).group = r.group /\ OlderRule(r).lease = r.lease
        /\ OlderRule(r).left = IF r.left > 0 THEN r.left - 1 ELSE 0
    BY <2>1 DEF RuleType, OlderRule
  <2>. QED
    BY <2>4, <2>5 DEF r
<1>3. Ruled(g) \subseteq Cids
  BY DEF Ruled
<1>4. h \in Registries
  BY <1>1, <1>2 DEF Registries
<1>5. /\ \A c \in Ruled(g) : h.rules[c] = OlderRule(g.rules[c])
      /\ \A c \in Cids : c \notin Ruled(g) => h.rules[c] = NoRule
      /\ h.endpoints = g.endpoints
  BY <1>1, <1>3
<1>6. Ruled(h) = Ruled(g)
  BY <1>2, <1>3, <1>5 DEF Ruled
<1>7. Paired(h)
  BY <1>2, <1>4, <1>5, <1>6, RewriteOK
<1>. QED
  BY <1>4, <1>5, <1>6, <1>7 DEF h
----------------------------------------------------------------------------
\* NoRuleWithoutGrant made inductive: n is ahead of every CID in use, and the
\* CIDs of two relayed transactions are different.
Ungranted(e) == e.hop # None /\ ~(e.status = "ready" /\ e.reply.ok)
CidsOK(s, g, n) ==
  /\ \A c \in Routes(g) : c < n
  /\ \A k \in Present(s) : s.entries[k].hop # None =>
       s.entries[k].forward >= 1 /\ s.entries[k].forward + 1 < n
  /\ \A j, k \in Present(s) :
       /\ j # k /\ s.entries[j].hop # None /\ s.entries[k].hop # None
       => \/ s.entries[j].forward + 1 < s.entries[k].forward
          \/ s.entries[k].forward + 1 < s.entries[j].forward
  /\ \A k \in Present(s) : Ungranted(s.entries[k]) =>
       {s.entries[k].forward, s.entries[k].forward + 1} \cap Routes(g) = {}

Inv ==
  /\ TypeOK /\ Counted(setup)
  /\ Paired(registry)
  /\ CidsOK(setup, registry, nextCid)

\* A step that adds no relayed transaction, takes no grant back and registers
\* nothing but fresh CIDs.
LEMMA CidsKept ==
  ASSUME NEW s \in Tables, NEW t \in Tables, NEW g \in Registries,
         NEW h \in Registries, NEW n \in Nat, NEW m \in Nat,
         CidsOK(s, g, n), n <= m,
         \A k \in Present(t) :
           \/ t.entries[k].hop = None
           \/ /\ k \in Present(s)
              /\ t.entries[k].hop = s.entries[k].hop
              /\ t.entries[k].forward = s.entries[k].forward
              /\ Ungranted(t.entries[k]) => Ungranted(s.entries[k]),
         \A c \in Routes(h) : c \in Routes(g) \/ (n <= c /\ c < m)
  PROVE  CidsOK(t, h, m)
<1>1. /\ \A k \in Present(s) : s.entries[k].forward \in Nat
      /\ \A k \in Present(t) : t.entries[k].forward \in Nat
  BY DEF Tables, Present, Entry
<1>2. Routes(g) \subseteq Cids /\ Routes(h) \subseteq Cids /\ Cids \subseteq Nat
  BY DEF Routes, Ruled, Registries, Cids
<1>3. ASSUME NEW c \in Routes(h) PROVE c < m
  <2>1. c \in Nat
    BY <1>2
  <2>2. c \in Routes(g) => c < n
    BY DEF CidsOK
  <2>. QED
    BY <2>1, <2>2
<1>4. ASSUME NEW k \in Present(t), t.entries[k].hop # None
      PROVE  /\ k \in Present(s) /\ s.entries[k].hop # None
             /\ t.entries[k].forward = s.entries[k].forward
             /\ t.entries[k].forward >= 1 /\ t.entries[k].forward + 1 < n
             /\ t.entries[k].forward + 1 < m
  BY <1>1, <1>4 DEF CidsOK
<1>5. ASSUME NEW j \in Present(t), NEW k \in Present(t), j # k,
             t.entries[j].hop # None, t.entries[k].hop # None
      PROVE  \/ t.entries[j].forward + 1 < t.entries[k].forward
             \/ t.entries[k].forward + 1 < t.entries[j].forward
  BY <1>4, <1>5 DEF CidsOK
<1>6. ASSUME NEW k \in Present(t), Ungranted(t.entries[k])
      PROVE  {t.entries[k].forward, t.entries[k].forward + 1} \cap Routes(h) = {}
  <2>1. t.entries[k].hop # None
    BY <1>6 DEF Ungranted
  <2>2. /\ k \in Present(s) /\ Ungranted(s.entries[k])
        /\ t.entries[k].forward = s.entries[k].forward
        /\ t.entries[k].forward + 1 < n /\ t.entries[k].forward \in Nat
    BY <1>1, <1>4, <1>6, <2>1
  <2>3. {t.entries[k].forward, t.entries[k].forward + 1} \cap Routes(g) = {}
    BY <2>2 DEF CidsOK
  <2>. QED
    BY <1>2, <2>2, <2>3
<1>. QED
  BY <1>3, <1>4, <1>5, <1>6 DEF CidsOK

\* expire, and the passing of time, are such steps.
LEMMA ExpireCids ==
  ASSUME NEW s \in Tables, NEW k \in Present(Expire(s))
  PROVE  /\ k \in Present(s)
         /\ Expire(s).entries[k].hop = s.entries[k].hop
         /\ Expire(s).entries[k].forward = s.entries[k].forward
         /\ Ungranted(Expire(s).entries[k]) => Ungranted(s.entries[k])
BY ExpireEntries DEF Ungranted

\* expire keeps the invariant on CIDs.
LEMMA ExpireCidsOK ==
  ASSUME NEW s \in Tables, Counted(s), NEW g \in Registries, NEW n \in Nat, CidsOK(s, g, n)
  PROVE  CidsOK(Expire(s), g, n)
<1>1. Expire(s) \in Tables
  BY ExpireOK
<1>. QED
  BY <1>1, ExpireCids, CidsKept

\* A transaction for this node, however it ends, has no CIDs.
LEMMA LocalEntries ==
  ASSUME NEW s \in Tables, NEW k \in Keys, NEW q \in Requests, NEW r \in Replies
  PROVE  LET b == Begin(s, k, q, None, 0)
         IN /\ \A j \in Keys : j # k => /\ b.entries[j] = s.entries[j]
                                        /\ Cancel(b, k).entries[j] = s.entries[j]
                                        /\ Complete(b, k, r).entries[j] = s.entries[j]
            /\ b.entries[k].hop = None
            /\ Cancel(b, k).entries[k].hop = None
            /\ Complete(b, k, r).entries[k].hop = None
            /\ k \in Present(b) /\ CanComplete(b, k)
<1>. DEFINE b == Begin(s, k, q, None, 0)
            e == [request |-> q, status |-> "pending", left |-> PendingTimeout,
                  keep |-> 0, hop |-> None, forward |-> 0,
                  answer |-> None, reply |-> None]
<1>1. b.entries = [s.entries EXCEPT ![k] = e]
  BY DEF Begin
<1>2. s.entries \in [Keys -> Entry \cup {None}]
  BY DEF Tables
<1>3. e \in Entry /\ e.status = "pending" /\ e.left > 0 /\ e.hop = None
  BY DEF Entry
<1>. HIDE DEF b, e
<1>4. b.entries[k] = e /\ \A j \in Keys : j # k => b.entries[j] = s.entries[j]
  BY <1>1, <1>2
<1>5. k \in Present(b) /\ CanComplete(b, k)
  BY <1>3, <1>4 DEF Present, CanComplete
<1>6. MarkExpired(e).hop = None
  BY <1>3, MarkExpiredType
<1>7. b.entries \in [Keys -> Entry \cup {None}]
  BY <1>1, <1>2, <1>3
<1>8. /\ Cancel(b, k).entries[k].hop = None
      /\ \A j \in Keys : j # k => Cancel(b, k).entries[j] = b.entries[j]
  BY <1>3, <1>4, <1>6, <1>7 DEF Cancel
<1>9. [e EXCEPT !.status = "ready", !.keep = Retention, !.reply = r].hop = None
  BY <1>3 DEF Entry
<1>10. /\ Complete(b, k, r).entries[k].hop = None
       /\ \A j \in Keys : j # k => Complete(b, k, r).entries[j] = b.entries[j]
  BY <1>4, <1>7, <1>9 DEF Complete
<1>. QED
  BY <1>3, <1>4, <1>5, <1>8, <1>10 DEF b

\* Replies and rules have their types.
LEMMA AnswerTypes ==
  ASSUME NEW r \in Answers, TypeOK, NEW k \in Present(setup),
         setup.entries[k].hop # None,
         setup.entries[k].forward \in Cids,
         NEW o \in Sendable, r \in AnswersTo(o)
  PROVE  /\ Upstream(k, r) \in Replies
         /\ r.ok => There(k, r) \in RuleType /\ Back(k, r) \in RuleType
         /\ There(k, r).group = setup.entries[k].forward
         /\ Back(k, r).group = setup.entries[k].forward
         /\ There(k, r).left = Back(k, r).left
         /\ There(k, r).lease = Back(k, r).lease
<1>. DEFINE e == setup.entries[k]
<1>1. e \in Entry /\ k \in Keys
  BY DEF TypeOK, Tables, Present
<1>2. e.hop \in DownstreamHops /\ PreviousHop(k) \in PreviousHops
  BY <1>1 DEF Entry, Keys, PreviousHop
<1>. HIDE DEF e
<1>3. r.ok => r.origin \in Sendable /\ r.origin \in Keys \X Requests /\ r.lease \in Nat \ {0}
  BY DEF AnswersTo, Accepted, Rejected
<1>4. r.ok => EffectiveLease(r) \in 1 .. HopLease
  BY <1>3 DEF EffectiveLease
<1>5. r.ok => There(k, r) \in RuleType
  <2>1. There(k, r) = [hop |-> e.hop, dest |-> r.origin, group |-> e.forward,
                       lease |-> EffectiveLease(r), left |-> EffectiveLease(r),
                       used |-> 0, age |-> 0]
    BY DEF There, Rule, e
  <2>2. e.forward \in Cids
    BY DEF e
  <2>. QED
    BY <1>2, <1>3, <1>4, <2>1, <2>2 DEF RuleType
<1>6. r.ok => Back(k, r) \in RuleType
  <2>1. Back(k, r) = [hop |-> PreviousHop(k), dest |-> <<k, e.request>>,
                      group |-> e.forward,
                      lease |-> EffectiveLease(r), left |-> EffectiveLease(r),
                      used |-> 0, age |-> 0]
    BY DEF Back, Rule, e
  <2>2. e.forward \in Cids /\ <<k, e.request>> \in Keys \X Requests
    BY <1>1 DEF e, Entry
  <2>. QED
    BY <1>2, <1>3, <1>4, <2>1, <2>2 DEF RuleType
<1>7. Upstream(k, r) \in Replies
  <2>1. e.forward \in 0 .. MaxCids
    BY <1>1 DEF Entry
  <2>2. Installs(k, r) => Grant(r.origin, e.forward) \in Replies
    BY <1>3, <2>1 DEF Replies, Installs
  <2>. QED
    BY <2>2 DEF Upstream, Replies, e
<1>8. /\ There(k, r).group = setup.entries[k].forward
      /\ Back(k, r).group = setup.entries[k].forward
      /\ There(k, r).left = Back(k, r).left
      /\ There(k, r).lease = Back(k, r).lease
  BY DEF There, Back, Rule
<1>. QED
  BY <1>5, <1>6, <1>7, <1>8

\* The invariant holds at the start.
LEMMA InvInit == Init => Inv
<1>. SUFFICES ASSUME Init PROVE Inv
  OBVIOUS
<1>. USE DEF Init
<1>1. setup \in Tables /\ registry \in Registries
  BY DEF EmptyTable, EmptyRegistry, Tables, Registries
<1>2. TypeOK
  BY <1>1 DEF TypeOK
<1>3. Present(setup) = {} /\ Ruled(registry) = {} /\ registry.endpoints = {}
  BY DEF EmptyTable, EmptyRegistry, Present, Ruled
<1>4. InStatus(setup, "pending") = {} /\ InStatus(setup, "ready") = {}
  BY <1>3 DEF InStatus
<1>5. Counted(setup)
  <2>1. Cardinality({}) = 0
    BY FS_EmptySet
  <2>2. setup.pending = 0 /\ setup.cached = 0 /\ setup.reserved = 0
    BY DEF EmptyTable
  <2>. QED
    BY <1>4, <2>1, <2>2 DEF Counted
<1>6. Paired(registry)
  BY <1>3 DEF Paired
<1>7. CidsOK(setup, registry, nextCid)
  BY <1>3 DEF CidsOK, Routes
<1>. QED
  BY <1>2, <1>5, <1>6, <1>7 DEF Inv

\* A request begins from an expired table that has no entry for it.
LEMMA NewKey ==
  ASSUME NEW s, NEW k, NEW q, Lookup(s, k, q) = "New",
         s.entries[k] # None => s.entries[k].status \in {"pending", "ready", "expired"}
  PROVE  s.entries[k] = None
BY DEF Lookup

\* The table a new request meets, once begin has expired what is due.
LEMMA RequestOK ==
  ASSUME Inv, NEW o \in Sendable
  PROVE  /\ o[1] \in Keys /\ o[2] \in Requests
         /\ Expire(setup) \in Tables /\ Counted(Expire(setup))
         /\ CidsOK(Expire(setup), registry, nextCid)
         /\ Lookup(Expire(setup), o[1], o[2]) = "New"
              => Expire(setup).entries[o[1]] = None
<1>1. o[1] \in Keys /\ o[2] \in Requests
  OBVIOUS
<1>2. setup \in Tables /\ registry \in Registries /\ nextCid \in Nat /\ Counted(setup)
  BY DEF Inv, TypeOK
<1>3. Expire(setup) \in Tables /\ Counted(Expire(setup))
  BY <1>2, ExpireOK
<1>4. CidsOK(Expire(setup), registry, nextCid)
  BY <1>2, ExpireCidsOK DEF Inv
<1>5. Expire(setup).entries[o[1]] # None
        => Expire(setup).entries[o[1]].status \in {"pending", "ready", "expired"}
  BY <1>1, <1>3 DEF Tables, Entry
<1>. QED
  BY <1>1, <1>3, <1>4, <1>5, NewKey

\* RepeatPathOpen preserves the inductive invariant.
LEMMA RepeatPathOpenOK ==
  ASSUME Inv, NEW o \in Sendable, RepeatPathOpen(o[1], o[2])
  PROVE  Inv'
BY RequestOK DEF Inv, TypeOK, RepeatPathOpen

\* UnroutedPathOpen preserves the inductive invariant.
LEMMA UnroutedPathOpenOK ==
  ASSUME Inv, NEW o \in Sendable, UnroutedPathOpen(o[1], o[2])
  PROVE  Inv'
<1>. DEFINE k == o[1]
            x == Expire(setup)
            b == Begin(x, k, o[2], None, 0)
<1>1. /\ k \in Keys /\ o[2] \in Requests /\ x \in Tables /\ Counted(x)
      /\ CidsOK(x, registry, nextCid) /\ x.entries[k] = None
  BY RequestOK DEF UnroutedPathOpen
<1>2. /\ setup' = Cancel(b, k)
      /\ UNCHANGED <<registry, nextCid, sent, packets>>
  BY DEF UnroutedPathOpen
<1>3. b \in Tables /\ Counted(b)
  BY <1>1, BeginOK
<1>4. Refusal \in Replies
  BY DEF Replies
<1>5. /\ \A j \in Keys : j # k => Cancel(b, k).entries[j] = x.entries[j]
      /\ Cancel(b, k).entries[k].hop = None
      /\ k \in Present(b)
  BY <1>1, <1>4, LocalEntries
<1>6. setup' \in Tables /\ Counted(setup')
  BY <1>2, <1>3, <1>5, CancelOK
<1>7. registry \in Registries /\ nextCid \in Nat
  BY DEF Inv, TypeOK
<1>8. CidsOK(setup', registry, nextCid)
  <2>1. \A j \in Present(setup') :
           \/ setup'.entries[j].hop = None
           \/ /\ j \in Present(x)
              /\ setup'.entries[j].hop = x.entries[j].hop
              /\ setup'.entries[j].forward = x.entries[j].forward
              /\ Ungranted(setup'.entries[j]) => Ungranted(x.entries[j])
    BY <1>2, <1>5 DEF Present
  <2>. HIDE DEF x, b
  <2>. QED
    BY <1>1, <1>6, <1>7, <2>1, CidsKept
<1>. QED
  BY <1>2, <1>6, <1>8 DEF Inv, TypeOK

\* ForwardPathOpen preserves the inductive invariant.
LEMMA ForwardPathOpenOK ==
  ASSUME Inv, NEW o \in Sendable, ForwardPathOpen(o[1], o[2])
  PROVE  Inv'
<1>. DEFINE k == o[1]
            x == Expire(setup)
            b == Begin(x, k, o[2], Route[o[2]], nextCid)
<1>1. /\ k \in Keys /\ o[2] \in Requests /\ x \in Tables /\ Counted(x)
      /\ CidsOK(x, registry, nextCid) /\ x.entries[k] = None
  BY RequestOK DEF ForwardPathOpen
<1>2. /\ setup' = b /\ nextCid' = nextCid + 2 /\ nextCid + 1 <= MaxCids
      /\ Route[o[2]] \in DownstreamHops
      /\ sent' = sent \cup {<<o[1], o[2]>>}
      /\ UNCHANGED <<registry, packets>>
  BY DEF ForwardPathOpen
<1>3. registry \in Registries /\ nextCid \in 1 .. MaxCids + 1
  BY DEF Inv, TypeOK
<1>4. b \in Tables /\ Counted(b)
  BY <1>1, <1>2, <1>3, BeginOK
<1>5. /\ b.entries[k].forward = nextCid
      /\ \A j \in Keys : j # k => b.entries[j] = x.entries[j]
  BY <1>1 DEF Begin, Tables
<1>6. Routes(registry) \subseteq Cids /\ Cids \subseteq Nat
  BY <1>3 DEF Routes, Ruled, Registries, Cids
<1>. DEFINE n == nextCid
<1>. HIDE DEF b, x
<1>7. \A j \in Present(b) : j # k => j \in Present(x) /\ b.entries[j] = x.entries[j]
  BY <1>5 DEF Present
<1>8. \A j \in Present(x) : x.entries[j].forward \in Nat
  BY <1>1 DEF Tables, Entry, Present
<1>9. CidsOK(b, registry, nextCid + 2)
  <2>1. ASSUME NEW c \in Routes(registry) PROVE c < nextCid + 2
    <3>1. c < nextCid /\ c \in Nat
      BY <1>1, <1>6 DEF CidsOK
    <3>. QED
      BY <1>3, <3>1
  <2>2. ASSUME NEW j \in Present(b), b.entries[j].hop # None
        PROVE  b.entries[j].forward >= 1 /\ b.entries[j].forward + 1 < nextCid + 2
    <3>1. CASE j = k
      BY <1>3, <1>5, <3>1
    <3>2. CASE j # k
      BY <1>1, <1>3, <1>7, <1>8, <2>2, <3>2 DEF CidsOK
    <3>. QED
      BY <3>1, <3>2
  <2>3. ASSUME NEW i \in Present(b), NEW j \in Present(b), i # j,
               b.entries[i].hop # None, b.entries[j].hop # None
        PROVE  \/ b.entries[i].forward + 1 < b.entries[j].forward
               \/ b.entries[j].forward + 1 < b.entries[i].forward
    <3>1. CASE i # k /\ j # k
      BY <1>1, <1>7, <2>3, <3>1 DEF CidsOK
    <3>2. CASE i = k
      BY <1>1, <1>5, <1>7, <2>3, <3>2 DEF CidsOK
    <3>3. CASE j = k
      BY <1>1, <1>5, <1>7, <2>3, <3>3 DEF CidsOK
    <3>. QED
      BY <3>1, <3>2, <3>3
  <2>4. ASSUME NEW j \in Present(b), Ungranted(b.entries[j])
        PROVE  {b.entries[j].forward, b.entries[j].forward + 1} \cap Routes(registry) = {}
    <3>1. CASE j = k
      <4>1. \A c \in Routes(registry) : c < nextCid
        BY <1>1 DEF CidsOK
      <4>. QED
        BY <1>3, <1>5, <1>6, <3>1, <4>1
    <3>2. CASE j # k
      BY <1>1, <1>7, <2>4, <3>2 DEF CidsOK
    <3>. QED
      BY <3>1, <3>2
  <2>. QED
    BY <2>1, <2>2, <2>3, <2>4 DEF CidsOK
<1>10. TypeOK'
  <2>1. <<o[1], o[2]>> = o
    OBVIOUS
  <2>. QED
    BY <1>2, <1>3, <1>4, <2>1 DEF Inv, TypeOK
<1>. QED
  BY <1>2, <1>4, <1>9, <1>10 DEF Inv

\* LocalPathOpen preserves the inductive invariant.
LEMMA LocalPathOpenOK ==
  ASSUME Inv, NEW o \in Sendable, LocalPathOpen(o[1], o[2])
  PROVE  Inv'
<1>. DEFINE k == o[1]
            x == Expire(setup)
            b == Begin(x, k, o[2], None, 0)
<1>1. /\ k \in Keys /\ o[2] \in Requests /\ x \in Tables /\ Counted(x)
      /\ CidsOK(x, registry, nextCid) /\ x.entries[k] = None
  BY RequestOK DEF LocalPathOpen
<1>2. b \in Tables /\ Counted(b)
  BY <1>1, BeginOK
<1>3. Refusal \in Replies /\ Grant(<<o[1], o[2]>>, 0) \in Replies
  <2>1. <<o[1], o[2]>> \in Sendable
    OBVIOUS
  <2>. QED
    BY <2>1 DEF Replies
<1>4. /\ registry \in Registries /\ nextCid \in 1 .. MaxCids + 1 /\ nextCid <= MaxCids
      /\ UNCHANGED <<sent, packets>>
  BY DEF Inv, TypeOK, LocalPathOpen
<1>5. /\ \/ \E r \in Replies : setup' = Complete(b, k, r)
         \/ setup' = Cancel(b, k)
         \/ setup' = b
      /\ nextCid' \in {nextCid, nextCid + 1}
      /\ \/ registry' = registry
         \/ registry' = RegisterEndpoint(registry, nextCid) /\ nextCid' = nextCid + 1
  BY <1>3 DEF LocalPathOpen
<1>6. k \in Present(b) /\ CanComplete(b, k)
  BY <1>1, <1>3, LocalEntries
<1>7. setup' \in Tables /\ Counted(setup')
  BY <1>1, <1>2, <1>5, <1>6, CancelOK, CompleteOK
<1>8. /\ \A j \in Keys : j # k => setup'.entries[j] = x.entries[j]
      /\ setup'.entries[k].hop = None
  BY <1>1, <1>3, <1>5, LocalEntries
<1>9. nextCid \in Cids /\ nextCid' \in 1 .. MaxCids + 1
  BY <1>4, <1>5 DEF Cids
<1>10. /\ registry' \in Registries /\ registry'.rules = registry.rules
       /\ registry'.endpoints \subseteq registry.endpoints \cup {nextCid}
       /\ registry'.endpoints # registry.endpoints => nextCid' = nextCid + 1
  BY <1>4, <1>5, <1>9 DEF RegisterEndpoint, Registries
<1>11. Ruled(registry') = Ruled(registry)
  BY <1>10 DEF Ruled
<1>12. Paired(registry')
  BY <1>10, <1>11 DEF Inv, Paired
<1>13. \A c \in Routes(registry') : c \in Routes(registry) \/ (nextCid <= c /\ c < nextCid')
  BY <1>4, <1>10, <1>11 DEF Routes
<1>14. \A j \in Present(setup') :
         \/ setup'.entries[j].hop = None
         \/ /\ j \in Present(x)
            /\ setup'.entries[j].hop = x.entries[j].hop
            /\ setup'.entries[j].forward = x.entries[j].forward
            /\ Ungranted(setup'.entries[j]) => Ungranted(x.entries[j])
  BY <1>8 DEF Present
<1>15. nextCid \in Nat /\ nextCid' \in Nat /\ nextCid <= nextCid'
  BY <1>4, <1>5
<1>. HIDE DEF x, b
<1>16. CidsOK(setup', registry', nextCid')
  BY <1>1, <1>4, <1>7, <1>10, <1>13, <1>14, <1>15, CidsKept
<1>17. TypeOK'
  BY <1>4, <1>7, <1>9, <1>10 DEF Inv, TypeOK
<1>. QED
  BY <1>7, <1>12, <1>16, <1>17 DEF Inv

\* The step of an answer that completes its transaction.
LEMMA CompletingAnswer ==
  ASSUME Inv, NEW k \in Present(setup), NEW r \in Answers, NEW o \in Sendable,
         r \in AnswersTo(o), setup.entries[k].hop # None,
         CanComplete(KeepAnswer(setup, k, r), k)
  PROVE  LET t == Complete(KeepAnswer(setup, k, r), k, Upstream(k, r))
         IN /\ t \in Tables /\ Counted(t)
            /\ Installed(k, r) \in Registries /\ Paired(Installed(k, r))
            /\ CidsOK(t, Installed(k, r), nextCid)
<1>. DEFINE s == KeepAnswer(setup, k, r)
            t == Complete(s, k, Upstream(k, r))
            f == setup.entries[k].forward
<1>1. /\ setup \in Tables /\ Counted(setup) /\ registry \in Registries
      /\ Paired(registry) /\ nextCid \in 1 .. MaxCids + 1 /\ k \in Keys
      /\ CidsOK(setup, registry, nextCid) /\ TypeOK
  BY DEF Inv, TypeOK, Present
<1>2. f \in Nat /\ f >= 1 /\ f + 1 < nextCid /\ f \in Cids /\ f + 1 \in Cids
  BY <1>1 DEF Tables, Entry, Present, CidsOK, Cids
<1>3. s \in Tables /\ Counted(s)
  BY <1>1, KeepAnswerOK
<1>4. /\ Upstream(k, r) \in Replies
      /\ r.ok => There(k, r) \in RuleType /\ Back(k, r) \in RuleType
      /\ There(k, r).group = f /\ Back(k, r).group = f
      /\ There(k, r).left = Back(k, r).left /\ There(k, r).lease = Back(k, r).lease
  BY <1>1, <1>2, AnswerTypes
<1>5. t \in Tables /\ Counted(t)
  BY <1>1, <1>3, <1>4, CompleteOK
<1>6. /\ \A j \in Keys : j # k => s.entries[j] = setup.entries[j]
      /\ s.entries[k].hop = setup.entries[k].hop /\ s.entries[k].forward = f
      /\ s.entries[k].status = setup.entries[k].status
  BY <1>1, KeepAnswerOK
<1>7. /\ \A j \in Keys : j # k => t.entries[j] = s.entries[j]
      /\ t.entries[k] = [s.entries[k] EXCEPT !.status = "ready", !.keep = Retention,
                                             !.reply = Upstream(k, r)]
  BY <1>1, <1>3 DEF Complete, Tables
<1>8. s.entries[k] \in Entry /\ s.entries[k].status = "pending"
  BY <1>1, <1>3 DEF Tables, CanComplete
<1>9. /\ t.entries[k].hop = setup.entries[k].hop /\ t.entries[k].forward = f
      /\ t.entries[k].status = "ready" /\ t.entries[k].reply = Upstream(k, r)
  BY <1>6, <1>7, <1>8 DEF Entry
<1>10. Ungranted(setup.entries[k])
  BY <1>6, <1>8 DEF Ungranted
<1>11. \A j \in Present(t) : j \in Present(setup) /\ j \in Keys
                             /\ (j # k => t.entries[j] = setup.entries[j])
  BY <1>6, <1>7 DEF Present
<1>12. \A j \in Present(setup) : setup.entries[j].forward \in Nat
  BY <1>1 DEF Tables, Entry, Present
<1>13. Routes(registry) \subseteq Cids /\ Cids \subseteq Nat
  BY <1>1 DEF Routes, Ruled, Registries, Cids
<1>14. CASE ~Installs(k, r)
  <2>1. Installed(k, r) = registry
    BY <1>14 DEF Installed
  <2>2. \A j \in Present(t) :
          \/ t.entries[j].hop = None
          \/ /\ j \in Present(setup)
             /\ t.entries[j].hop = setup.entries[j].hop
             /\ t.entries[j].forward = setup.entries[j].forward
             /\ Ungranted(t.entries[j]) => Ungranted(setup.entries[j])
    BY <1>9, <1>10, <1>11
  <2>3. nextCid \in Nat /\ nextCid <= nextCid
    BY <1>1
  <2>. HIDE DEF t
  <2>4. CidsOK(t, registry, nextCid)
    BY <1>1, <1>5, <2>2, <2>3, CidsKept
  <2>. QED
    BY <1>1, <1>5, <2>1, <2>4 DEF t
<1>15. CASE Installs(k, r)
  <2>. DEFINE h == Installed(k, r)
  <2>1. h = InstallPair(registry, f, There(k, r), f + 1, Back(k, r))
    BY <1>15 DEF Installed
  <2>2. r.ok /\ CanInstallPair(registry, f, f + 1)
    BY <1>15 DEF Installs
  <2>3. h \in Registries /\ Paired(h) /\ Routes(h) = Routes(registry) \cup {f, f + 1}
    BY <1>1, <1>2, <1>4, <2>1, <2>2, InstallPairOK
  <2>4. Upstream(k, r).ok = TRUE
    BY <1>15 DEF Upstream, Grant
  <2>. HIDE DEF h, t, f
  <2>5. CidsOK(t, h, nextCid)
    <3>1. ASSUME NEW c \in Routes(h) PROVE c < nextCid
      <4>1. c \in Routes(registry) => c < nextCid
        BY <1>1 DEF CidsOK
      <4>. QED
        BY <1>1, <1>2, <2>3, <4>1
    <3>2. ASSUME NEW j \in Present(t), t.entries[j].hop # None
          PROVE  /\ j \in Present(setup) /\ setup.entries[j].hop # None
                 /\ t.entries[j].forward = setup.entries[j].forward
                 /\ t.entries[j].forward >= 1 /\ t.entries[j].forward + 1 < nextCid
      <4>1. j \in Present(setup) /\ setup.entries[j].hop # None
            /\ t.entries[j].forward = setup.entries[j].forward
        BY <1>9, <1>11, <3>2 DEF f
      <4>. QED
        BY <1>1, <4>1 DEF CidsOK
    <3>3. ASSUME NEW i \in Present(t), NEW j \in Present(t), i # j,
                 t.entries[i].hop # None, t.entries[j].hop # None
          PROVE  \/ t.entries[i].forward + 1 < t.entries[j].forward
                 \/ t.entries[j].forward + 1 < t.entries[i].forward
      BY <1>1, <3>2, <3>3 DEF CidsOK
    <3>4. ASSUME NEW j \in Present(t), Ungranted(t.entries[j])
          PROVE  {t.entries[j].forward, t.entries[j].forward + 1} \cap Routes(h) = {}
      <4>1. j # k
        BY <1>9, <2>4, <3>4 DEF Ungranted
      <4>2. t.entries[j].hop # None
        BY <3>4 DEF Ungranted
      <4>3. j \in Present(setup) /\ t.entries[j] = setup.entries[j]
        BY <1>11, <4>1
      <4>4. {t.entries[j].forward, t.entries[j].forward + 1} \cap Routes(registry) = {}
        BY <1>1, <3>4, <4>3 DEF CidsOK
      <4>5. \/ t.entries[j].forward + 1 < f \/ f + 1 < t.entries[j].forward
        BY <1>1, <4>1, <4>2, <4>3 DEF CidsOK, f
      <4>6. t.entries[j].forward \in Nat
        BY <1>12, <4>3
      <4>. QED
        BY <1>2, <2>3, <4>4, <4>5, <4>6
    <3>. QED
      BY <3>1, <3>2, <3>3, <3>4 DEF CidsOK
  <2>. QED
    BY <1>5, <2>3, <2>5 DEF h, t
<1>. QED
  BY <1>14, <1>15

\* RecvPathOpenAck preserves the inductive invariant.
LEMMA RecvPathOpenAckOK ==
  ASSUME Inv, NEW hop \in DownstreamHops, NEW o \in Sendable, NEW r \in Answers,
         RecvPathOpenAck(hop, o, r)
  PROVE  Inv'
<1>1. PICK k \in Keys :
        /\ Validates(k, hop, TransactionId(o[1]), r)
        /\ \/ /\ CanComplete(KeepAnswer(setup, k, r), k)
              /\ setup' = Complete(KeepAnswer(setup, k, r), k, Upstream(k, r))
              /\ registry' = Installed(k, r)
           \/ /\ setup' = KeepAnswer(setup, k, r)
              /\ registry' = IF Installs(k, r)
                               THEN RemovePair(Installed(k, r), setup.entries[k].forward)
                               ELSE Installed(k, r)
           \/ /\ setup' = KeepAnswer(setup, k, r)
              /\ registry' = registry
  BY DEF RecvPathOpenAck
<1>2. r \in AnswersTo(o) /\ UNCHANGED <<nextCid, sent, packets>>
  BY DEF RecvPathOpenAck
<1>3. k \in Present(setup) /\ setup.entries[k].hop # None
  BY <1>1 DEF Validates, IsFirstMatch, Matches
<1>4. /\ setup \in Tables /\ Counted(setup) /\ registry \in Registries
      /\ Paired(registry) /\ nextCid \in 1 .. MaxCids + 1 /\ nextCid \in Nat
      /\ CidsOK(setup, registry, nextCid) /\ TypeOK
  BY DEF Inv, TypeOK
<1>. DEFINE f == setup.entries[k].forward
<1>5. f \in Cids /\ f + 1 \in Cids
  BY <1>3, <1>4 DEF Tables, Entry, Present, CidsOK, Cids
<1>6. CASE /\ CanComplete(KeepAnswer(setup, k, r), k)
           /\ setup' = Complete(KeepAnswer(setup, k, r), k, Upstream(k, r))
           /\ registry' = Installed(k, r)
  <2>1. /\ setup' \in Tables /\ Counted(setup')
        /\ registry' \in Registries /\ Paired(registry')
        /\ CidsOK(setup', registry', nextCid)
    BY <1>2, <1>3, <1>6, CompletingAnswer
  <2>. QED
    BY <1>2, <1>4, <2>1 DEF Inv, TypeOK
<1>7. CASE setup' = KeepAnswer(setup, k, r) /\ registry' = registry
  <2>1. setup' \in Tables /\ Counted(setup')
    BY <1>3, <1>4, <1>7, KeepAnswerOK
  <2>2. \A j \in Present(setup') :
          /\ j \in Present(setup)
          /\ setup'.entries[j].hop = setup.entries[j].hop
          /\ setup'.entries[j].forward = setup.entries[j].forward
          /\ Ungranted(setup'.entries[j]) => Ungranted(setup.entries[j])
    BY <1>3, <1>4, <1>7, KeepAnswerOK DEF Present, Ungranted
  <2>3. CidsOK(setup', registry, nextCid)
    BY <1>4, <2>1, <2>2, CidsKept
  <2>. QED
    BY <1>2, <1>4, <1>7, <2>1, <2>3 DEF Inv, TypeOK
<1>8. CASE /\ setup' = KeepAnswer(setup, k, r)
           /\ registry' = IF Installs(k, r)
                            THEN RemovePair(Installed(k, r), setup.entries[k].forward)
                            ELSE Installed(k, r)
  <2>1. ~Installs(k, r) => Installed(k, r) = registry
    BY DEF Installed
  <2>2. ASSUME Installs(k, r) PROVE RemovePair(Installed(k, r), f) = registry
    <3>1. Installed(k, r) = InstallPair(registry, f, There(k, r), f + 1, Back(k, r))
      BY <2>2 DEF Installed
    <3>2. r.ok /\ CanInstallPair(registry, f, f + 1)
      BY <2>2 DEF Installs
    <3>3. /\ There(k, r) \in RuleType /\ Back(k, r) \in RuleType
          /\ There(k, r).group = f /\ Back(k, r).group = f
          /\ There(k, r).left = Back(k, r).left /\ There(k, r).lease = Back(k, r).lease
      BY <1>2, <1>3, <1>4, <1>5, <3>2, AnswerTypes
    <3>. QED
      BY <1>4, <1>5, <3>1, <3>2, <3>3, InstallPairOK
  <2>3. registry' = registry
    BY <1>8, <2>1, <2>2
  <2>. QED
    BY <1>7, <1>8, <2>3
<1>. QED
  BY <1>1, <1>6, <1>7, <1>8

\* A step that only takes CIDs out of the registry or rewrites its rules.
LEMMA RegistryStep ==
  ASSUME Inv, registry' \in Registries, Paired(registry'),
         Routes(registry') \subseteq Routes(registry),
         UNCHANGED <<setup, nextCid, sent>>, packets' \in 0 .. MaxPackets
  PROVE  Inv'
<1>1. /\ setup \in Tables /\ registry \in Registries /\ nextCid \in 1 .. MaxCids + 1
      /\ nextCid \in Nat /\ sent \subseteq Sendable
      /\ CidsOK(setup, registry, nextCid) /\ Counted(setup)
  BY DEF Inv, TypeOK
<1>2. nextCid <= nextCid
  BY <1>1
<1>3. CidsOK(setup, registry', nextCid)
  BY <1>1, <1>2, CidsKept
<1>4. TypeOK'
  BY <1>1 DEF TypeOK
<1>. QED
  BY <1>1, <1>3, <1>4 DEF Inv

\* RemoveAssociation preserves the inductive invariant.
LEMMA RemoveAssociationOK ==
  ASSUME Inv, NEW c \in Cids, RemoveAssociation(c)
  PROVE  Inv'
<1>1. /\ registry \in Registries /\ Paired(registry) /\ packets \in 0 .. MaxPackets
  BY DEF Inv, TypeOK
<1>2. /\ registry' = [endpoints |-> registry.endpoints \ {c}, rules |-> registry.rules]
      /\ UNCHANGED <<setup, nextCid, sent, packets>>
  BY DEF RemoveAssociation, RemoveEndpoint
<1>3. /\ registry' \in Registries /\ registry'.rules = registry.rules
      /\ registry'.endpoints \subseteq registry.endpoints
  BY <1>1, <1>2 DEF Registries
<1>4. Ruled(registry') = Ruled(registry)
  BY <1>3 DEF Ruled
<1>5. Paired(registry') /\ Routes(registry') \subseteq Routes(registry)
  BY <1>1, <1>3, <1>4 DEF Paired, Routes
<1>. QED
  BY <1>1, <1>2, <1>3, <1>5, RegistryStep

\* RefusePacket preserves the inductive invariant.
LEMMA RefusePacketOK ==
  ASSUME Inv, NEW c \in Cids, RefusePacket(c)
  PROVE  Inv'
<1>1. /\ registry \in Registries /\ Paired(registry) /\ packets \in 0 .. MaxPackets
  BY DEF Inv, TypeOK
<1>2. /\ registry' \in {registry, Without(registry, Group(registry, c))}
      /\ UNCHANGED <<setup, nextCid, sent, packets>>
  BY DEF RefusePacket, AfterLeaseCheck
<1>3. /\ registry' \in Registries /\ Paired(registry')
      /\ Routes(registry') \subseteq Routes(registry)
  BY <1>1, <1>2, WithoutGroupOK
<1>. QED
  BY <1>1, <1>2, <1>3, RegistryStep

\* ForwardPacket preserves the inductive invariant.
LEMMA ForwardPacketOK ==
  ASSUME Inv, NEW c \in Cids, NEW control \in BOOLEAN, NEW established \in BOOLEAN,
         ForwardPacket(c, control, established)
  PROVE  Inv'
<1>. DEFINE used == ConsumeQuota(registry, c, control)
<1>1. /\ registry \in Registries /\ Paired(registry) /\ packets \in 0 .. MaxPackets
  BY DEF Inv, TypeOK
<1>2. /\ c \in Ruled(registry) /\ packets < MaxPackets /\ packets' = packets + 1
      /\ registry' \in {used, RefreshLease(used, c)}
      /\ UNCHANGED <<setup, nextCid, sent>>
  BY DEF ForwardPacket
<1>3. /\ used \in Registries /\ Paired(used) /\ Ruled(used) = Ruled(registry)
      /\ used.endpoints = registry.endpoints
  BY <1>1, <1>2, ConsumeQuotaOK
<1>. HIDE DEF used
<1>4. /\ registry' \in Registries /\ Paired(registry')
      /\ Ruled(registry') = Ruled(registry) /\ registry'.endpoints = registry.endpoints
  BY <1>2, <1>3, RefreshLeaseOK
<1>5. Routes(registry') \subseteq Routes(registry)
  BY <1>4 DEF Routes
<1>6. packets' \in 0 .. MaxPackets
  BY <1>1, <1>2
<1>. QED
  BY <1>2, <1>4, <1>5, <1>6, RegistryStep

\* Tick preserves the inductive invariant.
LEMMA TickOK ==
  ASSUME Inv, Tick
  PROVE  Inv'
<1>1. /\ setup \in Tables /\ Counted(setup) /\ registry \in Registries
      /\ Paired(registry) /\ nextCid \in 1 .. MaxCids + 1 /\ nextCid \in Nat
      /\ CidsOK(setup, registry, nextCid) /\ TypeOK
  BY DEF Inv, TypeOK
<1>2. /\ setup' = Older(setup) /\ registry' = OlderRules(registry)
      /\ UNCHANGED <<nextCid, sent, packets>>
  BY DEF Tick
<1>3. /\ setup' \in Tables /\ Counted(setup') /\ Present(setup') = Present(setup)
      /\ \A k \in Present(setup) :
           /\ setup'.entries[k].status = setup.entries[k].status
           /\ setup'.entries[k].hop = setup.entries[k].hop
           /\ setup'.entries[k].forward = setup.entries[k].forward
           /\ setup'.entries[k].reply = setup.entries[k].reply
  BY <1>1, <1>2, OlderOK
<1>4. \A k \in Present(setup') :
        /\ k \in Present(setup)
        /\ setup'.entries[k].hop = setup.entries[k].hop
        /\ setup'.entries[k].forward = setup.entries[k].forward
        /\ Ungranted(setup'.entries[k]) => Ungranted(setup.entries[k])
  BY <1>3 DEF Ungranted
<1>5. /\ registry' \in Registries /\ Paired(registry')
      /\ Routes(registry') \subseteq Routes(registry)
  BY <1>1, <1>2, OlderRulesOK DEF Routes
<1>6. nextCid <= nextCid
  BY <1>1
<1>7. CidsOK(setup', registry', nextCid)
  BY <1>1, <1>3, <1>4, <1>5, <1>6, CidsKept
<1>. QED
  BY <1>1, <1>2, <1>3, <1>5, <1>7 DEF Inv, TypeOK

\* TimerExpired preserves the inductive invariant.
LEMMA TimerExpiredOK ==
  ASSUME Inv, TimerExpired
  PROVE  Inv'
<1>1. /\ setup \in Tables /\ Counted(setup) /\ registry \in Registries
      /\ Paired(registry) /\ nextCid \in 1 .. MaxCids + 1 /\ nextCid \in Nat
      /\ CidsOK(setup, registry, nextCid) /\ TypeOK
  BY DEF Inv, TypeOK
<1>2. /\ setup' = Expire(setup) /\ registry' = ExpireLeases(registry)
      /\ UNCHANGED <<nextCid, sent, packets>>
  BY DEF TimerExpired
<1>3. setup' \in Tables /\ Counted(setup')
  BY <1>1, <1>2, ExpireOK
<1>4. /\ registry' \in Registries /\ Paired(registry')
      /\ Routes(registry') \subseteq Routes(registry)
  BY <1>1, <1>2, ExpireLeasesOK
<1>5. \A k \in Present(setup') :
        /\ k \in Present(setup)
        /\ setup'.entries[k].hop = setup.entries[k].hop
        /\ setup'.entries[k].forward = setup.entries[k].forward
        /\ Ungranted(setup'.entries[k]) => Ungranted(setup.entries[k])
  BY <1>1, <1>2, ExpireCids
<1>6. nextCid <= nextCid
  BY <1>1
<1>7. CidsOK(setup', registry', nextCid)
  BY <1>1, <1>3, <1>4, <1>5, <1>6, CidsKept
<1>. QED
  BY <1>1, <1>2, <1>3, <1>4, <1>7 DEF Inv, TypeOK

----------------------------------------------------------------------------
\* Every step of the relay preserves the inductive invariant.
LEMMA InvStep == Inv /\ [Next]_vars => Inv'
<1>. SUFFICES ASSUME Inv, [Next]_vars PROVE Inv'
  OBVIOUS
<1>1. CASE \E o \in Sendable :
             \/ RepeatPathOpen(o[1], o[2])
             \/ UnroutedPathOpen(o[1], o[2])
             \/ ForwardPathOpen(o[1], o[2])
             \/ LocalPathOpen(o[1], o[2])
  BY <1>1, RepeatPathOpenOK, UnroutedPathOpenOK, ForwardPathOpenOK, LocalPathOpenOK
<1>2. CASE \E hop \in DownstreamHops, o \in Sendable, r \in Answers :
             RecvPathOpenAck(hop, o, r)
  BY <1>2, RecvPathOpenAckOK
<1>3. CASE \E c \in Cids : RemoveAssociation(c) \/ RefusePacket(c)
  BY <1>3, RemoveAssociationOK, RefusePacketOK
<1>4. CASE \E c \in Cids, control, established \in BOOLEAN :
             ForwardPacket(c, control, established)
  BY <1>4, ForwardPacketOK
<1>5. CASE Tick
  BY <1>5, TickOK
<1>6. CASE TimerExpired
  BY <1>6, TimerExpiredOK
<1>7. CASE UNCHANGED vars
  BY <1>7 DEF vars, Inv, TypeOK
<1>. QED
  BY <1>1, <1>2, <1>3, <1>4, <1>5, <1>6, <1>7 DEF Next

\* The inductive invariant gives the properties a reader wants.
LEMMA InvImplies == Inv => CountersMatchTable /\ PairsWhole /\ NoRuleWithoutGrant
<1>. SUFFICES ASSUME Inv PROVE CountersMatchTable /\ PairsWhole /\ NoRuleWithoutGrant
  OBVIOUS
<1>1. CountersMatchTable
  BY DEF Inv, CountersMatchTable
<1>2. PairsWhole
  BY DEF Inv, Paired, PairsWhole
<1>3. NoRuleWithoutGrant
  BY DEF Inv, CidsOK, Ungranted, NoRuleWithoutGrant
<1>. QED
  BY <1>1, <1>2, <1>3

\* The relay's state keeps its types: no rule outlives the lease this hop was
\* asked for or carries more than its quota, whatever answers, repeats and
\* packets arrive.
THEOREM RelayTypes == Spec => []TypeOK
<1>1. Inv => TypeOK
  BY DEF Inv
<1>. QED
  BY <1>1, InvInit, InvStep, PTL DEF Spec

\* The counters begin reads are at every instant what a recount of the setup
\* table would give, so admission never refuses for an entry that is gone.
THEOREM CountersNeverLeak == Spec => []CountersMatchTable
BY InvInit, InvStep, InvImplies, PTL DEF Spec

\* The two rules of a path are installed, renewed, lapse and go together.
THEOREM PathsAreWhole == Spec => []PairsWhole
BY InvInit, InvStep, InvImplies, PTL DEF Spec

\* A transaction that is pending, cancelled, expired or refused owns no rule,
\* however its answer raced with its deadline.
THEOREM NoOrphanRules == Spec => []NoRuleWithoutGrant
BY InvInit, InvStep, InvImplies, PTL DEF Spec

----------------------------------------------------------------------------
(* Grants that may be replayed, and whom a path serves.  The rules of a    *)
(* grant that may still be replayed have at least as long to live as the   *)
(* grant is kept.                                                          *)

Granted(e) ==
  /\ e.hop # None /\ e.status = "ready" /\ e.reply.ok /\ e.keep > 0
  /\ EffectiveLease(e.answer) >= Retention

\* The pair f has at least n ticks to live, and a lease that covers Retention.
LiveFor(f, n, g) ==
  /\ {f, f + 1} \subseteq Ruled(g) /\ g.rules[f].group = f
  /\ g.rules[f].left >= n /\ g.rules[f].lease >= Retention

GrantsLive(s, g) ==
  \A k \in Present(s) :
    LET e == s.entries[k]
    IN /\ e.hop # None /\ e.status = "ready" => e.answer # None /\ e.keep <= Retention
       /\ Granted(e) => LiveFor(e.forward, e.keep, g)

\* A relayed transaction is of a request that was sent, and went where its
\* route says.
Asked(s) ==
  \A k \in Present(s) :
    LET e == s.entries[k]
    IN e.hop # None => <<k, e.request>> \in Sendable /\ Route[e.request] = e.hop

\* What remains of entry x, with nothing promised anew.
Descends(e, x) ==
  /\ e.request = x.request /\ e.hop = x.hop /\ e.forward = x.forward
  /\ e.status = "ready" => /\ x.status = "ready" /\ e.answer = x.answer
                           /\ e.reply = x.reply /\ e.keep <= x.keep

\* Table t holds what remains of table s, and entries that relay nothing.
TableFrom(t, s) ==
  \A k \in Present(t) :
    \/ t.entries[k].hop = None
    \/ k \in Present(s) /\ Descends(t.entries[k], s.entries[k])

\* Rules h are among rules g, but for clocks and counters.
RulesFrom(h, g) ==
  \A c \in Ruled(h) :
    /\ c \in Ruled(g) /\ h.rules[c].dest = g.rules[c].dest
    /\ h.rules[c].group = g.rules[c].group /\ h.rules[c].lease = g.rules[c].lease

\* No pair that still lives in g goes, or loses time but by a renewal.
PairsLive(h, g) ==
  \A f \in Ruled(g) :
    g.rules[f].group = f /\ g.rules[f].left > 0
    => /\ {f, f + 1} \subseteq Ruled(h)
       /\ h.rules[f].left >= g.rules[f].left \/ h.rules[f].left = h.rules[f].lease

LEMMA EntryFields ==
  ASSUME NEW s \in Tables, NEW k \in Present(s)
  PROVE  /\ s.entries[k] \in Entry /\ k \in Keys /\ s.entries[k].keep \in Nat
         /\ s.entries[k].left \in Int
BY DEF Tables, Present, Entry

LEMMA RuleNumbers ==
  ASSUME NEW g \in Registries, NEW c \in Ruled(g)
  PROVE  g.rules[c].left \in Nat /\ g.rules[c].lease \in Nat
BY RuleFields DEF RuleType

LEMMA TableFromKeeps ==
  ASSUME NEW s \in Tables, NEW t \in Tables, NEW g \in Registries, TableFrom(t, s)
  PROVE  /\ Asked(s) => Asked(t)
         /\ GrantsLive(s, g) => GrantsLive(t, g)
<1>1. Asked(s) => Asked(t)
  BY DEF Asked, TableFrom, Descends
<1>2. ASSUME GrantsLive(s, g), NEW k \in Present(t), t.entries[k].hop # None,
             t.entries[k].status = "ready"
      PROVE  /\ t.entries[k].answer # None /\ t.entries[k].keep <= Retention
             /\ Granted(t.entries[k]) => LiveFor(t.entries[k].forward, t.entries[k].keep, g)
  <2>1. k \in Present(s) /\ Descends(t.entries[k], s.entries[k])
    BY <1>2 DEF TableFrom
  <2>2. /\ t.entries[k].keep \in Nat /\ s.entries[k].keep \in Nat
        /\ t.entries[k].keep <= s.entries[k].keep
    BY <1>2, <2>1, EntryFields DEF Descends
  <2>3. /\ s.entries[k].hop # None /\ s.entries[k].status = "ready"
        /\ s.entries[k].answer # None /\ s.entries[k].keep <= Retention
    BY <1>2, <2>1 DEF Descends, GrantsLive
  <2>4. t.entries[k].answer # None /\ t.entries[k].keep <= Retention
    BY <1>2, <2>1, <2>2, <2>3 DEF Descends
  <2>5. ASSUME Granted(t.entries[k])
        PROVE  LiveFor(t.entries[k].forward, t.entries[k].keep, g)
    <3>1. Granted(s.entries[k])
      BY <1>2, <2>1, <2>2, <2>5 DEF Granted, Descends
    <3>2. LiveFor(s.entries[k].forward, s.entries[k].keep, g)
      BY <1>2, <2>1, <3>1 DEF GrantsLive
    <3>3. g.rules[s.entries[k].forward].left \in Nat
      BY <3>2, RuleNumbers DEF LiveFor
    <3> QED
      BY <2>1, <2>2, <3>2, <3>3 DEF LiveFor, Descends
  <2> QED
    BY <2>4, <2>5
<1> QED
  BY <1>1, <1>2 DEF GrantsLive, Granted

LEMMA RulesFromKeeps ==
  ASSUME NEW s \in Tables, NEW g \in Registries, NEW h \in Registries,
         RulesFrom(h, g), PairsLive(h, g), GrantsLive(s, g)
  PROVE  GrantsLive(s, h)
<1>1. ASSUME NEW k \in Present(s), Granted(s.entries[k])
      PROVE  LiveFor(s.entries[k].forward, s.entries[k].keep, h)
  <2> DEFINE f == s.entries[k].forward
  <2>1. s.entries[k].keep \in Nat /\ s.entries[k].keep > 0 /\ s.entries[k].keep <= Retention
    BY <1>1, EntryFields DEF Granted, GrantsLive
  <2>2. LiveFor(f, s.entries[k].keep, g)
    BY <1>1 DEF GrantsLive
  <2>3. f \in Ruled(g) /\ g.rules[f].left \in Nat
    BY <2>2, RuleNumbers DEF LiveFor
  <2>4. g.rules[f].left > 0 /\ g.rules[f].group = f
    BY <2>1, <2>2, <2>3 DEF LiveFor
  <2>5. /\ {f, f + 1} \subseteq Ruled(h)
        /\ h.rules[f].left >= g.rules[f].left \/ h.rules[f].left = h.rules[f].lease
    BY <2>3, <2>4 DEF PairsLive
  <2>6. /\ h.rules[f].group = f /\ h.rules[f].lease = g.rules[f].lease
        /\ h.rules[f].left \in Nat
    BY <2>4, <2>5, RuleNumbers DEF RulesFrom
  <2> QED
    BY <2>1, <2>2, <2>3, <2>5, <2>6 DEF LiveFor
<1> QED
  BY <1>1 DEF GrantsLive

\* Whom a pair serves is settled when it is installed.
LEMMA DestsKept ==
  ASSUME NEW g, NEW h, RulesFrom(h, g),
         \A c, d \in Ruled(g) : g.rules[c].group = g.rules[d].group => Alike(g.rules[c].dest, g.rules[d].dest)
  PROVE  \A c, d \in Ruled(h) : h.rules[c].group = h.rules[d].group => Alike(h.rules[c].dest, h.rules[d].dest)
BY DEF RulesFrom

LEMMA WithoutRules ==
  ASSUME NEW g \in Registries, Paired(g), NEW S,
         \A c, d \in Ruled(g) :
           g.rules[c].group = g.rules[d].group /\ c \in S => d \in S,
         \A c \in S \cap Ruled(g) : g.rules[c].left <= 0
  PROVE  LET h == Without(g, S)
         IN h \in Registries /\ RulesFrom(h, g) /\ PairsLive(h, g)
<1> DEFINE h == Without(g, S)
<1>1. h \in Registries /\ Ruled(h) = Ruled(g) \ S
  BY WithoutOK
<1>2. \A c \in Cids : c \notin S => h.rules[c] = g.rules[c]
  BY DEF Without, WithRules
<1> HIDE DEF h
<1>3. RulesFrom(h, g)
  BY <1>1, <1>2 DEF RulesFrom, Ruled
<1>4. ASSUME NEW f \in Ruled(g), g.rules[f].group = f, g.rules[f].left > 0
      PROVE  /\ {f, f + 1} \subseteq Ruled(h)
             /\ h.rules[f].left >= g.rules[f].left
  <2>1. g.rules[f].left \in Nat
    BY RuleNumbers
  <2>2. f \notin S
    BY <1>4, <2>1
  <2>3. f + 1 \in Ruled(g) /\ g.rules[f + 1].group = f
    BY <1>4 DEF Paired
  <2>4. f + 1 \notin S
    BY <1>4, <2>2, <2>3
  <2>5. f \in Cids
    BY DEF Ruled
  <2> QED
    BY <1>1, <1>2, <2>1, <2>2, <2>3, <2>4, <2>5
<1>5. PairsLive(h, g)
  BY <1>4 DEF PairsLive
<1> QED
  BY <1>1, <1>3, <1>5 DEF h

LEMMA ExpireLeasesRules ==
  ASSUME NEW g \in Registries, Paired(g)
  PROVE  LET h == ExpireLeases(g)
         IN h \in Registries /\ RulesFrom(h, g) /\ PairsLive(h, g)
<1> DEFINE S == {c \in Ruled(g) : g.rules[c].left <= 0}
<1>1. \A c, d \in Ruled(g) : g.rules[c].group = g.rules[d].group /\ c \in S => d \in S
  BY GroupsLapseTogether
<1>2. \A c \in S \cap Ruled(g) : g.rules[c].left <= 0
  OBVIOUS
<1>3. ExpireLeases(g) = Without(g, S)
  BY DEF ExpireLeases
<1> HIDE DEF S
<1> QED
  BY <1>1, <1>2, <1>3, WithoutRules

LEMMA LeaseCheckRules ==
  ASSUME NEW g \in Registries, Paired(g), NEW c \in Cids
  PROVE  LET h == AfterLeaseCheck(g, c)
         IN h \in Registries /\ RulesFrom(h, g) /\ PairsLive(h, g)
<1>1. CASE LeaseActive(g, c)
  <2>1. AfterLeaseCheck(g, c) = g
    BY <1>1 DEF AfterLeaseCheck
  <2>2. PairsLive(g, g)
    <3>1. ASSUME NEW f \in Ruled(g), g.rules[f].group = f
          PROVE  {f, f + 1} \subseteq Ruled(g) /\ g.rules[f].left >= g.rules[f].left
      BY <3>1, RuleNumbers DEF Paired
    <3> QED
      BY <3>1 DEF PairsLive
  <2> QED
    BY <2>1, <2>2 DEF RulesFrom
<1>2. CASE ~LeaseActive(g, c)
  <2>1. c \in Ruled(g) /\ ~(g.rules[c].left > 0)
    BY <1>2 DEF LeaseActive
  <2>2. g.rules[c].left <= 0
    BY <2>1, RuleNumbers
  <2>3. \A d \in Group(g, c) : d \in Ruled(g) /\ g.rules[d].group = g.rules[c].group
    BY DEF Group
  <2>4. \A d \in Group(g, c) \cap Ruled(g) : g.rules[d].left <= 0
    BY <2>1, <2>2, <2>3, GroupsLapseTogether
  <2>5. \A b, d \in Ruled(g) :
          g.rules[b].group = g.rules[d].group /\ b \in Group(g, c) => d \in Group(g, c)
    BY DEF Group
  <2>6. AfterLeaseCheck(g, c) = Without(g, Group(g, c))
    BY <1>2 DEF AfterLeaseCheck
  <2> QED
    BY <2>4, <2>5, <2>6, WithoutRules
<1> QED
  BY <1>1, <1>2

LEMMA ConsumeQuotaRules ==
  ASSUME NEW g \in Registries, Paired(g), NEW c \in Ruled(g), NEW control \in BOOLEAN
  PROVE  LET h == ConsumeQuota(g, c, control)
         IN RulesFrom(h, g) /\ PairsLive(h, g)
<1> DEFINE o == OpenWindow(g.rules[c])
           u == IF Admits(o, control) THEN [o EXCEPT !.used = o.used + 1] ELSE o
           h == ConsumeQuota(g, c, control)
<1>1. g.rules[c] \in RuleType /\ c \in Cids
  BY RuleFields
<1>2. /\ u.group = g.rules[c].group /\ u.lease = g.rules[c].lease
      /\ u.left = g.rules[c].left
  BY <1>1, WindowOK
<1>3. u.dest = g.rules[c].dest
  <2>1. o.dest = g.rules[c].dest /\ DOMAIN o = DOMAIN g.rules[c]
    BY <1>1 DEF OpenWindow, RuleType
  <2> QED
    BY <1>1, <2>1 DEF RuleType
<1>4. h = [endpoints |-> g.endpoints, rules |-> [g.rules EXCEPT ![c] = u]]
  BY DEF ConsumeQuota, WithRules
<1>5. Ruled(h) = Ruled(g)
  BY ConsumeQuotaOK
<1> HIDE DEF u, h
<1>6. h.rules[c] = u /\ \A d \in Cids : d # c => h.rules[d] = g.rules[d]
  BY <1>1, <1>4 DEF Registries
<1>7. ASSUME NEW d \in Ruled(g)
      PROVE  /\ h.rules[d].dest = g.rules[d].dest /\ h.rules[d].group = g.rules[d].group
             /\ h.rules[d].lease = g.rules[d].lease /\ h.rules[d].left = g.rules[d].left
  BY <1>2, <1>3, <1>6 DEF Ruled
<1>8. RulesFrom(h, g)
  BY <1>5, <1>7 DEF RulesFrom
<1>9. ASSUME NEW f \in Ruled(g), g.rules[f].group = f
      PROVE  {f, f + 1} \subseteq Ruled(h) /\ h.rules[f].left >= g.rules[f].left
  BY <1>5, <1>7, <1>9, RuleNumbers DEF Paired
<1>10. PairsLive(h, g)
  BY <1>9 DEF PairsLive
<1> QED
  BY <1>8, <1>10 DEF h

LEMMA RefreshLeaseRules ==
  ASSUME NEW g \in Registries, Paired(g), NEW c \in Ruled(g)
  PROVE  LET h == RefreshLease(g, c)
         IN RulesFrom(h, g) /\ PairsLive(h, g)
<1> DEFINE h == RefreshLease(g, c)
           l == g.rules[c].lease
<1>1. Ruled(h) = Ruled(g)
  BY RefreshLeaseOK
<1>2. ASSUME NEW d \in Ruled(g)
      PROVE  h.rules[d] = IF d \in Group(g, c) THEN [g.rules[d] EXCEPT !.left = l] ELSE g.rules[d]
  BY DEF RefreshLease, WithRules, Ruled
<1>3. ASSUME NEW d \in Ruled(g)
      PROVE  LET r == [g.rules[d] EXCEPT !.left = l]
             IN /\ r.dest = g.rules[d].dest /\ r.group = g.rules[d].group
                /\ r.lease = g.rules[d].lease /\ r.left = l
  BY RuleFields DEF RuleType
<1>4. ASSUME NEW d \in Ruled(g)
      PROVE  /\ h.rules[d].dest = g.rules[d].dest /\ h.rules[d].group = g.rules[d].group
             /\ h.rules[d].lease = g.rules[d].lease
             /\ h.rules[d].left = IF d \in Group(g, c) THEN l ELSE g.rules[d].left
  BY <1>2, <1>3
<1> HIDE DEF h
<1>5. RulesFrom(h, g)
  BY <1>1, <1>4 DEF RulesFrom
<1>6. ASSUME NEW f \in Ruled(g), g.rules[f].group = f
      PROVE  /\ {f, f + 1} \subseteq Ruled(h)
             /\ h.rules[f].left >= g.rules[f].left \/ h.rules[f].left = h.rules[f].lease
  <2>1. {f, f + 1} \subseteq Ruled(h)
    BY <1>1, <1>6 DEF Paired
  <2>2. CASE f \in Group(g, c)
    <3>1. g.rules[f].lease = l
      BY <2>2, GroupsLapseTogether DEF Group
    <3> QED
      BY <1>4, <2>1, <2>2, <3>1
  <2>3. CASE f \notin Group(g, c)
    BY <1>4, <2>1, <2>3, RuleNumbers
  <2> QED
    BY <2>2, <2>3
<1>7. PairsLive(h, g)
  BY <1>6 DEF PairsLive
<1> QED
  BY <1>5, <1>7 DEF h

LEMMA ExpireFrom ==
  ASSUME NEW s \in Tables
  PROVE  TableFrom(Expire(s), s)
<1> SUFFICES ASSUME NEW k \in Present(Expire(s))
             PROVE  k \in Present(s) /\ Descends(Expire(s).entries[k], s.entries[k])
  BY DEF TableFrom
<1>1. k \in Present(s) /\ s.entries[k] \in Entry /\ s.entries[k].keep \in Nat
  BY ExpireEntries, EntryFields
<1>2. k \in Keys /\ Expire(s).entries[k] # None
  BY DEF Present
<1>3. Expire(s).entries[k] = Aged(s, k)
  BY <1>2 DEF Expire
<1>4. CASE k \in Lapsed(s)
  <2>1. Expire(s).entries[k] = MarkExpired(s.entries[k])
    BY <1>3, <1>4 DEF Aged
  <2>2. MarkExpired(s.entries[k]).request = s.entries[k].request
    BY <1>1 DEF MarkExpired, Entry
  <2> QED
    BY <1>1, <2>1, <2>2, MarkExpiredType DEF Descends
<1>5. CASE k \notin Lapsed(s)
  BY <1>1, <1>3, <1>5 DEF Aged, Descends
<1> QED
  BY <1>1, <1>4, <1>5

LEMMA SameRules ==
  ASSUME NEW s, NEW g, NEW h, h.rules = g.rules
  PROVE  Ruled(h) = Ruled(g) /\ RulesFrom(h, g) /\ (GrantsLive(s, g) => GrantsLive(s, h))
BY DEF Ruled, RulesFrom, GrantsLive, LiveFor

Extra == Asked(setup) /\ GrantsLive(setup, registry)

\* A request that is not forwarded leaves what remained of the table, and the
\* rules alone.
LEMMA UnforwardedKeeps ==
  ASSUME Inv, Inv', Extra, NEW o \in Sendable,
         \/ RepeatPathOpen(o[1], o[2]) \/ UnroutedPathOpen(o[1], o[2])
         \/ LocalPathOpen(o[1], o[2])
  PROVE  Extra' /\ registry'.rules = registry.rules
<1> DEFINE x == Expire(setup)
<1>1. /\ o[1] \in Keys /\ o[2] \in Requests /\ x \in Tables /\ TableFrom(x, setup)
      /\ setup \in Tables /\ setup' \in Tables /\ registry \in Registries
      /\ registry' \in Registries
  BY RequestOK, ExpireFrom DEF Inv, TypeOK
<1>2. registry'.rules = registry.rules
  BY DEF RepeatPathOpen, UnroutedPathOpen, LocalPathOpen, RegisterEndpoint
<1>3. Asked(x) /\ GrantsLive(x, registry)
  BY <1>1, TableFromKeeps DEF Extra
<1>4. TableFrom(setup', x)
  <2>1. \/ setup' = x
        \/ setup' = Begin(x, o[1], o[2], None, 0)
        \/ setup' = Cancel(Begin(x, o[1], o[2], None, 0), o[1])
        \/ \E r \in Replies : setup' = Complete(Begin(x, o[1], o[2], None, 0), o[1], r)
    <3>1. Refusal \in Replies /\ Grant(<<o[1], o[2]>>, 0) \in Replies
      <4>1. 0 \in 0 .. MaxCids /\ o = <<o[1], o[2]>>
        BY RelayAssumption, RulesAssumption
      <4> QED
        BY <4>1 DEF Replies
    <3> QED
      BY <3>1 DEF RepeatPathOpen, UnroutedPathOpen, LocalPathOpen
  <2> HIDE DEF x
  <2>2. \A j \in Keys : j # o[1] => setup'.entries[j] = x.entries[j]
    BY <1>1, <2>1, LocalEntries DEF Replies
  <2>3. setup' = x \/ setup'.entries[o[1]].hop = None
    BY <1>1, <2>1, LocalEntries DEF Replies
  <2>4. \A j \in Present(x) : Descends(x.entries[j], x.entries[j])
    BY <1>1, EntryFields DEF Descends
  <2> QED
    BY <2>2, <2>3, <2>4 DEF TableFrom, Present
<1>5. Asked(setup') /\ GrantsLive(setup', registry)
  BY <1>1, <1>3, <1>4, TableFromKeeps
<1>6. GrantsLive(setup', registry')
  BY <1>2, <1>5, SameRules
<1> QED
  BY <1>2, <1>5, <1>6 DEF Extra

LEMMA ForwardedKeeps ==
  ASSUME Inv, Extra, NEW o \in Sendable, ForwardPathOpen(o[1], o[2])
  PROVE  Extra' /\ registry' = registry
<1> DEFINE x == Expire(setup)
           k == o[1]
           b == Begin(x, k, o[2], Route[o[2]], nextCid)
<1>1. /\ k \in Keys /\ o[2] \in Requests /\ x \in Tables /\ TableFrom(x, setup)
      /\ setup \in Tables /\ registry \in Registries
  BY RequestOK, ExpireFrom DEF Inv, TypeOK
<1>2. setup' = b /\ registry' = registry /\ Route[o[2]] \in DownstreamHops
  BY DEF ForwardPathOpen
<1>3. Asked(x) /\ GrantsLive(x, registry)
  BY <1>1, TableFromKeeps DEF Extra
<1>4. /\ b.entries[k].status = "pending" /\ b.entries[k].request = o[2]
      /\ b.entries[k].hop = Route[o[2]]
      /\ \A j \in Keys : j # k => b.entries[j] = x.entries[j]
  BY <1>1 DEF Begin, Tables
<1>5. <<k, o[2]>> \in Sendable
  BY RelayAssumption
<1> HIDE DEF b, x
<1>6. \A j \in Present(b) : j # k => j \in Present(x) /\ b.entries[j] = x.entries[j]
  BY <1>4 DEF Present
<1>7. Asked(b)
  BY <1>3, <1>4, <1>5, <1>6 DEF Asked
<1>8. GrantsLive(b, registry)
  BY <1>3, <1>4, <1>6 DEF GrantsLive, Granted
<1> QED
  BY <1>2, <1>7, <1>8 DEF Extra

\* The rules of a new pair, and the rules that were there.
LEMMA InstalledRules ==
  ASSUME TypeOK, NEW k \in Present(setup), NEW r, Installs(k, r),
         setup.entries[k].forward \in Cids, setup.entries[k].forward + 1 \in Cids
  PROVE  LET f == setup.entries[k].forward
             h == Installed(k, r)
         IN /\ h.rules[f] = There(k, r) /\ h.rules[f + 1] = Back(k, r)
            /\ f \notin Ruled(registry) /\ f + 1 \notin Ruled(registry)
            /\ \A c \in Cids : c \notin {f, f + 1} => h.rules[c] = registry.rules[c]
            /\ \A c \in Ruled(registry) : registry.rules[c].group # f
BY DEF Installs, Installed, InstallPair, WithRules, CanInstallPair, Routes, Cids

\* The answer that completes a transaction.
LEMMA CompletedKeeps ==
  ASSUME Inv, Extra, NEW k \in Present(setup), NEW r \in Answers, NEW o \in Sendable,
         r \in AnswersTo(o), setup.entries[k].hop # None,
         CanComplete(KeepAnswer(setup, k, r), k)
  PROVE  LET t == Complete(KeepAnswer(setup, k, r), k, Upstream(k, r))
         IN Asked(t) /\ GrantsLive(t, Installed(k, r))
<1> DEFINE t == Complete(KeepAnswer(setup, k, r), k, Upstream(k, r))
           h == Installed(k, r)
           e == setup.entries[k]
           f == e.forward
<1>1. /\ setup \in Tables /\ registry \in Registries /\ TypeOK
      /\ CidsOK(setup, registry, nextCid) /\ nextCid \in Nat
  BY DEF Inv, TypeOK
<1>2. e \in Entry /\ k \in Keys
  BY <1>1, EntryFields
<1>3. f \in Cids /\ f + 1 \in Cids
  BY <1>1, <1>2 DEF CidsOK, Cids, TypeOK, Entry
<1>4. /\ t.entries[k] = [[e EXCEPT !.answer = r] EXCEPT !.status = "ready",
                                                        !.keep = Retention,
                                                        !.reply = Upstream(k, r)]
      /\ \A j \in Keys : j # k => t.entries[j] = setup.entries[j]
  BY <1>1, <1>2 DEF Complete, KeepAnswer, Tables
<1>5. /\ t.entries[k].request = e.request /\ t.entries[k].hop = e.hop
      /\ t.entries[k].forward = f /\ t.entries[k].answer = r
      /\ t.entries[k].keep = Retention /\ t.entries[k].reply = Upstream(k, r)
  BY <1>2, <1>4 DEF Entry
<1> HIDE DEF t, h
<1>6. \A j \in Present(t) : j # k => j \in Present(setup) /\ t.entries[j] = setup.entries[j]
  BY <1>4 DEF Present
<1>7. Asked(t)
  BY <1>5, <1>6 DEF Asked, Extra
<1>8. r # None
  BY NullAssumption
<1>9. ASSUME NEW j \in Present(setup), j # k, Granted(setup.entries[j])
      PROVE  LiveFor(setup.entries[j].forward, setup.entries[j].keep, h)
  <2> DEFINE d == setup.entries[j].forward
  <2>1. LiveFor(d, setup.entries[j].keep, registry)
    BY <1>9 DEF Extra, GrantsLive
  <2>2. CASE Installs(k, r)
    <3>1. \A c \in Ruled(registry) : h.rules[c] = registry.rules[c] /\ c \in Ruled(h)
      BY <1>1, <1>3, <2>2, InstalledRules DEF Ruled, h
    <3> QED
      BY <2>1, <3>1 DEF LiveFor
  <2>3. CASE ~Installs(k, r)
    BY <2>1, <2>3 DEF Installed, h
  <2> QED
    BY <2>2, <2>3
<1>10. ASSUME Granted(t.entries[k])
       PROVE  LiveFor(f, Retention, h)
  <2>1. Installs(k, r)
    BY <1>5, <1>10 DEF Granted, Upstream, Refusal
  <2>2. EffectiveLease(r) >= Retention /\ r.ok
    BY <1>5, <1>10, <2>1 DEF Granted, Installs
  <2>3. h.rules[f] = There(k, r) /\ h.rules[f + 1] = Back(k, r)
    BY <1>1, <1>3, <2>1, InstalledRules DEF h
  <2>4. There(k, r) \in RuleType /\ Back(k, r) \in RuleType
    BY <1>1, <1>3, <2>2, AnswerTypes
  <2>5. /\ There(k, r).group = f /\ There(k, r).left = EffectiveLease(r)
        /\ There(k, r).lease = EffectiveLease(r)
    BY DEF There, Rule
  <2>6. {f, f + 1} \subseteq Ruled(h)
    BY <1>3, <2>3, <2>4 DEF Ruled
  <2> QED
    BY <2>2, <2>3, <2>5, <2>6 DEF LiveFor
<1>11. GrantsLive(t, h)
  <2>1. Retention <= Retention
    OBVIOUS
  <2> SUFFICES ASSUME NEW j \in Present(t)
               PROVE  /\ t.entries[j].hop # None /\ t.entries[j].status = "ready"
                           => t.entries[j].answer # None /\ t.entries[j].keep <= Retention
                      /\ Granted(t.entries[j])
                           => LiveFor(t.entries[j].forward, t.entries[j].keep, h)
    BY DEF GrantsLive
  <2>3. CASE j = k
    BY <1>5, <1>8, <1>10, <2>1, <2>3
  <2>4. CASE j # k
    BY <1>6, <1>9, <2>4 DEF Extra, GrantsLive
  <2> QED
    BY <2>3, <2>4
<1> QED
  BY <1>7, <1>11 DEF t, h

\* RecvPathOpenAck keeps the grants live: an answer is kept by a transaction
\* that is still pending, or taken again by none.
LEMMA AnswerKeeps ==
  ASSUME Inv, Extra, NEW hop \in DownstreamHops, NEW o \in Sendable, NEW r \in Answers,
         RecvPathOpenAck(hop, o, r)
  PROVE  /\ Extra'
         /\ \/ registry' = registry
            \/ \E k \in Present(setup) :
                 /\ registry' = Installed(k, r) /\ Installs(k, r)
                 /\ setup.entries[k].hop = hop /\ Route[o[2]] = hop
                 /\ TransactionId(k) = TransactionId(o[1]) /\ r \in AnswersTo(o)
                 /\ setup.entries[k].forward \in Cids /\ setup.entries[k].forward + 1 \in Cids
<1>1. PICK k \in Keys :
        /\ Validates(k, hop, TransactionId(o[1]), r)
        /\ \/ /\ CanComplete(KeepAnswer(setup, k, r), k)
              /\ setup' = Complete(KeepAnswer(setup, k, r), k, Upstream(k, r))
              /\ registry' = Installed(k, r)
           \/ /\ setup' = KeepAnswer(setup, k, r)
              /\ registry' = IF Installs(k, r)
                               THEN RemovePair(Installed(k, r), setup.entries[k].forward)
                               ELSE Installed(k, r)
           \/ /\ setup' = KeepAnswer(setup, k, r)
              /\ registry' = registry
  BY DEF RecvPathOpenAck
<1>2. r \in AnswersTo(o) /\ Route[o[2]] = hop
  BY DEF RecvPathOpenAck
<1>3. /\ k \in Present(setup) /\ setup.entries[k].hop = hop /\ hop # None
      /\ TransactionId(k) = TransactionId(o[1])
  BY <1>1, TableAssumption DEF Validates, IsFirstMatch, Matches
<1>4. /\ setup \in Tables /\ Counted(setup) /\ registry \in Registries /\ TypeOK
      /\ Paired(registry) /\ CidsOK(setup, registry, nextCid) /\ nextCid \in 1 .. MaxCids + 1
  BY DEF Inv, TypeOK
<1>5. setup.entries[k].forward \in Cids /\ setup.entries[k].forward + 1 \in Cids
  BY <1>3, <1>4 DEF CidsOK, Cids, Tables, Entry, Present
<1>6. ~Installs(k, r) => Installed(k, r) = registry
  BY DEF Installed
<1>7. CASE /\ CanComplete(KeepAnswer(setup, k, r), k)
           /\ setup' = Complete(KeepAnswer(setup, k, r), k, Upstream(k, r))
           /\ registry' = Installed(k, r)
  <2>1. Extra'
    BY <1>2, <1>3, <1>7, CompletedKeeps DEF Extra
  <2> QED
    BY <1>2, <1>3, <1>5, <1>6, <1>7, <2>1
<1>8. CASE setup' = KeepAnswer(setup, k, r) /\ registry' = registry
  <2>1. setup' \in Tables
    BY <1>3, <1>4, <1>8, KeepAnswerOK
  <2>2. setup.entries[k].status = "pending"
    <3>1. setup.entries[k].status \in {"pending", "ready", "expired"}
      BY <1>3, <1>4, EntryFields DEF Entry
    <3>2. setup.entries[k].status # "ready"
      BY <1>1, <1>3 DEF Validates, Extra, GrantsLive
    <3> QED
      BY <1>1, <3>1, <3>2 DEF Validates
  <2>3. setup'.entries[k].request = setup.entries[k].request
    BY <1>3, <1>4, <1>8, EntryFields DEF KeepAnswer, Tables, Entry
  <2>4. /\ \A j \in Keys : j # k => setup'.entries[j] = setup.entries[j]
        /\ setup'.entries[k].status = "pending"
        /\ setup'.entries[k].hop = setup.entries[k].hop
        /\ setup'.entries[k].forward = setup.entries[k].forward
    BY <1>3, <1>4, <1>8, <2>2, KeepAnswerOK
  <2>5. \A j \in Present(setup) : Descends(setup.entries[j], setup.entries[j])
    BY <1>4, EntryFields DEF Descends
  <2>6. ASSUME NEW j \in Present(setup')
        PROVE  j \in Present(setup) /\ Descends(setup'.entries[j], setup.entries[j])
    <3>1. CASE j = k
      BY <1>3, <2>3, <2>4, <3>1 DEF Descends
    <3>2. CASE j # k
      BY <2>4, <2>5, <3>2 DEF Present
    <3> QED
      BY <3>1, <3>2
  <2>7. TableFrom(setup', setup)
    BY <2>6 DEF TableFrom
  <2> QED
    BY <1>4, <1>8, <2>1, <2>7, TableFromKeeps DEF Extra
<1>9. CASE /\ setup' = KeepAnswer(setup, k, r)
           /\ registry' = IF Installs(k, r)
                            THEN RemovePair(Installed(k, r), setup.entries[k].forward)
                            ELSE Installed(k, r)
  <2>1. ASSUME Installs(k, r)
        PROVE  RemovePair(Installed(k, r), setup.entries[k].forward) = registry
    <3> DEFINE f == setup.entries[k].forward
    <3>1. Installed(k, r) = InstallPair(registry, f, There(k, r), f + 1, Back(k, r))
      BY <2>1 DEF Installed
    <3>2. r.ok /\ CanInstallPair(registry, f, f + 1)
      BY <2>1 DEF Installs
    <3>3. /\ There(k, r) \in RuleType /\ Back(k, r) \in RuleType
          /\ There(k, r).group = f /\ Back(k, r).group = f
          /\ There(k, r).left = Back(k, r).left /\ There(k, r).lease = Back(k, r).lease
      BY <1>2, <1>3, <1>4, <1>5, <3>2, AnswerTypes
    <3> QED
      BY <1>4, <1>5, <3>1, <3>2, <3>3, InstallPairOK
  <2> QED
    BY <1>6, <1>8, <1>9, <2>1
<1> QED
  BY <1>1, <1>7, <1>8, <1>9

\* A step of the registry alone.
LEMMA RegistryKeeps ==
  ASSUME Inv, Inv', Extra, setup' = setup, RulesFrom(registry', registry),
         PairsLive(registry', registry)
  PROVE  Extra'
BY RulesFromKeeps DEF Extra, Inv, TypeOK

LEMMA PacketKeeps ==
  ASSUME Inv, Inv', Extra, NEW c \in Cids,
         \/ RemoveAssociation(c) \/ RefusePacket(c)
         \/ \E control, established \in BOOLEAN : ForwardPacket(c, control, established)
  PROVE  Extra' /\ RulesFrom(registry', registry)
<1>1. registry \in Registries /\ Paired(registry) /\ registry' \in Registries
  BY DEF Inv, TypeOK
<1>2. CASE RemoveAssociation(c)
  <2>1. setup' = setup /\ registry'.rules = registry.rules
    BY <1>2 DEF RemoveAssociation, RemoveEndpoint
  <2> QED
    BY <2>1, SameRules DEF Extra
<1>3. CASE RefusePacket(c)
  <2>1. setup' = setup /\ registry' = AfterLeaseCheck(registry, c)
    BY <1>3 DEF RefusePacket
  <2>2. RulesFrom(registry', registry) /\ PairsLive(registry', registry)
    BY <1>1, <2>1, LeaseCheckRules
  <2> QED
    BY <2>1, <2>2, RegistryKeeps
<1>4. ASSUME NEW control \in BOOLEAN, NEW established \in BOOLEAN,
             ForwardPacket(c, control, established)
      PROVE  Extra' /\ RulesFrom(registry', registry)
  <2> DEFINE used == ConsumeQuota(registry, c, control)
  <2>1. /\ c \in Ruled(registry) /\ setup' = setup
        /\ registry' \in {used, RefreshLease(used, c)}
    BY <1>4 DEF ForwardPacket
  <2>2. /\ used \in Registries /\ Paired(used) /\ c \in Ruled(used)
        /\ RulesFrom(used, registry) /\ PairsLive(used, registry)
    BY <1>1, <2>1, ConsumeQuotaOK, ConsumeQuotaRules
  <2> HIDE DEF used
  <2>3. setup \in Tables /\ GrantsLive(setup, used)
    BY <1>1, <2>2, RulesFromKeeps DEF Extra, Inv, TypeOK
  <2>4. CASE registry' = used
    BY <2>1, <2>2, <2>3, <2>4 DEF Extra
  <2>5. CASE registry' = RefreshLease(used, c)
    <3>1. RulesFrom(registry', used) /\ PairsLive(registry', used)
      BY <2>2, <2>5, RefreshLeaseRules
    <3>2. GrantsLive(setup, registry')
      BY <1>1, <2>2, <2>3, <3>1, RulesFromKeeps
    <3>3. RulesFrom(registry', registry)
      BY <2>2, <3>1 DEF RulesFrom
    <3> QED
      BY <2>1, <3>2, <3>3 DEF Extra
  <2> QED
    BY <2>1, <2>4, <2>5
<1> QED
  BY <1>2, <1>3, <1>4

LEMMA TimerKeeps ==
  ASSUME Inv, Inv', Extra, TimerExpired
  PROVE  Extra' /\ RulesFrom(registry', registry)
<1>1. /\ registry \in Registries /\ Paired(registry) /\ registry' \in Registries
      /\ setup \in Tables /\ setup' \in Tables
  BY DEF Inv, TypeOK
<1>2. setup' = Expire(setup) /\ registry' = ExpireLeases(registry)
  BY DEF TimerExpired
<1>3. RulesFrom(registry', registry) /\ PairsLive(registry', registry)
  BY <1>1, <1>2, ExpireLeasesRules
<1>4. GrantsLive(setup, registry')
  BY <1>1, <1>3, RulesFromKeeps DEF Extra
<1>5. TableFrom(setup', setup)
  BY <1>1, <1>2, ExpireFrom
<1> QED
  BY <1>1, <1>3, <1>4, <1>5, TableFromKeeps DEF Extra

\* Time passes for a grant and for its rules alike.
LEMMA TickKeeps ==
  ASSUME Inv, Inv', Extra, Tick
  PROVE  Extra' /\ RulesFrom(registry', registry)
<1>1. /\ registry \in Registries /\ Paired(registry) /\ Counted(setup)
      /\ setup \in Tables /\ setup' \in Tables
  BY DEF Inv, TypeOK
<1>2. setup' = Older(setup) /\ registry' = OlderRules(registry)
  BY DEF Tick
<1>3. Present(setup') = Present(setup) /\ Ruled(registry') = Ruled(registry)
  BY <1>1, <1>2, OlderOK, OlderRulesOK
<1>4. ASSUME NEW k \in Present(setup)
      PROVE  LET e == setup'.entries[k]
                 x == setup.entries[k]
             IN /\ e.request = x.request /\ e.hop = x.hop /\ e.forward = x.forward
                /\ e.status = x.status /\ e.answer = x.answer /\ e.reply = x.reply
                /\ x.keep \in Nat /\ e.keep = Monus(x.keep, 1)
  <2>1. setup.entries[k] \in Entry /\ setup.entries[k].keep \in Nat
    BY <1>1, EntryFields
  <2>2. setup'.entries[k] = Later(setup.entries[k])
    BY <1>2 DEF Older, Present
  <2> QED
    BY <2>1, <2>2 DEF Later, Entry
<1>5. ASSUME NEW c \in Ruled(registry)
      PROVE  LET r == registry'.rules[c]
                 y == registry.rules[c]
             IN /\ r.dest = y.dest /\ r.group = y.group /\ r.lease = y.lease
                /\ y.left \in Nat /\ r.left = IF y.left > 0 THEN y.left - 1 ELSE 0
  <2>1. registry.rules[c] \in RuleType /\ c \in Cids /\ registry.rules[c].left \in Nat
    BY <1>1, RuleFields, RuleNumbers
  <2>2. registry'.rules[c] = OlderRule(registry.rules[c])
    BY <1>2, <2>1 DEF OlderRules, WithRules, Ruled
  <2> QED
    BY <2>1, <2>2 DEF OlderRule, RuleType
<1>6. RulesFrom(registry', registry)
  BY <1>3, <1>5 DEF RulesFrom
<1>7. Asked(setup')
  BY <1>3, <1>4 DEF Extra, Asked
<1>8. GrantsLive(setup', registry')
  <2>1. ASSUME NEW k \in Present(setup'), setup'.entries[k].hop # None,
               setup'.entries[k].status = "ready"
        PROVE  setup'.entries[k].answer # None /\ setup'.entries[k].keep <= Retention
    <3>1. setup.entries[k].answer # None /\ setup.entries[k].keep <= Retention
      BY <1>3, <1>4, <2>1 DEF Extra, GrantsLive
    <3> QED
      BY <1>3, <1>4, <3>1 DEF Monus
  <2>2. ASSUME NEW k \in Present(setup'), Granted(setup'.entries[k])
        PROVE  LiveFor(setup'.entries[k].forward, setup'.entries[k].keep, registry')
    <3> DEFINE x == setup.entries[k]
               e == setup'.entries[k]
    <3>1. x.keep \in Nat /\ e.keep = x.keep - 1 /\ x.keep > 0
      BY <1>3, <1>4, <2>2 DEF Granted, Monus
    <3>2. Granted(x)
      BY <1>3, <1>4, <2>2, <3>1 DEF Granted
    <3>3. LiveFor(x.forward, x.keep, registry)
      BY <1>3, <3>2 DEF Extra, GrantsLive
    <3>4. x.forward \in Ruled(registry)
      BY <3>3 DEF LiveFor
    <3>5. /\ registry.rules[x.forward].left \in Nat
          /\ registry'.rules[x.forward].left = registry.rules[x.forward].left - 1
      BY <1>5, <3>1, <3>3, <3>4 DEF LiveFor
    <3>6. e.forward = x.forward
      BY <1>3, <1>4
    <3> QED
      BY <1>3, <1>5, <3>1, <3>3, <3>4, <3>5, <3>6 DEF LiveFor
  <2> QED
    BY <2>1, <2>2 DEF GrantsLive
<1> QED
  BY <1>6, <1>7, <1>8 DEF Extra

\* Every step keeps the grants live, and but for the pair that an answer
\* installs takes its rules from the ones that were there.
LEMMA ExtraStep ==
  ASSUME Inv, Inv', Extra, [Next]_vars
  PROVE  /\ Extra'
         /\ \/ RulesFrom(registry', registry)
            \/ \E hop \in DownstreamHops, o \in Sendable, r \in Answers :
                 RecvPathOpenAck(hop, o, r)
<1>1. CASE \E o \in Sendable :
             \/ RepeatPathOpen(o[1], o[2])
             \/ UnroutedPathOpen(o[1], o[2])
             \/ LocalPathOpen(o[1], o[2])
  BY <1>1, UnforwardedKeeps, SameRules
<1>2. CASE \E o \in Sendable : ForwardPathOpen(o[1], o[2])
  BY <1>2, ForwardedKeeps, SameRules
<1>3. CASE \E hop \in DownstreamHops, o \in Sendable, r \in Answers :
             RecvPathOpenAck(hop, o, r)
  BY <1>3, AnswerKeeps
<1>4. CASE \E c \in Cids : RemoveAssociation(c) \/ RefusePacket(c)
  BY <1>4, PacketKeeps
<1>5. CASE \E c \in Cids, control, established \in BOOLEAN :
             ForwardPacket(c, control, established)
  BY <1>5, PacketKeeps
<1>6. CASE Tick
  BY <1>6, TickKeeps
<1>7. CASE TimerExpired
  BY <1>7, TimerKeeps
<1>8. CASE UNCHANGED vars
  BY <1>8, SameRules DEF vars, Extra
<1> QED
  BY <1>1, <1>2, <1>3, <1>4, <1>5, <1>6, <1>7, <1>8 DEF Next

LEMMA ExtraInit == Init => Extra
BY DEF Init, Extra, Asked, GrantsLive, Present, EmptyTable

\* An answer meets a transaction of its id, forwarded to the hop it came from.
LEMMA ServedStep ==
  ASSUME Inv, Inv', Extra, OnlyEqualIdsMix, [Next]_vars
  PROVE  OnlyEqualIdsMix'
<1>1. CASE RulesFrom(registry', registry)
  BY <1>1, DestsKept DEF OnlyEqualIdsMix
<1>2. ASSUME NEW hop \in DownstreamHops, NEW o \in Sendable, NEW r \in Answers,
             RecvPathOpenAck(hop, o, r)
      PROVE  OnlyEqualIdsMix'
  <2>1. CASE registry' = registry
    BY <2>1 DEF OnlyEqualIdsMix
  <2>2. ASSUME NEW k \in Present(setup), registry' = Installed(k, r), Installs(k, r),
               setup.entries[k].hop = hop, Route[o[2]] = hop,
               TransactionId(k) = TransactionId(o[1]), r \in AnswersTo(o),
               setup.entries[k].forward \in Cids, setup.entries[k].forward + 1 \in Cids
        PROVE  OnlyEqualIdsMix'
    <3> DEFINE f == setup.entries[k].forward
               p == <<k, setup.entries[k].request>>
    <3>1. hop # None
      BY TableAssumption
    <3>2. p \in Sendable /\ Route[p[2]] = hop /\ TransactionId(p[1]) = TransactionId(k)
      BY <2>2, <3>1 DEF Extra, Asked
    <3>3. Alike(o, p) /\ Alike(p, o) /\ Alike(o, o) /\ Alike(p, p)
      BY <2>2, <3>2 DEF Alike
    <3>4. r.ok /\ r.origin = o
      <4>1. r.ok
        BY <2>2 DEF Installs
      <4> QED
        BY <2>2, <4>1 DEF AnswersTo, Accepted, Rejected
    <3>5. /\ There(k, r).dest = o /\ Back(k, r).dest = p
          /\ There(k, r).group = f /\ Back(k, r).group = f
      BY <3>4 DEF There, Back, Rule
    <3>6. TypeOK
      BY DEF Inv
    <3> HIDE DEF f, p
    <3>7. /\ registry'.rules[f] = There(k, r) /\ registry'.rules[f + 1] = Back(k, r)
          /\ \A c \in Cids : c \notin {f, f + 1} => registry'.rules[c] = registry.rules[c]
          /\ \A c \in Ruled(registry) : registry.rules[c].group # f
      BY <2>2, <3>6, InstalledRules DEF f
    <3>8. \A c \in Ruled(registry') :
            \/ registry'.rules[c].dest \in {o, p} /\ registry'.rules[c].group = f
            \/ /\ c \in Ruled(registry) /\ registry'.rules[c] = registry.rules[c]
               /\ registry'.rules[c].group # f
      BY <3>5, <3>7 DEF Ruled
    <3> QED
      BY <3>3, <3>8 DEF OnlyEqualIdsMix
  <2> QED
    BY <1>2, <2>1, <2>2, AnswerKeeps
<1> QED
  BY <1>1, <1>2, ExtraStep

LEMMA GrantsLiveImplies == Inv /\ Extra => ReplayedGrantIsLive
<1> SUFFICES ASSUME Inv, Extra, NEW k \in Present(setup), Granted(setup.entries[k])
             PROVE  LET f == setup.entries[k].forward
                    IN {f, f + 1} \subseteq Ruled(registry) /\ registry.rules[f].left > 0
  BY DEF ReplayedGrantIsLive, Granted
<1> DEFINE f == setup.entries[k].forward
<1>1. LiveFor(f, setup.entries[k].keep, registry)
  BY DEF Extra, GrantsLive
<1>2. setup.entries[k].keep \in Nat /\ setup.entries[k].keep > 0
  BY EntryFields DEF Inv, TypeOK, Granted
<1>3. registry.rules[f].left \in Nat
  BY <1>1, RuleNumbers DEF LiveFor, Inv, TypeOK
<1> QED
  BY <1>1, <1>2, <1>3 DEF LiveFor

\* While the relay may replay a grant, both rules of the path it grants are
\* installed and their lease runs, however answers, packets and timers race,
\* if the lease is no shorter than the retention.
THEOREM ReplayedGrantsAreLive == Spec => []ReplayedGrantIsLive
<1>1. Inv /\ Extra /\ [Next]_vars => Inv' /\ Extra'
  BY InvStep, ExtraStep
<1> QED
  BY <1>1, InvInit, ExtraInit, GrantsLiveImplies, PTL DEF Spec

\* Whatever transaction ids openers choose, and however requests, answers and
\* timers race, the two directions of a path serve requests of one id to one
\* next hop: a request whose id is its own there is never joined to another.
THEOREM PathsServeOneTransaction == Spec => []OnlyEqualIdsMix
<1>1. Init => OnlyEqualIdsMix
  BY DEF Init, OnlyEqualIdsMix, EmptyRegistry, Ruled
<1>2. Inv /\ Extra /\ [Next]_vars => Inv' /\ Extra'
  BY InvStep, ExtraStep
<1>3. Inv /\ Extra /\ OnlyEqualIdsMix /\ [Next]_vars => OnlyEqualIdsMix'
  BY InvStep, ServedStep
<1> QED
  BY <1>1, <1>2, <1>3, InvInit, ExtraInit, PTL DEF Spec
============================================================================
