------------------------- MODULE CompletionMailbox -------------------------
(***************************************************************************)
(* The completion half of bearer.rs's CompletionQueue: CallbackSlots, a    *)
(* fixed, unordered mailbox through which driver callbacks hand packet     *)
(* leases back to the QUIC owner.  Producers scan the slots from the first *)
(* and claim an empty one by compare-exchange; the owner scans from a      *)
(* rotating cursor.  Nobody waits: a producer that finds every slot taken  *)
(* panics ("completion queue invariant violated").                         *)
(*                                                                         *)
(* The packet lease is the unit of concurrency.  A lease is free in the    *)
(* pool, in flight at a bearer, being pushed by the callback that completed*)
(* it, stored in a slot, or popped by the owner.                           *)
(***************************************************************************)
EXTENDS Integers, FiniteSets

CONSTANTS
  Leases,    \* the slots of the packet pool
  Capacity,  \* number of mailbox slots: the pool's capacity at construction
  None       \* no lease

ASSUME LeasesAssumption ==
  /\ IsFiniteSet(Leases)
  /\ None \notin Leases
ASSUME CapacityAssumption == Capacity \in Nat \ {0}
\* CompletionQueue::new(pool.capacity().max(1)), and the pool has not grown.
ASSUME PoolFitsMailbox == Cardinality(Leases) <= Capacity

Index == 0 .. Capacity - 1
SlotStates == {"empty", "writing", "ready", "reading"}
Places == {"pool", "flight", "scan", "write", "stored", "owner"}

VARIABLES
  state,    \* state[i]: the atomic state of slot i
  value,    \* value[i]: the memory of slot i (None: never written)
  cursor,   \* where the owner's next pop starts
  lease,    \* lease[l]: where lease l is, and its slot or scan position
  pop       \* the owner's progress through pop

mailboxVars == <<state, value, cursor, lease, pop>>

IdlePop == [pc |-> "idle", start |-> 0, offset |-> 0, got |-> None]
PopPcs == {"idle", "scan", "read", "clear", "rotate", "done"}
PopIndex == (pop.start + pop.offset) % Capacity

Put(l, where, at) == lease' = [lease EXCEPT ![l] = [place |-> where, pos |-> at]]

MailboxInit ==
  /\ state = [i \in Index |-> "empty"]
  /\ value = [i \in Index |-> None]
  /\ cursor = 0
  /\ lease = [l \in Leases |-> [place |-> "pool", pos |-> 0]]
  /\ pop = IdlePop

\* The owner acquires a packet and a bearer accepts it.
Submit(l) ==
  /\ lease[l].place = "pool"
  /\ Put(l, "flight", 0)
  /\ UNCHANGED <<state, value, cursor, pop>>

\* A driver callback completes the packet: send_completed calls push.
Complete(l) ==
  /\ lease[l].place = "flight"
  /\ Put(l, "scan", 0)
  /\ UNCHANGED <<state, value, cursor, pop>>

\* Mutant: a compare-exchange that may fail spuriously.
PushClaimWeak(l) ==
  /\ lease[l].place = "scan"
  /\ lease[l].pos \in Index
  /\ \/ /\ state[lease[l].pos] = "empty"
        /\ state' = [state EXCEPT ![lease[l].pos] = "writing"]
        /\ Put(l, "write", lease[l].pos)
     \/ /\ Put(l, "scan", lease[l].pos + 1)
        /\ UNCHANGED state
  /\ UNCHANGED <<value, cursor, pop>>

\* Mutant: any slot that is not being written is taken.
PushClaimBusy(l) ==
  /\ lease[l].place = "scan"
  /\ lease[l].pos \in Index
  /\ IF state[lease[l].pos] # "writing"
       THEN /\ state' = [state EXCEPT ![lease[l].pos] = "writing"]
            /\ Put(l, "write", lease[l].pos)
       ELSE /\ Put(l, "scan", lease[l].pos + 1)
            /\ UNCHANGED state
  /\ UNCHANGED <<value, cursor, pop>>

\* push: compare-exchange the next slot from EMPTY to WRITING.
PushClaim(l) ==
  /\ lease[l].place = "scan"
  /\ lease[l].pos \in Index
  /\ IF state[lease[l].pos] = "empty"
       THEN /\ state' = [state EXCEPT ![lease[l].pos] = "writing"]
            /\ Put(l, "write", lease[l].pos)
       ELSE /\ Put(l, "scan", lease[l].pos + 1)
            /\ UNCHANGED state
  /\ UNCHANGED <<value, cursor, pop>>

\* push: write the value, then publish it.
PushWrite(l) ==
  /\ lease[l].place = "write"
  /\ value[lease[l].pos] # l
  /\ value' = [value EXCEPT ![lease[l].pos] = l]
  /\ UNCHANGED <<state, cursor, lease, pop>>

PushPublish(l) ==
  /\ lease[l].place = "write"
  /\ value[lease[l].pos] = l
  /\ state' = [state EXCEPT ![lease[l].pos] = "ready"]
  /\ Put(l, "stored", lease[l].pos)
  /\ UNCHANGED <<value, cursor, pop>>

\* pop: read the cursor.
PopBegin ==
  /\ pop.pc = "idle"
  /\ pop' = [IdlePop EXCEPT !.pc = "scan", !.start = cursor]
  /\ UNCHANGED <<state, value, cursor, lease>>

\* pop: compare-exchange the next slot from READY to READING.
PopClaim ==
  /\ pop.pc = "scan"
  /\ pop.offset < Capacity
  /\ IF state[PopIndex] = "ready"
       THEN /\ state' = [state EXCEPT ![PopIndex] = "reading"]
            /\ pop' = [pop EXCEPT !.pc = "read"]
       ELSE /\ pop' = [pop EXCEPT !.offset = @ + 1]
            /\ UNCHANGED state
  /\ UNCHANGED <<value, cursor, lease>>

\* pop: every slot was looked at, None.
PopEmpty ==
  /\ pop.pc = "scan"
  /\ pop.offset = Capacity
  /\ pop' = IdlePop
  /\ UNCHANGED <<state, value, cursor, lease>>

\* Mutant: the value is read where the scan began.
PopReadAtStart ==
  /\ pop.pc = "read"
  /\ pop' = [pop EXCEPT !.pc = "clear", !.got = value[pop.start]]
  /\ UNCHANGED <<state, value, cursor, lease>>

\* pop: move the value out (assume_init_read).
PopRead ==
  /\ pop.pc = "read"
  /\ pop' = [pop EXCEPT !.pc = "clear", !.got = value[PopIndex]]
  /\ UNCHANGED <<state, value, cursor, lease>>

\* pop: mark the slot EMPTY; the lease is the owner's now.
PopClear ==
  /\ pop.pc = "clear"
  /\ state' = [state EXCEPT ![PopIndex] = "empty"]
  /\ Put(pop.got, "owner", 0)
  /\ pop' = [pop EXCEPT !.pc = "rotate"]
  /\ UNCHANGED <<value, cursor>>

\* Mutant: the cursor never moves.
PopRotateNever ==
  /\ pop.pc = "rotate"
  /\ pop' = [pop EXCEPT !.pc = "done"]
  /\ UNCHANGED <<state, value, cursor, lease>>

PopRotate ==
  /\ pop.pc = "rotate"
  /\ cursor' = (PopIndex + 1) % Capacity
  /\ pop' = [pop EXCEPT !.pc = "done"]
  /\ UNCHANGED <<state, value, lease>>

\* The owner accounts the completion and drops the lease.
Release ==
  /\ pop.pc = "done"
  /\ Put(pop.got, "pool", 0)
  /\ pop' = IdlePop
  /\ UNCHANGED <<state, value, cursor>>

Push(l) == PushClaim(l) \/ PushWrite(l) \/ PushPublish(l)
Pop == PopBegin \/ PopClaim \/ PopEmpty \/ PopRead \/ PopClear \/ PopRotate \/ Release

MailboxNext ==
  \/ \E l \in Leases : Submit(l) \/ Complete(l) \/ Push(l)
  \/ Pop

\* Callbacks run to completion, and the owner, woken by each push, polls.
MailboxFairness ==
  /\ WF_mailboxVars(Pop)
  /\ \A l \in Leases : WF_mailboxVars(Push(l))

MailboxSpec == MailboxInit /\ [][MailboxNext]_mailboxVars /\ MailboxFairness

-----------------------------------------------------------------------------
\* Type correctness; a scan position may have run off the end.
MailboxTypeOK ==
  /\ state \in [Index -> SlotStates]
  /\ value \in [Index -> Leases \cup {None}]
  /\ cursor \in Index
  /\ lease \in [Leases -> [place : Places, pos : 0 .. Capacity]]
  /\ pop \in [pc : PopPcs, start : Index, offset : 0 .. Capacity, got : Leases \cup {None}]

\* "completion queue invariant violated" never fires: a producer finds an
\* empty slot before it runs off the end, although slots empty and fill
\* again behind its scan.
PushNeverFails ==
  \A l \in Leases : lease[l].place = "scan" => lease[l].pos # Capacity

\* Every lease a callback has put into a slot is there exactly once, and only
\* the callback that claimed the slot or the owner that claimed it touches it:
\* nothing is overwritten, lost or handed over twice.
SlotsHoldLeases ==
  /\ \A l \in Leases :
       /\ lease[l].place = "write" =>
            /\ lease[l].pos \in Index /\ state[lease[l].pos] = "writing"
       /\ lease[l].place = "stored" =>
            /\ lease[l].pos \in Index /\ value[lease[l].pos] = l
            /\ state[lease[l].pos] \in {"ready", "reading"}
  /\ \A l, m \in Leases :
       /\ lease[l].place \in {"write", "stored"} /\ lease[m].place \in {"write", "stored"}
       /\ lease[l].pos = lease[m].pos
       => l = m
  /\ \A i \in Index : state[i] # "empty" =>
       \E l \in Leases : lease[l].place \in {"write", "stored"} /\ lease[l].pos = i

\* What the owner pops is an initialised value that is still stored.
PopReadsStored ==
  pop.pc \in {"read", "clear"} =>
    /\ value[PopIndex] \in Leases
    /\ lease[value[PopIndex]] = [place |-> "stored", pos |-> PopIndex]
    /\ pop.pc = "clear" => pop.got = value[PopIndex]

\* Why a scan never runs off the end: at most Capacity - i leases sit at or
\* beyond slot i, because a producer passes a slot only while another lease
\* occupies it.
Beyond(i) ==
  {l \in Leases : lease[l].place \in {"scan", "write", "stored"} /\ lease[l].pos >= i}
CrowdBound == \A i \in 0 .. Capacity : Cardinality(Beyond(i)) <= Capacity - i

\* No completion starves: the rotating cursor returns every lease that was
\* completed to the pool, however busy the other slots are.
CompletedIsReturned ==
  \A l \in Leases : lease[l].place = "scan" ~> lease[l].place = "pool"
=============================================================================
