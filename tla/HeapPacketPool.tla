--------------------------- MODULE HeapPacketPool ---------------------------
(***************************************************************************)
(* The heap-backed packet pool of quic-lite (heap_packet_pool.rs).         *)
(*                                                                         *)
(* One owner task resizes the pool; driver callbacks acquire, commit,      *)
(* clone and drop packet slots.  The slot table is a pair of atomics per   *)
(* slot, a buffer pointer and a reference count, and one spin lock the     *)
(* owner takes unconditionally and callbacks only try.  Every atomic       *)
(* access that another thread can observe is a step of its own.            *)
(*                                                                         *)
(* Data abstraction: a buffer pointer is null or not (buffers[s] is a      *)
(* Boolean), packet bytes are left out, and the heap may fail any          *)
(* allocation.  The handles the program holds (HeapPacketWriter and        *)
(* HeapPacketLease values) are counted in writers and leases: those two    *)
(* variables are what Rust's ownership keeps, not pool state.              *)
(***************************************************************************)
EXTENDS Integers, FiniteSets

CONSTANTS
  MaxSlots,     \* MAX_SLOTS, the compile-time table size
  Callbacks,    \* contexts that call the pool and never run resize
  Owner,        \* the task that resizes the pool
  Nobody,       \* the lock is free
  Reserved,     \* slots acquire_writer keeps free for the node's traffic
  MaxLeases     \* bound: clones of one lease (the code's is WRITER - 1)

ASSUME MaxSlotsAssumption == MaxSlots \in Nat
ASSUME ThreadAssumption ==
  /\ Owner \notin Callbacks
  /\ Nobody \notin Callbacks \cup {Owner}
ASSUME ReservedAssumption == Reserved \in Nat
ASSUME MaxLeasesAssumption == MaxLeases \in Nat /\ 0 < MaxLeases /\ MaxLeases < 254

Slots == 0 .. MaxSlots - 1

\* The reference value of a slot that is being written, or has no storage.
WRITER == 255

VARIABLES
  lock,         \* who holds the pool lock
  capacity,     \* active slots: 0 .. capacity - 1
  buffers,      \* buffers[s]: slot s has heap storage
  references,   \* references[s]: the slot's atomic reference count
  writers,      \* slots for which a HeapPacketWriter exists
  leases,       \* leases[s]: number of HeapPacketLease values of slot s
  resize,       \* the owner's progress through resize
  callback      \* callback[c]: c's progress through a pool call

pool == <<lock, capacity, buffers, references>>
vars == <<lock, capacity, buffers, references, writers, leases, resize, callback>>

(***************************************************************************)
(* The owner.  resize.pc walks through the body of resize: "scan" reads    *)
(* the buffer pointers and allocates, "wait" spins for the lock, "install" *)
(* and "retire" are the loops under it, "publish" stores the capacity,     *)
(* "reclaim" is reclaim_retired_locked and "unlock" drops the guard.       *)
(***************************************************************************)
OwnerPcs == {"idle", "scan", "wait", "install", "publish", "retire", "reclaim", "unlock"}
IdleResize == [pc |-> "idle", goal |-> 0, target |-> 0, current |-> 0,
               slot |-> 0, pending |-> {}]
ResizeStates == [pc : OwnerPcs, goal : 0 .. MaxSlots, target : 0 .. MaxSlots,
                 current : 0 .. MaxSlots, slot : 0 .. MaxSlots, pending : SUBSET Slots]

CallbackPcs == {"idle", "count", "store", "unlock", "check", "try", "recheck"}
IdleCallback == [pc |-> "idle", slot |-> 0]
CallbackStates == [pc : CallbackPcs, slot : 0 .. MaxSlots]

Free(s) == references[s] = 0
Available == {s \in 0 .. capacity - 1 : Free(s)}

Init ==
  /\ lock = Nobody
  /\ capacity = 0
  /\ buffers = [s \in Slots |-> FALSE]
  /\ references = [s \in Slots |-> WRITER]
  /\ writers = {}
  /\ leases = [s \in Slots |-> 0]
  /\ resize = IdleResize
  /\ callback = [c \in Callbacks |-> IdleCallback]

\* A call of resize(target) that is the next one on the way to goal.
ResizeCall(target, goal) ==
  [pc |-> IF target > capacity THEN "scan" ELSE "wait", goal |-> goal,
   target |-> target, current |-> capacity, slot |-> capacity, pending |-> {}]

\* resize(target): read the capacity and branch on it.
ResizeBegin(target) ==
  /\ resize.pc = "idle"
  /\ resize' = ResizeCall(target, target)
  /\ UNCHANGED <<pool, writers, leases, callback>>

\* resize_with_budget, and maintain_free above it: growth is admitted by the
\* free RAM and goes one slot at a time.  The RAM sampled and the racy
\* in-use count can admit any goal, so goal is arbitrary.
ResizeWithBudget(goal) ==
  /\ resize.pc = "idle"
  /\ resize' = ResizeCall(IF goal > capacity THEN capacity + 1 ELSE goal, goal)
  /\ UNCHANGED <<pool, writers, leases, callback>>

\* Growth, before the lock: allocate storage for the next slot if its
\* pointer is null now.
ResizeScan ==
  /\ resize.pc = "scan"
  /\ resize.slot < resize.target
  /\ resize' = [resize EXCEPT
                  !.slot = @ + 1,
                  !.pending = IF buffers[resize.slot] THEN @ ELSE @ \cup {resize.slot}]
  /\ UNCHANGED <<pool, writers, leases, callback>>

ResizeScanned ==
  /\ resize.pc = "scan"
  /\ resize.slot = resize.target
  /\ resize' = [resize EXCEPT !.pc = "wait"]
  /\ UNCHANGED <<pool, writers, leases, callback>>

\* try_reserve_exact or allocate_slot failed: resize returns AllocationFailed
\* and the pending storage goes back to the heap.
ResizeAllocationFailed ==
  /\ resize.pc = "scan"
  /\ \/ resize.slot = resize.current
     \/ resize.slot < resize.target /\ ~buffers[resize.slot]
  /\ resize' = IdleResize
  /\ UNCHANGED <<pool, writers, leases, callback>>

\* guard(): spin until the lock is free.
ResizeLock ==
  /\ resize.pc = "wait"
  /\ lock = Nobody
  /\ lock' = Owner
  /\ resize' = [resize EXCEPT !.pc = IF resize.target > resize.current
                                       THEN "install" ELSE "publish"]
  /\ UNCHANGED <<capacity, buffers, references, writers, leases, callback>>

\* Mutant: the list of pending buffers is never drained.
ResizeInstallKeeps ==
  /\ resize.pc = "install"
  /\ \E s \in resize.pending :
       /\ references' = IF buffers[s] THEN references ELSE [references EXCEPT ![s] = 0]
       /\ buffers' = [buffers EXCEPT ![s] = TRUE]
  /\ UNCHANGED <<lock, capacity, writers, leases, callback, resize>>

\* Growth, under the lock: give one pending buffer to its slot.  Storage
\* whose slot has a buffer by now is dropped (PendingSlot::drop).
ResizeInstall ==
  /\ resize.pc = "install"
  /\ \E s \in resize.pending :
       /\ references' = IF buffers[s] THEN references ELSE [references EXCEPT ![s] = 0]
       /\ buffers' = [buffers EXCEPT ![s] = TRUE]
       /\ resize' = [resize EXCEPT !.pending = @ \ {s}]
  /\ UNCHANGED <<lock, capacity, writers, leases, callback>>

\* capacity.store(target): growth after installing, shrinking before retiring.
ResizePublish ==
  /\ \/ resize.pc = "install" /\ resize.pending = {}
     \/ resize.pc = "publish"
  /\ capacity' = resize.target
  /\ resize' = [resize EXCEPT !.slot = resize.target,
                              !.pc = IF resize.pc = "install" THEN "reclaim" ELSE "retire"]
  /\ UNCHANGED <<lock, buffers, references, writers, leases, callback>>

\* Mutant: the retired slot still looks free.
RetireStillFree(s) ==
  /\ buffers' = [buffers EXCEPT ![s] = FALSE]
  /\ UNCHANGED references

\* retire_locked(s): a free slot loses its storage and becomes unacquirable.
Retire(s) ==
  /\ references' = [references EXCEPT ![s] = WRITER]
  /\ buffers' = [buffers EXCEPT ![s] = FALSE]

\* Mutant: shrinking retires every removed slot, leased or not.
ResizeRetireLeased ==
  /\ resize.pc = "retire"
  /\ IF resize.slot < resize.current
       THEN /\ Retire(resize.slot)
            /\ resize' = [resize EXCEPT !.slot = @ + 1]
       ELSE /\ resize' = [resize EXCEPT !.pc = "reclaim", !.slot = resize.target]
            /\ UNCHANGED <<buffers, references>>
  /\ UNCHANGED <<lock, capacity, writers, leases, callback>>

\* Shrinking: retire the removed slots that are idle, then reclaim.
ResizeRetire ==
  /\ resize.pc = "retire"
  /\ IF resize.slot < resize.current
       THEN /\ IF Free(resize.slot) THEN Retire(resize.slot)
                                    ELSE UNCHANGED <<buffers, references>>
            /\ resize' = [resize EXCEPT !.slot = @ + 1]
       ELSE /\ resize' = [resize EXCEPT !.pc = "reclaim", !.slot = resize.target]
            /\ UNCHANGED <<buffers, references>>
  /\ UNCHANGED <<lock, capacity, writers, leases, callback>>

\* Mutant: the pass over the retired slots is forgotten.
ResizeReclaimSkipped ==
  /\ resize.pc = "reclaim"
  /\ resize' = [resize EXCEPT !.pc = "unlock"]
  /\ UNCHANGED <<pool, writers, leases, callback>>

\* reclaim_retired_locked: free the storage a contended drop left behind.
ResizeReclaim ==
  /\ resize.pc = "reclaim"
  /\ IF resize.slot < MaxSlots
       THEN /\ IF Free(resize.slot) /\ buffers[resize.slot]
                 THEN Retire(resize.slot) ELSE UNCHANGED <<buffers, references>>
            /\ resize' = [resize EXCEPT !.slot = @ + 1]
       ELSE /\ resize' = [resize EXCEPT !.pc = "unlock"]
            /\ UNCHANGED <<buffers, references>>
  /\ UNCHANGED <<lock, capacity, writers, leases, callback>>

ResizeUnlock ==
  /\ resize.pc = "unlock"
  /\ lock' = Nobody
  /\ resize' = IF resize.target < resize.goal
                  THEN ResizeCall(resize.target + 1, resize.goal)
                  ELSE IdleResize
  /\ UNCHANGED <<capacity, buffers, references, writers, leases, callback>>

OwnerStep ==
  \/ ResizeScan \/ ResizeScanned \/ ResizeAllocationFailed
  \/ ResizeLock \/ ResizeInstall \/ ResizePublish \/ ResizeRetire
  \/ ResizeReclaim \/ ResizeUnlock

(***************************************************************************)
(* Callbacks.  callback[c].pc names the next step of c's call: "count" and *)
(* "store" are acquire_writer_reserving (and acquire_raw) under the lock,  *)
(* "check", "try" and "recheck" are final_release, "unlock" drops a guard. *)
(* The owner task outside resize is one more callback.                     *)
(***************************************************************************)
At(c, pc) == callback[c].pc = pc
Goto(c, pc) == callback' = [callback EXCEPT ![c].pc = pc]
Return(c) == callback' = [callback EXCEPT ![c] = IdleCallback]
Call(c, pc, s) == callback' = [callback EXCEPT ![c] = [pc |-> pc, slot |-> s]]

\* try_guard(): a callback that finds the lock taken gives up.
TryGuard(c, pc) ==
  IF lock = Nobody
    THEN lock' = c /\ Goto(c, pc)
    ELSE UNCHANGED lock /\ Return(c)

AcquireTry(c) ==
  /\ At(c, "idle")
  /\ TryGuard(c, "count")
  /\ UNCHANGED <<capacity, buffers, references, writers, leases, resize>>

\* Mutant: the last spare slot is handed out although it is reserved.
AcquireCountOffByOne(c) ==
  /\ At(c, "count")
  /\ Goto(c, IF Cardinality(Available) < Reserved \/ Available = {} THEN "unlock" ELSE "store")
  /\ UNCHANGED <<pool, writers, leases, resize>>

\* No slot to spare above the reserve: None.
AcquireCount(c) ==
  /\ At(c, "count")
  /\ Goto(c, IF Cardinality(Available) <= Reserved THEN "unlock" ELSE "store")
  /\ UNCHANGED <<pool, writers, leases, resize>>

\* position(): the lowest free slot.
IsFirstAvailable(s) == s \in Available /\ \A t \in Available : s <= t

\* acquire_writer_reserving: the slot is being written.
AcquireWriter(c, s) ==
  /\ At(c, "store")
  /\ IsFirstAvailable(s)
  /\ references' = [references EXCEPT ![s] = WRITER]
  /\ writers' = writers \cup {s}
  /\ Goto(c, "unlock")
  /\ UNCHANGED <<lock, capacity, buffers, leases, resize>>

\* acquire_raw: the slot is handed out holding one reference.
AcquireRaw(c, s) ==
  /\ At(c, "store")
  /\ IsFirstAvailable(s)
  /\ references' = [references EXCEPT ![s] = 1]
  /\ leases' = [leases EXCEPT ![s] = 1]
  /\ Goto(c, "unlock")
  /\ UNCHANGED <<lock, capacity, buffers, writers, resize>>

CallbackUnlock(c) ==
  /\ At(c, "unlock")
  /\ lock' = Nobody
  /\ Return(c)
  /\ UNCHANGED <<capacity, buffers, references, writers, leases, resize>>

\* HeapPacketWriter::commit: the writer becomes the slot's only lease.
Commit(c, s) ==
  /\ At(c, "idle")
  /\ s \in writers
  /\ references' = [references EXCEPT ![s] = 1]
  /\ writers' = writers \ {s}
  /\ leases' = [leases EXCEPT ![s] = 1]
  /\ UNCHANGED <<lock, capacity, buffers, resize, callback>>

\* HeapPacketWriter::drop, also of a commit whose length does not fit.
DropWriter(c, s) ==
  /\ At(c, "idle")
  /\ s \in writers
  /\ references' = [references EXCEPT ![s] = 0]
  /\ writers' = writers \ {s}
  /\ Call(c, "check", s)
  /\ UNCHANGED <<lock, capacity, buffers, leases, resize>>

\* HeapPacketLease::clone and retain_raw.
CloneLease(c, s) ==
  /\ At(c, "idle")
  /\ leases[s] \in 1 .. MaxLeases - 1
  /\ references' = [references EXCEPT ![s] = @ + 1]
  /\ leases' = [leases EXCEPT ![s] = @ + 1]
  /\ UNCHANGED <<lock, capacity, buffers, writers, resize, callback>>

\* HeapPacketLease::drop and release_raw: fetch_sub, and final_release when
\* it returned 1.
DropLease(c, s) ==
  /\ At(c, "idle")
  /\ leases[s] > 0
  /\ references' = [references EXCEPT ![s] = @ - 1]
  /\ leases' = [leases EXCEPT ![s] = @ - 1]
  /\ IF references[s] = 1 THEN Call(c, "check", s) ELSE UNCHANGED callback
  /\ UNCHANGED <<lock, capacity, buffers, writers, resize>>

\* final_release: an active slot stays in the pool.
FinalReleaseCheck(c) ==
  /\ At(c, "check")
  /\ IF callback[c].slot < capacity THEN Return(c) ELSE Goto(c, "try")
  /\ UNCHANGED <<pool, writers, leases, resize>>

FinalReleaseTry(c) ==
  /\ At(c, "try")
  /\ TryGuard(c, "recheck")
  /\ UNCHANGED <<capacity, buffers, references, writers, leases, resize>>

\* Under the lock the slot must still be outside the pool and free.
FinalReleaseRetire(c) ==
  /\ At(c, "recheck")
  /\ IF callback[c].slot >= capacity /\ Free(callback[c].slot)
       THEN Retire(callback[c].slot) ELSE UNCHANGED <<buffers, references>>
  /\ Goto(c, "unlock")
  /\ UNCHANGED <<lock, capacity, writers, leases, resize>>

\* The steps of a call that is under way.
CallbackStep(c) ==
  \/ AcquireCount(c) \/ CallbackUnlock(c)
  \/ \E s \in Slots : AcquireWriter(c, s) \/ AcquireRaw(c, s)
  \/ FinalReleaseCheck(c) \/ FinalReleaseTry(c) \/ FinalReleaseRetire(c)

CallbackCall(c) ==
  \/ AcquireTry(c)
  \/ \E s \in Slots : Commit(c, s) \/ DropWriter(c, s) \/ CloneLease(c, s) \/ DropLease(c, s)

OwnerCall ==
  \E target \in 0 .. MaxSlots : ResizeBegin(target) \/ ResizeWithBudget(target)

Next ==
  \/ OwnerCall \/ OwnerStep
  \/ \E c \in Callbacks : CallbackCall(c) \/ CallbackStep(c)

\* Calls run to completion.  guard() may lose the compare-exchange to a
\* callback any number of times, but every callback leaves the lock, so the
\* spin is strongly fair; the owner runs maintenance again and again.
Fairness ==
  /\ WF_vars(OwnerStep)
  /\ SF_vars(ResizeLock)
  /\ WF_vars(OwnerCall)
  /\ \A c \in Callbacks : WF_vars(CallbackStep(c))

Spec == Init /\ [][Next]_vars /\ Fairness

-----------------------------------------------------------------------------
\* Type correctness, with the progress records' ranges.
TypeOK ==
  /\ lock \in Callbacks \cup {Owner, Nobody}
  /\ capacity \in 0 .. MaxSlots
  /\ buffers \in [Slots -> BOOLEAN]
  /\ references \in [Slots -> 0 .. WRITER]
  /\ writers \in SUBSET Slots
  /\ leases \in [Slots -> 0 .. MaxLeases]
  /\ resize \in ResizeStates
  /\ callback \in [Callbacks -> CallbackStates]

\* "Resize never invalidates an ingress, connection, relay, or egress owner":
\* a slot that a writer or a lease refers to keeps its storage, whatever
\* resize and the other releases do meanwhile.
StorageHeld ==
  \A s \in Slots : s \in writers \/ leases[s] > 0 => buffers[s]

\* The atomic count tells the handles apart: a writer is alone on its slot
\* (no lease, no second owner), leases are counted exactly, a slot without a
\* handle is free or retired, and a retired slot has given its storage back.
ReferencesMatchHandles ==
  \A s \in Slots :
    /\ s \in writers => references[s] = WRITER /\ leases[s] = 0
    /\ leases[s] > 0 => references[s] = leases[s]
    /\ s \notin writers /\ leases[s] = 0 => references[s] \in {0, WRITER}
    /\ s \notin writers /\ references[s] = WRITER => ~buffers[s]
    /\ references[s] = 0 => buffers[s]

\* acquire_writer keeps the reserve: no acquisition leaves fewer than
\* Reserved free slots behind.
ReserveKept ==
  [][\A c \in Callbacks : At(c, "store") /\ ~At(c, "store")'
       => Cardinality(Available') >= Reserved]_vars

\* A retired slot's storage whose last drop lost the race for the lock is
\* freed by a later maintenance pass (or the slot is back in the pool), as
\* long as passes complete: one that fails to allocate reclaims nothing.
Stranded(s) == s >= capacity /\ Free(s) /\ buffers[s]
StrandedIsReclaimed ==
  []<>(resize.pc = "unlock") => \A s \in Slots : Stranded(s) ~> ~Stranded(s)

\* A resize that has begun ends.
ResizeEnds == resize.pc # "idle" ~> resize.pc = "idle"

\* capacity(): "Number of active slots which may currently be acquired".
\* When no resize is running, every slot it counts has storage.
CapacityIsAcquirable ==
  resize.pc = "idle" => \A s \in 0 .. capacity - 1 : buffers[s]
=============================================================================
