------------------------- MODULE PacketLeaseProofs --------------------------
(***************************************************************************)
(* The two structures a packet lease lives in: the pool that lends its     *)
(* slot (HeapPacketPool) and the mailbox through which a driver hands it   *)
(* back (CompletionMailbox).                                               *)
(*                                                                         *)
(* The pool, for every table size, every set of callbacks and every        *)
(* reserve.  ReferencesMatchHandles and StorageHeld support each other: a  *)
(* slot can be freed or handed out only while its count is 0, and the      *)
(* count is 0 only while no handle exists; storage is installed only where *)
(* there was none, hence where no handle was.  The reserve needs the lock  *)
(* as well: the number of free slots that a callback counted stands until  *)
(* it takes one, because nobody else may take, retire or deactivate a slot *)
(* meanwhile.                                                              *)
(*                                                                         *)
(* The mailbox, for every pool no larger than it: the push of a completion *)
(* never fails, and no lease is lost, duplicated or overwritten in a slot. *)
(***************************************************************************)
EXTENDS HeapPacketPool, CompletionMailbox, FiniteSetTheorems, TLAPS

-----------------------------------------------------------------------------
(* The pool.                                                               *)

\* What the invariants ask of one slot with storage b, count r, writer w and
\* l leases.
SlotConsistent(b, r, w, l) ==
  /\ w \/ l > 0 => b
  /\ w => r = WRITER /\ l = 0
  /\ l > 0 => r = l
  /\ ~w /\ l = 0 => r \in {0, WRITER}
  /\ ~w /\ r = WRITER => ~b
  /\ r = 0 => b

TableConsistent ==
  \A s \in Slots : SlotConsistent(buffers[s], references[s], s \in writers, leases[s])

TableTyped ==
  /\ buffers \in [Slots -> BOOLEAN]
  /\ references \in [Slots -> 0 .. WRITER]
  /\ writers \in SUBSET Slots
  /\ leases \in [Slots -> 0 .. MaxLeases]

\* The inductive invariant.
SlotInv == TypeOK /\ TableConsistent

\* It is the conjunction of the checked invariants.
LEMMA SlotInvMeaning == SlotInv <=> TypeOK /\ StorageHeld /\ ReferencesMatchHandles
  BY DEF SlotInv, TableConsistent, SlotConsistent, StorageHeld, ReferencesMatchHandles

\* Initially there are no slots and no handles.
LEMMA SlotInvInit == Init => SlotInv
  BY MaxSlotsAssumption, MaxLeasesAssumption
     DEF Init, SlotInv, TypeOK, TableConsistent, SlotConsistent, IdleResize, ResizeStates,
         IdleCallback, CallbackStates, OwnerPcs, CallbackPcs, WRITER, Slots

\* The owner's progress record keeps its ranges in every step.
LEMMA OwnerTyped ==
  ASSUME resize \in ResizeStates, capacity \in 0 .. MaxSlots, OwnerCall \/ OwnerStep
  PROVE  resize' \in ResizeStates
<1> USE MaxSlotsAssumption DEF ResizeStates
<1>1. CASE OwnerCall
  BY <1>1 DEF OwnerCall, ResizeBegin, ResizeWithBudget, ResizeCall, OwnerPcs
<1>2. CASE ResizeScan
  <2>1. resize.slot + 1 \in 0 .. MaxSlots /\ resize.slot \in Slots
    BY <1>2 DEF ResizeScan, Slots
  <2>2. (resize.pending \cup {resize.slot}) \in SUBSET Slots
    BY <2>1
  <2>3. QED BY <1>2, <2>1, <2>2 DEF ResizeScan
<1>3. CASE ResizeScanned \/ ResizeAllocationFailed \/ ResizeLock
  BY <1>3 DEF ResizeScanned, ResizeAllocationFailed, ResizeLock, IdleResize, OwnerPcs
<1>4. CASE ResizeInstall
  BY <1>4 DEF ResizeInstall
<1>5. CASE ResizePublish
  BY <1>5 DEF ResizePublish, OwnerPcs
<1>6. CASE ResizeRetire
  <2>1. CASE resize.slot < resize.current
    <3>1. resize.slot + 1 \in 0 .. MaxSlots
      BY <2>1
    <3>2. QED BY <1>6, <2>1, <3>1 DEF ResizeRetire
  <2>2. CASE ~(resize.slot < resize.current)
    BY <1>6, <2>2 DEF ResizeRetire, OwnerPcs
  <2>3. QED BY <2>1, <2>2
<1>7. CASE ResizeReclaim
  <2>1. CASE resize.slot < MaxSlots
    <3>1. resize.slot + 1 \in 0 .. MaxSlots
      BY <2>1
    <3>2. QED BY <1>7, <2>1, <3>1 DEF ResizeReclaim
  <2>2. CASE ~(resize.slot < MaxSlots)
    BY <1>7, <2>2 DEF ResizeReclaim, OwnerPcs
  <2>3. QED BY <2>1, <2>2
<1>8. CASE ResizeUnlock
  BY <1>8 DEF ResizeUnlock, ResizeCall, IdleResize, OwnerPcs
<1>9. QED BY <1>1, <1>2, <1>3, <1>4, <1>5, <1>6, <1>7, <1>8 DEF OwnerStep

\* So do the callbacks' progress records.
LEMMA GotoTyped ==
  ASSUME callback \in [Callbacks -> CallbackStates], NEW c \in Callbacks,
         NEW pc \in CallbackPcs, Goto(c, pc)
  PROVE  callback' \in [Callbacks -> CallbackStates]
  BY DEF Goto, CallbackStates

\* The end of an operation keeps the types.
LEMMA ReturnTyped ==
  ASSUME callback \in [Callbacks -> CallbackStates], NEW c \in Callbacks, Return(c)
  PROVE  callback' \in [Callbacks -> CallbackStates]
  BY MaxSlotsAssumption DEF Return, CallbackStates, IdleCallback, CallbackPcs

\* The start of an operation keeps the types.
LEMMA CallTyped ==
  ASSUME callback \in [Callbacks -> CallbackStates], NEW c \in Callbacks,
         NEW s \in Slots, Call(c, "check", s)
  PROVE  callback' \in [Callbacks -> CallbackStates]
  BY MaxSlotsAssumption DEF Call, CallbackStates, CallbackPcs, Slots

\* Every step of a driver context keeps the types.
LEMMA CallbackTyped ==
  ASSUME callback \in [Callbacks -> CallbackStates], NEW c \in Callbacks,
         CallbackCall(c) \/ CallbackStep(c)
  PROVE  callback' \in [Callbacks -> CallbackStates]
<1>1. /\ "count" \in CallbackPcs /\ "store" \in CallbackPcs /\ "unlock" \in CallbackPcs
      /\ "try" \in CallbackPcs /\ "recheck" \in CallbackPcs
  BY DEF CallbackPcs
<1>2. \/ UNCHANGED callback \/ Return(c)
      \/ \E pc \in CallbackPcs : Goto(c, pc)
      \/ \E s \in Slots : Call(c, "check", s)
  BY <1>1 DEF CallbackCall, CallbackStep, AcquireTry, AcquireCount, AcquireWriter, AcquireRaw,
         CallbackUnlock, Commit, DropWriter, CloneLease, DropLease, FinalReleaseCheck,
         FinalReleaseTry, FinalReleaseRetire, TryGuard
<1>3. QED BY <1>2, GotoTyped, ReturnTyped, CallTyped

\* A change confined to one slot keeps the table consistent if it leaves that
\* slot consistent.
LEMMA OneSlot ==
  ASSUME TableTyped, TableTyped', TableConsistent, NEW s \in Slots,
         \A t \in Slots \ {s} : /\ buffers'[t] = buffers[t]
                                /\ references'[t] = references[t]
                                /\ t \in writers' <=> t \in writers
                                /\ leases'[t] = leases[t],
         SlotConsistent(buffers'[s], references'[s], s \in writers', leases'[s])
  PROVE  TableConsistent'
<1> SUFFICES ASSUME NEW t \in Slots
             PROVE  SlotConsistent(buffers'[t], references'[t], t \in writers', leases'[t])
  BY DEF TableConsistent
<1>1. CASE t = s
  BY <1>1
<1>2. CASE t # s
  BY <1>2 DEF TableConsistent, SlotConsistent
<1>3. QED BY <1>1, <1>2

\* retire_locked of a free slot.
LEMMA RetireKeepsTable ==
  ASSUME TableTyped, TableConsistent, NEW s \in Slots, references[s] = 0, Retire(s),
         UNCHANGED <<writers, leases>>
  PROVE  TableTyped' /\ TableConsistent'
<1>1. TableTyped'
  BY DEF TableTyped, Retire, WRITER
<1>2. s \notin writers /\ leases[s] = 0
  BY DEF TableTyped, TableConsistent, SlotConsistent, WRITER
<1>3. SlotConsistent(buffers'[s], references'[s], s \in writers', leases'[s])
  BY <1>2 DEF TableTyped, Retire, SlotConsistent, WRITER
<1>4. QED BY <1>1, <1>3, OneSlot DEF TableTyped, Retire

\* The owner's steps.
LEMMA OwnerKeepsTable ==
  ASSUME TableTyped, TableConsistent, resize \in ResizeStates, OwnerCall \/ OwnerStep
  PROVE  TableTyped' /\ TableConsistent'
<1>1. CASE UNCHANGED <<buffers, references, writers, leases>>
  BY <1>1 DEF TableTyped, TableConsistent
<1>2. CASE ResizeInstall
  <2>1. UNCHANGED <<writers, leases>>
    BY <1>2 DEF ResizeInstall
  <2>2. PICK s \in resize.pending :
          /\ references' = IF buffers[s] THEN references ELSE [references EXCEPT ![s] = 0]
          /\ buffers' = [buffers EXCEPT ![s] = TRUE]
    BY <1>2 DEF ResizeInstall
  <2>3. s \in Slots
    BY DEF ResizeStates
  <2>4. TableTyped'
    BY <2>1, <2>2, <2>3 DEF TableTyped, WRITER
  <2>5. CASE buffers[s]
    <3>1. SlotConsistent(buffers'[s], references'[s], s \in writers', leases'[s])
      BY <2>1, <2>2, <2>3, <2>5 DEF TableTyped, TableConsistent, SlotConsistent
    <3>2. QED BY <2>1, <2>2, <2>3, <2>4, <3>1, OneSlot DEF TableTyped
  <2>6. CASE ~buffers[s]
    <3>1. s \notin writers /\ leases[s] = 0
      BY <2>3, <2>6, MaxLeasesAssumption DEF TableTyped, TableConsistent, SlotConsistent
    <3>2. SlotConsistent(buffers'[s], references'[s], s \in writers', leases'[s])
      BY <2>1, <2>2, <2>3, <2>6, <3>1 DEF TableTyped, SlotConsistent, WRITER
    <3>3. QED BY <2>1, <2>2, <2>3, <2>4, <2>6, <3>2, OneSlot DEF TableTyped
  <2>7. QED BY <2>5, <2>6
<1>3. CASE ResizeRetire \/ ResizeReclaim
  <2>1. /\ UNCHANGED <<writers, leases>>
        /\ \/ UNCHANGED <<buffers, references>>
           \/ /\ resize.slot \in Slots
              /\ references[resize.slot] = 0
              /\ Retire(resize.slot)
    BY <1>3, MaxSlotsAssumption DEF ResizeRetire, ResizeReclaim, ResizeStates, Free, Slots
  <2>2. QED BY <1>1, <2>1, RetireKeepsTable
<1>4. QED
  BY <1>1, <1>2, <1>3
     DEF OwnerCall, OwnerStep, ResizeBegin, ResizeWithBudget, ResizeScan, ResizeScanned,
         ResizeAllocationFailed, ResizeLock, ResizePublish, ResizeUnlock, pool

\* The callbacks' steps.
LEMMA CallbackKeepsTable ==
  ASSUME TableTyped, TableConsistent, callback \in [Callbacks -> CallbackStates],
         NEW c \in Callbacks, CallbackCall(c) \/ CallbackStep(c)
  PROVE  TableTyped' /\ TableConsistent'
<1> USE MaxLeasesAssumption
<1>1. CASE UNCHANGED <<buffers, references, writers, leases>>
  BY <1>1 DEF TableTyped, TableConsistent
<1>2. ASSUME NEW s \in Slots, AcquireWriter(c, s) \/ AcquireRaw(c, s)
      PROVE  TableTyped' /\ TableConsistent'
  <2>1. references[s] = 0
    BY <1>2 DEF AcquireWriter, AcquireRaw, IsFirstAvailable, Available, Free
  <2>2. s \notin writers /\ leases[s] = 0 /\ buffers[s]
    BY <2>1 DEF TableTyped, TableConsistent, SlotConsistent, WRITER
  <2>3. TableTyped'
    BY <1>2 DEF TableTyped, AcquireWriter, AcquireRaw, WRITER
  <2>4. SlotConsistent(buffers'[s], references'[s], s \in writers', leases'[s])
    BY <1>2, <2>1, <2>2 DEF TableTyped, AcquireWriter, AcquireRaw, SlotConsistent, WRITER
  <2>5. QED BY <1>2, <2>3, <2>4, OneSlot DEF TableTyped, AcquireWriter, AcquireRaw
<1>3. ASSUME NEW s \in Slots, Commit(c, s) \/ DropWriter(c, s)
      PROVE  TableTyped' /\ TableConsistent'
  <2>1. s \in writers /\ leases[s] = 0 /\ buffers[s]
    BY <1>3 DEF TableTyped, TableConsistent, SlotConsistent, Commit, DropWriter
  <2>2. TableTyped'
    BY <1>3 DEF TableTyped, Commit, DropWriter, WRITER
  <2>3. SlotConsistent(buffers'[s], references'[s], s \in writers', leases'[s])
    BY <1>3, <2>1 DEF TableTyped, Commit, DropWriter, SlotConsistent, WRITER
  <2>4. QED BY <1>3, <2>2, <2>3, OneSlot DEF TableTyped, Commit, DropWriter
<1>4. ASSUME NEW s \in Slots, CloneLease(c, s) \/ DropLease(c, s)
      PROVE  TableTyped' /\ TableConsistent'
  <2>1. /\ leases[s] \in 1 .. MaxLeases /\ references[s] = leases[s]
        /\ s \notin writers /\ buffers[s]
    BY <1>4 DEF TableTyped, TableConsistent, SlotConsistent, CloneLease, DropLease, WRITER
  <2>2. /\ leases' = [leases EXCEPT ![s] = leases'[s]]
        /\ references' = [references EXCEPT ![s] = leases'[s]]
        /\ leases'[s] \in 0 .. MaxLeases
        /\ UNCHANGED <<buffers, writers>>
    BY <1>4, <2>1 DEF TableTyped, CloneLease, DropLease
  <2>3. TableTyped'
    BY <2>2, SMTT(30) DEF TableTyped, WRITER
  <2>4. SlotConsistent(buffers'[s], references'[s], s \in writers', leases'[s])
    BY <2>1, <2>2 DEF TableTyped, SlotConsistent, WRITER
  <2>5. QED BY <2>2, <2>3, <2>4, OneSlot DEF TableTyped
<1>5. CASE FinalReleaseRetire(c)
  <2>1. /\ UNCHANGED <<writers, leases>>
        /\ \/ UNCHANGED <<buffers, references>>
           \/ references[callback[c].slot] = 0 /\ Retire(callback[c].slot)
    BY <1>5 DEF FinalReleaseRetire, Free
  <2>2. CASE callback[c].slot \in Slots
    BY <1>1, <2>1, <2>2, RetireKeepsTable
  <2>3. CASE callback[c].slot \notin Slots
    <3>1. UNCHANGED <<buffers, references>>
      BY <2>1, <2>3 DEF TableTyped, Retire
    <3>2. QED BY <1>1, <2>1, <3>1
  <2>4. QED BY <2>2, <2>3
<1>6. QED
  BY <1>1, <1>2, <1>3, <1>4, <1>5
     DEF CallbackCall, CallbackStep, AcquireTry, AcquireCount, CallbackUnlock,
         FinalReleaseCheck, FinalReleaseTry, pool

\* Every step of the owner and of the callbacks keeps the invariant.
LEMMA SlotInvNext == SlotInv /\ [Next]_vars => SlotInv'
<1> SUFFICES ASSUME SlotInv, [Next]_vars PROVE SlotInv'
  OBVIOUS
<1>1. TableTyped /\ TableConsistent
  BY DEF SlotInv, TypeOK, TableTyped
<1>2. CASE OwnerCall \/ OwnerStep
  <2>1. resize' \in ResizeStates
    BY <1>2, OwnerTyped DEF SlotInv, TypeOK
  <2>2. TableTyped' /\ TableConsistent'
    BY <1>1, <1>2, OwnerKeepsTable DEF SlotInv, TypeOK
  <2>3. lock' \in Callbacks \cup {Owner, Nobody} /\ capacity' \in 0 .. MaxSlots /\ UNCHANGED callback
    BY <1>2 DEF SlotInv, TypeOK, ResizeStates, OwnerCall, OwnerStep, ResizeBegin, ResizeWithBudget,
                ResizeScan, ResizeScanned, ResizeAllocationFailed, ResizeLock, ResizeInstall,
                ResizePublish, ResizeRetire, ResizeReclaim, ResizeUnlock, pool
  <2>4. QED BY <2>1, <2>2, <2>3 DEF SlotInv, TypeOK, TableTyped
<1>3. ASSUME NEW c \in Callbacks, CallbackCall(c) \/ CallbackStep(c)
      PROVE  SlotInv'
  <2>1. callback' \in [Callbacks -> CallbackStates]
    BY <1>3, CallbackTyped DEF SlotInv, TypeOK
  <2>2. TableTyped' /\ TableConsistent'
    BY <1>1, <1>3, CallbackKeepsTable DEF SlotInv, TypeOK
  <2>3. lock' \in Callbacks \cup {Owner, Nobody} /\ UNCHANGED <<capacity, resize>>
    BY <1>3 DEF SlotInv, TypeOK, CallbackCall, CallbackStep, AcquireTry, AcquireCount,
         AcquireWriter, AcquireRaw, CallbackUnlock, Commit, DropWriter, CloneLease, DropLease,
         FinalReleaseCheck, FinalReleaseTry, FinalReleaseRetire, TryGuard, pool
  <2>4. QED BY <2>1, <2>2, <2>3 DEF SlotInv, TypeOK, TableTyped
<1>4. CASE UNCHANGED vars
  BY <1>4 DEF vars, SlotInv, TypeOK, TableConsistent
<1>5. QED BY <1>2, <1>3, <1>4 DEF Next

\* Every reachable state is well typed.
THEOREM TypeCorrect == Spec => []TypeOK
<1>1. SlotInv => TypeOK
  BY DEF SlotInv
<1>2. QED BY <1>1, SlotInvInit, SlotInvNext, PTL DEF Spec

\* No resize and no release frees storage that a writer or a lease uses.
THEOREM StorageSafety == Spec => []StorageHeld
<1>1. SlotInv => StorageHeld
  BY SlotInvMeaning
<1>2. QED BY <1>1, SlotInvInit, SlotInvNext, PTL DEF Spec

\* The atomic reference counts are exact: writers are exclusive, leases are
\* counted and retired slots own nothing.
THEOREM ReferenceSafety == Spec => []ReferencesMatchHandles
<1>1. SlotInv => ReferencesMatchHandles
  BY SlotInvMeaning
<1>2. QED BY <1>1, SlotInvInit, SlotInvNext, PTL DEF Spec
-----------------------------------------------------------------------------
\* Who is inside a critical section holds the lock.
LockHeld ==
  /\ \A c \in Callbacks :
       callback[c].pc \in {"count", "store", "unlock", "recheck"} => lock = c
  /\ resize.pc \in {"install", "publish", "retire", "reclaim", "unlock"} => lock = Owner

\* A callback about to take a slot has more free slots than the reserve.
SpareKnown ==
  \A c \in Callbacks : At(c, "store") => Cardinality(Available) > Reserved

ReserveInv == SlotInv /\ LockHeld /\ SpareKnown

\* The free slots can be counted.
LEMMA AvailableCounts ==
  ASSUME TypeOK
  PROVE  IsFiniteSet(Available) /\ Cardinality(Available) \in Nat
<1>1. IsFiniteSet(0 .. capacity - 1)
  BY MaxSlotsAssumption, FS_Interval DEF TypeOK
<1>2. Available \in SUBSET (0 .. capacity - 1)
  BY DEF Available
<1>3. QED BY <1>1, <1>2, FS_Subset, FS_CardinalityType

\* The owner enters its critical section only through a free lock and leaves
\* it by freeing the lock.
LEMMA OwnerKeepsLock ==
  ASSUME TypeOK, LockHeld, OwnerCall \/ OwnerStep
  PROVE  LockHeld'
<1> USE ThreadAssumption DEF LockHeld
<1>1. UNCHANGED callback /\ resize \in ResizeStates
  BY DEF TypeOK, OwnerCall, OwnerStep, ResizeBegin, ResizeWithBudget, ResizeScan, ResizeScanned,
         ResizeAllocationFailed, ResizeLock, ResizeInstall, ResizePublish, ResizeRetire,
         ResizeReclaim, ResizeUnlock
<1>2. CASE OwnerCall
  BY <1>1, <1>2 DEF OwnerCall, ResizeBegin, ResizeWithBudget, ResizeCall, pool
<1>3. CASE ResizeScan \/ ResizeScanned \/ ResizeAllocationFailed
  <2>1. UNCHANGED lock
    BY <1>3 DEF ResizeScan, ResizeScanned, ResizeAllocationFailed, pool
  <2>2. resize'.pc \in {"scan", "wait", "idle"}
    <3>1. CASE ResizeScan
      BY <1>1, <3>1 DEF ResizeScan, ResizeStates
    <3>2. CASE ResizeScanned
      BY <1>1, <3>2 DEF ResizeScanned, ResizeStates
    <3>3. CASE ResizeAllocationFailed
      BY <3>3 DEF ResizeAllocationFailed, IdleResize
    <3>4. QED BY <1>3, <3>1, <3>2, <3>3
  <2>3. QED BY <1>1, <2>1, <2>2
<1>4. CASE ResizeLock
  BY <1>1, <1>4 DEF ResizeLock
<1>5. CASE ResizeInstall \/ ResizePublish
  BY <1>1, <1>5 DEF ResizeInstall, ResizePublish, ResizeStates
<1>6. CASE ResizeRetire \/ ResizeReclaim
  <2>1. resize.pc \in {"retire", "reclaim"} /\ UNCHANGED lock
    BY <1>6 DEF ResizeRetire, ResizeReclaim
  <2>2. QED BY <1>1, <2>1
<1>7. CASE ResizeUnlock
  BY <1>1, <1>7 DEF ResizeUnlock, ResizeCall, IdleResize
<1>8. QED BY <1>2, <1>3, <1>4, <1>5, <1>6, <1>7 DEF OwnerStep

\* A callback's steps are its own: the others' progress stays, and the lock
\* changes hands only from free to c and back.
LEMMA CallbackMoves ==
  ASSUME TypeOK, LockHeld, NEW c \in Callbacks, CallbackCall(c) \/ CallbackStep(c)
  PROVE  /\ UNCHANGED <<capacity, resize>>
         /\ \A d \in Callbacks \ {c} : callback'[d] = callback[d]
         /\ \/ UNCHANGED lock
            \/ lock = Nobody /\ lock' = c
            \/ lock = c /\ lock' = Nobody
         /\ callback'[c].pc \in {"count", "store", "unlock", "recheck"} => lock' = c
<1> USE DEF LockHeld, At, Goto, Return, Call, IdleCallback, TryGuard, pool
<1>0. callback \in [Callbacks -> CallbackStates]
  BY DEF TypeOK
<1>1. CASE AcquireTry(c) \/ FinalReleaseTry(c)
  BY <1>0, <1>1 DEF AcquireTry, FinalReleaseTry
<1>2. CASE AcquireCount(c) \/ FinalReleaseRetire(c)
  BY <1>0, <1>2 DEF AcquireCount, FinalReleaseRetire
<1>3. CASE CallbackUnlock(c)
  BY <1>0, <1>3 DEF CallbackUnlock
<1>4. CASE FinalReleaseCheck(c)
  <2>1. UNCHANGED <<capacity, resize, lock>>
    BY <1>4 DEF FinalReleaseCheck
  <2>2. \/ callback' = [callback EXCEPT ![c] = [pc |-> "idle", slot |-> 0]]
        \/ callback' = [callback EXCEPT ![c].pc = "try"]
    BY <1>4 DEF FinalReleaseCheck
  <2>3. callback'[c].pc \in {"idle", "try"}
    BY <1>0, <2>2 DEF CallbackStates
  <2>4. QED BY <1>0, <2>1, <2>2, <2>3
<1>5. ASSUME NEW s \in Slots, AcquireWriter(c, s) \/ AcquireRaw(c, s)
      PROVE  /\ UNCHANGED <<capacity, resize, lock>>
             /\ \A d \in Callbacks \ {c} : callback'[d] = callback[d]
             /\ lock' = c
  BY <1>0, <1>5 DEF AcquireWriter, AcquireRaw
<1>6. ASSUME NEW s \in Slots, Commit(c, s) \/ CloneLease(c, s)
      PROVE  UNCHANGED <<capacity, resize, lock, callback>>
  BY <1>6 DEF Commit, CloneLease
<1>7. ASSUME NEW s \in Slots, DropWriter(c, s) \/ DropLease(c, s)
      PROVE  /\ UNCHANGED <<capacity, resize, lock>>
             /\ \A d \in Callbacks \ {c} : callback'[d] = callback[d]
             /\ callback'[c].pc \in {"idle", "check"}
  BY <1>0, <1>7 DEF DropWriter, DropLease
<1>8. QED BY <1>1, <1>2, <1>3, <1>4, <1>5, <1>6, <1>7 DEF CallbackCall, CallbackStep

\* So does the lock under a callback's steps.
LEMMA CallbackKeepsLock ==
  ASSUME TypeOK, LockHeld, NEW c \in Callbacks, CallbackCall(c) \/ CallbackStep(c)
  PROVE  LockHeld'
  BY CallbackMoves, ThreadAssumption DEF LockHeld

\* While c is about to take a slot, the owner is outside its critical
\* section and leaves the free slots alone.
LEMMA OwnerKeepsFree ==
  ASSUME SlotInv, LockHeld, NEW c \in Callbacks, At(c, "store"), OwnerCall \/ OwnerStep
  PROVE  UNCHANGED <<capacity, references, callback>>
<1>1. resize.pc \notin {"install", "publish", "retire", "reclaim", "unlock"}
  BY ThreadAssumption DEF LockHeld, At
<1>2. QED
  BY <1>1 DEF OwnerCall, OwnerStep, ResizeBegin, ResizeWithBudget, ResizeScan, ResizeScanned,
              ResizeAllocationFailed, ResizeLock, ResizeInstall, ResizePublish, ResizeRetire,
              ResizeReclaim, ResizeUnlock, pool

\* A step of a callback that is not taking a slot makes none unavailable
\* unless it holds the lock to retire one.
LEMMA OthersOnlyFree ==
  ASSUME SlotInv, NEW d \in Callbacks, CallbackCall(d) \/ CallbackStep(d),
         callback[d].pc \notin {"store", "recheck"}
  PROVE  Available \subseteq Available'
<1> USE MaxLeasesAssumption
<1>0. TableTyped /\ TableConsistent /\ capacity \in 0 .. MaxSlots
  BY DEF SlotInv, TypeOK, TableTyped
<1>1. CASE UNCHANGED <<capacity, references>>
  BY <1>1 DEF Available, Free
<1>2. ASSUME NEW s \in Slots,
             Commit(d, s) \/ CloneLease(d, s) \/ DropWriter(d, s) \/ DropLease(d, s)
      PROVE  Available \subseteq Available'
  <2>1. references[s] # 0
    BY <1>0, <1>2 DEF TableTyped, TableConsistent, SlotConsistent, Commit, CloneLease, DropWriter,
                      DropLease, WRITER
  <2>2. capacity' = capacity /\ \A t \in Slots \ {s} : references'[t] = references[t]
    BY <1>0, <1>2 DEF TableTyped, Commit, CloneLease, DropWriter, DropLease
  <2>3. 0 .. capacity - 1 \subseteq Slots
    BY <1>0, MaxSlotsAssumption DEF Slots
  <2>4. QED BY <2>1, <2>2, <2>3 DEF Available, Free
<1>3. QED
  BY <1>1, <1>2
     DEF CallbackCall, CallbackStep, AcquireTry, AcquireCount, AcquireWriter, AcquireRaw,
         CallbackUnlock, FinalReleaseCheck, FinalReleaseTry, FinalReleaseRetire, At, pool

\* Taking a slot costs exactly that slot.
LEMMA TakeOne ==
  ASSUME SlotInv, NEW c \in Callbacks, NEW s \in Slots, AcquireWriter(c, s) \/ AcquireRaw(c, s)
  PROVE  s \in Available /\ Available' = Available \ {s}
<1>1. /\ s \in Available /\ capacity' = capacity /\ references'[s] # 0
      /\ \A t \in Slots \ {s} : references'[t] = references[t]
  BY DEF SlotInv, TypeOK, AcquireWriter, AcquireRaw, IsFirstAvailable, WRITER
<1>2. 0 .. capacity - 1 \subseteq Slots
  BY MaxSlotsAssumption DEF SlotInv, TypeOK, Slots
<1>3. QED BY <1>1, <1>2 DEF Available, Free

\* A count that was above the reserve stays above it while others free slots.
LEMMA SpareStands ==
  ASSUME TypeOK, TypeOK', Available \subseteq Available', Cardinality(Available) > Reserved
  PROVE  Cardinality(Available') > Reserved
<1>1. IsFiniteSet(Available') /\ Cardinality(Available') \in Nat
  <2>1. IsFiniteSet(0 .. capacity' - 1)
    BY MaxSlotsAssumption, FS_Interval DEF TypeOK
  <2>2. Available' \in SUBSET (0 .. capacity' - 1)
    BY DEF Available
  <2>3. QED BY <2>1, <2>2, FS_Subset, FS_CardinalityType
<1>2. Cardinality(Available) <= Cardinality(Available')
  BY <1>1, FS_Subset
<1>3. QED BY <1>1, <1>2, AvailableCounts, ReservedAssumption

\* Every step keeps the lock discipline and the counted spare slots, and the
\* step that takes a slot leaves the reserve.
LEMMA ReserveInvNext ==
  ASSUME ReserveInv, [Next]_vars
  PROVE  /\ ReserveInv'
         /\ \A c \in Callbacks : At(c, "store") /\ ~At(c, "store")'
              => Cardinality(Available') >= Reserved
<1>0. SlotInv /\ TypeOK /\ LockHeld /\ SpareKnown /\ SlotInv' /\ TypeOK'
  BY SlotInvNext DEF ReserveInv, SlotInv
<1>1. CASE OwnerCall \/ OwnerStep
  <2>1. LockHeld'
    BY <1>0, <1>1, OwnerKeepsLock
  <2>2. UNCHANGED callback
    BY <1>1 DEF OwnerCall, OwnerStep, ResizeBegin, ResizeWithBudget, ResizeScan, ResizeScanned,
           ResizeAllocationFailed, ResizeLock, ResizeInstall, ResizePublish, ResizeRetire,
           ResizeReclaim, ResizeUnlock
  <2>3. ASSUME NEW c \in Callbacks, At(c, "store")
        PROVE  Available' = Available
    BY <1>0, <1>1, <2>3, OwnerKeepsFree DEF Available, Free
  <2>4. SpareKnown'
    <3>1. SUFFICES ASSUME NEW c \in Callbacks, At(c, "store")'
                   PROVE  Cardinality(Available') > Reserved
      BY DEF SpareKnown
    <3>2. At(c, "store")
      BY <2>2, <3>1 DEF At
    <3>3. QED BY <1>0, <2>3, <3>2 DEF SpareKnown
  <2>5. QED BY <1>0, <2>1, <2>2, <2>4 DEF ReserveInv, At
<1>2. ASSUME NEW d \in Callbacks, CallbackCall(d) \/ CallbackStep(d)
      PROVE  /\ ReserveInv'
             /\ \A c \in Callbacks : At(c, "store") /\ ~At(c, "store")'
                  => Cardinality(Available') >= Reserved
  <2>1. LockHeld'
    BY <1>0, <1>2, CallbackKeepsLock
  <2>2. \A c \in Callbacks \ {d} : callback'[c] = callback[c]
    BY <1>0, <1>2, CallbackMoves
  <2>3. ASSUME NEW c \in Callbacks \ {d}, At(c, "store")
        PROVE  Cardinality(Available') > Reserved
    <3>1. callback[d].pc \notin {"store", "recheck"}
      BY <1>0, <2>3 DEF LockHeld, At
    <3>2. Available \subseteq Available'
      BY <1>0, <1>2, <3>1, OthersOnlyFree
    <3>3. QED BY <1>0, <2>3, <3>2, SpareStands DEF SpareKnown
  <2>4. CASE At(d, "store")
    <3>1. PICK s \in Slots : AcquireWriter(d, s) \/ AcquireRaw(d, s)
      BY <1>2, <2>4 DEF CallbackCall, CallbackStep, AcquireTry, AcquireCount, CallbackUnlock, Commit,
           DropWriter, CloneLease, DropLease, FinalReleaseCheck, FinalReleaseTry,
           FinalReleaseRetire, At
    <3>2. s \in Available /\ Available' = Available \ {s}
      BY <1>0, <3>1, TakeOne
    <3>3. IsFiniteSet(Available) /\ Cardinality(Available) > Reserved
      BY <1>0, <2>4, AvailableCounts DEF SpareKnown
    <3>4. Cardinality(Available') = Cardinality(Available) - 1
      BY <3>2, <3>3, FS_RemoveElement
    <3>5. Cardinality(Available') >= Reserved
      BY <1>0, <3>3, <3>4, AvailableCounts, ReservedAssumption
    <3>6. ~At(d, "store")'
      BY <1>0, <3>1 DEF AcquireWriter, AcquireRaw, Goto, At, TypeOK, CallbackStates
    <3>7. \A c \in Callbacks : ~At(c, "store")'
      BY <1>0, <2>2, <2>4, <3>6 DEF LockHeld, At
    <3>8. QED BY <1>0, <2>1, <3>5, <3>7 DEF ReserveInv, SpareKnown
  <2>5. CASE ~At(d, "store")
    <3>1. ASSUME At(d, "store")' PROVE Cardinality(Available') > Reserved
      <4>1. At(d, "count") /\ AcquireCount(d)
        BY <1>0, <1>2, <2>5, <3>1
           DEF CallbackCall, CallbackStep, AcquireTry, AcquireCount, AcquireWriter, AcquireRaw,
               CallbackUnlock, Commit, DropWriter, CloneLease, DropLease, FinalReleaseCheck,
               FinalReleaseTry, FinalReleaseRetire, TryGuard, Goto, Return, Call, IdleCallback, At,
               TypeOK, CallbackStates
      <4>2. Available' = Available /\ Cardinality(Available) > Reserved
        BY <1>0, <3>1, <4>1, AvailableCounts, ReservedAssumption
           DEF AcquireCount, Goto, At, TypeOK, CallbackStates, Available, Free, pool
      <4>3. QED BY <4>2
    <3>2. SpareKnown'
      BY <2>2, <2>3, <3>1 DEF SpareKnown, At
    <3>3. QED BY <1>0, <2>1, <2>2, <2>5, <3>2 DEF ReserveInv, At
  <2>6. QED BY <2>4, <2>5
<1>3. CASE UNCHANGED vars
  BY <1>0, <1>3 DEF vars, ReserveInv, LockHeld, SpareKnown, Available, Free, At
<1>4. QED BY <1>1, <1>2, <1>3 DEF Next

\* No call holds the lock at first.
LEMMA ReserveInvInit == Init => ReserveInv
  BY SlotInvInit DEF Init, ReserveInv, LockHeld, SpareKnown, At, IdleResize, IdleCallback

\* However the owner resizes and the other callbacks drop, commit and release
\* meanwhile, an acquisition leaves at least the reserved slots free.
THEOREM ReserveIsKept == Spec => ReserveKept
<1>1. ReserveInv /\ [Next]_vars
        => ReserveInv'
           /\ [\A c \in Callbacks : At(c, "store") /\ ~At(c, "store")'
                 => Cardinality(Available') >= Reserved]_vars
  BY ReserveInvNext
<1>2. QED BY <1>1, ReserveInvInit, PTL DEF Spec, ReserveKept

-----------------------------------------------------------------------------
(* The mailbox.                                                            *)

Occupies(l, i) == lease[l].place \in {"write", "stored"} /\ lease[l].pos = i

\* A popped lease belongs to the owner until it is released.
PopOwnsLease ==
  pop.pc \in {"rotate", "done"} => pop.got \in Leases /\ lease[pop.got].place = "owner"

MailboxSlotInv == MailboxTypeOK /\ SlotsHoldLeases /\ PopReadsStored /\ PopOwnsLease
MailboxInv == MailboxSlotInv /\ CrowdBound

LeaseStates == [place : Places, pos : 0 .. Capacity]

\* Slot arithmetic stays inside the slot array.
LEMMA IndexMod == \A a \in Nat : a % Capacity \in Index
  BY CapacityAssumption DEF Index

\* The slot the owner looks at is a slot of the mailbox.
LEMMA PopIndexInRange == MailboxTypeOK => PopIndex \in Index
<1> SUFFICES ASSUME MailboxTypeOK PROVE PopIndex \in Index
  OBVIOUS
<1>1. pop.start + pop.offset \in Nat
  BY CapacityAssumption DEF MailboxTypeOK, Index
<1>2. QED BY <1>1, IndexMod DEF PopIndex

\* The values that moves are made of.
LEMMA PutArguments ==
  /\ 0 \in 0 .. Capacity
  /\ \A i \in Index : i \in 0 .. Capacity /\ i + 1 \in 0 .. Capacity
  /\ {"pool", "flight", "scan", "write", "stored", "owner"} \subseteq Places
  BY CapacityAssumption DEF Places, Index

\* Moving one lease keeps the lease table well typed and the others in place.
LEMMA PutFacts ==
  ASSUME lease \in [Leases -> LeaseStates], NEW l \in Leases, NEW where \in Places,
         NEW at \in 0 .. Capacity, Put(l, where, at)
  PROVE  /\ lease' \in [Leases -> LeaseStates]
         /\ lease'[l].place = where /\ lease'[l].pos = at
         /\ lease'[l] = [place |-> where, pos |-> at]
         /\ \A m \in Leases \ {l} : lease'[m] = lease[m]
  BY DEF Put, LeaseStates

\* The inductive invariant holds initially.
LEMMA MailboxInvInit == MailboxInit => MailboxInv
<1> SUFFICES ASSUME MailboxInit PROVE MailboxInv
  OBVIOUS
<1> USE CapacityAssumption, LeasesAssumption
<1>1. MailboxTypeOK
  BY DEF MailboxInit, MailboxTypeOK, Index, SlotStates, Places, PopPcs, IdlePop
<1>2. SlotsHoldLeases /\ PopReadsStored /\ PopOwnsLease
  BY DEF MailboxInit, SlotsHoldLeases, PopReadsStored, PopOwnsLease, IdlePop
<1>3. \A i \in 0 .. Capacity : Beyond(i) = {}
  BY DEF MailboxInit, Beyond
<1>4. CrowdBound
  BY <1>3, FS_EmptySet DEF CrowdBound
<1>5. QED BY <1>1, <1>2, <1>4 DEF MailboxInv, MailboxSlotInv

\* The steps of a producer keep the slots and the leases consistent.
LEMMA ProducerKeepsSlots ==
  ASSUME MailboxSlotInv, NEW l \in Leases, Submit(l) \/ Complete(l) \/ Push(l)
  PROVE  MailboxSlotInv'
<1> USE CapacityAssumption, LeasesAssumption
<1>0. /\ MailboxTypeOK /\ SlotsHoldLeases /\ PopReadsStored /\ PopOwnsLease
      /\ lease \in [Leases -> LeaseStates]
  BY DEF MailboxSlotInv, MailboxTypeOK, LeaseStates
<1>i. PopIndex \in Index
  BY <1>0, PopIndexInRange
<1>1. CASE Submit(l) \/ Complete(l)
  <2>1. PICK w \in {"flight", "scan"} : Put(l, w, 0)
    BY <1>1 DEF Submit, Complete
  <2>2. UNCHANGED <<state, value, cursor, pop>> /\ lease[l].place \in {"pool", "flight"}
    BY <1>1 DEF Submit, Complete
  <2>3. /\ lease' \in [Leases -> LeaseStates] /\ lease'[l].place = w /\ lease'[l].pos = 0
        /\ \A m \in Leases \ {l} : lease'[m] = lease[m]
    <3>1. w \in Places /\ 0 \in 0 .. Capacity
      BY PutArguments
    <3>2. QED BY <1>0, <2>1, <3>1, PutFacts, ZenonT(30)
  <2>4. MailboxTypeOK'
    BY <1>0, <2>2, <2>3 DEF MailboxTypeOK, LeaseStates
  <2>5. SlotsHoldLeases'
    BY <1>0, <2>2, <2>3 DEF SlotsHoldLeases
  <2>6. PopReadsStored' /\ PopOwnsLease'
    BY <1>0, <2>2, <2>3 DEF PopReadsStored, PopOwnsLease, PopIndex
  <2>7. QED BY <2>4, <2>5, <2>6 DEF MailboxSlotInv
<1>2. CASE PushClaim(l)
  <2> DEFINE p == lease[l].pos
  <2>1. p \in Index /\ lease[l].place = "scan" /\ UNCHANGED <<value, cursor, pop>>
    BY <1>2 DEF PushClaim
  <2>2. CASE state[p] = "empty"
    <3>1. state' = [state EXCEPT ![p] = "writing"] /\ Put(l, "write", p)
      BY <1>2, <2>2 DEF PushClaim
    <3>2. /\ lease' \in [Leases -> LeaseStates] /\ lease'[l].place = "write" /\ lease'[l].pos = p
          /\ \A m \in Leases \ {l} : lease'[m] = lease[m]
      BY <1>0, <2>1, <3>1, PutFacts, PutArguments
    <3>3. \A m \in Leases : ~Occupies(m, p)
      BY <1>0, <2>2 DEF SlotsHoldLeases, Occupies
    <3>4. MailboxTypeOK'
      BY <1>0, <2>1, <3>1, <3>2 DEF MailboxTypeOK, LeaseStates, SlotStates
    <3>5. SlotsHoldLeases'
      BY <1>0, <2>1, <3>1, <3>2, <3>3, SMTT(30) DEF SlotsHoldLeases, Occupies, MailboxTypeOK
    <3>6. PopReadsStored' /\ PopOwnsLease'
      BY <1>0, <1>i, <2>1, <3>2 DEF PopReadsStored, PopOwnsLease, PopIndex, MailboxTypeOK
    <3>7. QED BY <3>4, <3>5, <3>6 DEF MailboxSlotInv
  <2>3. CASE state[p] # "empty"
    <3>1. UNCHANGED state /\ Put(l, "scan", p + 1)
      BY <1>2, <2>3 DEF PushClaim
    <3>2. /\ lease' \in [Leases -> LeaseStates] /\ lease'[l].place = "scan"
          /\ \A m \in Leases \ {l} : lease'[m] = lease[m]
      BY <1>0, <2>1, <3>1, PutFacts, PutArguments
    <3>3. MailboxTypeOK'
      BY <1>0, <2>1, <3>1, <3>2 DEF MailboxTypeOK, LeaseStates
    <3>4. SlotsHoldLeases'
      BY <1>0, <2>1, <3>1, <3>2 DEF SlotsHoldLeases
    <3>5. PopReadsStored' /\ PopOwnsLease'
      BY <1>0, <1>i, <2>1, <3>2 DEF PopReadsStored, PopOwnsLease, PopIndex
    <3>6. QED BY <3>3, <3>4, <3>5 DEF MailboxSlotInv
  <2>4. QED BY <2>2, <2>3
<1>3. CASE PushWrite(l)
  <2> DEFINE p == lease[l].pos
  <2>1. /\ lease[l].place = "write" /\ p \in Index /\ state[p] = "writing"
        /\ value' = [value EXCEPT ![p] = l] /\ UNCHANGED <<state, cursor, lease, pop>>
    BY <1>0, <1>3 DEF PushWrite, SlotsHoldLeases
  <2>2. \A m \in Leases : lease[m].place = "stored" => lease[m].pos # p
    BY <1>0, <2>1 DEF SlotsHoldLeases
  <2>3. MailboxTypeOK'
    BY <1>0, <2>1 DEF MailboxTypeOK
  <2>4. SlotsHoldLeases'
    BY <1>0, <2>1, <2>2 DEF SlotsHoldLeases, MailboxTypeOK
  <2>5. PopReadsStored' /\ PopOwnsLease'
    <3>1. pop.pc \in {"read", "clear"} => PopIndex # p
      BY <1>0, <2>2 DEF PopReadsStored
    <3>2. QED BY <1>0, <1>i, <2>1, <3>1 DEF PopReadsStored, PopOwnsLease, PopIndex, MailboxTypeOK
  <2>6. QED BY <2>3, <2>4, <2>5 DEF MailboxSlotInv
<1>4. CASE PushPublish(l)
  <2> DEFINE p == lease[l].pos
  <2>1. /\ lease[l].place = "write" /\ p \in Index /\ state[p] = "writing" /\ value[p] = l
        /\ state' = [state EXCEPT ![p] = "ready"] /\ Put(l, "stored", p)
        /\ UNCHANGED <<value, cursor, pop>>
    BY <1>0, <1>4 DEF PushPublish, SlotsHoldLeases
  <2>2. /\ lease' \in [Leases -> LeaseStates] /\ lease'[l].place = "stored" /\ lease'[l].pos = p
        /\ \A m \in Leases \ {l} : lease'[m] = lease[m]
    BY <1>0, <2>1, PutFacts, PutArguments, ZenonT(30)
  <2>3. MailboxTypeOK'
    BY <1>0, <2>1, <2>2 DEF MailboxTypeOK, LeaseStates, SlotStates
  <2>4. SlotsHoldLeases'
    <3>1. /\ state'[p] = "ready" /\ \A i \in Index \ {p} : state'[i] = state[i]
          /\ UNCHANGED value
      BY <1>0, <2>1 DEF MailboxTypeOK
    <3>2. \A m \in Leases \ {l} : lease[m].place \in {"write", "stored"} => lease[m].pos # p
      BY <1>0, <2>1 DEF SlotsHoldLeases
    <3>3. \A m \in Leases :
            /\ lease'[m].place = "write" =>
                 lease'[m].pos \in Index /\ state'[lease'[m].pos] = "writing"
            /\ lease'[m].place = "stored" =>
                 /\ lease'[m].pos \in Index /\ value'[lease'[m].pos] = m
                 /\ state'[lease'[m].pos] \in {"ready", "reading"}
      BY <1>0, <2>1, <2>2, <3>1, <3>2 DEF SlotsHoldLeases
    <3>4. \A k, m \in Leases :
            /\ lease'[k].place \in {"write", "stored"} /\ lease'[m].place \in {"write", "stored"}
            /\ lease'[k].pos = lease'[m].pos
            => k = m
      BY <1>0, <2>2, <3>2 DEF SlotsHoldLeases
    <3>5. ASSUME NEW i \in Index, state'[i] # "empty"
          PROVE  \E m \in Leases : lease'[m].place \in {"write", "stored"} /\ lease'[m].pos = i
      <4>1. CASE i = p
        BY <4>1, <2>2
      <4>2. CASE i # p
        BY <1>0, <2>1, <2>2, <3>1, <3>5, <4>2 DEF SlotsHoldLeases
      <4>3. QED BY <4>1, <4>2
    <3>6. QED BY <3>3, <3>4, <3>5 DEF SlotsHoldLeases
  <2>5. PopReadsStored' /\ PopOwnsLease'
    BY <1>0, <1>i, <2>1, <2>2 DEF PopReadsStored, PopOwnsLease, PopIndex, MailboxTypeOK
  <2>6. QED BY <2>3, <2>4, <2>5 DEF MailboxSlotInv
<1>5. QED BY <1>1, <1>2, <1>3, <1>4 DEF Push

\* So do the owner's.
LEMMA OwnerKeepsSlots == ASSUME MailboxSlotInv, Pop PROVE MailboxSlotInv'
<1> USE CapacityAssumption, LeasesAssumption
<1>0. /\ MailboxTypeOK /\ SlotsHoldLeases /\ PopReadsStored /\ PopOwnsLease
      /\ lease \in [Leases -> LeaseStates]
  BY DEF MailboxSlotInv, MailboxTypeOK, LeaseStates
<1>i. PopIndex \in Index
  BY <1>0, PopIndexInRange
<1>1. CASE PopBegin \/ PopEmpty
  <2>1. UNCHANGED <<state, value, cursor, lease>> /\ pop'.pc \in {"idle", "scan"}
    <3>1. CASE PopBegin
      BY <3>1 DEF PopBegin, IdlePop
    <3>2. CASE PopEmpty
      BY <3>2 DEF PopEmpty, IdlePop
    <3>3. QED BY <1>1, <3>1, <3>2
  <2>2. pop' \in [pc : PopPcs, start : Index, offset : 0 .. Capacity, got : Leases \cup {None}]
    <3>1. 0 \in Index /\ 0 \in 0 .. Capacity /\ cursor \in Index
      BY <1>0 DEF Index, MailboxTypeOK
    <3>2. CASE PopBegin
      BY <3>1, <3>2 DEF PopBegin, IdlePop, PopPcs
    <3>3. CASE PopEmpty
      BY <3>1, <3>3 DEF PopEmpty, IdlePop, PopPcs
    <3>4. QED BY <1>1, <3>2, <3>3
  <2>3. MailboxTypeOK'
    BY <1>0, <2>1, <2>2 DEF MailboxTypeOK
  <2>4. QED BY <1>0, <2>1, <2>3 DEF MailboxSlotInv, SlotsHoldLeases, PopReadsStored, PopOwnsLease
<1>2. CASE PopClaim
  <2>1. CASE state[PopIndex] = "ready"
    <3>1. /\ state' = [state EXCEPT ![PopIndex] = "reading"]
          /\ pop' = [pop EXCEPT !.pc = "read"] /\ UNCHANGED <<value, cursor, lease>>
      BY <1>2, <2>1 DEF PopClaim
    <3>2. MailboxTypeOK'
      BY <1>0, <1>i, <3>1 DEF MailboxTypeOK, SlotStates, PopPcs
    <3>3. SlotsHoldLeases'
      BY <1>0, <1>i, <2>1, <3>1 DEF SlotsHoldLeases, MailboxTypeOK
    <3>4. PICK l \in Leases : lease[l].place \in {"write", "stored"} /\ lease[l].pos = PopIndex
      BY <1>0, <1>i, <2>1 DEF SlotsHoldLeases
    <3>5. lease[l].place = "stored" /\ value[PopIndex] = l
      BY <1>0, <2>1, <3>4 DEF SlotsHoldLeases
    <3>6. lease[l] = [place |-> "stored", pos |-> PopIndex]
      BY <1>0, <3>4, <3>5 DEF LeaseStates
    <3>7. pop'.pc = "read" /\ PopIndex' = PopIndex
      BY <1>0, <3>1 DEF MailboxTypeOK, PopIndex
    <3>8. PopReadsStored' /\ PopOwnsLease'
      BY <3>1, <3>5, <3>6, <3>7 DEF PopReadsStored, PopOwnsLease
    <3>9. QED BY <3>2, <3>3, <3>8 DEF MailboxSlotInv
  <2>2. CASE state[PopIndex] # "ready"
    <3>1. /\ pop' = [pop EXCEPT !.offset = @ + 1] /\ UNCHANGED <<state, value, cursor, lease>>
          /\ pop.pc = "scan" /\ pop.offset + 1 \in 0 .. Capacity
      BY <1>0, <1>2, <2>2 DEF PopClaim, MailboxTypeOK
    <3>2. MailboxTypeOK'
      BY <1>0, <3>1 DEF MailboxTypeOK
    <3>3. pop'.pc = "scan"
      BY <1>0, <3>1 DEF MailboxTypeOK
    <3>4. QED BY <1>0, <3>1, <3>2, <3>3 DEF MailboxSlotInv, SlotsHoldLeases, PopReadsStored, PopOwnsLease
  <2>3. QED BY <2>1, <2>2
<1>3. CASE PopRead
  <2>1. /\ pop' = [pop EXCEPT !.pc = "clear", !.got = value[PopIndex]]
        /\ UNCHANGED <<state, value, cursor, lease>> /\ pop.pc = "read"
    BY <1>3 DEF PopRead
  <2>2. value[PopIndex] \in Leases
    BY <1>0, <2>1 DEF PopReadsStored
  <2>3. MailboxTypeOK'
    BY <1>0, <2>1, <2>2 DEF MailboxTypeOK, PopPcs
  <2>4. pop'.pc = "clear" /\ pop'.got = value[PopIndex] /\ PopIndex' = PopIndex
    BY <1>0, <2>1 DEF MailboxTypeOK, PopIndex
  <2>5. PopReadsStored' /\ PopOwnsLease'
    BY <1>0, <2>1, <2>4 DEF PopReadsStored, PopOwnsLease
  <2>6. QED BY <1>0, <2>1, <2>3, <2>5 DEF MailboxSlotInv, SlotsHoldLeases
<1>4. CASE PopClear
  <2> DEFINE l == pop.got
  <2>1. /\ pop.pc = "clear" /\ state' = [state EXCEPT ![PopIndex] = "empty"]
        /\ Put(l, "owner", 0) /\ pop' = [pop EXCEPT !.pc = "rotate"]
        /\ UNCHANGED <<value, cursor>>
    BY <1>4 DEF PopClear
  <2>2. l \in Leases /\ lease[l].place = "stored" /\ lease[l].pos = PopIndex
    BY <1>0, <2>1 DEF PopReadsStored
  <2>3. /\ lease' \in [Leases -> LeaseStates] /\ lease'[l].place = "owner"
        /\ \A m \in Leases \ {l} : lease'[m] = lease[m]
    BY <1>0, <2>1, <2>2, PutFacts, PutArguments
  <2>4. MailboxTypeOK'
    BY <1>0, <1>i, <2>1, <2>3 DEF MailboxTypeOK, LeaseStates, SlotStates, PopPcs
  <2>5. SlotsHoldLeases'
    <3>1. \A m \in Leases \ {l} : lease[m].place \in {"write", "stored"} => lease[m].pos # PopIndex
      BY <1>0, <2>2 DEF SlotsHoldLeases
    <3>2. \A m \in Leases : lease'[m].place \in {"write", "stored"} => m # l /\ lease'[m] = lease[m]
      BY <2>2, <2>3
    <3>3. state' \in [Index -> SlotStates] /\ \A i \in Index \ {PopIndex} : state'[i] = state[i]
      BY <1>0, <1>i, <2>1 DEF MailboxTypeOK, SlotStates
    <3>4. state'[PopIndex] = "empty"
      BY <1>0, <1>i, <2>1 DEF MailboxTypeOK
    <3>5. \A m \in Leases :
             /\ lease'[m].place = "write" =>
                  /\ lease'[m].pos \in Index /\ state'[lease'[m].pos] = "writing"
             /\ lease'[m].place = "stored" =>
                  /\ lease'[m].pos \in Index /\ value'[lease'[m].pos] = m
                  /\ state'[lease'[m].pos] \in {"ready", "reading"}
      BY <1>0, <2>1, <3>1, <3>2, <3>3 DEF SlotsHoldLeases
    <3>6. \A m, n \in Leases :
             /\ lease'[m].place \in {"write", "stored"} /\ lease'[n].place \in {"write", "stored"}
             /\ lease'[m].pos = lease'[n].pos
             => m = n
      BY <1>0, <3>2 DEF SlotsHoldLeases
    <3>7. \A i \in Index : state'[i] # "empty" =>
             \E m \in Leases : lease'[m].place \in {"write", "stored"} /\ lease'[m].pos = i
      <4> SUFFICES ASSUME NEW i \in Index, state'[i] # "empty"
                   PROVE \E m \in Leases : lease'[m].place \in {"write", "stored"} /\ lease'[m].pos = i
        OBVIOUS
      <4>1. i # PopIndex /\ state[i] # "empty"
        BY <3>3, <3>4
      <4>2. PICK m \in Leases : lease[m].place \in {"write", "stored"} /\ lease[m].pos = i
        BY <1>0, <4>1 DEF SlotsHoldLeases
      <4>3. QED BY <2>2, <2>3, <4>1, <4>2
    <3>8. QED BY <3>5, <3>6, <3>7 DEF SlotsHoldLeases
  <2>6. pop'.pc = "rotate" /\ pop'.got = l
    BY <1>0, <2>1 DEF MailboxTypeOK
  <2>7. PopReadsStored' /\ PopOwnsLease'
    BY <2>2, <2>3, <2>6 DEF PopReadsStored, PopOwnsLease
  <2>8. QED BY <2>4, <2>5, <2>7 DEF MailboxSlotInv
<1>5. CASE PopRotate
  <2>1. /\ pop.pc = "rotate" /\ cursor' = (PopIndex + 1) % Capacity
        /\ pop' = [pop EXCEPT !.pc = "done"] /\ UNCHANGED <<state, value, lease>>
    BY <1>5 DEF PopRotate
  <2>2. cursor' \in Index
    BY <1>i, <2>1, IndexMod DEF Index
  <2>3. MailboxTypeOK'
    BY <1>0, <2>1, <2>2 DEF MailboxTypeOK, PopPcs
  <2>4. pop'.pc = "done" /\ pop'.got = pop.got
    BY <1>0, <2>1 DEF MailboxTypeOK
  <2>5. PopReadsStored' /\ PopOwnsLease'
    BY <1>0, <2>1, <2>4 DEF PopReadsStored, PopOwnsLease
  <2>6. QED BY <1>0, <2>1, <2>3, <2>5 DEF MailboxSlotInv, SlotsHoldLeases
<1>6. CASE Release
  <2> DEFINE l == pop.got
  <2>1. pop.pc = "done" /\ Put(l, "pool", 0) /\ pop' = IdlePop /\ UNCHANGED <<state, value, cursor>>
    BY <1>6 DEF Release
  <2>2. l \in Leases /\ lease[l].place = "owner"
    BY <1>0, <2>1 DEF PopOwnsLease
  <2>3. /\ lease' \in [Leases -> LeaseStates] /\ lease'[l].place = "pool"
        /\ \A m \in Leases \ {l} : lease'[m] = lease[m]
    BY <1>0, <2>1, <2>2, PutFacts, PutArguments
  <2>4. MailboxTypeOK'
    BY <1>0, <2>1, <2>3 DEF MailboxTypeOK, LeaseStates, IdlePop, PopPcs, Index
  <2>5. SlotsHoldLeases'
    BY <1>0, <2>1, <2>2, <2>3 DEF SlotsHoldLeases
  <2>6. PopReadsStored' /\ PopOwnsLease'
    BY <2>1 DEF PopReadsStored, PopOwnsLease, IdlePop
  <2>7. QED BY <2>4, <2>5, <2>6 DEF MailboxSlotInv
<1>7. QED BY <1>1, <1>2, <1>3, <1>4, <1>5, <1>6 DEF Pop

\* Subsets of the leases are finite.
LEMMA BeyondFinite ==
  \A i \in 0 .. Capacity : IsFiniteSet(Beyond(i)) /\ Cardinality(Beyond(i)) \in Nat
<1>1. \A i \in 0 .. Capacity : Beyond(i) \in SUBSET Leases
  BY DEF Beyond
<1>2. QED BY <1>1, FS_Subset, FS_CardinalityType, LeasesAssumption

\* A step in which no lease advances keeps the bound.
LEMMA NoAdvance ==
  ASSUME CrowdBound, \A i \in 0 .. Capacity : Beyond(i)' \subseteq Beyond(i)
  PROVE  CrowdBound'
<1> SUFFICES ASSUME NEW i \in 0 .. Capacity
             PROVE  Cardinality(Beyond(i)') <= Capacity - i
  BY DEF CrowdBound
<1>1. /\ Cardinality(Beyond(i)') <= Cardinality(Beyond(i))
      /\ IsFiniteSet(Beyond(i)')
  BY BeyondFinite, FS_Subset
<1>2. Cardinality(Beyond(i)') \in Nat
  BY <1>1, FS_CardinalityType
<1>3. QED BY <1>1, <1>2, BeyondFinite, CapacityAssumption DEF CrowdBound

\* A producer that passes slot p leaves one lease, the occupant, behind.
LEMMA PassingSlot ==
  ASSUME MailboxSlotInv, CrowdBound, NEW l \in Leases, lease[l].place = "scan",
         lease[l].pos \in Index, state[lease[l].pos] # "empty",
         Put(l, "scan", lease[l].pos + 1)
  PROVE  CrowdBound'
<1> DEFINE p == lease[l].pos
<1>1. lease \in [Leases -> LeaseStates] /\ p + 1 \in 0 .. Capacity /\ p \in 0 .. Capacity
  BY CapacityAssumption DEF MailboxSlotInv, MailboxTypeOK, LeaseStates, Index
<1>2. /\ lease'[l].place = "scan" /\ lease'[l].pos = p + 1
      /\ \A m \in Leases \ {l} : lease'[m] = lease[m]
  BY <1>1 DEF Put, LeaseStates
<1>3. PICK m \in Leases : lease[m].place \in {"write", "stored"} /\ lease[m].pos = p
  BY DEF MailboxSlotInv, SlotsHoldLeases
<1>4. m # l
  BY <1>3
<1> SUFFICES ASSUME NEW i \in 0 .. Capacity
             PROVE  Cardinality(Beyond(i)') <= Capacity - i
  BY DEF CrowdBound
<1>5. \A n \in Leases : lease[n].pos \in 0 .. Capacity
  BY <1>1 DEF LeaseStates
<1>6. CASE i # p + 1
  <2>1. Beyond(i)' \subseteq Beyond(i)
    BY <1>1, <1>2, <1>5, <1>6, CapacityAssumption DEF Beyond
  <2>2. Cardinality(Beyond(i)') <= Cardinality(Beyond(i)) /\ IsFiniteSet(Beyond(i)')
    BY <2>1, BeyondFinite, FS_Subset
  <2>3. Cardinality(Beyond(i)') \in Nat
    BY <2>2, FS_CardinalityType
  <2>4. QED BY <2>2, <2>3, BeyondFinite, CapacityAssumption DEF CrowdBound
<1>7. CASE i = p + 1
  <2> DEFINE B == Beyond(p)
  <2>1. IsFiniteSet(B) /\ Cardinality(B) \in Nat /\ Cardinality(B) <= Capacity - p
    BY <1>1, BeyondFinite DEF CrowdBound
  <2>2. m \in B
    BY <1>1, <1>3, CapacityAssumption DEF Beyond
  <2>3. Beyond(i)' \subseteq B \ {m}
    BY <1>1, <1>2, <1>3, <1>4, <1>5, <1>7, CapacityAssumption DEF Beyond
  <2>4. IsFiniteSet(B \ {m}) /\ Cardinality(B \ {m}) = Cardinality(B) - 1
    BY <2>1, <2>2, FS_RemoveElement
  <2>5. Cardinality(Beyond(i)') <= Cardinality(B \ {m}) /\ IsFiniteSet(Beyond(i)')
    BY <2>3, <2>4, FS_Subset
  <2>6. Cardinality(Beyond(i)') \in Nat
    BY <2>5, FS_CardinalityType
  <2>7. QED BY <1>1, <1>7, <2>1, <2>4, <2>5, <2>6, CapacityAssumption
<1>8. QED BY <1>6, <1>7

\* A completion joins the scan at slot 0, where there is room for every lease.
LEMMA JoiningScan ==
  ASSUME MailboxSlotInv, CrowdBound, NEW l \in Leases, Put(l, "scan", 0)
  PROVE  CrowdBound'
<1>1. lease \in [Leases -> LeaseStates]
  BY DEF MailboxSlotInv, MailboxTypeOK, LeaseStates
<1>2. /\ lease'[l].place = "scan" /\ lease'[l].pos = 0
      /\ \A m \in Leases \ {l} : lease'[m] = lease[m]
  BY <1>1 DEF Put
<1> SUFFICES ASSUME NEW i \in 0 .. Capacity
             PROVE  Cardinality(Beyond(i)') <= Capacity - i
  BY DEF CrowdBound
<1>3. CASE i = 0
  <2>1. Beyond(i)' \subseteq Leases
    BY DEF Beyond
  <2>2. Cardinality(Beyond(i)') <= Cardinality(Leases) /\ IsFiniteSet(Beyond(i)')
    BY <2>1, FS_Subset, LeasesAssumption
  <2>3. Cardinality(Beyond(i)') \in Nat /\ Cardinality(Leases) \in Nat
    BY <2>2, FS_CardinalityType, LeasesAssumption
  <2>4. QED BY <1>3, <2>2, <2>3, PoolFitsMailbox, CapacityAssumption
<1>4. CASE i # 0
  <2>1. Beyond(i)' \subseteq Beyond(i)
    BY <1>1, <1>2, <1>4, CapacityAssumption DEF Beyond
  <2>2. Cardinality(Beyond(i)') <= Cardinality(Beyond(i)) /\ IsFiniteSet(Beyond(i)')
    BY <2>1, BeyondFinite, FS_Subset
  <2>3. Cardinality(Beyond(i)') \in Nat
    BY <2>2, FS_CardinalityType
  <2>4. QED BY <2>2, <2>3, BeyondFinite, CapacityAssumption DEF CrowdBound
<1>5. QED BY <1>3, <1>4

\* Every step keeps the bound.
LEMMA CrowdNext == MailboxInv /\ [MailboxNext]_mailboxVars => CrowdBound'
<1> SUFFICES ASSUME MailboxInv, [MailboxNext]_mailboxVars PROVE CrowdBound'
  OBVIOUS
<1>0. MailboxSlotInv /\ CrowdBound /\ lease \in [Leases -> LeaseStates]
  BY DEF MailboxInv, MailboxSlotInv, MailboxTypeOK, LeaseStates
<1>1. ASSUME NEW l \in Leases, Submit(l)
      PROVE  CrowdBound'
  <2>1. lease'[l].place = "flight" /\ \A m \in Leases \ {l} : lease'[m] = lease[m]
    BY <1>0, <1>1, PutFacts, PutArguments DEF Submit
  <2>2. \A i \in 0 .. Capacity : Beyond(i)' \subseteq Beyond(i)
    BY <2>1 DEF Beyond
  <2>3. QED BY <1>0, <2>2, NoAdvance
<1>2. ASSUME NEW l \in Leases, Complete(l)
      PROVE  CrowdBound'
  BY <1>0, <1>2, JoiningScan DEF Complete
<1>3. ASSUME NEW l \in Leases, PushClaim(l)
      PROVE  CrowdBound'
  <2>1. CASE state[lease[l].pos] # "empty"
    BY <1>0, <1>3, <2>1, PassingSlot DEF PushClaim
  <2>2. CASE state[lease[l].pos] = "empty"
    <3>1. /\ lease[l].place = "scan" /\ lease[l].pos \in 0 .. Capacity
          /\ Put(l, "write", lease[l].pos)
      BY <1>0, <1>3, <2>2 DEF PushClaim, LeaseStates
    <3>2. lease'[l].pos = lease[l].pos /\ \A m \in Leases \ {l} : lease'[m] = lease[m]
      BY <1>0, <3>1, PutFacts, PutArguments
    <3>3. \A i \in 0 .. Capacity : Beyond(i)' \subseteq Beyond(i)
      BY <3>1, <3>2 DEF Beyond
    <3>4. QED BY <1>0, <3>3, NoAdvance
  <2>3. QED BY <2>1, <2>2
<1>4. ASSUME NEW l \in Leases, PushPublish(l)
      PROVE  CrowdBound'
  <2>1. /\ lease[l].place = "write" /\ lease[l].pos \in 0 .. Capacity
        /\ Put(l, "stored", lease[l].pos)
    BY <1>0, <1>4 DEF PushPublish, LeaseStates
  <2>2. lease'[l].pos = lease[l].pos /\ \A m \in Leases \ {l} : lease'[m] = lease[m]
    BY <1>0, <2>1, PutFacts, PutArguments
  <2>3. \A i \in 0 .. Capacity : Beyond(i)' \subseteq Beyond(i)
    BY <2>1, <2>2 DEF Beyond
  <2>4. QED BY <1>0, <2>3, NoAdvance
<1>5. CASE PopClear \/ Release
  <2>1. PICK w \in {"owner", "pool"} : Put(pop.got, w, 0)
    BY <1>5 DEF PopClear, Release
  <2>2. pop.got \in Leases
    BY <1>0, <1>5 DEF MailboxSlotInv, PopReadsStored, PopOwnsLease, PopClear, Release
  <2>3. lease'[pop.got].place = w /\ \A m \in Leases \ {pop.got} : lease'[m] = lease[m]
    BY <1>0, <2>1, <2>2, PutFacts, PutArguments, ZenonT(30)
  <2>4. \A i \in 0 .. Capacity : Beyond(i)' \subseteq Beyond(i)
    BY <2>2, <2>3 DEF Beyond
  <2>5. QED BY <1>0, <2>4, NoAdvance
<1>6. CASE UNCHANGED lease
  BY <1>0, <1>6 DEF CrowdBound, Beyond
<1>7. QED
  BY <1>1, <1>2, <1>3, <1>4, <1>5, <1>6
     DEF MailboxNext, Push, Pop, PushWrite, PopBegin, PopClaim, PopEmpty, PopRead, PopRotate, mailboxVars

\* Every step preserves the inductive invariant.
LEMMA MailboxInvNext == MailboxInv /\ [MailboxNext]_mailboxVars => MailboxInv'
<1> SUFFICES ASSUME MailboxInv, [MailboxNext]_mailboxVars PROVE MailboxInv'
  OBVIOUS
<1>1. CASE UNCHANGED mailboxVars
  BY <1>1 DEF mailboxVars, MailboxInv, MailboxSlotInv, MailboxTypeOK, SlotsHoldLeases, PopReadsStored, PopOwnsLease,
              PopIndex, CrowdBound, Beyond
<1>2. CASE MailboxNext
  <2>1. MailboxSlotInv'
    BY <1>2, ProducerKeepsSlots, OwnerKeepsSlots DEF MailboxNext, MailboxInv
  <2>2. QED BY <2>1, CrowdNext DEF MailboxInv
<1>3. QED BY <1>1, <1>2

\* A full bound at the end of the array leaves nobody there.
LEMMA BoundMeansRoom == MailboxInv => PushNeverFails
<1> SUFFICES ASSUME MailboxInv, NEW l \in Leases, lease[l].place = "scan",
                    lease[l].pos = Capacity
             PROVE  FALSE
  BY DEF PushNeverFails
<1>1. Cardinality(Beyond(Capacity)) <= 0
  BY CapacityAssumption DEF MailboxInv, CrowdBound
<1>2. Beyond(Capacity) = {}
  BY <1>1, BeyondFinite, FS_EmptySet, CapacityAssumption
<1>3. l \in Beyond(Capacity)
  BY CapacityAssumption DEF Beyond
<1>4. QED BY <1>2, <1>3

\* With a mailbox as large as the pool, send_completed's assertion never
\* fires, whatever slots empty and fill behind a producer's scan.
THEOREM PushSafety == MailboxSpec => []PushNeverFails
  BY MailboxInvInit, MailboxInvNext, BoundMeansRoom, PTL DEF MailboxSpec

\* No completed lease is overwritten, lost or handed over twice.
THEOREM SlotSafety == MailboxSpec => []SlotsHoldLeases
<1>1. MailboxInv => SlotsHoldLeases
  BY DEF MailboxInv, MailboxSlotInv
<1>2. QED BY <1>1, MailboxInvInit, MailboxInvNext, PTL DEF MailboxSpec

\* The owner only ever reads an initialised, stored value out of a slot.
THEOREM PopSafety == MailboxSpec => []PopReadsStored
<1>1. MailboxInv => PopReadsStored
  BY DEF MailboxInv, MailboxSlotInv
<1>2. QED BY <1>1, MailboxInvInit, MailboxInvNext, PTL DEF MailboxSpec
=============================================================================
