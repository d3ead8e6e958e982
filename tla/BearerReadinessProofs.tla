----------------------- MODULE BearerReadinessProofs -----------------------
(***************************************************************************)
(* BearerReadiness for every set of bearers and every mailbox capacity: no *)
(* readiness is lost and the owner never sleeps on a full slot.  That a    *)
(* callback finds a slot is not among the theorems, for it may not.        *)
(***************************************************************************)
EXTENDS BearerReadiness, TLAPS

\* The three invariants are inductive together: a refusal that finds a frame
\* already started relies on the task that continues the frame.
RetryNamesBearer == owner.pc = "retry" => owner.bearer \in Bearers
Inv ==
  /\ TypeOK /\ RetryNamesBearer
  /\ StartedIsContinued /\ RefusedWillBeRetried /\ OwnerSeesEverySlot

TaskStates == [pc : TaskPcs, pos : 0 .. Capacity]

\* Every slot, and the place after it, is a position of a scan.
LEMMA Positions ==
  /\ 0 \in 0 .. Capacity
  /\ \A i \in Index : i \in 0 .. Capacity /\ i + 1 \in 0 .. Capacity /\ i # Capacity
  BY CapacityAssumption DEF Index

\* A task that is sent to a program point is there, and no other task moves.
LEMMA GotoFacts ==
  ASSUME task \in [Bearers -> TaskStates], NEW b \in Bearers, NEW pc \in TaskPcs, Goto(b, pc)
  PROVE  /\ task' \in [Bearers -> TaskStates]
         /\ task'[b].pc = pc /\ task'[b].pos = 0
         /\ \A c \in Bearers \ {b} : task'[c] = task[c]
  BY Positions DEF Goto, At, TaskStates

\* What an offered packet does to the bearer it is offered to.
LEMMA OfferFacts ==
  ASSUME TypeOK, NEW b \in Bearers, Offer(b)
  PROVE  /\ permit' \in [Bearers -> BOOLEAN] /\ active' \in [Bearers -> BOOLEAN]
         /\ room' \in [Bearers -> BOOLEAN] /\ pending' \in [Bearers -> BOOLEAN]
         /\ \A c \in Bearers \ {b} :
              /\ permit'[c] = permit[c] /\ active'[c] = active[c]
              /\ pending'[c] = pending[c]
         /\ permit[b] => permit'[b]
         /\ active'[b] => permit'[b] \/ active[b]
         /\ pending'[b] => permit'[b] \/ active'[b]
<1>1. CASE Refused(b)
  BY <1>1 DEF Refused, TypeOK
<1>2. CASE Written(b)
  BY <1>2 DEF Written, TypeOK
<1>3. CASE PartlyWritten(b)
  BY <1>3 DEF PartlyWritten, TypeOK
<1>4. CASE Broken(b)
  BY <1>4 DEF Broken, TypeOK
<1>5. QED BY <1>1, <1>2, <1>3, <1>4 DEF Offer

\* The inductive invariant holds initially.
LEMMA InitInv == Init => Inv
<1> SUFFICES ASSUME Init PROVE Inv
  OBVIOUS
<1>1. TypeOK
  BY Positions DEF Init, TypeOK, At, Asleep, TaskPcs
<1>2. RetryNamesBearer /\ StartedIsContinued /\ RefusedWillBeRetried /\ OwnerSeesEverySlot
  BY DEF Init, Asleep, RetryNamesBearer, StartedIsContinued, RefusedWillBeRetried, OwnerSeesEverySlot
<1>3. QED BY <1>1, <1>2 DEF Inv

\* An offer keeps what is true of refused packets and started frames, when no
\* task and no slot changes; the bearer itself may owe its announcement.
LEMMA OfferKeeps ==
  ASSUME TypeOK, StartedIsContinued, NEW b \in Bearers, Offer(b),
         UNCHANGED <<slot, task>>,
         \A c \in Bearers \ {b} : pending[c] /\ ~Ended(c) =>
           \/ permit[c]
           \/ task[c].pc \in {"writable", "progress", "scan"}
           \/ \E i \in Index : slot[i] = c
  PROVE  StartedIsContinued' /\ RefusedWillBeRetried'
<1>1. StartedIsContinued'
  BY OfferFacts DEF StartedIsContinued
<1>2. RefusedWillBeRetried'
  <2> SUFFICES ASSUME NEW c \in Bearers, pending'[c], ~Ended(c)'
               PROVE  \/ permit'[c]
                      \/ task'[c].pc \in {"writable", "progress", "scan"}
                      \/ \E i \in Index : slot'[i] = c
    BY DEF RefusedWillBeRetried
  <2>1. CASE c = b
    BY <2>1, <1>1, OfferFacts DEF StartedIsContinued, Ended
  <2>2. CASE c # b
    <3>1. pending[c] /\ ~Ended(c)
      BY <2>2, OfferFacts DEF Ended
    <3>2. QED BY <3>1, <2>2, OfferFacts
  <2>3. QED BY <2>1, <2>2
<1>3. QED BY <1>1, <1>2

\* Every step preserves the inductive invariant.
LEMMA NextInv == Inv /\ [Next]_vars => Inv'
<1> SUFFICES ASSUME Inv, [Next]_vars PROVE Inv'
  OBVIOUS
<1>0. TypeOK /\ StartedIsContinued /\ RefusedWillBeRetried /\ OwnerSeesEverySlot
  BY DEF Inv
<1>r. RetryNamesBearer'
  <2>1. CASE PopReady
    <3>1. owner.pos \in Index => slot[owner.pos] \in Bearers \cup {None}
      BY <1>0 DEF TypeOK
    <3>2. CASE slot[owner.pos] = None
      BY <1>0, <2>1, <3>2 DEF PopReady, TypeOK, RetryNamesBearer
    <3>3. CASE slot[owner.pos] # None
      BY <1>0, <2>1, <3>1, <3>3 DEF PopReady, TypeOK, RetryNamesBearer
    <3>4. QED BY <3>2, <3>3
  <2>2. CASE owner' = owner \/ owner'.pc # "retry"
    BY <2>2 DEF Inv, RetryNamesBearer
  <2>3. CASE \E why : Wake(why)
    BY <2>3, <2>2 DEF Wake, Scanning, Asleep
  <2>4. CASE RetryPending \/ DrainEnd
    BY <2>4, <2>2 DEF RetryPending, DrainEnd, Scanning, Asleep
  <2>5. ASSUME NEW b \in Bearers, Writer(b) \/ TaskBreaks(b) \/ SocketDrains(b)
        PROVE  owner' = owner
    BY <2>5 DEF Writer, TaskNotified, TaskWritable, TaskCompletes,
       TaskContinues, TaskBreaks, SendReady, Notify, SocketDrains
  <2>6. CASE UNCHANGED vars
    BY <2>6, <2>2 DEF vars
  <2>7. QED BY <2>1, <2>2, <2>3, <2>4, <2>5, <2>6 DEF Next, Owner
<1>1. ASSUME NEW why, Wake(why) PROVE Inv'
  <2>1. TypeOK'
    BY <1>0, <1>1, Positions DEF Wake, TypeOK, Scanning, Asleep
  <2>2. StartedIsContinued' /\ RefusedWillBeRetried'
    BY <1>0, <1>1 DEF Wake, Scanning, Asleep, StartedIsContinued, RefusedWillBeRetried, Ended
  <2>3. OwnerSeesEverySlot'
    BY <1>0, <1>1 DEF Wake, Scanning, Asleep, OwnerSeesEverySlot, Index
  <2>4. QED BY <1>r, <2>1, <2>2, <2>3 DEF Inv
<1>2. CASE PopReady
  <2>1. TypeOK'
    BY <1>0, <1>2, Positions DEF PopReady, TypeOK
  <2>2. StartedIsContinued'
    BY <1>0, <1>2 DEF PopReady, StartedIsContinued
  <2>3. RefusedWillBeRetried'
    <3> SUFFICES ASSUME NEW b \in Bearers, pending'[b], ~Ended(b)',
                        ~permit'[b], task'[b].pc \notin {"writable", "progress", "scan"}
                 PROVE  \/ \E i \in Index : slot'[i] = b
                        \/ owner'.pc = "retry" /\ owner'.bearer = b
      BY DEF RefusedWillBeRetried
    <3>1. PICK i \in Index : slot[i] = b
      BY <1>0, <1>2 DEF PopReady, RefusedWillBeRetried, Ended
    <3>2. CASE i = owner.pos
      <4>1. slot[owner.pos] # None
        BY <3>1, <3>2, BearersAssumption
      <4>2. QED BY <3>1, <3>2, <4>1, <1>0, <1>2 DEF PopReady, TypeOK
    <3>3. CASE i # owner.pos
      BY <3>1, <3>3, <1>0, <1>2 DEF PopReady, TypeOK
    <3>4. QED BY <3>2, <3>3
  <2>4. OwnerSeesEverySlot'
    BY <1>0, <1>2 DEF PopReady, OwnerSeesEverySlot, TypeOK, Index
  <2>5. QED BY <1>r, <2>1, <2>2, <2>3, <2>4 DEF Inv
<1>3. CASE RetryPending
  <2>1. owner' = Scanning /\ UNCHANGED <<slot, task, changed>>
    BY <1>3 DEF RetryPending
  <2>2. OwnerSeesEverySlot'
    BY <2>1 DEF OwnerSeesEverySlot, Scanning, Asleep, Index
  <2>3. CASE pending[owner.bearer]
    <3>1. owner.bearer \in Bearers
      BY <1>3 DEF RetryPending, Inv, RetryNamesBearer
    <3>2. Offer(owner.bearer)
      BY <1>3, <2>3 DEF RetryPending
    <3>3. TypeOK'
      BY <1>0, <2>1, <3>1, <3>2, OfferFacts, Positions DEF TypeOK, Scanning, Asleep
    <3>4. StartedIsContinued' /\ RefusedWillBeRetried'
      <4>1. \A c \in Bearers \ {owner.bearer} : pending[c] /\ ~Ended(c) =>
              \/ permit[c]
              \/ task[c].pc \in {"writable", "progress", "scan"}
              \/ \E i \in Index : slot[i] = c
        BY <1>0 DEF RefusedWillBeRetried
      <4>2. QED BY <4>1, <1>0, <2>1, <3>1, <3>2, OfferKeeps
    <3>5. QED BY <1>r, <2>2, <3>3, <3>4 DEF Inv
  <2>4. CASE ~pending[owner.bearer]
    <3>1. UNCHANGED <<permit, active, room, pending>>
      BY <1>3, <2>4 DEF RetryPending
    <3>2. TypeOK'
      BY <1>0, <2>1, <3>1, Positions DEF TypeOK, Scanning, Asleep
    <3>3. StartedIsContinued'
      BY <1>0, <2>1, <3>1 DEF StartedIsContinued
    <3>4. RefusedWillBeRetried'
      BY <1>0, <2>1, <2>4, <3>1 DEF RefusedWillBeRetried, Ended
    <3>5. QED BY <1>r, <2>2, <3>2, <3>3, <3>4 DEF Inv
  <2>5. QED BY <2>3, <2>4
<1>4. CASE DrainEnd
  <2>1. owner.pc = "scan" /\ owner.pos = Capacity /\ owner' = Asleep /\ UNCHANGED <<slot, task, changed>>
    BY <1>4 DEF DrainEnd
  <2>2. OwnerSeesEverySlot'
    BY <1>0, <2>1, CapacityAssumption DEF OwnerSeesEverySlot, Asleep, Index
  <2>3. CASE UNCHANGED <<permit, active, room, pending>>
    <3>1. TypeOK'
      BY <1>0, <2>1, <2>3, Positions DEF TypeOK, Asleep
    <3>2. StartedIsContinued' /\ RefusedWillBeRetried'
      BY <1>0, <2>1, <2>3 DEF StartedIsContinued, RefusedWillBeRetried, Ended
    <3>3. QED BY <1>r, <2>2, <3>1, <3>2 DEF Inv
  <2>4. CASE \E b \in Bearers : ~pending[b] /\ Offer(b)
    <3>1. PICK b \in Bearers : Offer(b)
      BY <2>4
    <3>2. TypeOK'
      BY <1>0, <2>1, <3>1, OfferFacts, Positions DEF TypeOK, Asleep
    <3>3. StartedIsContinued' /\ RefusedWillBeRetried'
      <4>1. \A c \in Bearers \ {b} : pending[c] /\ ~Ended(c) =>
              \/ permit[c]
              \/ task[c].pc \in {"writable", "progress", "scan"}
              \/ \E i \in Index : slot[i] = c
        BY <1>0, <2>1 DEF RefusedWillBeRetried
      <4>2. QED BY <4>1, <1>0, <2>1, <3>1, OfferKeeps
    <3>4. QED BY <1>r, <2>2, <3>2, <3>3 DEF Inv
  <2>5. QED BY <1>4, <2>3, <2>4 DEF DrainEnd
<1>5. ASSUME NEW b \in Bearers, Writer(b) \/ TaskBreaks(b) \/ SocketDrains(b) PROVE Inv'
  <2>0. task \in [Bearers -> TaskStates] /\ {"await", "writable", "progress", "scan", "notify", "dead"} = TaskPcs
    BY <1>0 DEF TypeOK, TaskStates, TaskPcs
  <2> HIDE DEF TaskPcs
  <2>1. CASE TaskNotified(b)
    <3>1. TypeOK' /\ StartedIsContinued'
      BY <1>0, <2>0, <2>1, GotoFacts DEF TaskNotified, TypeOK, StartedIsContinued, TaskStates
    <3>2. RefusedWillBeRetried'
      BY <1>0, <2>0, <2>1, GotoFacts DEF TaskNotified, RefusedWillBeRetried, Ended
    <3>3. OwnerSeesEverySlot'
      BY <1>0, <2>0, <2>1, GotoFacts DEF TaskNotified, OwnerSeesEverySlot
    <3>4. QED BY <1>r, <3>1, <3>2, <3>3 DEF Inv
  <2>2. CASE TaskWritable(b)
    <3>1. TypeOK' /\ StartedIsContinued'
      BY <1>0, <2>0, <2>2, GotoFacts DEF TaskWritable, TypeOK, StartedIsContinued, TaskStates
    <3>2. RefusedWillBeRetried'
      BY <1>0, <2>0, <2>2, GotoFacts DEF TaskWritable, RefusedWillBeRetried, Ended
    <3>3. OwnerSeesEverySlot'
      BY <1>0, <2>0, <2>2, GotoFacts DEF TaskWritable, OwnerSeesEverySlot
    <3>4. QED BY <1>r, <3>1, <3>2, <3>3 DEF Inv
  <2>3. CASE TaskCompletes(b)
    <3>1. TypeOK' /\ StartedIsContinued'
      BY <1>0, <2>0, <2>3, GotoFacts DEF TaskCompletes, TypeOK, StartedIsContinued, TaskStates
    <3>2. RefusedWillBeRetried'
      BY <1>0, <2>0, <2>3, GotoFacts DEF TaskCompletes, RefusedWillBeRetried, Ended
    <3>3. OwnerSeesEverySlot'
      BY <1>0, <2>0, <2>3, GotoFacts DEF TaskCompletes, OwnerSeesEverySlot
    <3>4. QED BY <1>r, <3>1, <3>2, <3>3 DEF Inv
  <2>4. CASE TaskContinues(b)
    <3>1. TypeOK' /\ StartedIsContinued'
      BY <1>0, <2>0, <2>4, GotoFacts DEF TaskContinues, TypeOK, StartedIsContinued, TaskStates
    <3>2. RefusedWillBeRetried'
      <4>1. permit'[b] /\ \A c \in Bearers \ {b} : permit'[c] = permit[c] /\ task'[c] = task[c]
        BY <1>0, <2>0, <2>4, GotoFacts DEF TaskContinues, TypeOK
      <4>2. UNCHANGED <<slot, pending, owner>>
        BY <2>4 DEF TaskContinues
      <4>3. QED BY <1>0, <4>1, <4>2 DEF RefusedWillBeRetried, Ended
    <3>3. OwnerSeesEverySlot'
      BY <1>0, <2>0, <2>4, GotoFacts DEF TaskContinues, OwnerSeesEverySlot
    <3>4. QED BY <1>r, <3>1, <3>2, <3>3 DEF Inv
  <2>5. CASE TaskBreaks(b)
    <3>1. /\ active' \in [Bearers -> BOOLEAN] /\ \A c \in Bearers \ {b} : active'[c] = active[c]
          /\ Goto(b, "dead") /\ UNCHANGED <<slot, permit, room, pending, owner, changed>>
      BY <1>0, <2>5 DEF TaskBreaks, TypeOK
    <3>2. task[b].pc # "notify"
      BY <2>5 DEF TaskBreaks
    <3>3. TypeOK' /\ StartedIsContinued' /\ RefusedWillBeRetried'
      <4>1. TypeOK'
        BY <1>0, <2>0, <3>1, GotoFacts DEF TypeOK, TaskStates
      <4>2. StartedIsContinued'
        BY <1>0, <2>0, <3>1, GotoFacts DEF StartedIsContinued
      <4>3. RefusedWillBeRetried'
        BY <1>0, <2>0, <3>1, GotoFacts DEF RefusedWillBeRetried, Ended
      <4>4. QED BY <4>1, <4>2, <4>3
    <3>4. OwnerSeesEverySlot'
      BY <1>0, <2>0, <3>1, <3>2, GotoFacts DEF OwnerSeesEverySlot
    <3>5. QED BY <1>r, <3>3, <3>4 DEF Inv
  <2>6. CASE SendReady(b)
    <3>0. task[b].pc = "scan" /\ task[b].pos \in Index
      BY <2>6 DEF SendReady
    <3>1. CASE slot[task[b].pos] \in {None, b}
      <4>1. /\ slot' = [slot EXCEPT ![task[b].pos] = b] /\ Goto(b, "notify")
            /\ UNCHANGED <<permit, active, room, pending, owner, changed>>
        BY <2>6, <3>1 DEF SendReady
      <4>2. TypeOK' /\ StartedIsContinued'
        BY <1>0, <2>0, <3>0, <4>1, GotoFacts DEF TypeOK, StartedIsContinued, TaskStates
      <4>3. slot'[task[b].pos] = b /\ \A i \in Index : slot'[i] = slot[i] \/ i = task[b].pos
        BY <1>0, <3>0, <4>1 DEF TypeOK
      <4>4. RefusedWillBeRetried'
        <5> SUFFICES ASSUME NEW c \in Bearers, pending'[c], ~Ended(c)',
                            ~permit'[c], task'[c].pc \notin {"writable", "progress", "scan"}
                     PROVE  \/ \E i \in Index : slot'[i] = c
                            \/ owner'.pc = "retry" /\ owner'.bearer = c
          BY DEF RefusedWillBeRetried
        <5>1. CASE c = b
          BY <5>1, <3>0, <4>3
        <5>2. CASE c # b
          <6>1. task'[c] = task[c]
            BY <5>2, <2>0, <4>1, GotoFacts
          <6>2. \/ \E i \in Index : slot[i] = c
                \/ owner.pc = "retry" /\ owner.bearer = c
            BY <6>1, <1>0, <4>1 DEF RefusedWillBeRetried, Ended
          <6>3. ASSUME NEW i \in Index, slot[i] = c PROVE slot'[i] = c
            BY <6>3, <5>2, <3>1, <4>3, BearersAssumption
          <6>4. QED BY <6>2, <6>3, <4>1
        <5>3. QED BY <5>1, <5>2
      <4>5. OwnerSeesEverySlot'
        BY <2>0, <4>1, GotoFacts DEF OwnerSeesEverySlot
      <4>6. QED BY <1>r, <4>2, <4>4, <4>5 DEF Inv
    <3>2. CASE slot[task[b].pos] \notin {None, b}
      <4>1. /\ task' = [task EXCEPT ![b].pos = @ + 1] /\ UNCHANGED slot
            /\ UNCHANGED <<permit, active, room, pending, owner, changed>>
        BY <2>6, <3>2 DEF SendReady
      <4>2. /\ task' \in [Bearers -> TaskStates]
            /\ \A c \in Bearers : task'[c].pc = task[c].pc
            /\ \A c \in Bearers \ {b} : task'[c] = task[c]
        BY <2>0, <3>0, <4>1, Positions DEF TaskStates
      <4>3. TypeOK' /\ StartedIsContinued' /\ OwnerSeesEverySlot'
        BY <1>0, <4>1, <4>2 DEF TypeOK, StartedIsContinued, OwnerSeesEverySlot, TaskStates
      <4>4. RefusedWillBeRetried'
        BY <1>0, <3>0, <4>1, <4>2 DEF RefusedWillBeRetried, Ended
      <4>5. QED BY <1>r, <4>3, <4>4 DEF Inv
    <3>3. QED BY <3>1, <3>2
  <2>7. CASE Notify(b)
    <3>1. /\ changed' = TRUE /\ Goto(b, "await") /\ task[b].pc = "notify"
          /\ UNCHANGED <<slot, permit, active, room, pending, owner>>
      BY <2>7 DEF Notify
    <3>2. TypeOK' /\ StartedIsContinued'
      BY <1>0, <2>0, <3>1, GotoFacts DEF TypeOK, StartedIsContinued, TaskStates
    <3>3. RefusedWillBeRetried'
      <4> SUFFICES ASSUME NEW c \in Bearers, pending'[c], ~Ended(c)', ~permit'[c],
                          task'[c].pc \notin {"writable", "progress", "scan"}
                   PROVE  \/ \E i \in Index : slot'[i] = c
                          \/ owner'.pc = "retry" /\ owner'.bearer = c
        BY DEF RefusedWillBeRetried
      <4>1. task[c].pc \notin {"writable", "progress", "scan"} /\ pending[c] /\ ~permit[c]
        BY <2>0, <3>1, GotoFacts
      <4>2. ~Ended(c)
        BY <1>0, <2>0, <3>1, GotoFacts DEF Ended
      <4>3. QED BY <1>0, <3>1, <4>1, <4>2 DEF RefusedWillBeRetried
    <3>4. OwnerSeesEverySlot'
      BY <3>1 DEF OwnerSeesEverySlot
    <3>5. QED BY <1>r, <3>2, <3>3, <3>4 DEF Inv
  <2>8. CASE SocketDrains(b)
    BY <1>0, <1>r, <2>8 DEF SocketDrains, Inv, TypeOK, StartedIsContinued,
       RefusedWillBeRetried, OwnerSeesEverySlot, Ended
  <2>9. QED BY <1>5, <2>1, <2>2, <2>3, <2>4, <2>5, <2>6, <2>7, <2>8 DEF Writer
<1>6. CASE UNCHANGED vars
  BY <1>0, <1>r, <1>6 DEF vars, Inv, TypeOK, StartedIsContinued, RefusedWillBeRetried,
     OwnerSeesEverySlot, Ended
<1>7. QED BY <1>1, <1>2, <1>3, <1>4, <1>5, <1>6 DEF Next, Owner

\* Type correctness, of TypeOK, for every set of bearers and capacity.
THEOREM ReadinessTypes == Spec => []TypeOK
BY InitInv, NextInv, PTL DEF Spec, Inv

\* Whatever the interleaving of submissions, callbacks, retries and writer
\* tasks, the packet registration.pending retains has its retry under way.
THEOREM NoLostReadiness == Spec => []RefusedWillBeRetried
BY InitInv, NextInv, PTL DEF Spec, Inv

\* A partial write of a framed bearer is always continued by its task.
THEOREM NoAbandonedWrite == Spec => []StartedIsContinued
BY InitInv, NextInv, PTL DEF Spec, Inv

\* The owner's wait on CompletionQueue::changed misses no published slot.
THEOREM NoMissedWake == Spec => []OwnerSeesEverySlot
BY InitInv, NextInv, PTL DEF Spec, Inv
=============================================================================
