-------------------------- MODULE BearerReadiness --------------------------
(***************************************************************************)
(* How a packet that a bearer refused gets its second chance.  The bearer  *)
(* registration of bearer.rs retains the one packet for which submit       *)
(* answered WouldBlock; the bearer's writer task (bearer_framed.rs) reports*)
(* room with send_ready through the ready half of CompletionQueue, and the *)
(* node's owner (node.rs, tokio.rs) sleeps until it is notified, drains the*)
(* mailbox and retries.                                                    *)
(*                                                                         *)
(* The mailbox is an array of atomics.  A callback scans it from the first *)
(* slot for an empty one or for its own bearer; the owner swaps slots out, *)
(* from the first slot again after every hit.  The scans interleave slot by*)
(* slot.  Submission and the writer's progress hold the bearer's lock and  *)
(* are single steps.                                                       *)
(***************************************************************************)
EXTENDS Integers

CONSTANTS
  Bearers,
  Capacity,   \* slots of the ready mailbox: the pool's capacity, at least 1
  None        \* an empty slot

ASSUME BearersAssumption == None \notin Bearers
ASSUME CapacityAssumption == Capacity \in Nat \ {0}

Index == 0 .. Capacity - 1
TaskPcs == {"await", "writable", "progress", "scan", "notify", "dead"}

VARIABLES
  slot,      \* slot[i]: the bearer stored in mailbox slot i
  task,      \* task[b]: where b's writer task is, and its scan position
  permit,    \* permit[b]: b's progress Notify holds a permit
  active,    \* active[b]: b holds a frame whose write has started
  room,      \* room[b]: b's socket can take bytes
  pending,   \* pending[b]: the registration retains a refused packet
  owner,     \* the node's owner: asleep, scanning, or about to retry
  changed    \* CompletionQueue's Notify holds a permit for the owner

vars == <<slot, task, permit, active, room, pending, owner, changed>>

At(pc, pos) == [pc |-> pc, pos |-> pos]
Asleep == [pc |-> "idle", pos |-> 0, bearer |-> None]
Scanning == [Asleep EXCEPT !.pc = "scan"]

Init ==
  /\ slot = [i \in Index |-> None]
  /\ task = [b \in Bearers |-> At("await", 0)]
  /\ permit = [b \in Bearers |-> FALSE]
  /\ active = [b \in Bearers |-> FALSE]
  /\ room = [b \in Bearers |-> TRUE]
  /\ pending = [b \in Bearers |-> FALSE]
  /\ owner = Asleep
  /\ changed = FALSE

Goto(b, pc) == task' = [task EXCEPT ![b] = At(pc, 0)]

-----------------------------------------------------------------------------
\* Mutant: a refusal does not notify the writer task.
RefusedSilently(b) ==
  /\ active[b] \/ (~room[b] /\ task[b].pc # "dead")
  /\ pending' = [pending EXCEPT ![b] = TRUE]
  /\ UNCHANGED <<active, room, permit>>

\* TokioFramedBearer::submit for a packet the node offers to b.
Refused(b) ==
  /\ active[b] \/ (~room[b] /\ task[b].pc # "dead")
  /\ pending' = [pending EXCEPT ![b] = TRUE]
  /\ permit' = [permit EXCEPT ![b] = @ \/ ~active[b]]
  /\ UNCHANGED <<active, room>>

Written(b) ==
  /\ ~active[b] /\ (room[b] \/ task[b].pc = "dead")
  /\ pending' = [pending EXCEPT ![b] = FALSE]
  /\ \E more \in {room[b], FALSE} : room' = [room EXCEPT ![b] = more]
  /\ UNCHANGED <<active, permit>>

\* Mutant: a partial write does not notify the writer task.
PartlyWrittenSilently(b) ==
  /\ ~active[b] /\ room[b] /\ task[b].pc # "dead"
  /\ pending' = [pending EXCEPT ![b] = FALSE]
  /\ active' = [active EXCEPT ![b] = TRUE]
  /\ room' = [room EXCEPT ![b] = FALSE]
  /\ UNCHANGED permit

PartlyWritten(b) ==
  /\ ~active[b] /\ room[b] /\ task[b].pc # "dead"
  /\ pending' = [pending EXCEPT ![b] = FALSE]
  /\ active' = [active EXCEPT ![b] = TRUE]
  /\ room' = [room EXCEPT ![b] = FALSE]
  /\ permit' = [permit EXCEPT ![b] = TRUE]

\* The carrier broke: the packet is completed as failed.
Broken(b) ==
  /\ ~active[b] /\ task[b].pc # "dead"
  /\ pending' = [pending EXCEPT ![b] = FALSE]
  /\ UNCHANGED <<active, room, permit>>

Offer(b) == Refused(b) \/ Written(b) \/ PartlyWritten(b) \/ Broken(b)

-----------------------------------------------------------------------------
\* The owner wakes: notified, or because of ingress, a timer or a caller.
Wake(why) ==
  /\ owner.pc = "idle"
  /\ why = "notified" => changed
  /\ owner' = Scanning
  /\ changed' = (changed /\ why # "notified")
  /\ UNCHANGED <<slot, task, permit, active, room, pending>>

\* pop_ready: swap one slot with 0.
PopReady ==
  /\ owner.pc = "scan" /\ owner.pos \in Index
  /\ owner' = IF slot[owner.pos] = None
                THEN [owner EXCEPT !.pos = @ + 1]
                ELSE [owner EXCEPT !.pc = "retry", !.bearer = slot[owner.pos]]
  /\ slot' = [slot EXCEPT ![owner.pos] = None]
  /\ UNCHANGED <<task, permit, active, room, pending, changed>>

\* drain_bearer_events: retry what the registration retains, then pop again.
RetryPending ==
  /\ owner.pc = "retry"
  /\ IF pending[owner.bearer]
       THEN Offer(owner.bearer)
       ELSE UNCHANGED <<permit, active, room, pending>>
  /\ owner' = Scanning
  /\ UNCHANGED <<slot, task, changed>>

\* pop_ready found nothing: the drain is over, and the submission it was a
\* part of, if any, goes to a bearer that retains nothing.
DrainEnd ==
  /\ owner.pc = "scan" /\ owner.pos = Capacity
  /\ owner' = Asleep
  /\ \/ UNCHANGED <<permit, active, room, pending>>
     \/ \E b \in Bearers : ~pending[b] /\ Offer(b)
  /\ UNCHANGED <<slot, task, changed>>

Owner == Wake("notified") \/ PopReady \/ RetryPending \/ DrainEnd

-----------------------------------------------------------------------------
\* The writer task of attach: progress.notified().await
TaskNotified(b) ==
  /\ task[b].pc = "await" /\ permit[b]
  /\ permit' = [permit EXCEPT ![b] = FALSE]
  /\ Goto(b, "writable")
  /\ UNCHANGED <<slot, active, room, pending, owner, changed>>

\* writer.writable().await
TaskWritable(b) ==
  /\ task[b].pc = "writable" /\ room[b]
  /\ Goto(b, "progress")
  /\ UNCHANGED <<slot, permit, active, room, pending, owner, changed>>

\* Mutant: the total leaves out the frame header, so no count equals it.
TaskCompletesNever(b) ==
  /\ task[b].pc = "progress" /\ ~active[b]
  /\ Goto(b, "scan")
  /\ UNCHANGED <<slot, permit, active, room, pending, owner, changed>>

\* progress_active_write: nothing started, or the started frame is finished.
TaskCompletes(b) ==
  /\ task[b].pc = "progress"
  /\ active[b] => room[b]
  /\ active' = [active EXCEPT ![b] = FALSE]
  /\ Goto(b, "scan")
  /\ UNCHANGED <<slot, permit, room, pending, owner, changed>>

\* progress_active_write: the started frame needs more room.
TaskContinues(b) ==
  /\ task[b].pc = "progress" /\ active[b]
  /\ room' = [room EXCEPT ![b] = FALSE]
  /\ permit' = [permit EXCEPT ![b] = TRUE]
  /\ Goto(b, "await")
  /\ UNCHANGED <<slot, active, pending, owner, changed>>

\* writable failed, and a started frame is left as it is, or its next write
\* failed and completes it: the task ends.
TaskBreaks(b) ==
  /\ \/ task[b].pc = "writable" /\ UNCHANGED active
     \/ /\ task[b].pc = "progress" /\ active[b]
        /\ active' = [active EXCEPT ![b] = FALSE]
  /\ Goto(b, "dead")
  /\ UNCHANGED <<slot, permit, room, pending, owner, changed>>

\* send_ready: compare-exchange the next slot; a slot that already names the
\* bearer serves as well.
SendReady(b) ==
  LET pos == task[b].pos IN
  /\ task[b].pc = "scan" /\ pos \in Index
  /\ IF slot[pos] \in {None, b}
       THEN /\ slot' = [slot EXCEPT ![pos] = b]
            /\ Goto(b, "notify")
       ELSE /\ task' = [task EXCEPT ![b].pos = @ + 1]
            /\ UNCHANGED slot
  /\ UNCHANGED <<permit, active, room, pending, owner, changed>>

\* Mutant: notify_waiters instead of notify_one, which leaves no permit.
NotifyWaiters(b) ==
  /\ task[b].pc = "notify"
  /\ changed' = (changed \/ owner.pc = "idle")
  /\ Goto(b, "await")
  /\ UNCHANGED <<slot, permit, active, room, pending, owner>>

\* send_ready: changed.notify_one
Notify(b) ==
  /\ task[b].pc = "notify"
  /\ changed' = TRUE
  /\ Goto(b, "await")
  /\ UNCHANGED <<slot, permit, active, room, pending, owner>>

Writer(b) ==
  \/ TaskNotified(b) \/ TaskWritable(b) \/ TaskCompletes(b) \/ TaskContinues(b)
  \/ SendReady(b) \/ Notify(b)

\* The socket's peer reads.
SocketDrains(b) ==
  /\ ~room[b]
  /\ room' = [room EXCEPT ![b] = TRUE]
  /\ UNCHANGED <<slot, task, permit, active, pending, owner, changed>>

Next ==
  \/ Owner \/ Wake("other")
  \/ \E b \in Bearers : Writer(b) \/ TaskBreaks(b) \/ SocketDrains(b)

\* Tasks that can run are polled, a started frame is finished after finitely
\* many writes, and the carrier's peer keeps reading.
Fairness ==
  /\ WF_vars(Owner)
  /\ \A b \in Bearers : WF_vars(Writer(b)) /\ SF_vars(TaskCompletes(b)) /\ WF_vars(SocketDrains(b))

Spec == Init /\ [][Next]_vars
FairSpec == Spec /\ Fairness

-----------------------------------------------------------------------------
\* Type correctness; a scan that runs off the end is the assertion of
\* send_ready, "ready queue invariant violated".
TypeOK ==
  /\ slot \in [Index -> Bearers \cup {None}]
  /\ task \in [Bearers -> [pc : TaskPcs, pos : 0 .. Capacity]]
  /\ permit \in [Bearers -> BOOLEAN] /\ active \in [Bearers -> BOOLEAN]
  /\ room \in [Bearers -> BOOLEAN] /\ pending \in [Bearers -> BOOLEAN]
  /\ owner \in [pc : {"idle", "scan", "retry"}, pos : 0 .. Capacity,
                bearer : Bearers \cup {None}]
  /\ changed \in BOOLEAN

\* The task has ended: the carrier broke or send_ready's assertion failed.
Ended(b) ==
  task[b].pc = "dead" \/ (task[b].pc = "scan" /\ task[b].pos = Capacity)

\* No readiness is lost: while a bearer with a running task has a refused
\* packet, something that leads to its retry is under way - the writer task
\* has work before it publishes, the mailbox names the bearer, or the owner is
\* about to retry it - however the retry races the callback that announces the
\* room it needs.
RefusedWillBeRetried ==
  \A b \in Bearers : pending[b] /\ ~Ended(b) =>
    \/ permit[b]
    \/ task[b].pc \in {"writable", "progress", "scan"}
    \/ \E i \in Index : slot[i] = b
    \/ owner.pc = "retry" /\ owner.bearer = b

\* A frame whose write has started has a task that continues it, so its lease
\* comes back, unless the carrier's task has ended.
StartedIsContinued ==
  \A b \in Bearers : active[b] =>
    permit[b] \/ task[b].pc \in {"writable", "progress", "dead"}

\* The owner never sleeps on a full slot: it has not passed the slot yet, or
\* it holds or will get a permit that makes it scan again.
OwnerSeesEverySlot ==
  \A i \in Index : slot[i] # None =>
    \/ changed
    \/ \E b \in Bearers : task[b].pc = "notify"
    \/ owner.pc = "retry"
    \/ owner.pc = "scan" /\ owner.pos <= i

\* Readiness is coalesced, so a callback always finds a slot.
CallbackFindsSlot ==
  \A b \in Bearers : task[b].pc = "scan" => task[b].pos # Capacity

\* A refused packet is eventually offered again and taken, or its carrier ends.
RefusedIsTaken ==
  \A b \in Bearers : pending[b] ~> (~pending[b] \/ Ended(b))
=============================================================================
