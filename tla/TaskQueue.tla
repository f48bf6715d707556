------------------------------ MODULE TaskQueue ------------------------------
(***************************************************************************)
(* The worker's durable task queue: clients enqueue tasks, one dispatcher  *)
(* turns queue deliveries into durable claim files, and a pool of slots    *)
(* executes the claims, persists a routed result and removes the claim.    *)
(* Source: src/src/worker/task_queue.rs and run_worker in                  *)
(* src/src/worker/agent_os_worker.rs.                                      *)
(*                                                                         *)
(* Durable state is queue, inflight and results; saved is the queue        *)
(* library's on-disk read position.  The rest lives in the worker process. *)
(***************************************************************************)
EXTENDS Naturals, Sequences, FiniteSets

CONSTANTS
  Tasks,        \* task_id values (fresh UUIDs: a client sends each one once)
  Slots,        \* worker slots, config.concurrency of them
  NoTask,       \* "no claim in hand"
  MaxCrashes,   \* bound on process exits followed by a restart
  MaxFailures   \* bound on failed result writes and slot panics

ASSUME TaskQueueAssumption ==
  /\ NoTask \notin Tasks
  /\ Slots # {} /\ IsFiniteSet(Slots)
  /\ MaxCrashes \in Nat /\ MaxFailures \in Nat

VARIABLES
  queue,        \* every task message ever enqueued, in order
  head,         \* how many of them the receiver has committed
  saved,        \* the committed position known to be on disk
  inflight,     \* tasks with an inflight/<task_id>.json claim file
  results,      \* per task, results ever enqueued on results/by-task/<id>
  taken,        \* per task, results a client has received and committed
  up,           \* the worker process is running
  recovered,    \* WorkerQueue.recovered_claims
  hand,         \* the claim in the dispatcher's hands
  handState,    \* "idle", "renamed" (claim file written) or "claimed"
  channel,      \* the mpsc channel from the dispatcher to the slots
  slotState,    \* per slot: "idle", "executing", "executed", "persisted", "dead"
  slotTask,     \* per slot, the claim it owns
  executions,   \* per task, how often an execution was started (history)
  crashes, failures

durable == <<queue, saved, inflight, results, taken>>
process == <<head, up, recovered, hand, handState, channel, slotState, slotTask>>
vars == <<durable, process, executions, crashes, failures>>

ChannelCapacity == 2 * Cardinality(Slots)
SlotStates == {"idle", "executing", "executed", "persisted", "dead"}
Enqueued == {queue[i] : i \in DOMAIN queue}
Alive == {s \in Slots : slotState[s] # "dead"}

Init ==
  /\ queue = <<>> /\ head = 0 /\ saved = 0
  /\ inflight = {}
  /\ results = [t \in Tasks |-> 0] /\ taken = [t \in Tasks |-> 0]
  /\ up = TRUE /\ recovered = {}
  /\ hand = NoTask /\ handState = "idle"
  /\ channel = <<>>
  /\ slotState = [s \in Slots |-> "idle"]
  /\ slotTask = [s \in Slots |-> NoTask]
  /\ executions = [t \in Tasks |-> 0]
  /\ crashes = 0 /\ failures = 0

(***************************************************************************)
(* Clients.  A receive that times out returns Ok(None) and changes         *)
(* nothing, so only the successful receive is a step.                      *)
(***************************************************************************)
SendTask(t) ==
  /\ t \notin Enqueued
  /\ queue' = Append(queue, t)
  /\ UNCHANGED <<saved, inflight, results, taken, process, executions, crashes, failures>>

ReceiveResult(t) ==
  /\ taken[t] < results[t]
  /\ taken' = [taken EXCEPT ![t] = @ + 1]
  /\ UNCHANGED <<queue, saved, inflight, results, process, executions, crashes, failures>>

(***************************************************************************)
(* The dispatcher: claim_next, then task_tx.send.                          *)
(***************************************************************************)
ClaimRecovered(t) ==
  /\ up /\ handState = "idle" /\ t \in recovered
  /\ recovered' = recovered \ {t}
  /\ hand' = t /\ handState' = "claimed"
  /\ UNCHANGED <<durable, head, up, channel, slotState, slotTask, executions, crashes, failures>>

\* recv, write the temporary file, sync it and rename it into place
WriteClaim ==
  /\ up /\ handState = "idle" /\ recovered = {}
  /\ head < Len(queue)
  /\ inflight' = inflight \union {queue[head + 1]}
  /\ hand' = queue[head + 1] /\ handState' = "renamed"
  /\ UNCHANGED <<queue, saved, results, taken, head, up, recovered, channel, slotState,
                 slotTask, executions, crashes, failures>>

\* Mutants: the position advances past a second message; the guard is dropped
\* uncommitted.
CommitDeliveryTwice ==
  /\ up /\ handState = "renamed"
  /\ head' = head + 2
  /\ handState' = "claimed"
  /\ UNCHANGED <<durable, up, recovered, hand, channel, slotState, slotTask,
                 executions, crashes, failures>>

CommitDeliveryRolledBack ==
  /\ up /\ handState = "renamed"
  /\ handState' = "claimed"
  /\ UNCHANGED <<durable, head, up, recovered, hand, channel, slotState, slotTask,
                 executions, crashes, failures>>

\* guard.commit()
CommitDelivery ==
  /\ up /\ handState = "renamed"
  /\ head' = head + 1
  /\ handState' = "claimed"
  /\ UNCHANGED <<durable, up, recovered, hand, channel, slotState, slotTask,
                 executions, crashes, failures>>

\* run_worker keeps its own handle on the receiving end, so the send waits
\* for room and cannot fail, whatever became of the slots.
Dispatch ==
  /\ up /\ handState = "claimed"
  /\ Len(channel) < ChannelCapacity
  /\ channel' = Append(channel, hand)
  /\ hand' = NoTask /\ handState' = "idle"
  /\ UNCHANGED <<durable, head, up, recovered, slotState, slotTask,
                 executions, crashes, failures>>

(***************************************************************************)
(* A slot: receive a claim, execute it, persist_result, complete_claim.    *)
(***************************************************************************)
StartExecution(s) ==
  /\ up /\ slotState[s] = "idle" /\ channel # <<>>
  /\ slotState' = [slotState EXCEPT ![s] = "executing"]
  /\ slotTask' = [slotTask EXCEPT ![s] = Head(channel)]
  /\ channel' = Tail(channel)
  /\ executions' = [executions EXCEPT ![Head(channel)] = @ + 1]
  /\ UNCHANGED <<durable, head, up, recovered, hand, handState, crashes, failures>>

\* execute_task maps every outcome of the task, errors too, to a result
FinishExecution(s) ==
  /\ up /\ slotState[s] = "executing"
  /\ slotState' = [slotState EXCEPT ![s] = "executed"]
  /\ UNCHANGED <<durable, head, up, recovered, hand, handState, channel, slotTask,
                 executions, crashes, failures>>

PersistResult(s) ==
  /\ up /\ slotState[s] = "executed"
  /\ results' = [results EXCEPT ![slotTask[s]] = @ + 1]
  /\ slotState' = [slotState EXCEPT ![s] = "persisted"]
  /\ UNCHANGED <<queue, saved, inflight, taken, head, up, recovered, hand, handState,
                 channel, slotTask, executions, crashes, failures>>

ReleaseSlot(s) ==
  /\ slotState' = [slotState EXCEPT ![s] = "idle"]
  /\ slotTask' = [slotTask EXCEPT ![s] = NoTask]

\* Mutant: the claim is completed although its result was not persisted.
PersistFailsDropsClaim(s) ==
  /\ up /\ slotState[s] = "executed" /\ failures < MaxFailures
  /\ ReleaseSlot(s)
  /\ inflight' = inflight \ {slotTask[s]}
  /\ failures' = failures + 1
  /\ UNCHANGED <<queue, saved, results, taken, head, up, recovered, hand, handState,
                 channel, executions, crashes>>

\* the error is logged and the claim file stays until the next restart
PersistFails(s) ==
  /\ up /\ slotState[s] = "executed" /\ failures < MaxFailures
  /\ ReleaseSlot(s)
  /\ failures' = failures + 1
  /\ UNCHANGED <<durable, head, up, recovered, hand, handState, channel,
                 executions, crashes>>

\* remove_file; a claim file that is already gone is fine
CompleteClaim(s) ==
  /\ up /\ slotState[s] = "persisted"
  /\ inflight' = inflight \ {slotTask[s]}
  /\ ReleaseSlot(s)
  /\ UNCHANGED <<queue, saved, results, taken, head, up, recovered, hand, handState,
                 channel, executions, crashes, failures>>

CompleteFails(s) ==
  /\ up /\ slotState[s] = "persisted" /\ failures < MaxFailures
  /\ ReleaseSlot(s)
  /\ failures' = failures + 1
  /\ UNCHANGED <<durable, head, up, recovered, hand, handState, channel,
                 executions, crashes>>

\* a panic inside execute_task ends the slot's spawned task, not the process
SlotPanics(s) ==
  /\ up /\ slotState[s] = "executing" /\ failures < MaxFailures
  /\ slotState' = [slotState EXCEPT ![s] = "dead"]
  /\ slotTask' = [slotTask EXCEPT ![s] = NoTask]
  /\ failures' = failures + 1
  /\ UNCHANGED <<durable, head, up, recovered, hand, handState, channel,
                 executions, crashes>>

(***************************************************************************)
(* The process.  It ends on a crash or when claim_next returns an error.   *)
(* The queue library writes its read position now and then and on an       *)
(* orderly drop, so a restart resumes anywhere from the position saved     *)
(* before up to the one reached.                                           *)
(***************************************************************************)
Stop ==
  /\ up /\ crashes < MaxCrashes
  /\ up' = FALSE /\ crashes' = crashes + 1
  /\ saved' \in saved .. head
  /\ head' = saved'
  /\ recovered' = {}
  /\ hand' = NoTask /\ handState' = "idle"
  /\ channel' = <<>>
  /\ slotState' = [s \in Slots |-> "idle"]
  /\ slotTask' = [s \in Slots |-> NoTask]
  /\ UNCHANGED <<queue, inflight, results, taken, executions, failures>>

\* Mutant: claim files are not read back.
RestartIgnoresClaims ==
  /\ ~up
  /\ up' = TRUE
  /\ recovered' = {}
  /\ UNCHANGED <<durable, head, hand, handState, channel, slotState, slotTask,
                 executions, crashes, failures>>

\* WorkerQueue::new reads the claim files left behind
Restart ==
  /\ ~up
  /\ up' = TRUE
  /\ recovered' = inflight
  /\ UNCHANGED <<durable, head, hand, handState, channel, slotState, slotTask,
                 executions, crashes, failures>>

DispatcherStep ==
  \/ \E t \in Tasks : ClaimRecovered(t)
  \/ WriteClaim
  \/ CommitDelivery
  \/ Dispatch

SlotStep(s) ==
  \/ StartExecution(s)
  \/ FinishExecution(s)
  \/ PersistResult(s)
  \/ CompleteClaim(s)

SlotFault(s) ==
  \/ PersistFails(s)
  \/ CompleteFails(s)
  \/ SlotPanics(s)

Next ==
  \/ \E t \in Tasks : SendTask(t) \/ ReceiveResult(t)
  \/ DispatcherStep
  \/ \E s \in Slots : SlotStep(s) \/ SlotFault(s)
  \/ Stop
  \/ Restart

Spec == Init /\ [][Next]_vars

\* The dispatcher loop and every slot task keep being scheduled by the
\* runtime, and the supervisor restarts an exited worker.  Faults, crashes
\* and clients get no fairness.
Fairness ==
  /\ WF_vars(DispatcherStep)
  /\ \A s \in Slots : WF_vars(SlotStep(s))
  /\ WF_vars(Restart)

FairSpec == Spec /\ Fairness

-----------------------------------------------------------------------------
TypeOK ==
  /\ queue \in Seq(Tasks)
  /\ head \in 0 .. Len(queue) /\ saved \in 0 .. head
  /\ inflight \subseteq Tasks
  /\ results \in [Tasks -> Nat] /\ taken \in [Tasks -> Nat]
  /\ up \in BOOLEAN /\ recovered \subseteq Tasks
  /\ hand \in Tasks \union {NoTask}
  /\ handState \in {"idle", "renamed", "claimed"}
  /\ channel \in Seq(Tasks)
  /\ slotState \in [Slots -> SlotStates]
  /\ slotTask \in [Slots -> Tasks \union {NoTask}]
  /\ executions \in [Tasks -> Nat]
  /\ crashes \in 0 .. MaxCrashes /\ failures \in 0 .. MaxFailures

\* A task once enqueued stays owed until a result is durable: whatever
\* crashes happen between the claim file's rename, the delivery's commit,
\* the result write and the claim's removal, it is still undelivered, or has
\* a claim file, or has a persisted result.
NoTaskLost ==
  \A i \in DOMAIN queue :
    \/ i > head
    \/ queue[i] \in inflight
    \/ results[queue[i]] > 0

\* NoTaskLost made inductive: a claim written but not yet committed is the
\* delivery at the head of the queue and is covered already, so the commit may
\* advance past it; a slot removes a claim file only once the result is there.
DeliveryInv ==
  /\ TypeOK
  /\ NoTaskLost
  /\ handState = "renamed" =>
       /\ head < Len(queue)
       /\ hand = queue[head + 1]
       /\ hand \in inflight \/ results[hand] > 0
  /\ \A s \in Slots :
       /\ slotState[s] \in {"executing", "executed", "persisted"} => slotTask[s] \in Tasks
       /\ slotState[s] = "persisted" => results[slotTask[s]] > 0
  /\ handState = "claimed" => hand \in Tasks

\* The claims the running process is working on, wherever they are.
Carried ==
  recovered \union (IF hand = NoTask THEN {} ELSE {hand})
    \union {channel[i] : i \in DOMAIN channel}
    \union ({slotTask[s] : s \in Slots} \ {NoTask})

\* Duplicate execution comes from restarts only, and a restart adds at most
\* two executions of one task: the recovered claim and a redelivered message.
DuplicatesNeedCrash ==
  \A t \in Tasks : executions[t] <= 1 + 2 * crashes

\* No claim enters a second slot while the worker has never restarted: two
\* slots work on the same task at the same time only after a crash left it
\* both claimed and queued.
ExclusiveExecution ==
  crashes = 0 =>
    \A s1, s2 \in Slots :
      s1 # s2 /\ slotTask[s1] # NoTask => slotTask[s1] # slotTask[s2]

\* Only a crash, through run_worker's recovered claims and the queue's
\* redelivery, makes a task run again, and only so often.
RedoneOnlyAfterCrash == DuplicatesNeedCrash /\ ExclusiveExecution

\* A claim the running worker has given up on, after a failure.
Stranded(t) == up /\ failures > 0 /\ t \in inflight \ Carried

\* Every enqueued task is answered, crashes or not, unless a failed write or
\* a panic stranded its claim until a restart that may not come, or every
\* slot of the pool died.
EveryTaskSettles ==
  \A t \in Tasks :
    (t \in Enqueued) ~> (results[t] > 0 \/ Stranded(t) \/ Alive = {})

=============================================================================
