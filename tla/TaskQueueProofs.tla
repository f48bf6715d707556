--------------------------- MODULE TaskQueueProofs ---------------------------
(***************************************************************************)
(* At-least-once delivery of the worker's task queue, and the bound on the *)
(* executions of one task, for any number of tasks, slots, crashes and     *)
(* failures.                                                               *)
(***************************************************************************)
EXTENDS TaskQueue, TLAPS, FiniteSetTheorems, FunctionTheorems

\* Indexing a sequence of tasks yields a task, and appending keeps the prefix.
LEMMA QueueElements ==
  ASSUME NEW q \in Seq(Tasks)
  PROVE  /\ DOMAIN q = 1 .. Len(q)
         /\ \A i \in 1 .. Len(q) : q[i] \in Tasks
         /\ \A t \in Tasks :
              /\ Append(q, t) \in Seq(Tasks)
              /\ Len(Append(q, t)) = Len(q) + 1
              /\ \A i \in 1 .. Len(q) : Append(q, t)[i] = q[i]
              /\ Append(q, t)[Len(q) + 1] = t
  OBVIOUS

\* What the dispatcher and the slots take from the channel is a task.
LEMMA ChannelElements ==
  ASSUME NEW c \in Seq(Tasks), c # <<>>
  PROVE  Head(c) \in Tasks /\ Tail(c) \in Seq(Tasks)
  OBVIOUS

LEMMA InitDelivery == Init => DeliveryInv
  BY TaskQueueAssumption DEF Init, DeliveryInv, TypeOK, NoTaskLost, SlotStates

\* The client's steps: a new task is behind the head, so it is undelivered.
LEMMA ClientSteps ==
  ASSUME DeliveryInv, NEW t \in Tasks, SendTask(t) \/ ReceiveResult(t)
  PROVE  DeliveryInv'
<1>1. CASE SendTask(t)
  <2>1. /\ queue' = Append(queue, t)
        /\ queue' \in Seq(Tasks) /\ Len(queue') = Len(queue) + 1
        /\ \A i \in 1 .. Len(queue) : queue'[i] = queue[i]
        /\ DOMAIN queue = 1 .. Len(queue) /\ DOMAIN queue' = 1 .. Len(queue')
        /\ Len(queue) \in Nat
    BY <1>1, QueueElements DEF SendTask, DeliveryInv, TypeOK
  <2>2. UNCHANGED <<head, saved, inflight, results, taken, up, recovered, hand, handState,
                    channel, slotState, slotTask, executions, crashes, failures>>
    BY <1>1 DEF SendTask, process
  <2>3. TypeOK'
    BY SMTT(60), <2>1, <2>2 DEF DeliveryInv, TypeOK
  <2>4. NoTaskLost'
    BY <2>1, <2>2 DEF DeliveryInv, TypeOK, NoTaskLost
  <2>5. QED
    BY <2>1, <2>2, <2>3, <2>4 DEF DeliveryInv, TypeOK
<1>2. CASE ReceiveResult(t)
  BY <1>2 DEF ReceiveResult, process, DeliveryInv, TypeOK, NoTaskLost
<1>3. QED BY <1>1, <1>2

\* The dispatcher's steps: the claim file exists before the delivery commits.
LEMMA DispatcherSteps ==
  ASSUME DeliveryInv, DispatcherStep
  PROVE  DeliveryInv'
<1>1. ASSUME NEW t \in Tasks, ClaimRecovered(t) PROVE DeliveryInv'
  BY <1>1 DEF ClaimRecovered, durable, DeliveryInv, TypeOK, NoTaskLost
<1>2. CASE WriteClaim
  <2>1. head + 1 \in 1 .. Len(queue) /\ queue[head + 1] \in Tasks
    BY SMTT(60), <1>2, QueueElements DEF WriteClaim, DeliveryInv, TypeOK
  <2>2. TypeOK'
    BY <1>2, <2>1 DEF WriteClaim, DeliveryInv, TypeOK
  <2>3. NoTaskLost'
    BY <1>2 DEF WriteClaim, DeliveryInv, NoTaskLost
  <2>4. QED
    BY <1>2, <2>1, <2>2, <2>3 DEF WriteClaim, DeliveryInv, TypeOK
<1>3. CASE CommitDelivery
  <2>1. TypeOK'
    BY SMTT(60), <1>3 DEF CommitDelivery, durable, DeliveryInv, TypeOK
  <2>2. NoTaskLost'
    BY SMTT(60), <1>3, QueueElements DEF CommitDelivery, durable, DeliveryInv, TypeOK, NoTaskLost
  <2>3. hand \in Tasks
    BY <1>3, QueueElements DEF CommitDelivery, DeliveryInv, TypeOK
  <2>4. QED
    BY <1>3, <2>1, <2>2, <2>3 DEF CommitDelivery, durable, DeliveryInv
<1>4. CASE Dispatch
  <2>1. hand \in Tasks /\ Append(channel, hand) \in Seq(Tasks)
    BY <1>4, QueueElements DEF Dispatch, DeliveryInv, TypeOK
  <2>2. QED
    BY <1>4, <2>1 DEF Dispatch, durable, DeliveryInv, TypeOK, NoTaskLost
<1>5. QED BY <1>1, <1>2, <1>3, <1>4 DEF DispatcherStep

\* The slots' steps: only a slot that has persisted its result removes a claim.
LEMMA SlotSteps ==
  ASSUME DeliveryInv, NEW s \in Slots, SlotStep(s) \/ SlotFault(s)
  PROVE  DeliveryInv'
<1>1. CASE StartExecution(s)
  <2>1. Head(channel) \in Tasks /\ Tail(channel) \in Seq(Tasks)
    BY <1>1, ChannelElements DEF StartExecution, DeliveryInv, TypeOK
  <2>2. QED
    BY SMTT(60), <1>1, <2>1 DEF StartExecution, durable, DeliveryInv, TypeOK, NoTaskLost, SlotStates
<1>2. CASE FinishExecution(s)
  BY <1>2 DEF FinishExecution, durable, DeliveryInv, TypeOK, NoTaskLost, SlotStates
<1>3. CASE PersistResult(s)
  <2>1. slotTask[s] \in Tasks
    BY <1>3 DEF PersistResult, DeliveryInv
  <2>2. \A t \in Tasks : results'[t] >= results[t] /\ results'[t] \in Nat
    BY <1>3 DEF PersistResult, DeliveryInv, TypeOK
  <2>3. results'[slotTask[s]] > 0
    BY <1>3, <2>1 DEF PersistResult, DeliveryInv, TypeOK
  <2>4. TypeOK'
    BY <1>3 DEF PersistResult, DeliveryInv, TypeOK, SlotStates
  <2>5. NoTaskLost'
    BY <1>3, <2>2, QueueElements DEF PersistResult, DeliveryInv, TypeOK, NoTaskLost
  <2>6. QED
    BY SMTT(60), <1>3, <2>1, <2>2, <2>3, <2>4, <2>5, QueueElements
       DEF PersistResult, DeliveryInv, TypeOK
<1>4. CASE CompleteClaim(s)
  <2>1. slotTask[s] \in Tasks /\ results[slotTask[s]] > 0
    BY <1>4 DEF CompleteClaim, DeliveryInv
  <2>2. TypeOK'
    BY <1>4 DEF CompleteClaim, ReleaseSlot, DeliveryInv, TypeOK, SlotStates
  <2>3. NoTaskLost'
    BY <1>4, <2>1 DEF CompleteClaim, DeliveryInv, NoTaskLost
  <2>4. QED
    BY <1>4, <2>1, <2>2, <2>3 DEF CompleteClaim, ReleaseSlot, DeliveryInv, TypeOK
<1>5. CASE PersistFails(s)
  BY <1>5, TaskQueueAssumption
     DEF PersistFails, ReleaseSlot, durable, DeliveryInv, TypeOK, NoTaskLost, SlotStates
<1>6. CASE CompleteFails(s)
  BY <1>6, TaskQueueAssumption
     DEF CompleteFails, ReleaseSlot, durable, DeliveryInv, TypeOK, NoTaskLost, SlotStates
<1>7. CASE SlotPanics(s)
  BY <1>7, TaskQueueAssumption
     DEF SlotPanics, durable, DeliveryInv, TypeOK, NoTaskLost, SlotStates
<1>8. QED BY <1>1, <1>2, <1>3, <1>4, <1>5, <1>6, <1>7 DEF SlotStep, SlotFault

\* A crash forgets the process but no file; the read position only moves back.
LEMMA ProcessSteps ==
  ASSUME DeliveryInv, Stop \/ Restart
  PROVE  DeliveryInv'
<1>1. CASE Stop
  <2>1. saved' \in saved .. head /\ head' = saved'
    BY <1>1 DEF Stop
  <2>2. head' \in 0 .. Len(queue) /\ head' <= head
    BY <2>1 DEF DeliveryInv, TypeOK
  <2>3. TypeOK'
    <3>1. saved' \in 0 .. head' /\ crashes' \in 0 .. MaxCrashes
      BY <1>1, <2>1, TaskQueueAssumption DEF Stop, DeliveryInv, TypeOK
    <3>2. /\ slotState' \in [Slots -> SlotStates]
          /\ slotTask' \in [Slots -> Tasks \union {NoTask}]
      BY <1>1 DEF Stop, SlotStates
    <3>3. UNCHANGED <<queue, inflight, results, taken, executions, failures>>
      BY <1>1 DEF Stop
    <3>4. /\ up' = FALSE /\ recovered' = {} /\ channel' = <<>>
          /\ hand' \in Tasks \union {NoTask}
          /\ handState' \in {"idle", "renamed", "claimed"}
      BY <1>1 DEF Stop
    <3>5. /\ queue' \in Seq(Tasks) /\ head' \in 0 .. Len(queue')
          /\ inflight' \subseteq Tasks
          /\ failures' \in 0 .. MaxFailures
      BY <2>2, <3>3 DEF DeliveryInv, TypeOK
    <3>6. /\ results' \in [Tasks -> Nat] /\ taken' \in [Tasks -> Nat]
          /\ executions' \in [Tasks -> Nat]
      BY <3>3 DEF DeliveryInv, TypeOK
    <3>7. /\ recovered' \subseteq Tasks /\ channel' \in Seq(Tasks)
      BY <3>4
    <3>8. QED
      BY <3>1, <3>2, <3>4, <3>5, <3>6, <3>7 DEF TypeOK
  <2>4. NoTaskLost'
    BY <1>1, <2>2, QueueElements DEF Stop, DeliveryInv, TypeOK, NoTaskLost
  <2>5. QED
    BY <1>1, <2>3, <2>4 DEF Stop, DeliveryInv
<1>2. CASE Restart
  BY <1>2 DEF Restart, durable, DeliveryInv, TypeOK, NoTaskLost
<1>3. QED BY <1>1, <1>2

\* The delivery invariant holds in every reachable state.
THEOREM DeliveryInvariant == Spec => []DeliveryInv
<1>1. DeliveryInv /\ [Next]_vars => DeliveryInv'
  <2>1. CASE UNCHANGED vars
    BY <2>1 DEF vars, durable, process, DeliveryInv, TypeOK, NoTaskLost
  <2>2. CASE Next
    BY <2>2, ClientSteps, DispatcherSteps, SlotSteps, ProcessSteps DEF Next
  <2>3. QED BY <2>1, <2>2
<1>2. QED BY InitDelivery, <1>1, PTL DEF Spec

\* Every variable keeps its type: task_queue.rs never advances the receiver
\* past the queue and never claims anything but a task.
THEOREM TypeCorrect == Spec => []TypeOK
<1>1. DeliveryInv => TypeOK BY DEF DeliveryInv
<1>2. QED BY DeliveryInvariant, <1>1, PTL

\* At-least-once: claim_next, persist_result and complete_claim, interleaved
\* with crashes, restarts and failed writes in any order, never lose a task.
THEOREM AtLeastOnce == Spec => []NoTaskLost
<1>1. DeliveryInv => NoTaskLost BY DEF DeliveryInv
<1>2. QED BY DeliveryInvariant, <1>1, PTL


-----------------------------------------------------------------------------
(***************************************************************************)
(* The bound on duplicate executions.  Every copy of a task that can still *)
(* start an execution is counted where it is: a recovered claim, the claim *)
(* in the dispatcher's hand, an entry of the channel, or a message behind  *)
(* the receiver's position.  Executions already started plus the copies    *)
(* still owed never exceed two per restart, plus one.                      *)
(***************************************************************************)

Bit(b) == IF b THEN 1 ELSE 0
Occurring(c, t) == {i \in DOMAIN c : c[i] = t}
Copies(c, t) == Cardinality(Occurring(c, t))

\* A channel has finitely many places.
LEMMA OccurringFinite ==
  ASSUME NEW c \in Seq(Tasks), NEW t
  PROVE  /\ IsFiniteSet(Occurring(c, t)) /\ Copies(c, t) \in Nat
         /\ \A i \in Occurring(c, t) : i \in 1 .. Len(c)
<1>1. DOMAIN c = 1 .. Len(c) /\ Len(c) \in Nat
  OBVIOUS
<1>2. IsFiniteSet(1 .. Len(c))
  BY <1>1, FS_Interval
<1>3. Occurring(c, t) \subseteq 1 .. Len(c)
  BY <1>1 DEF Occurring
<1>4. IsFiniteSet(Occurring(c, t))
  BY <1>2, <1>3, FS_Subset
<1>5. QED BY <1>3, <1>4, FS_CardinalityType DEF Copies

\* Dispatch adds one copy.
LEMMA CopiesAppend ==
  ASSUME NEW c \in Seq(Tasks), NEW u \in Tasks, NEW t
  PROVE  Copies(Append(c, u), t) = Copies(c, t) + Bit(u = t)
<1>1. /\ DOMAIN c = 1 .. Len(c) /\ Len(c) \in Nat
      /\ DOMAIN Append(c, u) = 1 .. (Len(c) + 1)
      /\ \A i \in 1 .. Len(c) : Append(c, u)[i] = c[i]
      /\ Append(c, u)[Len(c) + 1] = u
  OBVIOUS
<1>2. CASE u = t
  <2>1. Occurring(Append(c, u), t) = Occurring(c, t) \union {Len(c) + 1}
    BY <1>1, <1>2 DEF Occurring
  <2>2. Len(c) + 1 \notin Occurring(c, t)
    BY <1>1 DEF Occurring
  <2>3. QED BY <1>2, <2>1, <2>2, OccurringFinite, FS_AddElement DEF Copies, Bit
<1>3. CASE u # t
  <2>1. Occurring(Append(c, u), t) = Occurring(c, t)
    BY <1>1, <1>3 DEF Occurring
  <2>2. QED BY <1>3, <2>1, OccurringFinite DEF Copies, Bit
<1>4. QED BY <1>2, <1>3

\* A slot that receives takes one copy.
LEMMA CopiesTail ==
  ASSUME NEW c \in Seq(Tasks), c # <<>>, NEW t
  PROVE  Copies(c, t) = Copies(Tail(c), t) + Bit(Head(c) = t)
<1>1. /\ DOMAIN c = 1 .. Len(c) /\ Len(c) \in Nat /\ Len(c) > 0 /\ Head(c) = c[1]
      /\ DOMAIN Tail(c) = 1 .. (Len(c) - 1) /\ Tail(c) \in Seq(Tasks)
      /\ \A i \in 1 .. (Len(c) - 1) : Tail(c)[i] = c[i + 1]
  OBVIOUS
<1> DEFINE rest == {i \in Occurring(c, t) : i # 1}
           f == [i \in Occurring(Tail(c), t) |-> i + 1]
<1>2. f \in Bijection(Occurring(Tail(c), t), rest)
  <2>1. f \in [Occurring(Tail(c), t) -> rest]
    BY <1>1 DEF Occurring
  <2>2. \A i, j \in Occurring(Tail(c), t) : f[i] = f[j] => i = j
    BY <1>1 DEF Occurring
  <2>3. ASSUME NEW j \in rest PROVE \E i \in Occurring(Tail(c), t) : f[i] = j
    <3>1. j - 1 \in Occurring(Tail(c), t) /\ f[j - 1] = j
      BY <1>1 DEF Occurring
    <3>2. QED BY <3>1
  <2>4. QED BY <2>1, <2>2, <2>3, Fun_IsBij
<1>3. Cardinality(rest) = Copies(Tail(c), t) /\ IsFiniteSet(rest) /\ Cardinality(rest) \in Nat
  <2>1. ExistsBijection(Occurring(Tail(c), t), rest)
    BY <1>2 DEF ExistsBijection
  <2>2. IsFiniteSet(Occurring(Tail(c), t)) /\ Copies(Tail(c), t) \in Nat
    BY <1>1, OccurringFinite
  <2> HIDE DEF rest
  <2>3. QED BY <2>1, <2>2, FS_Bijection DEF Copies
<1>4. CASE Head(c) = t
  <2>1. Occurring(c, t) = rest \union {1} /\ 1 \notin rest
    BY <1>1, <1>4 DEF Occurring
  <2> HIDE DEF rest
  <2>2. Cardinality(rest \union {1}) = Cardinality(rest) + 1
    BY <1>3, <2>1, FS_AddElement
  <2>3. QED BY <1>3, <1>4, <2>1, <2>2 DEF Copies, Bit
<1>5. CASE Head(c) # t
  <2>1. Occurring(c, t) = rest
    BY <1>1, <1>5 DEF Occurring
  <2> HIDE DEF rest
  <2>2. QED BY <1>3, <1>5, <2>1 DEF Copies, Bit
<1>6. QED BY <1>4, <1>5

\* Where the copies of a task are that can still start an execution of it.
Ahead == IF handState = "renamed" THEN head + 1 ELSE head
Waiting(t) == \E i \in DOMAIN queue : i > Ahead /\ queue[i] = t
Owed(t) == Bit(t \in recovered) + Bit(hand = t) + Copies(channel, t) + Bit(Waiting(t))

\* A client sends a task once; whatever is in flight was sent.
SentOnce == \A i, j \in DOMAIN queue : queue[i] = queue[j] => i = j
OnlySent ==
  /\ inflight \subseteq Enqueued /\ recovered \subseteq Enqueued
  /\ hand \in Enqueued \union {NoTask}
  /\ \A i \in DOMAIN channel : channel[i] \in Enqueued
  /\ \A t \in Tasks : t \notin Enqueued => executions[t] = 0
\* The hand is empty exactly between two claims.
HandMatches == handState = "idle" <=> hand = NoTask
\* A worker that is down holds nothing and has crashed.
DownIsEmpty ==
  ~up => /\ crashes > 0
         /\ recovered = {} /\ handState = "idle" /\ channel = <<>>
         /\ \A s \in Slots : slotTask[s] = NoTask
\* Executions started and executions still owed are paid for by restarts.
Budget == \A t \in Tasks : executions[t] + Owed(t) <= 2 * crashes + Bit(up)
\* A slot that holds a task has started it.
SlotsStarted == \A s \in Slots : slotTask[s] # NoTask => executions[slotTask[s]] > 0

ExecutionInv ==
  /\ DeliveryInv /\ SentOnce /\ OnlySent /\ HandMatches /\ DownIsEmpty
  /\ Budget /\ SlotsStarted /\ ExclusiveExecution

\* The counts are numbers.
LEMMA OwedNat ==
  ASSUME TypeOK, NEW t
  PROVE  /\ Owed(t) \in Nat /\ Copies(channel, t) \in Nat
         /\ Bit(t \in recovered) \in 0 .. 1 /\ Bit(hand = t) \in 0 .. 1 /\ Bit(Waiting(t)) \in 0 .. 1
         /\ Bit(up) \in 0 .. 1
<1>1. Copies(channel, t) \in Nat
  BY OccurringFinite DEF TypeOK
<1>2. QED BY <1>1 DEF Owed, Bit

\* A task that is not in the channel has no copy in it.
LEMMA CopiesNone ==
  ASSUME NEW c \in Seq(Tasks), NEW t, \A i \in DOMAIN c : c[i] # t
  PROVE  Copies(c, t) = 0
  BY FS_EmptySet DEF Copies, Occurring

\* An empty channel holds nothing.
LEMMA CopiesEmpty == ASSUME NEW t PROVE Copies(<<>>, t) = 0
<1>1. <<>> \in Seq(Tasks) /\ DOMAIN <<>> = {}
  OBVIOUS
<1>2. QED BY <1>1, CopiesNone

\* A step that moves no claim: the slots may drop what they hold.
LEMMA QuietSteps ==
  ASSUME ExecutionInv,
         UNCHANGED <<queue, head, up, recovered, hand, handState, channel, executions, crashes>>,
         inflight' \subseteq inflight, DeliveryInv',
         \A s \in Slots : slotTask'[s] \in {slotTask[s], NoTask}
  PROVE  ExecutionInv'
<1>1. SentOnce' /\ OnlySent' /\ HandMatches' /\ DownIsEmpty'
  BY DEF ExecutionInv, SentOnce, OnlySent, HandMatches, DownIsEmpty, Enqueued
<1>2. Budget'
  BY DEF ExecutionInv, Budget, Owed, Waiting, Ahead
<1>3. SlotsStarted' /\ ExclusiveExecution'
  BY DEF ExecutionInv, SlotsStarted, ExclusiveExecution
<1>4. QED BY <1>1, <1>2, <1>3 DEF ExecutionInv

\* A task is enqueued once, so the first copy of it is the message itself.
LEMMA ExecSend ==
  ASSUME ExecutionInv, NEW u \in Tasks, SendTask(u), DeliveryInv'
  PROVE  ExecutionInv'
<1>1. /\ queue' = Append(queue, u) /\ u \notin Enqueued
      /\ queue' \in Seq(Tasks) /\ Len(queue') = Len(queue) + 1
      /\ \A i \in 1 .. Len(queue) : queue'[i] = queue[i]
      /\ queue'[Len(queue) + 1] = u
      /\ DOMAIN queue = 1 .. Len(queue) /\ DOMAIN queue' = 1 .. Len(queue')
      /\ Len(queue) \in Nat
  BY QueueElements DEF SendTask, ExecutionInv, DeliveryInv, TypeOK
<1>2. UNCHANGED <<head, inflight, up, recovered, hand, handState,
                  channel, slotState, slotTask, executions, crashes>>
  BY DEF SendTask, process
<1>3. SentOnce'
  BY <1>1 DEF ExecutionInv, SentOnce, Enqueued
<1>4. Enqueued' = Enqueued \union {u}
  BY <1>1 DEF Enqueued
<1>5. OnlySent' /\ HandMatches' /\ DownIsEmpty' /\ SlotsStarted' /\ ExclusiveExecution'
  BY <1>2, <1>4 DEF ExecutionInv, OnlySent, HandMatches, DownIsEmpty, SlotsStarted, ExclusiveExecution
<1>6. ASSUME NEW t \in Tasks PROVE (executions[t] + Owed(t) <= 2 * crashes + Bit(up))'
  <2>1. CASE t = u
    <3>1. /\ t \notin recovered /\ hand # t /\ executions[t] = 0
          /\ \A i \in DOMAIN channel : channel[i] # t
      BY <1>1, <2>1, TaskQueueAssumption DEF ExecutionInv, OnlySent
    <3>2. Copies(channel, t) = 0
      BY <3>1, CopiesNone DEF ExecutionInv, DeliveryInv, TypeOK
    <3>3. Bit(Waiting(t)') \in 0 .. 1
      BY DEF Bit
    <3>4. (executions[t] + Owed(t))' = Bit(Waiting(t)')
      BY <1>2, <3>1, <3>2, <3>3 DEF Owed, Bit
    <3>5. crashes \in Nat /\ (~up => crashes > 0)
      BY DEF ExecutionInv, DownIsEmpty, DeliveryInv, TypeOK
    <3>6. 2 * crashes + Bit(up) >= 1
      BY <3>5 DEF Bit
    <3>7. QED BY <1>2, <3>3, <3>4, <3>5, <3>6 DEF Bit
  <2>2. CASE t # u
    <3>1. Ahead' = Ahead /\ Ahead \in Nat
      <4>1. head \in 0 .. Len(queue)
        BY DEF ExecutionInv, DeliveryInv, TypeOK
      <4>2. head \in Nat
        BY <1>1, <4>1
      <4>3. QED BY <1>2, <4>2 DEF Ahead
    <3>2. Waiting(t)' <=> Waiting(t)
      BY <1>1, <2>2, <3>1 DEF Waiting
    <3>3. Owed(t)' = Owed(t)
      BY <1>2, <3>2 DEF Owed, Bit
    <3>4. QED BY <1>2, <3>3 DEF ExecutionInv, Budget
  <2>3. QED BY <2>1, <2>2
<1>7. Budget' BY <1>6 DEF Budget
<1>8. QED BY <1>3, <1>5, <1>7 DEF ExecutionInv

\* A claim moves one place further.
LEMMA ExecDispatch ==
  ASSUME ExecutionInv, DispatcherStep, DeliveryInv'
  PROVE  ExecutionInv'
<1> USE DEF ExecutionInv
<1>1. ASSUME NEW u \in Tasks, ClaimRecovered(u) PROVE ExecutionInv'
  <2>1. /\ u \in recovered /\ recovered' = recovered \ {u} /\ hand = NoTask /\ hand' = u
        /\ handState = "idle" /\ handState' = "claimed" /\ up
        /\ UNCHANGED <<queue, head, inflight, up, channel, slotState, slotTask, executions, crashes>>
    BY <1>1 DEF ClaimRecovered, durable, HandMatches
  <2>2. SentOnce' /\ OnlySent' /\ HandMatches' /\ DownIsEmpty' /\ SlotsStarted' /\ ExclusiveExecution'
    BY <2>1, TaskQueueAssumption DEF SentOnce, OnlySent, HandMatches, DownIsEmpty, SlotsStarted,
       ExclusiveExecution, Enqueued
  <2>3. ASSUME NEW t \in Tasks PROVE Owed(t)' = Owed(t)
    <3>1. Waiting(t)' = Waiting(t)
      BY <2>1 DEF Waiting, Ahead
    <3>2. QED BY <2>1, <3>1, OwedNat, TaskQueueAssumption DEF Owed, Bit, DeliveryInv
  <2>4. Budget' BY <2>1, <2>3 DEF Budget
  <2>5. QED BY <2>2, <2>4
<1>2. CASE WriteClaim
  <2> DEFINE u == queue[head + 1]
  <2>1. /\ up /\ handState = "idle" /\ hand = NoTask /\ recovered = {} /\ head \in Nat
        /\ inflight' = inflight \union {u} /\ hand' = u /\ handState' = "renamed"
        /\ UNCHANGED <<queue, head, up, recovered, channel, slotState, slotTask, executions, crashes>>
    BY <1>2 DEF WriteClaim, HandMatches, DeliveryInv, TypeOK
  <2>2. head + 1 \in DOMAIN queue /\ DOMAIN queue = 1 .. Len(queue) /\ u \in Tasks /\ u \in Enqueued
    BY SMTT(60), <1>2, QueueElements DEF WriteClaim, DeliveryInv, TypeOK, Enqueued
  <2>3. SentOnce' /\ OnlySent' /\ HandMatches' /\ DownIsEmpty' /\ SlotsStarted' /\ ExclusiveExecution'
    BY <2>1, <2>2, TaskQueueAssumption DEF SentOnce, OnlySent, HandMatches, DownIsEmpty, SlotsStarted,
       ExclusiveExecution, Enqueued
  <2>4. ASSUME NEW t \in Tasks PROVE Owed(t)' = Owed(t)
    <3>1. CASE t = u
      <4>1. Waiting(t)
        BY <2>1, <2>2, <3>1 DEF Waiting, Ahead
      <4>2. ~ Waiting(t)'
        BY <2>1, <2>2, <3>1 DEF Waiting, Ahead, SentOnce
      <4>3. QED BY <2>1, <3>1, <4>1, <4>2, OwedNat, TaskQueueAssumption DEF Owed, Bit, DeliveryInv
    <3>2. CASE t # u
      <4>1. Waiting(t)' <=> Waiting(t)
        BY <2>1, <2>2, <3>2 DEF Waiting, Ahead
      <4>2. QED BY <2>1, <3>2, <4>1, TaskQueueAssumption DEF Owed, Bit
    <3>3. QED BY <3>1, <3>2
  <2>5. Budget' BY <2>1, <2>4 DEF Budget
  <2>6. QED BY <2>3, <2>5
<1>3. CASE CommitDelivery
  <2>1. /\ up /\ handState = "renamed" /\ handState' = "claimed" /\ head' = head + 1
        /\ UNCHANGED <<queue, inflight, up, recovered, hand, channel, slotState, slotTask, executions, crashes>>
    BY <1>3 DEF CommitDelivery, durable
  <2>2. SentOnce' /\ OnlySent' /\ HandMatches' /\ DownIsEmpty' /\ SlotsStarted' /\ ExclusiveExecution'
    BY <2>1 DEF SentOnce, OnlySent, HandMatches, DownIsEmpty, SlotsStarted, ExclusiveExecution, Enqueued
  <2>3. Ahead' = Ahead
    BY <2>1 DEF Ahead
  <2>4. Budget'
    BY <2>1, <2>3 DEF Budget, Owed, Waiting
  <2>5. QED BY <2>2, <2>4
<1>4. CASE Dispatch
  <2>1. /\ up /\ handState = "claimed" /\ handState' = "idle" /\ hand' = NoTask
        /\ channel' = Append(channel, hand) /\ hand \in Tasks /\ hand \in Enqueued
        /\ UNCHANGED <<queue, head, inflight, up, recovered, slotState, slotTask, executions, crashes>>
    BY <1>4, TaskQueueAssumption DEF Dispatch, durable, DeliveryInv, OnlySent
  <2>2. \A i \in DOMAIN channel' : channel'[i] \in Enqueued
    <3>1. channel \in Seq(Tasks)
      BY DEF DeliveryInv, TypeOK
    <3>2. /\ DOMAIN channel' = 1 .. (Len(channel) + 1) /\ DOMAIN channel = 1 .. Len(channel)
          /\ \A i \in 1 .. Len(channel) : channel'[i] = channel[i]
          /\ channel'[Len(channel) + 1] = hand /\ Len(channel) \in Nat
      BY <2>1, <3>1, QueueElements
    <3>3. QED BY <2>1, <3>2 DEF OnlySent
  <2>3. SentOnce' /\ OnlySent' /\ HandMatches' /\ DownIsEmpty' /\ SlotsStarted' /\ ExclusiveExecution'
    BY <2>1, <2>2 DEF SentOnce, OnlySent, HandMatches, DownIsEmpty, SlotsStarted, ExclusiveExecution, Enqueued
  <2>4. ASSUME NEW t \in Tasks PROVE Owed(t)' = Owed(t)
    <3>1. Copies(channel', t) = Copies(channel, t) + Bit(hand = t)
      BY <2>1, CopiesAppend DEF DeliveryInv, TypeOK
    <3>2. Waiting(t)' = Waiting(t)
      BY <2>1 DEF Waiting, Ahead
    <3>3. QED BY <2>1, <3>1, <3>2, OwedNat, TaskQueueAssumption DEF Owed, Bit, DeliveryInv
  <2>5. Budget' BY <2>1, <2>4 DEF Budget
  <2>6. QED BY <2>3, <2>5
<1>5. QED BY <1>1, <1>2, <1>3, <1>4 DEF DispatcherStep

\* A claim leaves the channel as the execution it pays for starts.
LEMMA ExecStart ==
  ASSUME ExecutionInv, NEW s \in Slots, StartExecution(s), DeliveryInv'
  PROVE  ExecutionInv'
<1> USE DEF ExecutionInv
<1> DEFINE u == Head(channel)
<1>1. /\ up /\ channel # <<>> /\ channel \in Seq(Tasks) /\ u \in Tasks /\ channel' = Tail(channel)
      /\ slotTask' = [slotTask EXCEPT ![s] = u] /\ slotTask \in [Slots -> Tasks \union {NoTask}]
      /\ executions' = [executions EXCEPT ![u] = @ + 1] /\ executions \in [Tasks -> Nat]
      /\ UNCHANGED <<queue, head, inflight, up, recovered, hand, handState, crashes>>
  BY ChannelElements DEF StartExecution, durable, DeliveryInv, TypeOK
<1>2. /\ \A i \in DOMAIN channel' : \E j \in DOMAIN channel : channel'[i] = channel[j]
      /\ u = channel[1] /\ 1 \in DOMAIN channel
  BY <1>1
<1>3. SentOnce' /\ OnlySent' /\ HandMatches' /\ DownIsEmpty' /\ SlotsStarted'
  BY <1>1, <1>2, TaskQueueAssumption DEF SentOnce, OnlySent, HandMatches, DownIsEmpty, SlotsStarted, Enqueued
<1>4. ASSUME NEW t \in Tasks
      PROVE  /\ Owed(t) = Owed(t)' + Bit(u = t) /\ executions'[t] = executions[t] + Bit(u = t)
             /\ Owed(t) \in Nat /\ Owed(t)' \in Nat
  <2>1. Copies(channel, t) = Copies(channel', t) + Bit(u = t) /\ Copies(channel', t) \in Nat
    <3>1. Tail(channel) \in Seq(Tasks)
      BY <1>1, ChannelElements
    <3>2. Copies(Tail(channel), t) \in Nat
      BY <3>1, OccurringFinite
    <3>3. Copies(channel, t) = Copies(Tail(channel), t) + Bit(u = t)
      BY <1>1, CopiesTail
    <3>4. QED BY <1>1, <3>2, <3>3
  <2>2. Waiting(t)' = Waiting(t)
    BY <1>1 DEF Waiting, Ahead
  <2>3. executions'[t] = executions[t] + Bit(u = t)
    BY <1>1 DEF Bit
  <2>4. Owed(t)' = Bit(t \in recovered) + Bit(hand = t) + Copies(channel', t) + Bit(Waiting(t))
    BY <1>1, <2>2 DEF Owed
  <2>5. /\ Owed(t) \in Nat /\ Bit(u = t) \in 0 .. 1
        /\ Bit(t \in recovered) \in 0 .. 1 /\ Bit(hand = t) \in 0 .. 1 /\ Bit(Waiting(t)) \in 0 .. 1
    BY OwedNat DEF Bit, DeliveryInv
  <2>6. QED BY <2>1, <2>3, <2>4, <2>5 DEF Owed
<1>5. Budget'
  <2>1. ASSUME NEW t \in Tasks PROVE (executions[t] + Owed(t) <= 2 * crashes + Bit(up))'
    <3>1. executions'[t] + Owed(t)' = executions[t] + Owed(t)
      <4>1. Bit(u = t) \in Nat /\ executions[t] \in Nat
        BY <1>1 DEF Bit
      <4>2. QED BY <1>4, <4>1
    <3>2. QED BY <1>1, <3>1 DEF Budget
  <2>2. QED BY <2>1 DEF Budget
<1>6. ExclusiveExecution'
  <2>1. SUFFICES ASSUME crashes = 0
                 PROVE  \A s1, s2 \in Slots :
                          s1 # s2 /\ slotTask'[s1] # NoTask => slotTask'[s1] # slotTask'[s2]
    BY <1>1 DEF ExclusiveExecution
  <2>2. Owed(u) >= 1
    BY <1>1, <1>4 DEF Bit
  <2>3. executions[u] = 0
    BY <1>1, <1>4, <2>1, <2>2 DEF Budget, Bit
  <2>4. \A r \in Slots : slotTask[r] # u
    BY <1>1, <2>3, TaskQueueAssumption DEF SlotsStarted
  <2>5. QED BY <1>1, <2>1, <2>4 DEF ExclusiveExecution
<1>7. QED BY <1>3, <1>5, <1>6

\* A crash leaves at most one more redelivery, a restart one recovered claim.
LEMMA ExecProcess ==
  ASSUME ExecutionInv, Stop \/ Restart, DeliveryInv'
  PROVE  ExecutionInv'
<1> USE DEF ExecutionInv
<1>1. CASE Stop
  <2>1. /\ up /\ ~up' /\ crashes' = crashes + 1 /\ crashes \in Nat
        /\ recovered' = {} /\ hand' = NoTask /\ handState' = "idle" /\ channel' = <<>>
        /\ slotTask' = [r \in Slots |-> NoTask] /\ executions \in [Tasks -> Nat]
        /\ UNCHANGED <<queue, inflight, executions>>
    BY <1>1 DEF Stop, DeliveryInv, TypeOK
  <2>2. SentOnce' /\ OnlySent' /\ HandMatches' /\ DownIsEmpty' /\ SlotsStarted' /\ ExclusiveExecution'
    BY <2>1 DEF SentOnce, OnlySent, HandMatches, DownIsEmpty, SlotsStarted, ExclusiveExecution, Enqueued
  <2>3. ASSUME NEW t \in Tasks PROVE (executions[t] + Owed(t) <= 2 * crashes + Bit(up))'
    <3>1. Copies(channel', t) = 0
      BY <2>1, CopiesEmpty
    <3>2. Owed(t)' \in 0 .. 1
      BY <2>1, <3>1, TaskQueueAssumption DEF Owed, Bit
    <3>3. executions[t] <= 2 * crashes + 1
      BY <2>1, OwedNat DEF Budget, Bit, DeliveryInv
    <3>4. QED BY <2>1, <3>2, <3>3 DEF Bit
  <2>4. Budget' BY <2>3 DEF Budget
  <2>5. QED BY <2>2, <2>4
<1>2. CASE Restart
  <2>1. /\ ~up /\ up' /\ recovered = {} /\ recovered' = inflight /\ crashes > 0 /\ crashes \in Nat
        /\ executions \in [Tasks -> Nat] /\ up' = TRUE
        /\ UNCHANGED <<queue, head, inflight, hand, handState, channel, slotTask, executions, crashes>>
    BY <1>2 DEF Restart, durable, DownIsEmpty, DeliveryInv, TypeOK
  <2>2. SentOnce' /\ OnlySent' /\ HandMatches' /\ DownIsEmpty' /\ SlotsStarted' /\ ExclusiveExecution'
    BY <2>1 DEF SentOnce, OnlySent, HandMatches, DownIsEmpty, SlotsStarted, ExclusiveExecution, Enqueued
  <2>3. ASSUME NEW t \in Tasks PROVE (executions[t] + Owed(t) <= 2 * crashes + Bit(up))'
    <3>1. Waiting(t)' = Waiting(t)
      BY <2>1 DEF Waiting, Ahead
    <3>2. Owed(t)' <= Owed(t) + 1 /\ Owed(t)' \in Nat /\ Owed(t) \in Nat
      BY <2>1, <3>1, OwedNat DEF Owed, Bit, DeliveryInv
    <3>3. executions[t] + Owed(t) <= 2 * crashes
      BY <2>1 DEF Budget, Bit
    <3>4. QED BY <2>1, <3>2, <3>3 DEF Bit
  <2>4. Budget' BY <2>3 DEF Budget
  <2>5. QED BY <2>2, <2>4
<1>3. QED BY <1>1, <1>2

\* Claims move between the queue, the claim files, the hand, the channel and
\* the slots without being copied, except at a restart.
THEOREM ExecutionInvariant == Spec => []ExecutionInv
<1>1. Init => ExecutionInv
  <2>1. SUFFICES ASSUME Init PROVE ExecutionInv
    OBVIOUS
  <2>2. DeliveryInv
    BY <2>1, InitDelivery
  <2>3. \A t \in Tasks : Owed(t) = 0
    <3>1. TAKE t \in Tasks
    <3>2. Copies(channel, t) = 0
      BY <2>1, CopiesEmpty DEF Init
    <3>3. QED BY <2>1, <3>2, TaskQueueAssumption DEF Init, Owed, Bit, Waiting
  <2>4. QED
    BY <2>1, <2>2, <2>3 DEF Init, ExecutionInv, SentOnce, OnlySent, HandMatches, DownIsEmpty, Budget,
       SlotsStarted, ExclusiveExecution, Enqueued, Bit
<1>2. ExecutionInv /\ [Next]_vars => ExecutionInv'
  <2>1. SUFFICES ASSUME ExecutionInv, [Next]_vars PROVE ExecutionInv'
    OBVIOUS
  <2>2. CASE UNCHANGED vars
    <3>1. DeliveryInv'
      BY <2>1, <2>2 DEF ExecutionInv, vars, durable, process, DeliveryInv, TypeOK, NoTaskLost
    <3>2. QED BY <2>1, <2>2, <3>1, QuietSteps DEF vars, durable, process
  <2>3. CASE Next
    <3>1. DeliveryInv'
      BY <2>1, <2>3, ClientSteps, DispatcherSteps, SlotSteps, ProcessSteps DEF Next, ExecutionInv
    <3>2. ASSUME NEW t \in Tasks, SendTask(t) PROVE ExecutionInv'
      BY <2>1, <3>1, <3>2, ExecSend
    <3>3. ASSUME NEW t \in Tasks, ReceiveResult(t) PROVE ExecutionInv'
      BY <2>1, <3>1, <3>3, QuietSteps DEF ReceiveResult, process
    <3>4. ASSUME NEW s \in Slots, StartExecution(s) PROVE ExecutionInv'
      BY <2>1, <3>1, <3>4, ExecStart
    <3>5. ASSUME NEW s \in Slots, \/ FinishExecution(s) \/ PersistResult(s) \/ CompleteClaim(s)
                                  \/ SlotFault(s)
          PROVE  ExecutionInv'
      <4>1. UNCHANGED <<queue, head, up, recovered, hand, handState, channel, executions, crashes>>
        BY <3>5 DEF FinishExecution, PersistResult, CompleteClaim, SlotFault, PersistFails, CompleteFails,
           SlotPanics, durable
      <4>2. inflight' \subseteq inflight
        BY <3>5 DEF FinishExecution, PersistResult, CompleteClaim, SlotFault, PersistFails, CompleteFails,
           SlotPanics, durable
      <4>3. slotTask' = slotTask \/ slotTask' = [slotTask EXCEPT ![s] = NoTask]
        BY <3>5 DEF FinishExecution, PersistResult, CompleteClaim, SlotFault, PersistFails, CompleteFails,
           SlotPanics, ReleaseSlot
      <4>4. \A r \in Slots : slotTask'[r] \in {slotTask[r], NoTask}
        BY <2>1, <4>3 DEF ExecutionInv, DeliveryInv, TypeOK
      <4>5. QED BY <2>1, <3>1, <4>1, <4>2, <4>4, QuietSteps
    <3>6. CASE DispatcherStep
      BY <2>1, <3>1, <3>6, ExecDispatch
    <3>7. CASE Stop \/ Restart
      BY <2>1, <3>1, <3>7, ExecProcess
    <3>8. QED BY <2>3, <3>2, <3>3, <3>4, <3>5, <3>6, <3>7 DEF Next, SlotStep
  <2>4. QED BY <2>1, <2>2, <2>3
<1>3. QED BY <1>1, <1>2, PTL DEF Spec

\* Only a crash makes a task run again: at most one recovered claim and one
\* redelivered message per restart, and never two slots on one task before
\* the first.
THEOREM ExecutionsBounded == Spec => []RedoneOnlyAfterCrash
<1>1. ExecutionInv => RedoneOnlyAfterCrash
  <2>1. SUFFICES ASSUME ExecutionInv PROVE DuplicatesNeedCrash
    BY DEF ExecutionInv, RedoneOnlyAfterCrash
  <2>2. ASSUME NEW t \in Tasks PROVE executions[t] <= 1 + 2 * crashes
    <3>1. /\ executions[t] + Owed(t) <= 2 * crashes + Bit(up)
          /\ Owed(t) \in Nat /\ Bit(up) \in 0 .. 1 /\ executions[t] \in Nat /\ crashes \in Nat
      BY <2>1, OwedNat DEF ExecutionInv, Budget, DeliveryInv, TypeOK
    <3>2. QED BY <3>1
  <2>3. QED BY <2>2 DEF DuplicatesNeedCrash
<1>2. QED BY ExecutionInvariant, <1>1, PTL
=============================================================================
