---------------------------- MODULE CommandInbox ----------------------------
(***************************************************************************)
(* Supplementary user commands, from the UI or API call that submits one   *)
(* to the point where the task's supervisor has acted on it: the reliable  *)
(* inbox of EventBus (src/src/core/event_bus.rs), the routing queue of the *)
(* supervisor (src/src/core/sa/intervention.rs), the store its agents read *)
(* (src/src/core/supplementary_store.rs) and the points of process_task    *)
(* and execute_plan (src/src/core/sa) that open, drain and close them.     *)
(*                                                                         *)
(* One bus serves all tasks, each with a supervisor of its own; a user is  *)
(* a thread inside submit_supplementary_command.  A command is known by    *)
(* its event sequence number, its index in commands.                       *)
(***************************************************************************)
EXTENDS Naturals, Sequences, FiniteSets, SequencesExt

CONSTANTS
  Tasks,        \* task IRIs; each is processed once
  Users,        \* concurrent callers of submit_supplementary_command
  Kinds,        \* the kinds of command they submit, see AllKinds
  Capacity,     \* EventBusConfig.reliable_command_capacity
  MaxCommands,  \* bound on submissions
  MaxCycles     \* max_cycles of process_task_with_context

\* What check_and_process_supplementary_inputs does with a command: a
\* delivery target changes the contract and is stored for the agents, context
\* is stored, pause and resume set the phase, any other is an event.
AllKinds == {"target", "context", "pause", "resume", "signal"}

ASSUME CommandInboxAssumption ==
  /\ IsFiniteSet(Tasks)
  /\ Kinds \subseteq AllKinds
  /\ Capacity \in Nat /\ MaxCommands \in Nat /\ MaxCycles \in Nat \ {0}

VARIABLES
  commands,     \* by sequence number: task, kind, answer given to the user, and
                \* (history) the commands answered before it was submitted
  drawn,        \* per user, the number drawn by a call that awaits the lock
  inbox,        \* ReliableCommandInbox.commands (always read in number order)
  closed,       \* ReliableCommandInbox.closed_tasks, the tombstones
  order,        \* ReliableCommandInbox.closed_task_order, oldest first
  pending,      \* per task, SupervisorAgent.supplementary_inputs
  store,        \* per task, SupplementaryInputStore.pending
  served,       \* per command, how often it was carried out (history)
  reported,     \* commands only counted in the errors of the final result
  sa            \* per task, the supervisor: pc, cycle, phase, contract, delivered

tombstones == <<closed, order>>
bus == <<commands, drawn, inbox, tombstones>>
queues == <<pending, store, served>>
vars == <<bus, queues, reported, sa>>

None == 0
Ids == 1..MaxCommands
\* Control points of process_task_with_context and, in Executing, execute_plan.
AgentsRun == {"agents", "deliver", "correct", "redeliver", "accept"}
Executing == AgentsRun \union {"node", "paused", "afterDag"}
Ended == {"success", "failure", "blocked", "error"}
Points == Executing \union Ended \union {"idle", "planning", "cycle", "passed", "failed", "ending"}

TombstoneLimit == IF Capacity = 0 THEN 1 ELSE Capacity
\* The numbers of a finite set in increasing order, and the elements of a
\* sequence at some of its places, in order.
InOrder(S) ==
  [i \in 1..Cardinality(S) |-> CHOOSE c \in S : Cardinality({d \in S : d <= c}) = i]
At(s, places) == [j \in 1..Cardinality(places) |-> s[InOrder(places)[j]]]
Of(s, kinds) == At(s, {i \in DOMAIN s : commands[s[i]].kind \in kinds})
Without(s, e) == At(s, {i \in DOMAIN s : s[i] # e})

Queued(t) == {c \in inbox : commands[c].task = t}
Claimed(t) == InOrder(Queued(t))
Occurrences(s, c) == Cardinality({i \in DOMAIN s : s[i] = c})

Init ==
  /\ commands = <<>> /\ drawn = [u \in Users |-> None]
  /\ inbox = {} /\ closed = {} /\ order = <<>>
  /\ pending = [t \in Tasks |-> <<>>] /\ store = [t \in Tasks |-> <<>>]
  /\ served = [c \in Ids |-> 0] /\ reported = {}
  /\ sa = [t \in Tasks |-> [pc |-> "idle", cycle |-> 0, phase |-> "running",
                            contract |-> None, delivered |-> {}]]

(***************************************************************************)
(* The bus.  The sequence number is drawn before the inbox lock is taken;  *)
(* closed, capacity and enqueue are one critical section.                  *)
(***************************************************************************)
Submit(u, t, k) ==
  /\ drawn[u] = None /\ Len(commands) < MaxCommands
  /\ commands' = Append(commands,
       [task |-> t, kind |-> k, answer |-> "none",
        after |-> {c \in DOMAIN commands : commands[c].answer # "none"}])
  /\ drawn' = [drawn EXCEPT ![u] = Len(commands) + 1]
  /\ UNCHANGED <<inbox, tombstones, queues, reported, sa>>

\* Mutant: only the capacity is checked.
AnswerIfRoom(t) == IF Cardinality(inbox) >= Capacity THEN "CapacityExceeded" ELSE "accepted"

Answer(t) ==
  IF t \in closed THEN "TaskClosed"
  ELSE IF Cardinality(inbox) >= Capacity THEN "CapacityExceeded"
  ELSE "accepted"

Enqueue(u) ==
  LET c == drawn[u] IN
  /\ c # None
  /\ LET answer == Answer(commands[c].task) IN
     /\ commands' = [commands EXCEPT ![c].answer = answer]
     /\ inbox' = IF answer = "accepted" THEN inbox \union {c} ELSE inbox
  /\ drawn' = [drawn EXCEPT ![u] = None]
  /\ UNCHANGED <<tombstones, queues, reported, sa>>

Open(t) ==
  /\ closed' = closed \ {t}
  /\ order' = Without(order, t)

\* Mutant: tombstones are kept for ever.
CloseForever(t) ==
  /\ closed' = closed \union {t}
  /\ order' = IF t \in closed THEN order ELSE Append(order, t)
  /\ inbox' = inbox \ Queued(t)

\* close_and_take_supplementary_commands: the oldest tombstone beyond the
\* limit is dropped, and the task's commands leave the inbox.
CloseAndTake(t) ==
  LET grown == IF t \in closed THEN order ELSE Append(order, t)
  IN  /\ IF Len(grown) > TombstoneLimit
         THEN order' = Tail(grown) /\ closed' = (closed \union {t}) \ {Head(grown)}
         ELSE order' = grown /\ closed' = closed \union {t}
      /\ inbox' = inbox \ Queued(t)

(***************************************************************************)
(* check_and_process_supplementary_inputs: drain the inbox behind what is  *)
(* already pending, then carry everything out in order.                    *)
(***************************************************************************)
\* Mutant: commands drained earlier come after the new ones.
BatchNewestFirst(t) == Claimed(t) \o pending[t]
Batch(t) == pending[t] \o Claimed(t)

NewContract(t) ==
  LET targets == Of(Batch(t), {"target"})
  IN  IF targets = <<>> THEN sa[t].contract ELSE Last(targets)

NewPhase(t) ==
  LET controls == Of(Batch(t), {"pause", "resume"})
  IN  IF controls = <<>> THEN sa[t].phase
      ELSE IF commands[Last(controls)].kind = "pause" THEN "paused" ELSE "running"

\* Mutant: the routing queue is not emptied.
ProcessKeepsPending(t) ==
  LET done == Of(Batch(t), {"pause", "resume", "signal"})
  IN  /\ pending' = [pending EXCEPT ![t] = Batch(t)]
      /\ store' = [store EXCEPT ![t] = @ \o Of(Batch(t), {"target", "context"})]
      /\ served' = [c \in Ids |-> served[c] + Occurrences(done, c)]

Process(t) ==
  LET done == Of(Batch(t), {"pause", "resume", "signal"})
  IN  /\ pending' = [pending EXCEPT ![t] = <<>>]
      /\ store' = [store EXCEPT ![t] = @ \o Of(Batch(t), {"target", "context"})]
      /\ served' = [c \in Ids |-> served[c] + Occurrences(done, c)]

Advance(t, pc) ==
  sa' = [sa EXCEPT ![t].pc = pc, ![t].contract = NewContract(t), ![t].phase = NewPhase(t)]

Check(t, from, pc) ==
  /\ sa[t].pc = from
  /\ inbox' = inbox \ Queued(t)
  /\ Process(t) /\ Advance(t, pc)
  /\ UNCHANGED <<commands, drawn, tombstones, reported>>

Goto(t, from, pc) ==
  /\ sa[t].pc = from
  /\ sa' = [sa EXCEPT ![t].pc = pc]

(***************************************************************************)
(* process_task_with_context.                                              *)
(***************************************************************************)
Begin(t) ==
  /\ Goto(t, "idle", "planning")
  /\ Open(t)
  /\ UNCHANGED <<commands, drawn, inbox, queues, reported>>

\* The planning-time drain only moves commands to the routing queue.
PlanReady(t) ==
  /\ Goto(t, "planning", "cycle")
  /\ pending' = [pending EXCEPT ![t] = Batch(t)]
  /\ inbox' = inbox \ Queued(t)
  /\ UNCHANGED <<commands, drawn, tombstones, store, served, reported>>

\* planning_blocked_result, and the end of process_task_with_context.
CloseAndReport(t, from, pc) ==
  /\ Goto(t, from, pc)
  /\ CloseAndTake(t)
  /\ reported' = reported \union Queued(t)
  /\ UNCHANGED <<commands, drawn, queues>>

PlanningBlocked(t) == CloseAndReport(t, "planning", "blocked")
EndTask(t) == CloseAndReport(t, "ending", "failure")

\* A cycle reopens the inbox, then stops on the token budget or executes the
\* plan with a fresh phase and without receipts.
StartCycle(t) ==
  /\ sa[t].pc = "cycle"
  /\ Open(t)
  /\ \/ sa' = [sa EXCEPT ![t].pc = "ending"]
     \/ sa' = [sa EXCEPT ![t].pc = "node", ![t].cycle = @ + 1,
                         ![t].phase = "running", ![t].delivered = {}]
  /\ UNCHANGED <<commands, drawn, inbox, queues, reported>>

(***************************************************************************)
(* execute_plan: before each node, in the pause loop, after the last node, *)
(* before the final acceptance and at the terminal gate.                   *)
(***************************************************************************)
CheckNode(t) == Check(t, "node", IF NewPhase(t) = "paused" THEN "paused" ELSE "agents")
\* Mutant: the pause loop watches the phase and drains nothing.
WaitPausedBlind(t) ==
  /\ sa[t].phase = "running" /\ Goto(t, "paused", "agents")
  /\ UNCHANGED <<bus, queues, reported>>
WaitPaused(t) == Check(t, "paused", IF NewPhase(t) = "paused" THEN "paused" ELSE "agents")
NodeDone(t) ==
  /\ Goto(t, "agents", "node") \/ Goto(t, "agents", "afterDag")
  /\ UNCHANGED <<bus, queues, reported>>
AfterDag(t) == Check(t, "afterDag", "deliver")
BeforeAcceptance(t) == Check(t, "correct", "redeliver")

\* reconcile_workspace_delivery obtains the missing receipts or fails.
Reconcile(t) ==
  /\ sa[t].pc \in {"deliver", "redeliver"}
  /\ sa' = [sa EXCEPT ![t].pc = IF @ = "deliver" THEN "correct" ELSE "accept",
                      ![t].delivered = @ \union ({sa[t].contract} \ {None})]
  /\ UNCHANGED <<bus, queues, reported>>

\* A node or a correction writes the target and has it verified, or rewrites
\* it and so voids the earlier verification.
WriteWorkspace(t) ==
  /\ sa[t].pc \in {"agents", "correct"} /\ sa[t].contract # None
  /\ \E receipts \in {sa[t].delivered \union {sa[t].contract}, sa[t].delivered \ {sa[t].contract}} :
       sa' = [sa EXCEPT ![t].delivered = receipts]
  /\ UNCHANGED <<bus, queues, reported>>

\* An agent turn takes everything stored for its task.
AgentTurn(t) ==
  /\ sa[t].pc \in AgentsRun /\ store[t] # <<>>
  /\ store' = [store EXCEPT ![t] = <<>>]
  /\ served' = [c \in Ids |-> served[c] + Occurrences(store[t], c)]
  /\ UNCHANGED <<bus, pending, reported, sa>>

TerminalGate(t) ==
  /\ sa[t].pc = "accept"
  /\ CloseAndTake(t)
  /\ Process(t)
  /\ \/ NewContract(t) \in sa[t].delivered \union {None} /\ Advance(t, "passed")
     \/ Advance(t, "failed")
  /\ UNCHANGED <<commands, drawn, reported>>

\* Every earlier return of execute_plan leaves the inbox open: a failed
\* result goes to recovery, an error leaves process_task_with_context.
PlanFails(t) ==
  /\ \E from \in Executing \ {"paused"} : Goto(t, from, "failed")
  /\ UNCHANGED <<bus, queues, reported>>
PlanErrs(t) ==
  /\ \E from \in (Executing \union {"planning"}) \ {"paused"} : Goto(t, from, "error")
  /\ UNCHANGED <<bus, queues, reported>>

(***************************************************************************)
(* After execute_plan.                                                     *)
(***************************************************************************)
AfterPlan(t) == IF sa[t].cycle < MaxCycles THEN {"cycle", "ending"} ELSE {"ending"}

\* Mutant: success is reported without looking at the inbox again.
SucceedUnchecked(t) ==
  /\ Goto(t, "passed", "success")
  /\ UNCHANGED <<bus, queues, reported>>

Succeed(t) ==
  /\ sa[t].pc = "passed"
  /\ CloseAndTake(t)
  /\ \/ Queued(t) = {} /\ Goto(t, "passed", "success") /\ UNCHANGED pending
     \/ /\ Queued(t) # {}
        /\ pending' = [pending EXCEPT ![t] = Batch(t)]
        /\ Goto(t, "passed", IF sa[t].cycle < MaxCycles THEN "cycle" ELSE "ending")
  /\ UNCHANGED <<commands, drawn, store, served, reported>>

\* A failed plan, or a verify-first pass that asks for execution.
Recover(t) ==
  /\ \E from \in {"failed", "passed"}, pc \in AfterPlan(t) : Goto(t, from, pc)
  /\ UNCHANGED <<bus, queues, reported>>

Supervise(t) ==
  \/ Begin(t) \/ PlanReady(t) \/ PlanningBlocked(t) \/ StartCycle(t)
  \/ CheckNode(t) \/ WaitPaused(t) \/ NodeDone(t) \/ AfterDag(t) \/ BeforeAcceptance(t)
  \/ Reconcile(t) \/ TerminalGate(t) \/ PlanFails(t) \/ PlanErrs(t)
  \/ Succeed(t) \/ Recover(t) \/ EndTask(t)

Next ==
  \/ \E u \in Users, t \in Tasks, k \in Kinds : Submit(u, t, k)
  \/ \E u \in Users : Enqueue(u)
  \/ \E t \in Tasks : Supervise(t) \/ AgentTurn(t) \/ WriteWorkspace(t)

Spec == Init /\ [][Next]_vars
\* A supervisor's future is polled until it completes; a node's agents are
\* bounded by their turn and time budgets.
FairSpec == Spec /\ \A t \in Tasks : WF_vars(Supervise(t))
-----------------------------------------------------------------------------
\* Types, the capacity of the inbox and the limit on tombstones.
Command == [task : Tasks, kind : Kinds, after : SUBSET Ids,
            answer : {"none", "accepted", "TaskClosed", "CapacityExceeded"}]
TypeOK ==
  /\ commands \in Seq(Command) /\ Len(commands) <= MaxCommands
  /\ drawn \in [Users -> {None} \union DOMAIN commands]
  /\ inbox \subseteq DOMAIN commands /\ Cardinality(inbox) <= Capacity
  /\ order \in Seq(Tasks) /\ Len(order) <= TombstoneLimit /\ IsInjective(order)
  /\ closed = Range(order)
  /\ pending \in [Tasks -> Seq(DOMAIN commands)] /\ store \in [Tasks -> Seq(DOMAIN commands)]
  /\ served \in [Ids -> Nat] /\ reported \subseteq DOMAIN commands
  /\ sa \in [Tasks -> [pc : Points, cycle : 0..MaxCycles, phase : {"running", "paused"},
                       contract : {None} \union DOMAIN commands, delivered : SUBSET DOMAIN commands]]

\* No accepted command is lost or carried out twice, and a rejected one is
\* never carried out: an accepted command is in exactly one of the inbox, the
\* routing queue, the store, or already served or reported.
Places(c) ==
  LET t == commands[c].task
      One(where) == IF where THEN 1 ELSE 0
  IN  One(c \in inbox) + One(c \in reported) + served[c]
      + Occurrences(pending[t], c) + Occurrences(store[t], c)

Accepted(t) == {c \in DOMAIN commands : commands[c].task = t /\ commands[c].answer = "accepted"}

ExactlyOnce ==
  \A c \in DOMAIN commands :
    Places(c) = IF c \in Accepted(commands[c].task) THEN 1 ELSE 0

\* "A TUI/API command racing with terminal completion is therefore either
\* included here or receives TaskClosed": no command waits behind a tombstone.
ClosedInboxEmpty == \A t \in closed : Queued(t) = {}

Succeeds(t) == sa[t].pc # "success" /\ sa'[t].pc = "success"

\* When a task is reported successful no command that its user saw accepted
\* is still waiting for the supervisor, even if the tombstone set at the
\* terminal gate has been evicted by other tasks in the meantime.
SuccessIsInformed ==
  [][\A t \in Tasks : Succeeds(t) =>
       \A c \in Accepted(t) : c \notin inbox' /\ Occurrences(pending'[t], c) = 0]_vars

\* A successful task has written and verified the delivery target of an
\* accepted command that no later accepted command has superseded; later
\* means submitted after the earlier one was acknowledged.
Targets(t) == {c \in Accepted(t) : commands[c].kind = "target"}
LatestTargetDelivered ==
  [][\A t \in Tasks : Succeeds(t) /\ Targets(t) # {} =>
       /\ sa[t].contract \in sa[t].delivered
       /\ \A c \in Targets(t) : sa[t].contract \notin commands[c].after]_vars

\* Every command that waits in the inbox of a task being processed leaves it
\* (to be carried out or reported) unless the processing ends with an error,
\* which leaves the inbox open and unread.
Active(t) == sa[t].pc \notin Ended \union {"idle"}
CommandsAreTaken ==
  \A c \in Ids : (c \in inbox /\ Active(commands[c].task))
                  ~> (c \notin inbox \/ sa[commands[c].task].pc = "error")

\* A pause ends once a resume is accepted that was submitted after every
\* accepted pause was acknowledged, unless another pause is accepted.
Controls(t, kind) == {c \in Accepted(t) : commands[c].kind = kind}
Paused(c) ==  \* command c, a resume, is what its paused task waits for
  /\ c \in DOMAIN commands
  /\ LET t == commands[c].task
     IN  /\ sa[t].pc = "paused"
         /\ c \in Controls(t, "resume") /\ Controls(t, "pause") \subseteq commands[c].after
ResumeEndsPause == \A c \in Ids : Paused(c) ~> ~Paused(c)

\* The supervisor keeps listening: it takes what waits, also while paused.
CommandsTakeEffect == CommandsAreTaken /\ ResumeEndsPause
=============================================================================
