--------------------------- MODULE ResumeBoundary ---------------------------
(***************************************************************************)
(* At-most-once recovery of one task.                                      *)
(*                                                                         *)
(* SA executes a plan as a DAG, wave by wave; the nodes of a wave run      *)
(* concurrently and each is one agent making tool calls. Three durable     *)
(* records decide what an automatic resume may do after a crash: the       *)
(* execution journal (a receipt before every effectful call, a receipt     *)
(* after every stored checkpoint), the checkpoint store (bounded, newest   *)
(* first) and the seal set when the task is finalized. A resume takes the  *)
(* newest checkpoint and is admitted only if the journal has its receipt   *)
(* and no effectful call after it.                                         *)
(*                                                                         *)
(* One PDCA cycle of one task. Sibling agents share one tokio task         *)
(* (join_all), so a stretch of code without an await is one action.        *)
(***************************************************************************)
EXTENDS Integers, Sequences

CONSTANTS
  NumNodes,         \* the plan's nodes are 1..NumNodes, in topological order
  Depth,            \* topological depth of a node: its wave
  Planners,         \* nodes with role Plan
  Orchestrated,     \* nodes whose work is done by children of a BizAgent
  MaxSteps,         \* bound: tool calls and periodic checkpoints of a dispatch
  Retries,          \* retry_count of each step
  MaxCheckpoints,   \* MAX_CHECKPOINTS_PER_TASK
  MaxResumes,       \* bound: automatic resumes
  MaxFailures       \* bound: failed writes

Nodes == 1..NumNodes
Waves == {Depth[n] : n \in Nodes}

ASSUME PlanAssumption ==
  /\ NumNodes \in Nat \ {0}
  /\ Depth \in [Nodes -> Nat \ {0}]
  /\ Waves = 1..Depth[NumNodes]
  /\ \A m, n \in Nodes : m <= n => Depth[m] <= Depth[n]
  /\ Planners \subseteq Nodes
  /\ Orchestrated \subseteq Nodes

ASSUME BoundsAssumption ==
  /\ MaxCheckpoints \in Nat \ {0}
  /\ MaxSteps \in Nat /\ Retries \in [Nodes -> Nat]
  /\ MaxResumes \in Nat /\ MaxFailures \in Nat

VARIABLES
  journal,      \* receipts of the root task, oldest first
  sealed,       \* the journal rejects every further receipt
  store,        \* TaskRuntime checkpoints, oldest first
  stored,       \* number of checkpoints ever stored (the next identity)
  session,      \* what the process is doing with this task
  wave,         \* wave being executed
  completed,    \* SA's completed_node_results
  pc,           \* per node: where its agent stands
  steps,        \* per node: steps taken in the current dispatch
  dispatched,   \* per node: dispatches so far (the agent's identity)
  retries,      \* per node: retries left in this wave
  resumes, failures,
  \* observations, never read by an action of the program:
  applied,      \* effectful calls whose effect happened
  settled,      \* those of them that had happened at the newest checkpoint
  mark,         \* length of the journal when the newest checkpoint was stored
  committed     \* completed nodes of the newest stored step checkpoint

durable == <<journal, sealed, store, stored>>
agents == <<pc, steps, dispatched, retries>>
bounds == <<resumes, failures>>
observed == <<applied, settled, mark, committed>>
vars == <<durable, session, wave, completed, agents, bounds, observed>>

NodeStates == {"waiting", "reused", "starting", "thinking", "calling", "acted",
               "ok", "failed", "timeout", "error", "accepted"}
Returned == {"ok", "failed", "timeout", "error"}

(***************************************************************************)
(* Receipts. A call is identified by its agent and its position there.     *)
(***************************************************************************)
Call(n) == [node |-> n, dispatch |-> dispatched[n], step |-> steps[n]]
Calls == [node : Nodes, dispatch : Nat, step : Nat]

Started(call, risky) == [kind |-> "started", call |-> call, risky |-> risky]
Finished(call) == [kind |-> "finished", call |-> call]
Mutated(call) == [kind |-> "mutated", call |-> call]
Committed(id) == [kind |-> "checkpoint", id |-> id]

Receipts == [kind : {"started"}, call : Calls, risky : BOOLEAN]
              \cup [kind : {"finished", "mutated"}, call : Calls]
              \cup [kind : {"checkpoint"}, id : Nat]

Fails == failures < MaxFailures /\ failures' = failures + 1

\* append_execution_journal_event: a receipt that cannot be written is only
\* logged
BestEffort(receipts) ==
  \/ ~sealed /\ journal' = journal \o receipts /\ UNCHANGED failures
  \/ sealed /\ UNCHANGED <<journal, failures>>
  \/ ~sealed /\ Fails /\ UNCHANGED journal

(***************************************************************************)
(* Checkpoints. Only SA's step_complete records say what is accepted; an   *)
(* agent's record carries over what the newest of those says.              *)
(***************************************************************************)
Checkpoints == [id : Nat, kind : {"step", "runner"}, completed : SUBSET Nodes]

StepIndices == {i \in DOMAIN store : store[i].kind = "step"}
\* mutant: an agent's record starts from nothing
InheritedNothing == {}

Inherited == {m \in Nodes : \E i \in StepIndices :
                /\ \A j \in StepIndices : j <= i
                /\ m \in store[i].completed}

\* mutant: the cap is not enforced
PruneNothing(checkpoints) == checkpoints

Prune(checkpoints) ==
  LET excess == Len(checkpoints) - MaxCheckpoints
  IN  IF excess > 0 THEN SubSeq(checkpoints, excess + 1, Len(checkpoints))
                    ELSE checkpoints

\* Store a checkpoint, prune, then append its receipt. The store may fail,
\* and so may the receipt of a checkpoint that is stored.
Checkpoint(kind, nodes) ==
  \/ /\ store' = Prune(Append(store,
                   [id |-> stored + 1, kind |-> kind, completed |-> nodes]))
     /\ stored' = stored + 1
     /\ BestEffort(<<Committed(stored + 1)>>)
     /\ settled' = applied
     /\ mark' = Len(journal)
     /\ committed' = IF kind = "step" THEN nodes ELSE committed
  \/ /\ Fails
     /\ UNCHANGED <<journal, store, stored, settled, mark, committed>>

\* An agent's checkpoint: none at all for an orchestrated node, whose agents
\* are children with task identities of their own.
RunnerCheckpoint(n) ==
  IF n \in Orchestrated
  THEN UNCHANGED <<journal, store, stored, failures, settled, mark, committed>>
  ELSE Checkpoint("runner", Inherited)

(***************************************************************************)
(* The resume gate (assess_resume_safety): the checkpoint has a receipt    *)
(* with no effectful call after it. The code looks from the last receipt   *)
(* of the checkpoint on; some receipt has that property iff the last does. *)
(***************************************************************************)
\* mutant: only a committed mutation counts
RiskyMutation(receipt) == receipt.kind = "mutated"

Risky(receipt) ==
  \/ receipt.kind = "started" /\ receipt.risky
  \/ receipt.kind = "mutated"

\* mutant: a call that has finished no longer counts
SafeIfFinished(id) ==
  \E p \in DOMAIN journal :
    /\ journal[p] = Committed(id)
    /\ \A q \in (p + 1)..Len(journal) :
         Risky(journal[q]) =>
           \E r \in (q + 1)..Len(journal) : journal[r] = Finished(journal[q].call)

SafeToResume(id) ==
  \E p \in DOMAIN journal :
    /\ journal[p] = Committed(id)
    /\ \A q \in (p + 1)..Len(journal) : ~Risky(journal[q])

\* restore_task: the newest checkpoint
Newest == store[Len(store)]
Admissible == store # <<>> /\ SafeToResume(Newest.id)

-----------------------------------------------------------------------------
Init ==
  /\ journal = <<>> /\ sealed = FALSE
  /\ store = <<>> /\ stored = 0
  /\ session = "running" /\ wave = 1 /\ completed = {}
  /\ pc = [n \in Nodes |-> "waiting"]
  /\ steps = [n \in Nodes |-> 0]
  /\ dispatched = [n \in Nodes |-> 0]
  /\ retries = [n \in Nodes |-> 0]
  /\ resumes = 0 /\ failures = 0
  /\ applied = {} /\ settled = {} /\ mark = 0 /\ committed = {}

InWave(n) == Depth[n] = wave

\* The next wave starts: a Plan node that a resumed checkpoint has as
\* completed is skipped, every other node gets a fresh agent.
MayReuse(n) == n \in Planners /\ n \in completed

DispatchWave ==
  /\ session = "running"
  /\ \A n \in Nodes : InWave(n) => pc[n] = "waiting"
  /\ pc' = [n \in Nodes |-> IF ~InWave(n) THEN pc[n]
                            ELSE IF MayReuse(n) THEN "reused" ELSE "starting"]
  /\ dispatched' = [n \in Nodes |-> IF InWave(n) /\ ~MayReuse(n)
                                    THEN dispatched[n] + 1 ELSE dispatched[n]]
  /\ steps' = [n \in Nodes |-> IF InWave(n) THEN 0 ELSE steps[n]]
  /\ retries' = [n \in Nodes |-> IF InWave(n) THEN Retries[n] ELSE retries[n]]
  /\ UNCHANGED <<durable, session, wave, completed, bounds, observed>>

At(n, state) == session = "running" /\ pc[n] = state
Become(n, state) == pc' = [pc EXCEPT ![n] = state]

\* A dispatch ends with a result, unless the phase-end hook rejects it
Ends(n, verdicts) == \E verdict \in verdicts \cup {"error"} : Become(n, verdict)

\* The phase-start hook rejects the dispatch
RejectPhase(n) ==
  /\ At(n, "starting")
  /\ Become(n, "error")
  /\ UNCHANGED <<durable, session, wave, completed, steps, dispatched, retries,
                 bounds, observed>>

\* The agent's start checkpoint
StartAgent(n) ==
  /\ At(n, "starting")
  /\ Become(n, "thinking")
  /\ RunnerCheckpoint(n)
  /\ UNCHANGED <<sealed, session, wave, completed, steps, dispatched, retries,
                 resumes, applied>>

TakeStep(n) == steps[n] < MaxSteps /\ steps' = [steps EXCEPT ![n] = @ + 1]

\* Every fifth turn, and at the turn limit
PeriodicCheckpoint(n) ==
  /\ At(n, "thinking")
  /\ TakeStep(n)
  /\ RunnerCheckpoint(n)
  /\ UNCHANGED <<sealed, session, wave, completed, pc, dispatched, retries,
                 resumes, applied>>

\* A read-only call. Its receipts are best effort and the gate only counts
\* them: a call that leaves none is no step here, nor is its Finished receipt
\* an entry.
Inspect(n) ==
  /\ At(n, "thinking")
  /\ TakeStep(n)
  /\ ~sealed /\ n \notin Orchestrated
  /\ journal' = Append(journal, Started(Call(n), FALSE))
  /\ UNCHANGED <<sealed, store, stored, session, wave, completed, pc,
                 dispatched, retries, bounds, observed>>

\* Only a node with write tools makes effectful calls: a Plan agent is made to
\* finish instead.
MayCall(n) == At(n, "thinking") /\ steps[n] < MaxSteps /\ n \notin Planners

\* mutant: the receipt of an effectful call is best effort
StartCallBestEffort(n) ==
  /\ MayCall(n)
  /\ IF n \in Orchestrated THEN UNCHANGED <<journal, failures>>
     ELSE BestEffort(<<Started(Call(n), TRUE)>>)
  /\ Become(n, "calling")
  /\ UNCHANGED <<sealed, store, stored, session, wave, completed, steps,
                 dispatched, retries, resumes, observed>>

\* record_tool_execution_started: the handler of an effectful call runs only
\* once its receipt is durable. A child's receipt goes to the child's own
\* journal.
StartCall(n) ==
  /\ MayCall(n)
  /\ IF n \in Orchestrated THEN UNCHANGED journal
     ELSE ~sealed /\ journal' = Append(journal, Started(Call(n), TRUE))
  /\ Become(n, "calling")
  /\ UNCHANGED <<sealed, store, stored, session, wave, completed, steps,
                 dispatched, retries, bounds, observed>>

\* ... and the agent fails when it cannot be written
StartRefused(n) ==
  /\ MayCall(n)
  /\ \/ n \notin Orchestrated /\ sealed /\ UNCHANGED failures
     \/ Fails
  /\ Ends(n, {"failed"})
  /\ UNCHANGED <<durable, session, wave, completed, steps, dispatched, retries,
                 resumes, observed>>

\* The handler does what it was called for
Apply(n) ==
  /\ At(n, "calling")
  /\ applied' = applied \cup {Call(n)}
  /\ Become(n, "acted")
  /\ UNCHANGED <<durable, session, wave, completed, steps, dispatched, retries,
                 bounds, settled, mark, committed>>

\* The handler returned, with or without an effect. A mutation receipt follows
\* when the workspace change is attributable to this call; a crash between
\* the two receipts leaves what an unattributable effect leaves.
FinishCall(n) ==
  /\ At(n, "calling") \/ At(n, "acted")
  /\ IF n \in Orchestrated THEN UNCHANGED <<journal, failures>>
     ELSE \/ BestEffort(<<Finished(Call(n))>>)
          \/ /\ pc[n] = "acted"
             /\ BestEffort(<<Finished(Call(n)), Mutated(Call(n))>>)
  /\ TakeStep(n)
  /\ Become(n, "thinking")
  /\ UNCHANGED <<sealed, store, stored, session, wave, completed, dispatched,
                 retries, resumes, observed>>

\* The agent's finish checkpoint, and its verdict
FinishAgent(n) ==
  /\ At(n, "thinking")
  /\ Ends(n, {"ok", "failed"})
  /\ RunnerCheckpoint(n)
  /\ UNCHANGED <<sealed, session, wave, completed, steps, dispatched, retries,
                 resumes, applied>>

\* The wall-clock budget cancels the dispatch wherever it is
Timeout(n) ==
  /\ session = "running" /\ pc[n] \in {"thinking", "calling", "acted"}
  /\ Ends(n, {"timeout"})
  /\ UNCHANGED <<durable, session, wave, completed, steps, dispatched, retries,
                 bounds, observed>>

\* dispatch_with_retry: only an explicit failure is dispatched again
RetryDispatch(n) ==
  /\ At(n, "failed") /\ retries[n] > 0
  /\ Become(n, "starting")
  /\ retries' = [retries EXCEPT ![n] = @ - 1]
  /\ dispatched' = [dispatched EXCEPT ![n] = @ + 1]
  /\ steps' = [steps EXCEPT ![n] = 0]
  /\ UNCHANGED <<durable, session, wave, completed, bounds, observed>>

-----------------------------------------------------------------------------
(***************************************************************************)
(* SA after the wave is joined: results are handled in plan order, each    *)
(* accepted one ends with a step checkpoint; the first that is not         *)
(* accepted stops the plan.                                                *)
(***************************************************************************)
Settled(n) == pc[n] \in {"accepted", "reused"}

Joined ==
  /\ session = "running"
  /\ \A n \in Nodes : InWave(n) =>
       \/ Settled(n)
       \/ pc[n] \in Returned \ {"failed"}
       \/ pc[n] = "failed" /\ retries[n] = 0

DispatchErrors == \E n \in Nodes : InWave(n) /\ pc[n] = "error"

Turn(n) ==
  /\ Joined /\ ~DispatchErrors
  /\ InWave(n) /\ ~Settled(n)
  /\ \A m \in Nodes : m < n /\ InWave(m) => Settled(m)

AcceptResult(n) ==
  /\ Turn(n)
  /\ pc[n] = "ok"
  /\ completed' = completed \cup {n}
  /\ Become(n, "accepted")
  /\ Checkpoint("step", completed \cup {n})
  /\ UNCHANGED <<sealed, session, wave, steps, dispatched, retries, resumes,
                 applied>>

\* mutant: a timeout is not a reason to stop
StopPlanFailed(n) ==
  /\ Turn(n)
  /\ pc[n] = "failed"
  /\ session' = "finalizing"
  /\ UNCHANGED <<durable, wave, completed, agents, bounds, observed>>

StopPlan(n) ==
  /\ Turn(n)
  /\ pc[n] \in {"failed", "timeout"}
  /\ session' = "finalizing"
  /\ UNCHANGED <<durable, wave, completed, agents, bounds, observed>>

\* A dispatch error fails a concurrent wave with a result, and leaves
\* execute_plan with an error, before any finalization, from a single one.
FailWave ==
  /\ Joined /\ DispatchErrors
  /\ session' = IF \E m, n \in Nodes :
                     m # n /\ InWave(m) /\ InWave(n)
                       /\ pc[m] # "reused" /\ pc[n] # "reused"
                THEN "finalizing" ELSE "ended"
  /\ UNCHANGED <<durable, wave, completed, agents, bounds, observed>>

NextWave ==
  /\ session = "running"
  /\ \A n \in Nodes : InWave(n) => Settled(n)
  /\ IF wave + 1 \in Waves
     THEN wave' = wave + 1 /\ UNCHANGED session
     ELSE session' = "finalizing" /\ UNCHANGED wave
  /\ UNCHANGED <<durable, completed, agents, bounds, observed>>

\* finalize_checked seals the journal whatever the status of the result
Finalize ==
  /\ session = "finalizing"
  /\ session' = "ended"
  /\ \/ sealed' = TRUE /\ UNCHANGED failures
     \/ Fails /\ UNCHANGED sealed
  /\ UNCHANGED <<journal, store, stored, wave, completed, agents, resumes,
                 observed>>

Crash ==
  /\ session \in {"running", "finalizing"}
  /\ resumes < MaxResumes
  /\ session' = "down"
  /\ wave' = 1 /\ completed' = {}
  /\ pc' = [n \in Nodes |-> "waiting"]
  /\ steps' = [n \in Nodes |-> 0]
  /\ retries' = [n \in Nodes |-> 0]
  /\ UNCHANGED <<durable, dispatched, bounds, observed>>

\* resume_task, of a crashed task or of one that has ended
Resume ==
  /\ session \in {"down", "ended"}
  /\ resumes < MaxResumes /\ resumes' = resumes + 1
  /\ IF Admissible
     THEN /\ session' = "running" /\ wave' = 1
          /\ completed' = Newest.completed
          /\ pc' = [n \in Nodes |-> "waiting"]
     ELSE session' = "refused" /\ UNCHANGED <<wave, completed, pc>>
  /\ UNCHANGED <<durable, steps, dispatched, retries, failures, observed>>

AgentStep(n) ==
  \/ StartAgent(n) \/ PeriodicCheckpoint(n) \/ Inspect(n)
  \/ StartCall(n) \/ StartRefused(n) \/ Apply(n) \/ FinishCall(n)
  \/ FinishAgent(n) \/ RetryDispatch(n)

PlanStep ==
  \/ DispatchWave \/ FailWave \/ NextWave \/ Finalize
  \/ \E n \in Nodes : AcceptResult(n) \/ StopPlan(n)

Next ==
  \/ \E n \in Nodes : AgentStep(n) \/ Timeout(n) \/ RejectPhase(n)
  \/ PlanStep \/ Crash \/ Resume

Spec == Init /\ [][Next]_vars

(***************************************************************************)
(* Fairness: a running process goes on executing its agents and its plan.  *)
(* Crashes, timeouts, rejections and resumes need not happen.              *)
(***************************************************************************)
FairSpec ==
  Spec /\ WF_vars(PlanStep) /\ \A n \in Nodes : WF_vars(AgentStep(n))

-----------------------------------------------------------------------------
(***************************************************************************)
(* Properties                                                              *)
(***************************************************************************)

\* Every variable has its type, and the store its cap.
TypeOK ==
  /\ journal \in Seq(Receipts)
  /\ sealed \in BOOLEAN
  /\ store \in Seq(Checkpoints)
  /\ Len(store) <= MaxCheckpoints
  /\ stored \in Nat
  /\ session \in {"running", "finalizing", "ended", "down", "refused"}
  /\ wave \in Waves
  /\ completed \in SUBSET Nodes
  /\ pc \in [Nodes -> NodeStates]
  /\ steps \in [Nodes -> 0..MaxSteps]
  /\ dispatched \in [Nodes -> Nat]
  /\ retries \in [Nodes -> Nat] /\ \A n \in Nodes : retries[n] <= Retries[n]
  /\ resumes \in 0..MaxResumes /\ failures \in 0..MaxFailures
  /\ applied \in SUBSET Calls /\ settled \in SUBSET applied
  /\ mark \in 0..Len(journal)
  /\ committed \in SUBSET Nodes

\* "An effectful handler must never run unless its full call identity has
\* first been persisted": whatever happened outside, the root journal names
\* the call that did it.
ReceiptBeforeEffect ==
  \A call \in applied : call.node \notin Orchestrated =>
    \E p \in DOMAIN journal : journal[p] = Started(call, TRUE)

\* What is left of SA's step records once agents' records fill the whole cap
StepsEvicted == StepIndices = {} /\ Len(store) = MaxCheckpoints

\* What SA accepted at a step boundary is in the record a resume would start
\* from: every later agent checkpoint inherits it, until a full cap of agents'
\* checkpoints in a row has pushed the last step record out of the store. Then
\* there is nothing to inherit and the work may be gone.
CommittedWorkSurvives ==
  store # <<>> => committed \subseteq Newest.completed \/ StepsEvicted

Admit == session # "running" /\ session' = "running"
Refuse == session # "refused" /\ session' = "refused"

RiskySinceMark == \E p \in (mark + 1)..Len(journal) :
  journal[p].kind = "mutated" \/ (journal[p].kind = "started" /\ journal[p].risky)

\* The gate never admits a resume when an effectful call was started after
\* the checkpoint it resumes from was stored: not when the checkpoint's
\* receipt is missing, not when the call has finished since.
SafeAdmission == Admit => ~RiskySinceMark
NoCallSinceBoundary == [][SafeAdmission]_vars

\* The boundary is exact: what has happened outside at the moment of the
\* resume is what had happened when the checkpoint was stored.
ExactBoundary == [][Admit => applied = settled]_vars

\* A refusal has a cause: no checkpoint, no receipt for it, or an effectful
\* receipt since. An interrupted read-only call alone never blocks a resume.
JustifiedRefusal ==
  Refuse => \/ store = <<>>
            \/ \A p \in DOMAIN journal : journal[p] # Committed(Newest.id)
            \/ RiskySinceMark
RefusalJustified == [][JustifiedRefusal]_vars

\* assess_resume_safety is right both ways: what it admits has no effectful
\* call since its checkpoint, and what it refuses it refuses for a cause.
GateJustified == [][SafeAdmission /\ JustifiedRefusal]_vars

\* Once SA has committed a Plan node's result, no later run of the task plans
\* again: not after a crash in a later node, nor after several; only after the
\* step records were pushed out.
CommittedPlanNotRedone ==
  StepsEvicted \/ \A n \in Planners \cap committed : dispatched'[n] = dispatched[n]

\* Accepted work is kept, in the record a resume starts from and, for planning,
\* by never being done again, for as long as the agents since the last step
\* record have not written a full cap of checkpoints. prune_oldest evicts by
\* age alone, so nothing keeps it beyond that.
CommittedWorkStays == [][CommittedWorkSurvives' /\ CommittedPlanNotRedone]_vars

\* A finalized task has no further effects, even when a resume of it is
\* admitted and its Do nodes get fresh agents.
SealedTaskIsInert == [][sealed => applied' = applied]_vars

\* A task that runs comes to an end: its plan finishes or stops and the task
\* is finalized, or the process crashes.
TaskSettles ==
  session \in {"running", "finalizing"} ~> session \in {"ended", "down"}

=============================================================================
