# Gliding Horse: specifications, model checking and proofs

Gliding Horse runs tasks with a team of model-driven agents. A supervisor (SA)
turns a request into a plan of Plan, Do, Check and Act steps, dispatches an
agent for each, judges the results and goes round again until the task is done
or gives up. What surrounds this loop is ordinary systems code: a durable
queue of tasks, a journal of evidence, checkpoints, a resume gate, an inbox for
the user's commands, a cache with an asynchronous mirror and a log-structured
vector store. Agents are unpredictable; these parts must not be. This directory
holds TLA+ specifications of them, translated from the Rust source, their TLC
configurations, and theorems whose proofs TLAPS checks.

Paths below are relative to the repository's `src/` directory as it is laid out
next to this one: `src/src/core/...` is the Rust crate.

## Reading guide

| Module | What it is |
| --- | --- |
| `TaskQueue` | the worker's durable task queue, dispatcher and slot pool |
| `TaskQueueProofs` | type correctness, at-least-once delivery, and how often a task runs |
| `EvidenceLog` | abstract specification: what an evidence ledger promises |
| `EvidenceLedger` | the journal, its seal and its projection; implements `EvidenceLog` |
| `EvidenceLedgerProofs` | its invariants, the healing of its projection, and the refinement |
| `ResumeBoundary` | plan execution, checkpoints and the at-most-once resume gate |
| `ResumeBoundaryProofs` | what the gate guarantees, and for which plans |
| `CommandInbox` | user commands from submission to the supervisor and its agents |
| `CommandInboxProofs` | types, exactly-once, nothing behind a tombstone or a reported success, the newest target wins |
| `Blackboard` | the shared node cache (L2), its indices and counters, the outbox and the graph mirror |
| `BlackboardProofs` | type correctness, the mirror follows the cache, deletes complete, counters, indices and capacity are right |
| `MemoryTiers` | a document's life in L2 and L0: hooks, flush, eviction, reload, restart |
| `MemoryTiersProofs` | type correctness, nothing is lost between the tiers, invalid means older, reloads repair |
| `VectorLog` | the vector engine's write-ahead log, its two snapshot generations and its recovery |
| `VectorLogProofs` | type correctness; every answered write is recoverable and shown, restarts agree |
| `RecoveryLoop` | a task's cycles: audits, repairs, delivery, scoped retry plans, the final decision |
| `RecoveryLoopProofs` | type correctness; an acceptance is earned, a stop is final, missing evidence spares the work |
| `MC*` | the instances TLC checks; each `.cfg` names one of them |

`PROJECT.json` lists the components, the runs, the source lines behind every
definition, for every property a plausible bug ("mutant") that violates it, the
hazards of the code and the disagreements found. A hazard whose bad outcome
the code does not prevent lists no property that exempts it: its note names the
exemption.

## Inventory

### How the parts interact

```
 client --task--> TaskQueue --claim--> worker slot --> SupervisorAgent.process_task
   ^                                                      |    |        ^
   +--------------------- routed result -------------------+    |        | commands
                                                               v        |
                        plan, wave by wave          EventBus reliable inbox <-- UI / API
                               |
                     agent (AgentRunner) --tool call--> workspace, MCP servers
                      |          |        \
             checkpoint store   evidence    blackboard (L2) --> graph mirror thread
                      \         journal       |
                       \          |           v
                        +------ L0 store (redb) ------ vector engine (log + snapshot)
```

A worker process has many tasks in flight (one per slot), each with a
supervisor of its own; the event bus, the L0 store, the blackboard and the
vector engine are shared. Agents of one wave are futures polled by one tokio
task (`join_all`). The clients, the terminal user interface and the gRPC server
call into the bus and the queue from other threads.

### Components

**Worker task queue** (`worker/task_queue.rs`, `worker/agent_os_worker.rs`;
modelled). *State*: a directory queue with a read position that is saved
lazily, claim files in `inflight/`, one result queue per task; in memory the
recovered claims, a bounded channel and the slots. *Operations*: send_task,
claim_next, persist_result, complete_claim, recv_result_for_task, run_worker.
*Hard*: a crash between any two of rename, commit, result and removal; failed
writes; slots that panic. *Correct when* no enqueued task is lost, a task runs
twice only because of a restart, and every task is answered.

**Task evidence ledger** (`core/execution_journal.rs`, evidence tables of
`memory/l0_store.rs`, `core/task_finalizer.rs`; modelled). *State*: frames,
chain head, seal, the projection of frames to L0 entries. *Operations*: open
(with reconciliation), append, seal, verify. *Hard*: optimistic concurrency
between handles and with the seal, errors after a durable commit, crashes
before the projection. *Correct when* the chain is gapless and linked, a call
leaves at most one frame, an acknowledged frame stays, a seal covers the whole
chain and is final, and intact evidence verifies.

**At-most-once recovery** (`core/execution_journal.rs`, `core/checkpoint.rs`,
`core/sa/execution.rs`, `core/agent_runner/execution.rs`,
`apps/gliding_code/src/engine.rs`; partly modelled). *State*: the journal's
receipts, the bounded checkpoint store, the plan's progress, each agent's
position. *Operations*: dispatch of a wave, tool calls with receipts,
checkpoints, acceptance of results, retries, finalization, crash, resume.
*Hard*: interleaved siblings, lost receipts, cancelled dispatches, pruning,
resumes of resumes. *Correct when* no effect happens without a receipt before
it, a resume is admitted only if nothing happened outside since its
checkpoint, and accepted work is not redone.

**Command inbox** (`core/event_bus.rs`, `core/sa/intervention.rs`,
`core/supplementary_store.rs`, `core/sa/process.rs`; partly modelled). *State*:
the shared bounded inbox, the tombstones of closed tasks, each supervisor's
routing queue and phase, each task's store of inputs for agents. *Operations*:
submit, drain and process, pause and resume, close-and-take, reopen. *Hard*:
submission races with completion; tombstones are evicted; a task is reopened
for another cycle. *Correct when* an accepted command is carried out or
reported exactly once, and success is not reported over a command the user saw
accepted.

**L2 blackboard and graph outbox** (`memory/l2_blackboard.rs`; partly
modelled). *State*: node cache, secondary indices, byte and node counters,
per-node generations, a bounded queue to a mirror thread. *Operations*: single
and batch writes, delete with its barrier, release of a subtree, the worker,
drop. *Hard*: generation, enqueue and cache update are three steps without a
common lock; the queue can be full; an error is returned after part of the
work. *Correct when*, once the queue is drained, the mirror holds the newest
generation, cache, indices and counters agree, and every call returns.

**Memory tiers** (`memory/l0_store.rs`, `memory/consistency_engine.rs`,
`memory/scheduler.rs`, `api/grpc/server.rs`; partly modelled). *State*: a
cache line with its dirty and MESI bits, the entry of the durable store, a
generation in each. *Operations*: write with the consistency hook, read with
reload, archive, evict, flush and release of a completed task, delete, restart.
*Hard*: each reads one tier and then writes the other. *Correct when* what L2
drops is in L0, critical documents are there when their write returns, and a
line is invalid only if L0 is newer.

**Vector engine** (`crates/hyperspace-engine`; partly modelled). *State*: log
segments, two generations of snapshots, the index and its clock. *Operations*:
append, rotate, checkpoint, replay with healing, cleanup. *Hard*: crashes
between the steps of a checkpoint, overlapping checkpoints, records written in
part, a damaged snapshot. *Correct when* every answered write is in the
recovered state and the running view is that state.

**Recovery routing** (`core/recovery.rs`, `core/sa/process.rs`,
`core/sa/execution.rs`; partly modelled). *State*: the plan of the cycle and
its cut for the next, the latest audit report, the task's budgets, the delivery
target and its receipts, the last decision. *Operations*: judge a wave, repeat
the check, send work back, deliver, mark, decide, pass the two terminal gates,
choose a directive, cut the plan. *Hard*: an answer out of date with respect to
a later repair, a target named in the middle, chains of cuts. *Correct when*
what is accepted was checked, decided, delivered and complete, a stop is final,
missing evidence does not replay the implementation, and the loops end.

**Batch agents** (`batch/`, `api/grpc/server.rs`; not modelled, see below).
*State*: event buffers, the event journal. *Operations*: enqueue, record,
execute, acknowledge, replay at start. *Hard*: the buffer is filled before the
journal is written. *Correct when* an event is executed at least once, and a
duplicate or refused one is not executed.

**BizAgent orchestration** (`core/biz_agent.rs`, `core/effect.rs`): splits a
step among same-role children under workspace leases. Only its effect on
recovery is modelled; its schedule under leases is a candidate for later.

**Execution events** (`core/execution_event.rs`): a stream for observers.
Observation only.

**Not modelled, because there is no protocol to check**: planning and plan
validation, prompts, context compression and aging, tracked actions, rule
evaluation, learning and statistics, the skill graph, tools and their hooks,
the model gateway (cache, rate limiter, streaming), knowledge graph, causal and
root-cause analysis, ontologies, methodology, workflows, templates, the API
servers, the terminal application, and the two software-engineering products in
Go and TypeScript. `PROJECT.json` gives the reason for each. Some functions
with a protocol are reached by tests only at this commit and are left out for
that reason: `ConsistencyEngine::on_l2_write`,
`MemoryScheduler::on_session_close`, and `recover_inflight` of the evolution
proposals.

## Plan

Done: all modules of the reading guide. What is left, in order of worth:

1. `BatchJournal`: the consumer task of the event server, its windows, journal
   and restart. The hazard at `api/grpc/server.rs:141` predicts a violation.
2. Compositions: a redelivered task (`TaskQueue`) that meets the resume gate
   (`ResumeBoundary`); the cycles of `RecoveryLoop` with the inbox of
   `CommandInbox`, of which `RecoveryLoop` now keeps the one command that
   matters to it, a delivery target.
3. BizAgent's child schedule under workspace leases.

The run list is short enough for one pass in a quarter of an hour. A run that
arrives replaces a weaker one; properties that belong to one question are named
parts of one conjunction (`AcceptanceEarned == AcceptedIsVerified /\
AcceptedIsComplete`), so a counterexample still says which part failed.

## The models

### TaskQueue

| Variable | Code |
| --- | --- |
| `queue`, `head`, `saved` | the yaque queue: messages, the receiver's position, the position on disk |
| `inflight` | `inflight/<task_id>.json` claim files |
| `results`, `taken` | `results/by-task/<id>` queues: written and read |
| `recovered` | `WorkerQueue.recovered_claims` |
| `hand`, `handState` | the claim between `claim_next`'s steps and `task_tx.send` |
| `channel`, `slotState`, `slotTask` | the mpsc channel and the slot tasks of `run_worker` |

`claim_next` is two actions (`WriteClaim`: write, sync and rename of the claim
file; `CommitDelivery`: `guard.commit`) because a crash may fall between them.
A slot's life is `StartExecution`, `FinishExecution`, `PersistResult`,
`CompleteClaim`, each of the last two with its failure, which the code logs and
forgets. `Stop` loses the process and moves the read position back to anything
between what is known to be on disk and what was reached; `Restart` reads the
claim files back. The task's own work is opaque: `execute_task` maps every
outcome to a result.

### EvidenceLedger and EvidenceLog

A frame has a number, an event and the hash of its predecessor; as every call
carries its own event, `<<number, event>>` identifies a frame and stands for
its SHA-256. A call is a sequence of transactions (`ReadHead`, `AppendCommits`
or `AppendConflicts`, `Project`), because other handles run between them; a
transaction is one action. Storage errors and a crash may come between any
two. `EvidenceLog` is the promise: a log that grows by one entry per event
until it is sealed, and acknowledgements only of recorded events. The
refinement maps the log to the events of `frames[0..head.next-1]`.

### ResumeBoundary

One task and one cycle of its plan. The plan is data (`Depth`, `Planners`,
`Orchestrated`), so one module covers chains, waves and mixtures. `session`
says what the process does with the task; `pc[n]` where the agent of node `n`
is. `applied` is the world outside: the effectful calls whose effect happened.
`settled`, `mark` and `committed` remember what was true when the newest
checkpoint was stored; no action reads them.

Sibling agents share a tokio task, so code without an await is atomic with
respect to siblings: storing a checkpoint and appending its receipt is one
action, whose branches are the failures. A crash between the two leaves the
same state as a receipt that failed. A tool call is `StartCall` (the receipt,
which must be durable), `Apply` (the effect) and `FinishCall`. `Timeout`
cancels a dispatch at any await.

Simplifications, each with its reason: human approval, skipped and conditional
steps, and repair loops after a failed check re-enter the same dispatch code
with another agent identity, which the retry already gives; later cycles start
with a new plan and the same journal and store, like a resume; `execute_mono`
turns an agent's error into a "failed" result, so only phase hooks make a
dispatch return an error; effectful calls of a Plan agent are refused by the
code that makes the agent finish, so they do not exist here. That a resumed
task may repeat a Do node whose effects lie *before* the boundary is the
documented intention (comment at `core/sa/execution.rs:4105`) and no property
forbids it.

### CommandInbox

A command is its sequence number. The number is drawn before the lock is taken
(`Submit`, then `Enqueue`), so two users can enqueue in the other order; the
inbox is a set because every reader sorts by number. The supervisor is
`sa[t]`, whose `pc` follows `process_task_with_context` and `execute_plan`.
`check_and_process_supplementary_inputs` is one action: the supervisor is
sequential, its agents do not run while it drains, and the function cannot
fail halfway. `CloseAndTake` adds the tombstone, drops the oldest ones beyond
the limit and empties the task's share of the inbox under one lock.

The early returns of `execute_plan` (`PlanFails`, `PlanErrs`) leave the inbox
open, as in the code. Each task is processed once. Broadcast events, the
history ring, intervention plans and human approval are left out: they neither
add to nor take from the reliable inbox.

### Blackboard

| Variable | Code |
| --- | --- |
| `versions` | `sync_versions`: the generation drawn last and whether for a tombstone |
| `cache`, `index`, `nodeCount`, `totalBytes` | `node_cache`, the secondary indices, the two atomics |
| `queue`, `errors`, `worker`, `mirror` | the `sync_channel`, the worker's error list, its thread, the Oxigraph store |
| `op` | per caller, the call in progress and where it is |
| `teardown` | `Drop for Blackboard` |

A call works through its nodes item by item. For each, a write is `Draw`
(generation), `Send` or `TimeOut` (250 ms on a full queue), `Look` (unlink the
old line) and `Put`; a delete is `Uncache`, `Draw`, `Send`, `Unlink`,
`SendBarrier`, the worker's answer and `Return`. The code holds no lock across
these. The worker's comparison of the generation and its store update are one
action; they are two calls in the code, but the worker is the only one that
writes the store, and a generation drawn in between has its own command later
in the queue. Documents that give no triples (`blank`) are applied without
effect, as `build_triples` does.

The last line of variables is history. Two of them heal. `dropped` says that
the update of a node's newest generation timed out, failed or had nothing to
write, until the next generation is drawn. `disputed` says that calls met on the
node, since when the cache may hold an older writer's line than the mirror,
until a write that meets no other call. `raced`, `lapsed` and `leaked` (a delete
that gave up half-way) are for good, as counters and indices that have gone
wrong stay wrong, and `misreported` says that another caller's barrier took a
node's error. Each property uses the fewest it can. `target` and `homes` are the
graph of a node's newest generation and all it was written to: neither
`sync_to_oxigraph_sync` nor `delete_from_oxigraph_sync` touches any other graph
than that of the document at hand, so a document that moved leaves its triples
behind (`LeftBehind`), and no delete takes them. The properties say so instead
of leaving such nodes out: other graphs hold older generations only, and only
where they were written. `CapacityHeld` speaks of the time between calls: the test before a
batch looks at what all of it comes to, so a batch that grows one node before it
shrinks another is over the limit in between, and stays so if a full queue cuts
it short. `MirrorNewest` needs no exemption for races, which is the reason
generations exist. The code also has `clear` and two setters, which only tests
call, and the task tree, permissions and locks, which are other components.

### MemoryTiers

One task's documents, by number. `l2[n]` is a cache line with dirty bit, MESI
state and generation; `l0[n]` is the durable entry. `tree` is the task's
`node_iris`. Each call is again a sequence of steps: a write (`Draw`, `Look`,
`Put`, `Hook`), a read that reloads a stale line (`Fetch`, then the steps of a
write, then `Finish`), an eviction (look at the dirty bit, then `Remove`), a
delete, the completion of a task (`FlushOne` per dirty line, `Gather`,
`ReleaseOne`, `Released`) and a direct store with or without notice. Transactions
of L0 are one action. `Restart` keeps L0.

`owed[n]` is the document the system answers for: the newest that is durable or
an update, until it is deleted. `DurableKept` compares it with both tiers.
L2 counts generations from 1 in each process, while L0's survive, so that a line
written after a restart can look older than L0's entry of an earlier document;
such nodes are `behind` and exempt, and the matter is in the list below.

### VectorLog

A document is its IRI and the number of the attempt that wrote it. `state` is
the clock, the indexed documents and the IRI registry; vector slots, HNSW graph,
lexical index and metadata are written under one lock and are one map. `active`
and `frozen` are the segments, `synced` says how much of the active one is on
the disk; `current`, `previous` and `staged` are the snapshot files. A mutation
draws a clock and appends one record: `Write`, `WriteTorn` (bytes of it stay),
`WriteUnsynced` (an error, but the record is whole) or `WriteRefused` (too many
errors). The crash between the append and the update of the index is
`WriteUnsynced` followed by `Crash`: the record is in the log and nobody was
answered. A checkpoint is `ReadCovered` (without the barrier, as in the code),
`Stage`, `KeepPrevious`, `Publish`, `Rotate`, `Cleanup`, and may fail at each.
`Crash` loses the process, `PowerLoss` also what was not synced, `Damage` makes
a snapshot file fail its digest, `Open` is the recovery.

The production configuration syncs the log every 100 ms
(`hyperspace_store.rs:245`), so a power loss may take answered writes: `sure` is
the part of `acked` that a sync has covered. Two checkpoints may overlap, since
the application starts one after each task
(`apps/gliding_code/src/engine.rs:1805`, `2707`).

Assumed of the world: renames and removals in a directory become durable in
order; the names of frozen segments, which are taken from the clock of the
machine, grow; an fsync that failed does not let a later one report success for
data it dropped; opening the new active file in `rotate` succeeds. Writes that
stand behind a torn record in the same segment (`shadowed`) are exempt from
"what was answered is recovered": replay stops at the torn record. The hazard
is `wal.rs:255`.

`opened` is the number of attempts there were when the engine was last opened.
`ViewFaithful` speaks with it of the two ways a document comes to be shown: once
a mutation of it was answered in this process, the view is the last such one and
nothing else; until then it is what the recovery found, which may be an attempt
that failed before it (its record was whole in the log), but none that failed
since.

### RecoveryLoop

One task from its first cycle to its end. A plan is a set of steps with indices,
roles and dependencies. `pc` follows the two nested loops:

```
cycle -> wave <-> results -> deliver -> verify -> repair <-> reaudit
                                 ^                   |
                                 +------ round 2 ----+--> (verify) -> mark -> decide -> gate -> route
  route -> accepted | stopped | cycle (with scoped, fallback or full plan)
```

Each dispatched agent's answer is a nondeterministic choice among all it can
give; `Audits` are the five classes that `apply_ca_dimension_audit` and
`normalize` tell apart. `spent` is `PdcaRecoveryState` with the limits of the
execution budget, and lives through all cycles; `facts` are the two receipts of
the delivery target (written; read by a check since). `Directive` is
`select_directive`, `RetryPlan` is `scoped_retry_plan_for_decision` with the
descendants as the smallest closed set instead of the code's worklist.

`hist` is history: whether the latest audit passed after the last implementation
step, whether the decision was taken on it, whether a result stopped the task,
whether a Do agent is due, whether a preflight waived the implementation, and
which Do steps ever answered. A Do agent is due at the start, after an audit
that shows a defect, and after each of the other causes `EvidenceGapSpares`
lists; an audit that fails without a defect (`unclear`) makes none due while the
cycle lasts, where `RefuseRepair` turns it into a missing evidence
(`core/sa/execution.rs:6822`), and one when the cycle ends with it (`Mark`). A
check agent lost in a recheck is no cause.

`Route` has the terminal close of the inbox in it: commands that it finds after
a passed cycle (`core/sa/process.rs:1647`) make the result a failed one and the
next cycle runs the whole plan, with no budget but that of the cycles
(`Reopened`). How commands can get behind the close of `execute_plan` is the
subject of `CommandInbox`.

The section *Shapes of plans* names what the theorems assume of a plan
(`ImplementFirst`, `OneAtATime`, `WorkBeside`, `Ordered`), each as what can be
ready after a set of steps that is closed under dependencies. `MCRecoveryLoop`
has TLC evaluate the shapes for every plan of the run.

What the model leaves out of these functions: the loop in which a wave waits
while the user keeps the task paused (`core/sa/execution.rs:6118`), which only
`CommandInbox` has and which can last for ever, `dispatch_with_retry`'s second
attempt (same answer, later), human approval nodes and failure branches of
external workflows, recursive sub-cycles of a Do agent, the conformance
contract, and learning. The list order of a plan is assumed topological, as the
validation before it makes it. What the code does and the properties have to
exempt is in the list of disagreements.

### Batch agents

Read but not modelled; one consumer task does all of it
(`api/grpc/server.rs:141`). An event first enters the window of every running
agent that matches and is then recorded in the journal. When the journal says
that the event is a duplicate, or that it cannot be written, the function
returns with the log line "refusing execution", while the entries stay in the
windows and are executed with the next batch. An event whose extraction fails
after its window was drained stays in the journal until the next start, where
`replay_pending` executes it for all agents that match then, and acknowledges it
if there is at least one and all succeed.

## Model checking

Deadlock checking is on in `ledger` and `recovery_loop`; it is off in the
others, where tasks end, calls and crashes are bounded, and then nothing is left
to do. The bounds are named constants; each counts something the code leaves
unbounded. A property named in the second column with `=` is a conjunction; the
module states and explains each part.

| Run | Instance | What it shows |
| --- | --- | --- |
| `queue_worker` | 2 tasks, 2 slots, 1 crash, 1 failure; 240 000 states, fair | No enqueued task is lost; a task runs twice only after a restart and never in two slots (`RedoneOnlyAfterCrash` = `DuplicatesNeedCrash`, `ExclusiveExecution`); every task is answered |
| `ledger` | 2 handles, 3 events, 2 retries, 1 crash, 1 failure; 770 000 states, fair | Chain and seal (`EvidenceIntact` = `ChainLinked`, `SealMatchesChain`), the callers' answers (`AnswersAreTrue` = `OneFramePerCall`, `AckedDurable`), the projection (`ProjectionRecovers` = `ProjectionFaithful`, `OpenRepairs`, `AuditPasses`); the ledger implements `EvidenceLog`; a retry means that another handle got on, and every call is answered (`AppendsEnd` = `RetryMeansProgress`, `AppendsSettle`) |
| `resume_chain` | Plan node with a retry, then a Do node; 2 resumes, a store of 3; 1.7 million states | For plans without siblings the boundary is exact, accepted work is kept until agents' checkpoints fill the store (`CommittedWorkStays` = `CommittedWorkSurvives`, `CommittedPlanNotRedone`), a sealed task is inert |
| `resume_wave` | two nodes in one wave, one orchestrated; 1 resume, 1 failed write; 1.2 million states, fair | Every admission and every refusal has its reason in the journal (`GateJustified` = `NoCallSinceBoundary`, `RefusalJustified`), and a task always ends |
| `resume_siblings` | two ordinary nodes in one wave | Violation: the boundary is not exact |
| `inbox_terminal` | 2 tasks, 2 users, capacity 1, 2 commands, 2 cycles, symmetry; 1.4 million states | Every command is handled exactly once although it races with completion, reopening and evicted tombstones |
| `inbox_control` | 1 task, 2 users, 3 commands, 2 cycles; 190 000 states, fair | Waiting commands are taken and a resume ends a pause (`CommandsTakeEffect` = `CommandsAreTaken`, `ResumeEndsPause`) |
| `blackboard_outbox` | 2 callers, 3 calls, 2 nodes, queue of 1, 3 bytes, 1 store failure; 790 000 states, fair | The mirror follows (`MirrorFollows` = `MirrorNewest`, `MirrorAgrees`), a delete leaves nothing but what the document left behind by moving, counters, indices and capacity are right (`BookkeepingExact` = `CountersExact`, `IndexExact`, `CapacityHeld`), every call and every drop that could signal returns (`CallsEnd` = `CallsReturn`, `SignalledDropReturns`) |
| `blackboard_drop` | 2 writes, queue of 1 | Violation: a drop over a full queue waits for ever |
| `tiers_coherence` | 2 processes, 2 nodes, 3 documents, 4 calls, 1 failure, 1 restart, symmetry; 2.1 million states | Nothing owed is lost (`NothingLost` = `DurableKept`, `CleanIsBacked`, `CriticalInL0`), invalid means older, a reload repairs |
| `vector_recover` | 2 IRIs, 3 mutations, 2 checkpointers, 3 checkpoints, 2 faults, 1 decay, symmetry; 3.5 million states | Every whole generation with the log rebuilds all answers (`Recoverable` = `GenerationsSuffice`, `LogSuffices`); the running view and a restart agree with it |
| `recovery_loop` | 6 plans, 3 cycles, 1 each of repairs, rechecks, replans and targets; 730 000 states, fair | Acceptance is earned (`AcceptanceEarned` = `AcceptedIsVerified`, `AcceptedIsComplete`), a stop is final, missing evidence spares the implementation, every task ends |

Why the bounds are enough to be interesting:

- *Queue*: one crash suffices for both sources of a duplicate (a claim file
  and a redelivered message) to meet; one failure strands a claim or kills a
  slot, and with two slots the other one goes on.
- *Ledger*: three events let one call be overtaken twice, which is the retry
  limit; `Limit` is 2, so the readers' limit is passed. The events are taken up
  in one order only (`InOrder`), which loses nothing as they are
  interchangeable.
- *Resume*: a node takes one step per dispatch (a call or a periodic
  checkpoint), so every order of call and checkpoint of two agents occurs. The
  store of three in `resume_chain` is filled by the three checkpoints of one
  dispatch, so SA's step records are pushed out, the agents after them inherit
  nothing and a resume plans again. 20 in the other runs is the code's value.
- *Inbox*: capacity 1 makes the tombstone limit 1, so closing one task evicts
  the other's tombstone; two commands of two users race with two tasks' ends.
- *Blackboard*: three calls of two callers give a write, a delete and a batch on
  one node in every order, and a queue of one is full after the first command. 3
  bytes hold one big and one small document, so capacity refuses some calls, and
  the batch passes the limit before it is back within it.
  `Wrap` is 8 in place of 2^64, and an underflow is seen as a large count.
- *Tiers*: four calls are enough for write, store, reload and completion of one
  node; the restart may fall between any two of their steps.
- *Vector log*: three mutations spread over three segments and two snapshots;
  two faults are a failed step and a death, or a death during the recovery from
  another; the decay may hit either generation. `MaxFrozen` bounds only the
  rotations by size. Three checkpoints pass the point where pruning first
  depends on the previous generation (the second).
- *Recovery*: the plans are the shapes that planning makes (linear, two Do
  steps in a chain, a single Do step, a preflight with its fallback) and two
  external workflows (a linear one and one with siblings); three cycles give a
  cut of a cut; one unit of each budget gives "left" and "exhausted", and two
  findings give "repeated" and "new".

### Fairness

- *Queue*: the dispatcher loop and each slot are tokio tasks, which the runtime
  keeps polling; `Restart` is the process supervisor restarting an exited
  worker. Clients, faults and crashes have no fairness.
- *Ledger*: a call is synchronous code on a thread; once begun it goes on.
  Nobody is obliged to begin one.
- *Resume*: a running process executes its plan and its agents; an agent is
  bounded by its turn budget (`MaxSteps`). Timeouts, rejections, crashes and
  resumes need not happen.
- *Inbox*: a supervisor's future is polled to completion, and agents end
  because of their budgets. Users have no fairness, and neither has an agent's
  reading of its stored inputs.
- *Blackboard*: the worker is a thread of its own and a call in progress is
  running code; new calls, failures and a drop need not come.
- *Recovery*: the supervisor awaits every dispatch under a timeout, so some
  step of its loops is always taken. `TaskEnds` is therefore about tasks that no
  user keeps paused.

### Disagreements

Each of the two violation runs checks one statement of the code's own
documentation, and TLC finds a counterexample.

| Run | Statement | What the code does |
| --- | --- | --- |
| `resume_siblings` | the gate finds whether replay from the exact checkpoint is safe (`core/execution_journal.rs:346`) | an agent's checkpoint counts for the whole task although a sibling's call is open before it; the effect can follow |
| `blackboard_drop` | "Drop must not deadlock while a bounded worker queue is saturated." (`memory/l2_blackboard.rs:2174`) | with a full queue the shutdown is not enqueued; the worker drains the queue and waits in `recv` on a sender that lives until the join returns |

Others were met while modelling. They have no run of their own: the actions that
lead to them are in the models, where the properties exempt them by name, or
the modules leave them out as said.

- *Blackboard.* "Once this API returns, both cache and Oxigraph must no longer
  expose the node" (`memory/l2_blackboard.rs:883`), but `delete_node` enqueues
  one tombstone for the graph of the cached line (lines 732 and 1331 delete from
  one graph): a document written to one graph and then to another stays in the
  first after a delete that reported success. `DeleteCompletes` is stated up to
  `LeftBehind`; with `Exposed(n) = {}` in its place TLC finds it violated by two
  writes and a delete of one node, one after the other.
- *Queue.* "All worker slots exited" ends the worker
  (`worker/agent_os_worker.rs:583`), but `run_worker` keeps a receiver of its
  own (line 533), so the send never fails; with no slots left the worker claims
  until the channel is full and hangs. `EveryTaskSettles` excludes a dead pool.
  `process_next` is documented to commit a delivery "only after its routed
  result" (`worker/task_queue.rs:378`), while `claim_next` commits as soon as
  the claim file is durable; the claim file takes over and `NoTaskLost` holds.
- *Ledger.* An invalid verdict is said to mean incomplete or tampered
  (`core/execution_journal.rs:208`), but `verify` reads at most 100 000 frames
  and compares them with a seal over all of them (lines 476 and 538), while
  `append` has no such limit. `AuditPasses` is stated up to `Limit`.
- *Resume.* A child's at-most-once recovery is "owned by the orchestration
  checkpoint" (`core/agent_runner/execution.rs:6126`), which an automatic resume
  does not consult, and the children's receipts are in other journals
  (`core/biz_agent.rs:1648`). An agent's checkpoint is said to take "the newest
  committed SA boundary as the base" (`core/checkpoint.rs:310`), but pruning goes
  by age alone (line 729): twenty agents' checkpoints in a row, of one long
  dispatch or of a wide wave, evict that boundary, the next one starts from
  nothing, and a resume from it makes the accepted plan again.
  `CommittedWorkStays` allows this where `StepsEvicted` says so; without that
  exception TLC finds it violated in `resume_chain`, both for the record
  (`committed \subseteq Newest.completed`) and for the plan made twice. "Newest"
  is by wall clock (line 623). That a resumed task repeats a finished Do node whose effects lie
  before the boundary is the documented intention
  (`core/sa/execution.rs:4105`) and no property forbids it.
- *Tiers.* Dirty lines are "authoritative and must be retained until flushed"
  (`api/grpc/server.rs:104`), but the eviction looks at the bit and deletes in a
  second step; a write in between is lost (`raced`). L2's generations begin anew
  with each process, so that a reload can replace a newer line (`behind`).
- *Vector log.* "Every crash point retains at least one valid generation"
  (`snapshot.rs:122`), but `save` renames a decayed current file over a whole
  previous one (line 134). The log refuses after three errors with "engine must
  checkpoint" (`wal.rs:176`), which does not reset the count. Frozen segments
  without an intact record are never removed (`wal.rs:570`).
- *Recovery.* A report without an evidenced defect is refused a Do agent in the
  loop (around `core/sa/execution.rs:6822`), while `Mark` can route the same
  report to one. When the audit after a repair is lost, the old report stays and
  is acted on, against the comment at line 3383 (the last disjunct of
  `ReauditRepair`). In a preflight,
  a partial decision with the completion marker counts as confirmed
  (`hist.waived`), and one whose check finds the target missing ends with an
  error (lines 6900 and 3781), against "otherwise fall through to the retry
  loop" (`core/sa/process.rs:1563`). A verifier-only retry of a task with a
  delivery target always ends with an error. In a plan with unconnected Do steps
  a failed result hides a sibling's timeout and the task is retried, although a
  timeout "cannot be replayed automatically" (`core/sa/execution.rs:4771`), and
  the unfinished sibling is cut from the scoped plan (`core/sa/process.rs:426`).
  The run's generated plans are therefore chains, and its siblings are in an
  external workflow, which is never cut.

## Proofs

The theorems hold for every value of the constants that the modules' named
assumptions allow: any number of tasks, slots, handles, events, nodes, retries,
crashes and failures; what a theorem about plans assumes of their shape is said
with it. They concern safety.

**TaskQueueProofs.** `TypeCorrect` and `AtLeastOnce` (`NoTaskLost`).
`NoTaskLost` is not inductive: `CommitDelivery` advances past a message, and
`CompleteClaim` removes a claim file. `DeliveryInv` adds that a claim in the
hand that is not committed yet is the message at the head and is covered
already, by its file or by a result (a second copy of the task may have
finished and removed the file in between), and that a slot in "persisted" has
its result.

`ExecutionsBounded` (`RedoneOnlyAfterCrash`) counts the copies of a task that can
still start it: in the recovered claims, in the hand, in the channel, in the
part of the queue the position has not passed. `Budget` says that the executions
started and the copies still owed are at most one, plus two per restart (the
claim file and the message, when the saved position is behind). It needs that a
client sends an id once, and that a worker that is down holds nothing.

**EvidenceLedgerProofs.** `TypeCorrect`; `ChainIntact` (`ChainLinked`);
`SealCoversChain`; the two together as `EvidenceStaysIntact` (`EvidenceIntact`);
`AtMostOneFrame` (`OneFramePerCall`) and `AcknowledgedIsDurable`, together
`AnswersStayTrue` (`AnswersAreTrue`); `SealIsPermanent` (`SealIsFinal`); and `LedgerIsALog`: the ledger implements
`EvidenceLog`. The invariant connects a handle's unfinished call with the
chain: the event in hand is pending and not on the chain before the commit, is
on it at `cursor` after the commit, and no two handles have the same event.
The refinement needs it for "e is not recorded yet" and for the
acknowledgement. `ReconciliationHeals` (`ProjectionRecovers`) follows the cursor
of a handle that is being opened: what is behind it is projected, and nothing is
ever unprojected. `RetriesMeanProgress` (`RetryMeansProgress`, the safety half of
`AppendsEnd`) compares a call's conflicts with the head it read last: a conflict
means that the chain has grown past that head, since two heads of the same length
are the same head.

**ResumeBoundaryProofs.** `TypeCorrect`; `ReceiptsFirst`
(`ReceiptBeforeEffect`); `NoCallPastBoundary` (`NoCallSinceBoundary`);
`RefusalsJustified`, both as `GateIsJustified` (`GateJustified`); and under
stated restrictions on the plan `ExactForChains` (`ExactBoundary`, when every wave has one node and none is orchestrated) and
`SealedIsInert` (`SealedTaskIsInert`, no orchestrated node). The invariant has
three parts beyond types: the receipt of the newest checkpoint, if it is in the
journal, stands right after `mark` and nowhere else (`LedgerInv`); an agent in
"calling" or "acted" has its receipt (`CallInv`); and for chains the effects
that are not settled belong to receipts after `mark`. The restrictions are not
for convenience: `resume_siblings` is a counterexample without the first, and
the children of an orchestrated node journal elsewhere.

`AcceptedWorkStays` (`CommittedWorkStays`) holds for every cap of the store. As
long as a step record is in it, the last one and every record since say exactly
what is committed; the last one is gone only once the store is full
(`RecordInv`), and a store that agents' records fill stays so until SA writes
again (`EvictedStays`). A run that was not resumed from such a store has what is
committed as completed and has not dispatched its Plan nodes (`ReuseInv`).

**CommandInboxProofs.** All safety properties of the module, for any number of
tasks, users and commands, any capacity and any sequence of reopened and evicted
tasks: `InboxTypes` (`TypeOK`), `AcceptedExactlyOnce` (`ExactlyOnce`),
`NothingBehindTombstone` (`ClosedInboxEmpty`), `SuccessSeesEverything`
(`SuccessIsInformed`) and `NewestTargetDelivered` (`LatestTargetDelivered`).

The queues are built by an ordered drain, by concatenation and by selection.
The module states the drain and the selection over ranks (`InOrder`: the i-th
number of a set has i numbers up to it) and not by the sorting and filtering of
the library, whose definitions the prover does not have. That ranks enumerate
a set is the pigeonhole principle (`Ranks`, `Enumerates`, `Increases`), and the
counting lemmas follow from bijections (`Selects`, `Joins`, `Chosen`, `Claims`).

- *Tombstones.* `CloseAndTake` sets the tombstone and empties the inbox in one
  step, and `Enqueue` looks at the tombstone in the step that enqueues.
- *Exactly once.* `ExactlyOnce` is not inductive. `OwnOnly`: a task's queues hold
  its own commands only, else a batch would serve another task's. `Unanswered`:
  a number that a call holds is not answered yet and held by no other call.
  Every step of a supervisor is one of four rearrangements of its task's
  commands (`Rearranges`: process, route, report, store to agents).
- *Success.* `PassedInv`: between the terminal gate and the report of success the
  routing queue is empty, since the gate processed it and no step in between
  drains. The inbox itself may fill in that interval, when the tombstone is
  evicted; that is why `Succeed` closes and looks once more.
- *Newest target.* Numbers are drawn before the lock is taken, so the numbers
  alone do not say who supersedes whom. `OrderFor`: nothing in the inbox was
  acknowledged before a drained command was submitted; the routing queue is
  sorted in that sense, and all of it comes behind what was handled; the
  contract is no target that a handled target supersedes. A batch keeps it
  because what is claimed is claimed in number order (`SortedBatch`).

**BlackboardProofs.** `TypeCorrect` (`TypeOK`); `MirrorIsNewest`
(`MirrorNewest`); `MirrorFollowsCache` (`MirrorFollows`); `DeletesComplete`
(`DeleteCompletes`), for any callers, nodes, graphs, batches, capacity and
failures. The invariant is built in layers. The type of a call says which
fields mean something at which step, and a barrier in the queue belongs to one
caller that waits. `HomeInv`: whatever is known of a node anywhere belongs to a
graph it was written to, so nothing is left behind but in `LeftBehind`. `NewestInv`: for a node whose newest update was not dropped, the command
of its newest generation is with a caller, or in the queue, or the mirror shows
it; nothing is needed about the order of the queue, since the worker compares
generations. `HeldInv`: a generation is drawn once, so wherever the newest is found it is for
the graph `target` names, and never from a write when it is a tombstone; all
else is older.
`AgreeInv`: on a node no two calls met on since its last uncontested write, the
line is the newest generation's except while one call is between its first and
its last step. `DeleteInv`:
until its barrier is answered, a delete's tombstone is in front of the barrier,
or applied, or its failure waits for a barrier, or another's barrier took it.

`BookkeepingIsExact` (`BookkeepingExact`), with `IndexFollowsCache` (`IndexExact`)
and `CountersFollowCache` (`CountersExact`) on the way.

- *Index.* `BooksInv`: on a node no two calls met on, a write between `Look` and
  `Put` has left nothing listed, a delete between `Uncache` and `Unlink` has left
  the line listed that it took out, and otherwise the key of the cached line is
  listed and no other.
- *Counters.* A line is counted from the `Put` that brings it in until the `Put`
  or `Unlink` that takes it off, which is longer than it is cached. `CountInv`:
  the counters are the number and the sum of the lines `Counted`, the cached ones
  and those that deletes hold. `LineChanges` says what a sum becomes when one
  line of it changes; it needs that a sum does not depend on its order
  (`SumsExchange`). The counters are 64-bit numbers that wrap, so both theorems
  suppose `[]MemoryFits`: what is counted at a time is below `Wrap` (2^64) bytes
  and nodes, all of which are in the process's memory.
- *Capacity.* `CapacityInv`: while calls do not overlap and none is cut short,
  what the items a write has left will come to (`Projection`) is within the
  limit, and so is the total when no write runs. `ProjectionTail`: that number
  stays the same when an item is put in, because the old line the write read is
  the one the projection replaced (`BooksInv`) and the counter holds at least its
  size (`CountInv`).

**MemoryTiersProofs.** `TypeCorrect` and `InvalidIsOlder`
(`InvalidMeansOlder`). The invariant beyond the types says that a call that
works on one node has one, and that a call about to write a line has a document
(a reload got it from an entry that exists). `InvalidMeansOlder` is inductive on
top of it: L0's generation never falls, only the notice sets Invalid and has
just compared, and whatever gives a line another generation resets its state.

`NothingIsLost` (`NothingLost`) and `ReloadsRepair` (`ReloadRepairs`) rest on
`Kept(n)`, an invariant of a node that has not raced: at most one call works on
it; when none does the node is `Settled` (what is owed is in L0 or in a dirty
line that L0 has not reached, a clean line is backed, a critical document is in
L0, and a dirty line holds what is owed); and when one does, `Stage` says how far
it has got. Two things are not obvious. A line may be dirty only for what is
owed, since otherwise a flush would replace an owed document of L0 by another
one. And a reload may throw away a dirty line, because it starts only below L0's
generation (`InvalidMeansOlder` is used here), where the node owes nothing that
L0 lacks, and the generation it sets back and draws again is L0's own, so that a
flush by its hook leaves the entry as it is. That documents are numbered in the
order of their creation (`Fresh`) shows that a direct store changes the entry,
and so raises its generation.

**VectorLogProofs.** All properties of the module: `VectorTypes` (`TypeOK`),
`EveryWriteIsRecoverable` (`Recoverable`), `ViewIsFaithful` (`ViewFaithful`) and
`RestartsAgree` (`RestartAgrees`), for any number of documents, mutations,
checkpoints, failed calls, deaths, power losses and decayed files.

*What a replay makes.* The replay of a record, of a segment and of all segments
are recursive functions in the model. That they take the values of their
equations is shown once (`ReplayedRuns`, `ReplayedAllRuns`, `CleanedRuns`), and
then `Applied` says what they give: of each document the newest record beyond the
clock of the image, and else what the image says. It holds of one record, of two
replays in a row if the second is of later records, and so of the log, whose
records stand in the order of their clocks across all segments (`Chained`).
Appending, rotating, cutting, healing and pruning keep that order
(`LogAppend` to `LogPrune`).

*The invariant.* `BasicInv` has the types, the order of the log, and the clocks:
no record and no file is ahead of the engine, and until a checkpoint publishes
what it staged is the engine's own image, which is where the write barrier is
needed. `KeepsInv` speaks of a file and the log: `Suffices(file)` says that for
each kept attempt the log has its record beyond the clock of the file, or the
file shows it or a later one and no older record is replayed over it.
`GenerationsSuffice` says this of what a replay would give and is not inductive;
`Suffices` is. Both generations suffice, and the empty image does before there
is a second generation (`HoldsInv`, `BareInv`); the view shows what is kept
(`ViewInv`), so a snapshot of it suffices. Two parts carry the hard steps.
`CoverInv`: the clock a checkpoint read before the barrier is not beyond the
generation that will be the previous one, however another checkpoint moved the
files meanwhile, so pruning takes only records both generations have. `SureInv`:
a synced record stands in the synced part of the file, so a power loss takes
only what is not owed. `ViewFaithful` is inductive beside these: `ViewInv` makes
it true when the engine opens (`FoundAtOpen`), an answered mutation changes its
own document to what it wrote (`AnsweredShown`), and no other step, a failed
mutation among them, changes what is shown (`NothingAnswered`).

**RecoveryLoopProofs.** `TypeCorrect` (`TypeOK`) for any plans; the others for
plans of a stated shape. A standard or more complex generated plan has them all:
`normalize_generated_pdca_steps` (`core/sa/planning.rs:3076`) merges its steps to
one per role, lets the check step depend on the Do step and the act step on the
check step; a preflight has a check and an act step in a row
(`core/sa/process.rs:360`). A simple plan of several roles and an external
workflow keep the dependencies of their author, and the theorem holds for those
that have the shape.

- `EvidenceSpares` (`EvidenceGapSpares`), for `PlansImplementFirst`: no Do step is
  ready once a check step is past. The invariant follows where a report without
  a defect can lead while nothing is due (`Settled`): to its check agents or to a
  stop, and a cycle that repeats the check has no Do step in its cut. A passed
  cycle that late commands reopen is a cause of its own (`Reopened`), and
  `RouteMoves` shows that no other route leads from a passed cycle to a next.
- `StopsAreFinal` (`StopIsFinal`), for `PlansStopCleanly`: agents run one at a
  time, or it is a workflow that runs only Do and check agents side by side.
  `HaltInv` says where a stop can be: among the answers not seen yet, in the
  result, or hidden by a sibling's failure whose route stops as well, since a
  workflow is never cut. For other plans the property fails (see the
  disagreements).
- `AcceptanceIsEarned` (`AcceptanceEarned`), for `PlansOrdered`: checks follow the Do
  steps, act agents come last, and plans that may be cut run one agent at a
  time. The invariant has a part for every region of the two loops. During the
  waves the answers to come are a front of the plan (`Front`); behind them the
  report and the decision are as new as the work or known to be out of date
  (`Judged`); the Do steps still missing are in the plan that runs or in the one
  that is cut next (`Covers`, `GoesBack`; a reopened task loses its waiver and
  runs the whole plan), which is where the chain is needed: a
  failed Do step has every missing one behind it (`BehindOne`), so its
  descendants are enough.

The shapes are kept by every cut (`CutOrdered`, `CutOneAtATime`): the steps a cut
leaves out can be taken for done. The cases of `Directive`, `DoStart` and
`Route` are written with ELSE, as the early returns of the code are.

Assumed by the proofs: only what the `ASSUME`s of the modules say (distinct
"none" values, which are no document and no image, positive limits, a plan in
topological order), which TLC evaluates in every run, and, as hypotheses of the
theorems that state them, `[]MemoryFits` for the counters of the blackboard
and the restrictions on the plan named above.

### Checked by TLC only

- Everything under fairness: `EveryTaskSettles`, `AppendsEnd`, `TaskSettles`,
  `CommandsTakeEffect`, `CallsEnd`, `TaskEnds`. The prover does not handle
  liveness with ENABLED.

## Limits

The models stop at redb below the L0 store (its transactions are atomic and
durable when they return), at the graph store (an update happens or fails), at
the queue library (messages are durable and in order, its
position is saved at some time) and at the file system (a rename is atomic; what is
assumed of it for the vector log is said there).
Tools are calls with or without effect. Time appears as the possibility of a
timeout. Text, hashes and identifiers are values that differ when the code's
would.
