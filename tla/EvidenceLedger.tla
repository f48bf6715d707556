--------------------------- MODULE EvidenceLedger ---------------------------
(***************************************************************************)
(* The durable execution journal of one task: hash-linked frames, the      *)
(* chain's head and its terminal seal in the L0 store, and the projection  *)
(* of every frame to an ordinary L0 entry.  Several journal handles in one *)
(* process append and seal optimistically: read the head, build a frame,   *)
(* try it in a transaction that rechecks the head, retry on a conflict.    *)
(* Source: src/src/core/execution_journal.rs and the task-evidence         *)
(* transactions of src/src/memory/l0_store.rs.                             *)
(*                                                                         *)
(* Each journal call carries one event of Events, so a frame's sequence    *)
(* number and event identify its content, and stand for its SHA-256.       *)
(***************************************************************************)
EXTENDS Integers, FiniteSets

CONSTANTS
  Handles,      \* TaskExecutionJournal values of concurrent users of the task
  Events,       \* the events of append calls, one per call
  NoEvent, NoHash, NoSeal,
  MaxRetries,   \* MAX_APPEND_RETRIES
  Limit,        \* MAX_EVIDENCE_FRAMES: a reader sees the first Limit frames
  MaxCrashes,   \* bound on process crashes
  MaxFailures   \* bound on storage errors returned to a call

ASSUME EvidenceLedgerAssumption ==
  /\ NoEvent \notin Events
  /\ NoHash \notin Nat \X Events
  /\ NoSeal \notin [count : Nat, root : (Nat \X Events) \union {NoHash}]
  /\ MaxRetries \in Nat \ {0} /\ Limit \in Nat \ {0}
  /\ MaxCrashes \in Nat /\ MaxFailures \in Nat

VARIABLES
  frames,     \* TASK_EVIDENCE_FRAME_TABLE: sequence number -> frame
  head,       \* TASK_EVIDENCE_HEAD_TABLE
  seal,       \* TASK_EVIDENCE_SEAL_TABLE
  projected,  \* L0 entries of the frames: sequence number -> content
  pc,         \* per handle, the step of its current call
  event,      \* per handle, the event it is appending
  view,       \* per handle, the head it read last
  tries,      \* per handle, conflicts met by the current call
  cursor,     \* per handle, the next frame to reconcile or to project
  opened,     \* per handle, the number of frames it saw when it was opened
  outcome,    \* per event, how its append call ended (history)
  since,      \* per handle, the chain's length when its call began (history)
  crashes, failures

durable == <<frames, head, seal, projected>>
local == <<pc, event, view, tries, cursor, opened>>
vars == <<durable, local, outcome, since, crashes, failures>>

Hash(f) == <<f.sequence, f.event>>
Hashes == (Nat \X Events) \union {NoHash}
Frame == [sequence : Nat, event : Events, previous : Hashes]
HeadRecord == [next : Nat, last : Hashes, sealed : BOOLEAN]
SealRecord == [count : Nat, root : Hashes]
Outcomes == {"none", "pending", "acked", "sealed", "conflict", "failed", "lost"}
PCs == {"closed", "reconcile", "ready", "readHead", "append", "project",
        "sealReadHead", "seal"}

Put(f, k, v) == [x \in DOMAIN f \union {k} |-> IF x = k THEN v ELSE f[x]]
Least(m, n) == IF m < n THEN m ELSE n

\* what task_evidence_frames(MAX_EVIDENCE_FRAMES) returns
Visible == Least(Cardinality(DOMAIN frames), Limit)

Init ==
  /\ frames = [s \in {} |-> s] /\ projected = [s \in {} |-> s]
  /\ head = [next |-> 0, last |-> NoHash, sealed |-> FALSE]
  /\ seal = NoSeal
  /\ pc = [h \in Handles |-> "closed"]
  /\ event = [h \in Handles |-> NoEvent]
  /\ view = [h \in Handles |-> head]
  /\ tries = [h \in Handles |-> 0]
  /\ cursor = [h \in Handles |-> 0] /\ opened = [h \in Handles |-> 0]
  /\ outcome = [e \in Events |-> "none"]
  /\ since = [h \in Handles |-> 0]
  /\ crashes = 0 /\ failures = 0

Goto(h, step) == pc' = [pc EXCEPT ![h] = step]

\* an append call returns to its caller
Return(h, result) ==
  /\ Goto(h, "ready")
  /\ outcome' = [outcome EXCEPT ![event[h]] = result]
  /\ event' = [event EXCEPT ![h] = NoEvent]

(***************************************************************************)
(* persist_projection: nothing to do for an entry with the frame's         *)
(* content, an error for another content, else the entry is stored.        *)
(***************************************************************************)
Projectable(s) == s \in DOMAIN projected => projected[s] = frames[s].event

Persist(s) == projected' = Put(projected, s, frames[s].event)

(***************************************************************************)
(* TaskExecutionJournal::new reconciles the projection of every frame it   *)
(* can see before the handle is usable.                                    *)
(***************************************************************************)
Open(h) ==
  /\ pc[h] = "closed"
  /\ Goto(h, "reconcile")
  /\ cursor' = [cursor EXCEPT ![h] = 0]
  /\ opened' = [opened EXCEPT ![h] = Visible]
  /\ UNCHANGED <<durable, event, view, tries, outcome, since, crashes, failures>>

\* Mutants: the entry gets the handle's own event; frames are taken for
\* projected without looking.
ReconcileFrameOwnEvent(h) ==
  /\ pc[h] = "reconcile" /\ cursor[h] < opened[h]
  /\ projected' = Put(projected, cursor[h], event[h])
  /\ cursor' = [cursor EXCEPT ![h] = @ + 1]
  /\ UNCHANGED <<frames, head, seal, pc, event, view, tries, opened,
                 outcome, since, crashes, failures>>

ReconcileFrameSkipped(h) ==
  /\ pc[h] = "reconcile" /\ cursor[h] < opened[h]
  /\ cursor' = [cursor EXCEPT ![h] = @ + 1]
  /\ UNCHANGED <<durable, pc, event, view, tries, opened, outcome, since, crashes, failures>>

ReconcileFrame(h) ==
  /\ pc[h] = "reconcile" /\ cursor[h] < opened[h]
  /\ Projectable(cursor[h])
  /\ Persist(cursor[h])
  /\ cursor' = [cursor EXCEPT ![h] = @ + 1]
  /\ UNCHANGED <<frames, head, seal, pc, event, view, tries, opened,
                 outcome, since, crashes, failures>>

Opened(h) ==
  /\ pc[h] = "reconcile" /\ cursor[h] = opened[h]
  /\ Goto(h, "ready")
  /\ UNCHANGED <<durable, event, view, tries, cursor, opened, outcome, since,
                 crashes, failures>>

(***************************************************************************)
(* append                                                                  *)
(***************************************************************************)
BeginAppend(h, e) ==
  /\ pc[h] = "ready" /\ outcome[e] = "none"
  /\ Goto(h, "readHead")
  /\ event' = [event EXCEPT ![h] = e]
  /\ outcome' = [outcome EXCEPT ![e] = "pending"]
  /\ tries' = [tries EXCEPT ![h] = 0]
  /\ since' = [since EXCEPT ![h] = head.next]
  /\ UNCHANGED <<durable, view, cursor, opened, crashes, failures>>

ReadHead(h) ==
  /\ pc[h] = "readHead" /\ ~head.sealed
  /\ view' = [view EXCEPT ![h] = head]
  /\ Goto(h, "append")
  /\ UNCHANGED <<durable, event, tries, cursor, opened, outcome, since, crashes, failures>>

\* Mutant: the transaction's Sealed outcome is not handled.
AppendRejectedUpFront(h) ==
  /\ pc[h] = "readHead" /\ head.sealed
  /\ Return(h, "sealed")
  /\ UNCHANGED <<durable, view, tries, cursor, opened, since, crashes, failures>>

\* "Task evidence is sealed; append rejected", before or in the transaction
AppendRejected(h) ==
  /\ pc[h] \in {"readHead", "append"} /\ head.sealed
  /\ Return(h, "sealed")
  /\ UNCHANGED <<durable, view, tries, cursor, opened, since, crashes, failures>>

HeadIsCurrent(h) == head.next = view[h].next /\ head.last = view[h].last

NewFrame(h) == [sequence |-> view[h].next, event |-> event[h], previous |-> view[h].last]

WriteFrame(h) ==
  /\ frames' = Put(frames, view[h].next, NewFrame(h))
  /\ head' = [next |-> view[h].next + 1, last |-> Hash(NewFrame(h)), sealed |-> FALSE]
  /\ cursor' = [cursor EXCEPT ![h] = view[h].next]
  /\ Goto(h, "project")
  /\ UNCHANGED <<seal, projected, event, view, tries, opened, outcome, since, crashes, failures>>

\* Mutant: the transaction trusts the head it was given.
AppendUnchecked(h) ==
  /\ pc[h] = "append" /\ ~head.sealed
  /\ WriteFrame(h)

AppendCommits(h) ==
  /\ pc[h] = "append" /\ ~head.sealed
  /\ HeadIsCurrent(h) /\ view[h].next \notin DOMAIN frames
  /\ WriteFrame(h)

Conflicts(h) ==
  /\ pc[h] = "append" /\ ~head.sealed
  /\ ~HeadIsCurrent(h) \/ view[h].next \in DOMAIN frames
  /\ tries' = [tries EXCEPT ![h] = @ + 1]

AppendConflicts(h) ==
  /\ Conflicts(h)
  /\ tries[h] + 1 < MaxRetries
  /\ Goto(h, "readHead")
  /\ UNCHANGED <<durable, event, view, cursor, opened, outcome, since, crashes, failures>>

\* "Task evidence append conflicted repeatedly; retry task operation"
AppendExhausted(h) ==
  /\ Conflicts(h)
  /\ tries[h] + 1 = MaxRetries
  /\ Return(h, "conflict")
  /\ UNCHANGED <<durable, view, cursor, opened, since, crashes, failures>>

Project(h) ==
  /\ pc[h] = "project"
  /\ Projectable(cursor[h])
  /\ Persist(cursor[h])
  /\ Return(h, "acked")
  /\ UNCHANGED <<frames, head, seal, view, tries, cursor, opened, since, crashes, failures>>

(***************************************************************************)
(* seal, called by TaskFinalizer with the task's terminal status           *)
(***************************************************************************)
BeginSeal(h) ==
  /\ pc[h] = "ready"
  /\ Goto(h, "sealReadHead")
  /\ tries' = [tries EXCEPT ![h] = 0]
  /\ since' = [since EXCEPT ![h] = head.next]
  /\ UNCHANGED <<durable, event, view, cursor, opened, outcome, crashes, failures>>

SealReadHead(h) ==
  /\ pc[h] = "sealReadHead" /\ ~head.sealed
  /\ view' = [view EXCEPT ![h] = head]
  /\ Goto(h, "seal")
  /\ UNCHANGED <<durable, event, tries, cursor, opened, outcome, since, crashes, failures>>

AlreadySealed(h) ==
  /\ \/ pc[h] \in {"sealReadHead", "seal"} /\ head.sealed
     \/ pc[h] = "seal" /\ HeadIsCurrent(h) /\ seal # NoSeal
  /\ Goto(h, "ready")
  /\ UNCHANGED <<durable, event, view, tries, cursor, opened, outcome, since,
                 crashes, failures>>

WriteSeal(h) ==
  /\ seal' = [count |-> view[h].next, root |-> view[h].last]
  /\ head' = [head EXCEPT !.sealed = TRUE]
  /\ Goto(h, "ready")
  /\ UNCHANGED <<frames, projected, event, view, tries, cursor, opened, outcome, since,
                 crashes, failures>>

\* Mutant: the seal is written whatever was appended since the head was read.
SealUnchecked(h) ==
  /\ pc[h] = "seal" /\ ~head.sealed /\ seal = NoSeal
  /\ WriteSeal(h)

SealCommits(h) ==
  /\ pc[h] = "seal" /\ ~head.sealed /\ seal = NoSeal
  /\ HeadIsCurrent(h)
  /\ WriteSeal(h)

\* retried, or given up: "Task evidence seal conflicted repeatedly"
SealConflicts(h) ==
  /\ pc[h] = "seal" /\ ~head.sealed /\ ~HeadIsCurrent(h)
  /\ tries' = [tries EXCEPT ![h] = @ + 1]
  /\ Goto(h, IF tries[h] + 1 < MaxRetries THEN "sealReadHead" ELSE "ready")
  /\ UNCHANGED <<durable, event, view, cursor, opened, outcome, since, crashes, failures>>

(***************************************************************************)
(* Faults.  A storage error ends the call; a commit that reports an error  *)
(* after it became durable is AppendCommits followed by such an error.     *)
(***************************************************************************)
\* Mutant: an append whose projection failed starts over.
AppendFailsRetries(h) ==
  /\ failures < MaxFailures
  /\ pc[h] \in {"readHead", "append", "project"}
  /\ Goto(h, "readHead")
  /\ failures' = failures + 1
  /\ UNCHANGED <<durable, event, view, tries, cursor, opened, outcome, since, crashes>>

AppendFails(h) ==
  /\ failures < MaxFailures
  /\ pc[h] \in {"readHead", "append", "project"}
  /\ Return(h, "failed")
  /\ failures' = failures + 1
  /\ UNCHANGED <<durable, view, tries, cursor, opened, since, crashes>>

OpenFails(h) ==
  /\ failures < MaxFailures
  /\ pc[h] = "reconcile"
  /\ Goto(h, "closed")
  /\ failures' = failures + 1
  /\ UNCHANGED <<durable, event, view, tries, cursor, opened, outcome, since, crashes>>

SealFails(h) ==
  /\ failures < MaxFailures
  /\ pc[h] \in {"sealReadHead", "seal"}
  /\ Goto(h, "ready")
  /\ failures' = failures + 1
  /\ UNCHANGED <<durable, event, view, tries, cursor, opened, outcome, since, crashes>>

\* every handle is gone, and so are the calls in progress
Crash ==
  /\ crashes < MaxCrashes
  /\ crashes' = crashes + 1
  /\ pc' = [h \in Handles |-> "closed"]
  /\ event' = [h \in Handles |-> NoEvent]
  /\ outcome' = [e \in Events |-> IF outcome[e] = "pending" THEN "lost" ELSE outcome[e]]
  /\ UNCHANGED <<durable, view, tries, cursor, opened, since, failures>>

HandleStep(h) ==
  \/ ReconcileFrame(h) \/ Opened(h)
  \/ ReadHead(h) \/ AppendRejected(h) \/ AppendCommits(h)
  \/ AppendConflicts(h) \/ AppendExhausted(h) \/ Project(h)
  \/ SealReadHead(h) \/ AlreadySealed(h) \/ SealCommits(h) \/ SealConflicts(h)

HandleFault(h) == AppendFails(h) \/ OpenFails(h) \/ SealFails(h)

Next ==
  \/ \E h \in Handles :
       \/ Open(h) \/ BeginSeal(h) \/ \E e \in Events : BeginAppend(h, e)
       \/ HandleStep(h)
       \/ HandleFault(h)
  \/ Crash

Spec == Init /\ [][Next]_vars

\* A call that has begun keeps running: it is synchronous code on a thread.
\* Nobody has to begin one.
FairSpec == Spec /\ \A h \in Handles : WF_vars(HandleStep(h))

-----------------------------------------------------------------------------
TypeOK ==
  /\ DOMAIN frames \subseteq Nat /\ \A s \in DOMAIN frames : frames[s] \in Frame
  /\ head \in HeadRecord
  /\ seal \in SealRecord \union {NoSeal}
  /\ DOMAIN projected \subseteq Nat /\ \A s \in DOMAIN projected : projected[s] \in Events
  /\ pc \in [Handles -> PCs]
  /\ event \in [Handles -> Events \union {NoEvent}]
  /\ view \in [Handles -> HeadRecord]
  /\ tries \in [Handles -> 0 .. MaxRetries]
  /\ cursor \in [Handles -> Nat] /\ opened \in [Handles -> Nat]
  /\ outcome \in [Events -> Outcomes]
  /\ since \in [Handles -> Nat]
  /\ crashes \in 0 .. MaxCrashes /\ failures \in 0 .. MaxFailures

LastHash(n) == IF n = 0 THEN NoHash ELSE Hash(frames[n - 1])

\* Whatever appends, seals, errors and crashes raced, the frames are a gapless
\* chain that ends at the head: each one carries its own number and the hash
\* of the one before it.
ChainLinked ==
  /\ DOMAIN frames = 0 .. head.next - 1
  /\ head.last = LastHash(head.next)
  /\ \A s \in DOMAIN frames :
       frames[s].sequence = s /\ frames[s].previous = LastHash(s)

\* A seal covers the whole chain: no append slipped in between the head the
\* sealer read and the seal it wrote.
SealMatchesChain ==
  /\ head.sealed <=> seal # NoSeal
  /\ seal # NoSeal => seal = [count |-> head.next, root |-> LastHash(head.next)]

\* What verify() looks for in the frames and the seal is true at every moment.
EvidenceIntact == ChainLinked /\ SealMatchesChain

\* An append call leaves at most one frame, however often it was retried, and
\* none if it was turned away because of the seal or of repeated conflicts.
OneFramePerCall ==
  /\ \A s1, s2 \in DOMAIN frames : frames[s1].event = frames[s2].event => s1 = s2
  /\ \A s \in DOMAIN frames :
       outcome[frames[s].event] \in {"pending", "acked", "failed", "lost"}

\* An acknowledged event is on the chain for good, with its L0 projection,
\* across crashes and under every other call.
AckedDurable ==
  \A e \in Events : outcome[e] = "acked" =>
    \E s \in DOMAIN frames : frames[s].event = e /\ s \in DOMAIN projected

\* What append tells its caller agrees with the chain: an acknowledged event is
\* on it once, for good; a rejected one is not on it.
AnswersAreTrue == OneFramePerCall /\ AckedDurable

\* A projection never disagrees with its frame: the error "Task evidence
\* projection collision" cannot come from this code.
ProjectionFaithful ==
  \A s \in DOMAIN projected : s \in DOMAIN frames /\ projected[s] = frames[s].event

\* Opening a journal repairs what a crash or an error left unprojected.
OpenRepairs ==
  \A h \in Handles : pc[h] \notin {"closed", "reconcile"} =>
    0 .. opened[h] - 1 \subseteq DOMAIN projected

\* A call conflicts only when somebody else's frame got in since it began: it
\* is turned away after MaxRetries conflicts, never because of its own retries.
RetryMeansProgress ==
  \A h \in Handles : tries[h] <= head.next - since[h]

\* What verify() computes; its three reads are one here because it is used on
\* evidence that nobody is writing.
Valid ==
  /\ \A s \in 0 .. Visible - 1 :
       /\ s \in DOMAIN frames
       /\ frames[s].sequence = s /\ frames[s].previous = LastHash(s)
       /\ s \in DOMAIN projected /\ projected[s] = frames[s].event
  /\ seal # NoSeal => seal = [count |-> Visible, root |-> LastHash(Visible)]

\* Evidence of at most Limit frames that was opened and not extended since
\* verifies, sealed or not, whatever happened to it before.
AuditPasses ==
  \A h \in Handles :
    /\ pc[h] = "ready"
    /\ opened[h] = Cardinality(DOMAIN frames) /\ Cardinality(DOMAIN frames) <= Limit
    => Valid

\* Reconciliation heals the projection, whoever else is projecting: what is
\* projected is right, an opened journal misses nothing, and an audit passes.
ProjectionRecovers == ProjectionFaithful /\ OpenRepairs /\ AuditPasses

\* A sealed chain does not change in any way; only its projection may still
\* be completed.
SealIsFinal == [][head.sealed => UNCHANGED <<frames, head, seal>>]_vars

\* Every append call is answered, unless the process dies first.
AppendsSettle == \A e \in Events : (outcome[e] = "pending") ~> (outcome[e] # "pending")

\* The retry loop of append is bounded, answers, and gives up only because
\* other calls made progress.
AppendsEnd == []RetryMeansProgress /\ AppendsSettle

\* The ledger is the log it promises to be.
Log == INSTANCE EvidenceLog WITH
  log <- [i \in 1 .. head.next |-> frames[i - 1].event],
  sealed <- head.sealed,
  acked <- {e \in Events : outcome[e] = "acked"}

LogSpec == Log!Spec

=============================================================================
