------------------------- MODULE ResumeBoundaryProofs -------------------------
(***************************************************************************)
(* The resume gate, for every plan and every bound.                        *)
(***************************************************************************)
EXTENDS ResumeBoundary, TLAPS

(***************************************************************************)
(* The inductive invariant. The receipt of the newest checkpoint, if there *)
(* is one, is the first receipt written after that checkpoint was stored.  *)
(***************************************************************************)
ReceiptsInOrder ==
  \A p \in DOMAIN journal : journal[p].kind = "checkpoint" =>
    journal[p].id <= stored /\ (journal[p].id = stored => p = mark + 1)

NewestIsLast == store # <<>> => Newest.id = stored

LedgerInv == ReceiptsInOrder /\ NewestIsLast

Journaled(call) == \E p \in DOMAIN journal : journal[p] = Started(call, TRUE)

Acting(n) == pc[n] \in {"calling", "acted"}

CallInv ==
  /\ ReceiptBeforeEffect
  /\ \A n \in Nodes : Acting(n) /\ n \notin Orchestrated => Journaled(Call(n))

IInv == TypeOK /\ LedgerInv /\ CallInv

(***************************************************************************)
(* What the writers of the durable records do to them.                     *)
(***************************************************************************)
Grows ==
  /\ Len(journal) <= Len(journal')
  /\ \A p \in DOMAIN journal : p \in DOMAIN journal' /\ journal'[p] = journal[p]

Boundary == <<store, stored, settled, mark, committed>>

ToolReceipts == {r \in Receipts : r.kind # "checkpoint"}

\* Appending receipts of tool calls keeps everything that was there.
LEMMA ReceiptsGrow ==
  ASSUME TypeOK, NEW receipts \in Seq(ToolReceipts), journal' = journal \o receipts
  PROVE  /\ journal' \in Seq(Receipts) /\ Grows
         /\ \A p \in DOMAIN journal' : p \notin DOMAIN journal => journal'[p].kind # "checkpoint"
<1>1. receipts \in Seq(Receipts) /\ journal \in Seq(Receipts)
  BY DEF TypeOK, ToolReceipts
<1>2. /\ journal' \in Seq(Receipts)
      /\ Len(journal') = Len(journal) + Len(receipts)
      /\ \A p \in 1..Len(journal) : journal'[p] = journal[p]
      /\ \A p \in (Len(journal) + 1)..Len(journal') :
           p - Len(journal) \in 1..Len(receipts) /\ journal'[p] = receipts[p - Len(journal)]
  BY <1>1
<1>3. \A i \in 1..Len(receipts) : receipts[i].kind # "checkpoint"
  BY DEF ToolReceipts
<1>4. Len(journal) \in Nat /\ Len(receipts) \in Nat /\ Len(journal') \in Nat
      /\ DOMAIN journal = 1..Len(journal) /\ DOMAIN journal' = 1..Len(journal')
  BY <1>1, <1>2
<1>5. Grows
  BY <1>2, <1>4 DEF Grows
<1>6. ASSUME NEW p \in DOMAIN journal', p \notin DOMAIN journal
      PROVE  journal'[p].kind # "checkpoint"
  BY <1>2, <1>3, <1>4, <1>6
<1>7. QED BY <1>2, <1>5, <1>6

\* A best-effort receipt keeps the types and the order of the records.
LEMMA BestEffortWrites ==
  ASSUME TypeOK, LedgerInv, NEW receipts \in Seq(ToolReceipts),
         BestEffort(receipts), UNCHANGED Boundary
  PROVE  /\ journal' \in Seq(Receipts) /\ Grows
         /\ failures' \in 0..MaxFailures
         /\ LedgerInv'
<1>1. CASE journal' = journal
  BY <1>1, BoundsAssumption DEF BestEffort, Fails, Boundary, TypeOK, LedgerInv, ReceiptsInOrder,
     NewestIsLast, Newest, Grows
<1>2. CASE journal' = journal \o receipts /\ UNCHANGED failures
  <2>1. /\ journal' \in Seq(Receipts) /\ Grows
        /\ \A p \in DOMAIN journal' : p \notin DOMAIN journal => journal'[p].kind # "checkpoint"
    BY <1>2, ReceiptsGrow
  <2>2. ReceiptsInOrder'
    BY <2>1 DEF Grows, Boundary, LedgerInv, ReceiptsInOrder
  <2>3. QED
    BY <1>2, <2>1, <2>2 DEF Boundary, LedgerInv, NewestIsLast, Newest, TypeOK
<1>3. QED BY <1>1, <1>2 DEF BestEffort

\* Pruning keeps the newest records and enforces the cap.
LEMMA PruneKeepsNewest ==
  ASSUME NEW s \in Seq(Checkpoints), s # <<>>
  PROVE  /\ Prune(s) \in Seq(Checkpoints) /\ Len(Prune(s)) <= MaxCheckpoints
         /\ Prune(s) # <<>> /\ Prune(s)[Len(Prune(s))] = s[Len(s)]
<1>0. MaxCheckpoints \in Nat /\ MaxCheckpoints >= 1 /\ Len(s) \in Nat /\ Len(s) >= 1
  BY BoundsAssumption
<1>1. PICK excess : excess = Len(s) - MaxCheckpoints
  OBVIOUS
<1>2. CASE excess > 0
  <2>1. Prune(s) = SubSeq(s, excess + 1, Len(s))
    BY <1>1, <1>2 DEF Prune
  <2>2. /\ SubSeq(s, excess + 1, Len(s)) \in Seq(Checkpoints)
        /\ Len(SubSeq(s, excess + 1, Len(s))) = MaxCheckpoints
        /\ SubSeq(s, excess + 1, Len(s))[MaxCheckpoints] = s[Len(s)]
    BY <1>0, <1>1, <1>2
  <2>3. QED BY <1>0, <2>1, <2>2
<1>3. CASE ~(excess > 0)
  BY <1>0, <1>1, <1>3 DEF Prune
<1>4. QED BY <1>2, <1>3

LEMMA AppendRecord ==
  ASSUME NEW s \in Seq(Checkpoints), NEW r \in Checkpoints
  PROVE  /\ Append(s, r) \in Seq(Checkpoints) /\ Append(s, r) # <<>>
         /\ Append(s, r)[Len(Append(s, r))] = r
<1>1. /\ Append(s, r) \in Seq(Checkpoints)
      /\ Len(Append(s, r)) = Len(s) + 1 /\ Len(s) \in Nat
      /\ Append(s, r)[Len(s) + 1] = r
  OBVIOUS
<1>2. Append(s, r) # <<>>
  BY <1>1
<1>3. QED BY <1>1, <1>2

\* Storing a checkpoint keeps the types and the order of the records, and
\* either moves the boundary to here or leaves everything as it was.
LEMMA CheckpointWrites ==
  ASSUME TypeOK, LedgerInv, NEW kind \in {"step", "runner"}, NEW nodes \in SUBSET Nodes,
         Checkpoint(kind, nodes), UNCHANGED <<sealed, applied>>
  PROVE  /\ journal' \in Seq(Receipts) /\ Grows
         /\ store' \in Seq(Checkpoints) /\ Len(store') <= MaxCheckpoints
         /\ stored' \in Nat /\ failures' \in 0..MaxFailures
         /\ settled' \in SUBSET applied' /\ mark' \in 0..Len(journal') /\ committed' \in SUBSET Nodes
         /\ LedgerInv'
         /\ settled' = applied' \/ UNCHANGED <<journal, settled, mark>>
<1>1. CASE Fails /\ UNCHANGED <<journal, store, stored, settled, mark, committed>>
  <2>1. Grows
    BY <1>1 DEF Grows, TypeOK
  <2>2. LedgerInv'
    BY <1>1 DEF LedgerInv, ReceiptsInOrder, NewestIsLast, Newest
  <2>3. QED
    BY <1>1, <2>1, <2>2, BoundsAssumption DEF Fails, TypeOK
<1>2. CASE /\ store' = Prune(Append(store,
                 [id |-> stored + 1, kind |-> kind, completed |-> nodes]))
           /\ stored' = stored + 1
           /\ BestEffort(<<Committed(stored + 1)>>)
           /\ settled' = applied
           /\ mark' = Len(journal)
           /\ committed' = IF kind = "step" THEN nodes ELSE committed
  <2>1. PICK record : record = [id |-> stored + 1, kind |-> kind, completed |-> nodes]
    OBVIOUS
  <2>2. record \in Checkpoints /\ record.id = stored + 1
    BY <2>1 DEF Checkpoints, TypeOK
  <2>3. /\ Append(store, record) \in Seq(Checkpoints) /\ Append(store, record) # <<>>
        /\ Append(store, record)[Len(Append(store, record))] = record
    BY <2>2, AppendRecord DEF TypeOK
  <2>4. /\ store' \in Seq(Checkpoints) /\ Len(store') <= MaxCheckpoints
        /\ store' # <<>> /\ store'[Len(store')] = record
    BY <1>2, <2>1, <2>3, PruneKeepsNewest
  <2>5. NewestIsLast'
    BY <1>2, <2>2, <2>4 DEF NewestIsLast, Newest
  <2>6. /\ Committed(stored + 1) \in Receipts
        /\ Committed(stored + 1).kind = "checkpoint" /\ Committed(stored + 1).id = stored + 1
    BY DEF Committed, Receipts, TypeOK
  <2>7. /\ journal' \in Seq(Receipts)
        /\ DOMAIN journal = 1..Len(journal) /\ DOMAIN journal' = 1..Len(journal')
        /\ Len(journal) \in Nat /\ Len(journal') \in Nat
        /\ Len(journal) <= Len(journal')
        /\ \A p \in 1..Len(journal) : journal'[p] = journal[p]
        /\ \A p \in 1..Len(journal') :
             p > Len(journal) => p = Len(journal) + 1 /\ journal'[p] = Committed(stored + 1)
        /\ failures' \in 0..MaxFailures
    <3>1. CASE journal' = journal
      BY <1>2, <3>1, BoundsAssumption DEF BestEffort, Fails, TypeOK
    <3>2. CASE journal' = journal \o <<Committed(stored + 1)>> /\ UNCHANGED failures
      <4>1. PICK r \in Receipts : r = Committed(stored + 1)
        BY <2>6
      <4>2. journal' = journal \o <<r>> /\ journal \in Seq(Receipts)
        BY <3>2, <4>1 DEF TypeOK
      <4>3. /\ journal' \in Seq(Receipts) /\ Len(journal') = Len(journal) + 1
            /\ \A p \in 1..Len(journal) : journal'[p] = journal[p]
            /\ journal'[Len(journal) + 1] = r
        BY <4>2
      <4>4. QED BY <3>2, <4>1, <4>2, <4>3 DEF TypeOK
    <3>3. QED BY <1>2, <3>1, <3>2 DEF BestEffort
  <2>8. Grows
    BY <2>7 DEF Grows
  <2>9. ReceiptsInOrder'
    <3>1. SUFFICES ASSUME NEW p \in 1..Len(journal'), journal'[p].kind = "checkpoint"
                   PROVE  journal'[p].id <= stored' /\ (journal'[p].id = stored' => p = mark' + 1)
      BY <2>7 DEF ReceiptsInOrder
    <3>2. CASE p \in 1..Len(journal)
      <4>1. journal[p].kind = "checkpoint" /\ journal'[p] = journal[p] /\ journal[p] \in Receipts
        BY <2>7, <3>1, <3>2 DEF TypeOK
      <4>2. journal[p].id <= stored /\ journal[p].id \in Nat
        BY <2>7, <3>2, <4>1 DEF LedgerInv, ReceiptsInOrder, Receipts
      <4>3. QED BY <1>2, <4>1, <4>2 DEF TypeOK
    <3>3. CASE p > Len(journal)
      BY <1>2, <2>6, <2>7, <3>1, <3>3 DEF TypeOK
    <3>4. QED BY <2>7, <3>2, <3>3
  <2>10. mark' \in 0..Len(journal')
    BY <1>2, <2>7
  <2>11. QED
    BY <1>2, <2>4, <2>5, <2>7, <2>8, <2>9, <2>10 DEF LedgerInv, TypeOK
<1>3. QED BY <1>1, <1>2 DEF Checkpoint

-----------------------------------------------------------------------------
(***************************************************************************)
(* The receipts the agents write.                                          *)
(***************************************************************************)
LEMMA CallReceipts ==
  ASSUME TypeOK, NEW n \in Nodes
  PROVE  /\ Call(n) \in Calls
         /\ \A risky \in BOOLEAN : Started(Call(n), risky) \in ToolReceipts
         /\ Finished(Call(n)) \in ToolReceipts
         /\ Mutated(Call(n)) \in ToolReceipts
<1>1. Call(n) \in Calls
  BY BoundsAssumption DEF Call, Calls, TypeOK
<1>2. PICK c \in Calls : c = Call(n)
  BY <1>1
<1>3. /\ \A risky \in BOOLEAN : Started(c, risky) \in ToolReceipts
      /\ Finished(c) \in ToolReceipts /\ Mutated(c) \in ToolReceipts
  BY <1>2 DEF Started, Finished, Mutated, ToolReceipts, Receipts
<1>4. QED BY <1>1, <1>2, <1>3

LEMMA InheritedNodes == Inherited \in SUBSET Nodes
  BY DEF Inherited

\* What a step may do to the durable records and to what is known of them
LedgerStep ==
  /\ journal' \in Seq(Receipts) /\ Grows
  /\ store' \in Seq(Checkpoints) /\ Len(store') <= MaxCheckpoints
  /\ stored' \in Nat /\ failures' \in 0..MaxFailures
  /\ settled' \in SUBSET applied' /\ mark' \in 0..Len(journal')
  /\ committed' \in SUBSET Nodes
  /\ LedgerInv'

\* An agent's checkpoint, written or not
LEMMA RunnerWrites ==
  ASSUME TypeOK, LedgerInv, NEW n \in Nodes, RunnerCheckpoint(n),
         UNCHANGED <<sealed, applied>>
  PROVE  /\ LedgerStep
         /\ settled' = applied' \/ UNCHANGED <<journal, settled, mark>>
<1>1. CASE n \in Orchestrated
  BY <1>1 DEF RunnerCheckpoint, LedgerStep, Grows, TypeOK, LedgerInv, ReceiptsInOrder,
     NewestIsLast, Newest
<1>2. CASE n \notin Orchestrated
  <2>1. PICK nodes \in SUBSET Nodes : nodes = Inherited
    BY InheritedNodes
  <2>2. Checkpoint("runner", nodes)
    BY <1>2, <2>1 DEF RunnerCheckpoint
  <2>3. QED BY <2>2, CheckpointWrites DEF LedgerStep
<1>3. QED BY <1>1, <1>2

\* SA's step checkpoint
LEMMA StepWrites ==
  ASSUME TypeOK, LedgerInv, NEW n \in Nodes, AcceptResult(n)
  PROVE  /\ LedgerStep
         /\ settled' = applied' \/ UNCHANGED <<journal, settled, mark>>
<1>1. PICK nodes \in SUBSET Nodes : nodes = completed \cup {n}
  BY DEF TypeOK
<1>2. Checkpoint("step", nodes) /\ UNCHANGED <<sealed, applied>>
  BY <1>1 DEF AcceptResult
<1>3. QED BY <1>2, CheckpointWrites DEF LedgerStep

\* A step that leaves the records alone
LEMMA NothingWritten ==
  ASSUME TypeOK, LedgerInv, failures' \in 0..MaxFailures,
         UNCHANGED <<journal, store, stored, settled, mark, committed>>,
         applied \subseteq applied'
  PROVE  LedgerStep
  BY DEF LedgerStep, Grows, TypeOK, LedgerInv, ReceiptsInOrder, NewestIsLast, Newest

\* A step that appends one receipt of a call
LEMMA CallWrites ==
  ASSUME TypeOK, LedgerInv, NEW r \in ToolReceipts, journal' = Append(journal, r),
         UNCHANGED <<store, stored, settled, mark, committed, failures, applied>>
  PROVE  LedgerStep
<1>1. journal' = journal \o <<r>> /\ <<r>> \in Seq(ToolReceipts)
  <2>1. journal \in Seq(Receipts) /\ r \in Receipts
    BY DEF TypeOK, ToolReceipts
  <2>2. QED BY <2>1
<1>2. /\ journal' \in Seq(Receipts) /\ Grows
      /\ \A p \in DOMAIN journal' : p \notin DOMAIN journal => journal'[p].kind # "checkpoint"
  BY <1>1, ReceiptsGrow
<1>3. ReceiptsInOrder'
  BY <1>2 DEF Grows, LedgerInv, ReceiptsInOrder
<1>4. NewestIsLast'
  BY DEF LedgerInv, NewestIsLast, Newest
<1>5. mark' \in 0..Len(journal')
  BY <1>2 DEF Grows, TypeOK
<1>6. QED
  BY <1>2, <1>3, <1>4, <1>5 DEF LedgerStep, LedgerInv, TypeOK

\* The receipts of a call that returned
LEMMA ReturnWrites ==
  ASSUME TypeOK, LedgerInv, NEW n \in Nodes, FinishCall(n)
  PROVE  LedgerStep
<1>1. CASE n \in Orchestrated
  BY <1>1, NothingWritten DEF FinishCall, observed, TypeOK
<1>2. ASSUME NEW receipts \in Seq(ToolReceipts), BestEffort(receipts) PROVE LedgerStep
  <2>1. UNCHANGED <<Boundary, applied>>
    BY DEF FinishCall, Boundary, observed
  <2>2. journal' \in Seq(Receipts) /\ Grows /\ failures' \in 0..MaxFailures /\ LedgerInv'
    BY <1>2, <2>1, BestEffortWrites
  <2>3. mark' \in 0..Len(journal')
    BY <2>1, <2>2 DEF Grows, Boundary, TypeOK
  <2>4. QED
    BY <2>1, <2>2, <2>3 DEF LedgerStep, Boundary, TypeOK
<1>3. PICK f \in ToolReceipts, m \in ToolReceipts : f = Finished(Call(n)) /\ m = Mutated(Call(n))
  BY CallReceipts
<1>4. <<f>> \in Seq(ToolReceipts) /\ <<f, m>> \in Seq(ToolReceipts)
  OBVIOUS
<1>5. QED BY <1>1, <1>2, <1>3, <1>4 DEF FinishCall

LEMMA StepLedger ==
  ASSUME TypeOK, LedgerInv, Next
  PROVE  LedgerStep
<1>1. ASSUME NEW n \in Nodes, AgentStep(n) PROVE LedgerStep
  <2>1. CASE StartAgent(n) \/ PeriodicCheckpoint(n) \/ FinishAgent(n)
    BY <2>1, RunnerWrites DEF StartAgent, PeriodicCheckpoint, FinishAgent
  <2>2. CASE Inspect(n) \/ StartCall(n)
    <3>1. CASE UNCHANGED journal
      BY <2>2, <3>1, NothingWritten DEF Inspect, StartCall, observed, bounds, TypeOK
    <3>2. ASSUME NEW risky \in BOOLEAN, journal' = Append(journal, Started(Call(n), risky))
          PROVE  LedgerStep
      <4>1. PICK r \in ToolReceipts : r = Started(Call(n), risky)
        BY CallReceipts
      <4>2. QED BY <2>2, <3>2, <4>1, CallWrites DEF Inspect, StartCall, observed, bounds
    <3>3. QED BY <2>2, <3>1, <3>2 DEF Inspect, StartCall
  <2>3. CASE StartRefused(n)
    <3>1. failures' \in 0..MaxFailures
      BY <2>3, BoundsAssumption DEF StartRefused, Fails, TypeOK
    <3>2. QED BY <2>3, <3>1, NothingWritten DEF StartRefused, durable, observed
  <2>4. CASE Apply(n) \/ RetryDispatch(n)
    BY <2>4, NothingWritten DEF Apply, RetryDispatch, durable, bounds, observed, TypeOK
  <2>5. CASE FinishCall(n)
    BY <2>5, ReturnWrites
  <2>6. QED BY <1>1, <2>1, <2>2, <2>3, <2>4, <2>5 DEF AgentStep
<1>2. ASSUME NEW n \in Nodes, Timeout(n) \/ RejectPhase(n) PROVE LedgerStep
  BY <1>2, NothingWritten DEF Timeout, RejectPhase, durable, bounds, observed, TypeOK
<1>3. ASSUME NEW n \in Nodes, AcceptResult(n) PROVE LedgerStep
  BY <1>3, StepWrites
<1>4. ASSUME NEW n \in Nodes, StopPlan(n) PROVE LedgerStep
  BY <1>4, NothingWritten DEF StopPlan, durable, bounds, observed, TypeOK
<1>5. CASE DispatchWave \/ FailWave \/ NextWave \/ Crash
  BY <1>5, NothingWritten
     DEF DispatchWave, FailWave, NextWave, Crash, durable, bounds, observed, TypeOK
<1>6. CASE Finalize
  <2>1. failures' \in 0..MaxFailures
    BY <1>6, BoundsAssumption DEF Finalize, Fails, TypeOK
  <2>2. QED BY <1>6, <2>1, NothingWritten DEF Finalize, observed
<1>7. CASE Resume
  BY <1>7, NothingWritten DEF Resume, durable, observed, TypeOK
<1>8. QED BY <1>1, <1>2, <1>3, <1>4, <1>5, <1>6, <1>7 DEF Next, PlanStep

-----------------------------------------------------------------------------
(***************************************************************************)
(* Type correctness                                                        *)
(***************************************************************************)
RestOK ==
  /\ sealed \in BOOLEAN
  /\ session \in {"running", "finalizing", "ended", "down", "refused"}
  /\ wave \in Waves
  /\ completed \in SUBSET Nodes
  /\ pc \in [Nodes -> NodeStates]
  /\ steps \in [Nodes -> 0..MaxSteps]
  /\ dispatched \in [Nodes -> Nat]
  /\ retries \in [Nodes -> Nat] /\ \A n \in Nodes : retries[n] <= Retries[n]
  /\ resumes \in 0..MaxResumes
  /\ applied \in SUBSET Calls

LEMMA SplitTypes == TypeOK => RestOK
  BY DEF TypeOK, RestOK

LEMMA FirstWave == 1 \in Waves
<1>1. NumNodes \in Nodes /\ Depth[NumNodes] \in Nat \ {0}
  BY PlanAssumption DEF Nodes
<1>2. QED BY <1>1, PlanAssumption DEF Waves

LEMMA StepRest ==
  ASSUME TypeOK, Next
  PROVE  RestOK'
<1>0. RestOK
  BY SplitTypes
<1>1. ASSUME NEW n \in Nodes, AgentStep(n) PROVE RestOK'
  <2>1. CASE StartAgent(n)
    BY <1>0, <2>1 DEF StartAgent, RestOK, Become, NodeStates
  <2>2. CASE PeriodicCheckpoint(n)
    BY <1>0, <2>2, BoundsAssumption DEF PeriodicCheckpoint, TakeStep, RestOK
  <2>3. CASE Inspect(n)
    BY <1>0, <2>3, BoundsAssumption DEF Inspect, TakeStep, RestOK, bounds, observed
  <2>4. CASE StartCall(n)
    BY <1>0, <2>4 DEF StartCall, Become, NodeStates, RestOK, bounds, observed
  <2>5. CASE StartRefused(n)
    BY <1>0, <2>5 DEF StartRefused, Ends, Become, NodeStates, RestOK, durable, observed
  <2>6. CASE Apply(n)
    BY <1>0, <2>6, CallReceipts DEF Apply, Become, NodeStates, RestOK, durable, bounds
  <2>7. CASE FinishCall(n)
    BY <1>0, <2>7, BoundsAssumption DEF FinishCall, TakeStep, Become, NodeStates, RestOK, observed
  <2>8. CASE FinishAgent(n)
    BY <1>0, <2>8 DEF FinishAgent, Ends, Become, NodeStates, RestOK
  <2>9. CASE RetryDispatch(n)
    <3>1. /\ retries[n] \in Nat /\ retries[n] > 0 /\ Retries[n] \in Nat /\ retries[n] <= Retries[n]
          /\ retries' = [retries EXCEPT ![n] = retries[n] - 1]
      BY <1>0, <2>9, BoundsAssumption DEF RetryDispatch, RestOK
    <3>2. retries' \in [Nodes -> Nat] /\ \A m \in Nodes : retries'[m] <= Retries[m]
      BY <1>0, <3>1, BoundsAssumption DEF RestOK
    <3>3. dispatched' \in [Nodes -> Nat] /\ steps' \in [Nodes -> 0..MaxSteps]
      BY <1>0, <2>9, BoundsAssumption DEF RetryDispatch, RestOK
    <3>4. QED
      BY <1>0, <2>9, <3>2, <3>3
         DEF RetryDispatch, Become, NodeStates, RestOK, durable, bounds, observed
  <2>10. QED BY <1>1, <2>1, <2>2, <2>3, <2>4, <2>5, <2>6, <2>7, <2>8, <2>9 DEF AgentStep
<1>2. ASSUME NEW n \in Nodes, Timeout(n) \/ RejectPhase(n) PROVE RestOK'
  BY <1>0, <1>2 DEF Timeout, RejectPhase, Ends, Become, NodeStates, RestOK, durable, bounds, observed
<1>3. ASSUME NEW n \in Nodes, AcceptResult(n) \/ StopPlan(n) PROVE RestOK'
  BY <1>0, <1>3
     DEF AcceptResult, StopPlan, Become, NodeStates, RestOK, durable, agents, bounds, observed
<1>4. CASE DispatchWave
  BY <1>0, <1>4, BoundsAssumption DEF DispatchWave, NodeStates, RestOK, durable, bounds, observed
<1>5. CASE FailWave \/ NextWave
  BY <1>0, <1>5 DEF FailWave, NextWave, RestOK, durable, agents, bounds, observed
<1>6. CASE Finalize
  BY <1>0, <1>6 DEF Finalize, RestOK, agents, observed
<1>7. CASE Crash
  BY <1>0, <1>7, FirstWave, BoundsAssumption
     DEF Crash, NodeStates, RestOK, durable, bounds, observed
<1>8. CASE Resume
  <2>1. CASE Admissible
    <3>1. Newest \in Checkpoints
      BY <2>1 DEF Admissible, Newest, TypeOK
    <3>2. Newest.completed \in SUBSET Nodes
      BY <3>1 DEF Checkpoints
    <3>3. QED
      BY <1>0, <1>8, <2>1, <3>2, FirstWave, BoundsAssumption
         DEF Resume, NodeStates, RestOK, durable, observed
  <2>2. CASE ~Admissible
    BY <1>0, <1>8, <2>2, BoundsAssumption DEF Resume, RestOK, durable, observed
  <2>3. QED BY <2>1, <2>2
<1>9. QED BY <1>1, <1>2, <1>3, <1>4, <1>5, <1>6, <1>7, <1>8 DEF Next, PlanStep

LEMMA StepTypes ==
  ASSUME TypeOK, LedgerInv, Next
  PROVE  TypeOK' /\ LedgerInv' /\ Grows
<1>1. LedgerStep /\ RestOK'
  BY StepLedger, StepRest
<1>2. QED BY <1>1 DEF LedgerStep, RestOK, TypeOK

(***************************************************************************)
(* Receipts come before effects                                            *)
(***************************************************************************)
\* Calls whose agent does not move keep their receipt
LEMMA OthersJournaled ==
  ASSUME TypeOK, CallInv, Grows, applied' = applied,
         \A n \in Nodes : Acting(n)' =>
           Acting(n) /\ steps'[n] = steps[n] /\ dispatched'[n] = dispatched[n]
  PROVE  CallInv'
<1>1. ReceiptBeforeEffect'
  BY DEF CallInv, ReceiptBeforeEffect, Grows
<1>2. ASSUME NEW n \in Nodes, Acting(n)', n \notin Orchestrated PROVE Journaled(Call(n))'
  <2>1. Journaled(Call(n)) /\ Call(n)' = Call(n)
    BY <1>2 DEF CallInv, Call
  <2>2. QED BY <2>1 DEF Journaled, Grows
<1>3. QED BY <1>1, <1>2 DEF CallInv

LEMMA StepCalls ==
  ASSUME TypeOK, LedgerInv, CallInv, Next
  PROVE  CallInv'
<1>0. Grows
  BY StepTypes
<1>1. ASSUME NEW n \in Nodes, AgentStep(n) PROVE CallInv'
  <2>1. CASE StartAgent(n) \/ PeriodicCheckpoint(n) \/ Inspect(n) \/ FinishAgent(n)
             \/ StartRefused(n) \/ FinishCall(n) \/ RetryDispatch(n)
    BY <1>0, <2>1, OthersJournaled
       DEF StartAgent, PeriodicCheckpoint, Inspect, FinishAgent, StartRefused, FinishCall,
           RetryDispatch, Acting, At, MayCall, TakeStep, Ends, Become, observed, TypeOK, NodeStates
  <2>2. CASE StartCall(n)
    <3>1. applied' = applied /\ UNCHANGED <<steps, dispatched>>
      BY <2>2 DEF StartCall, observed
    <3>2. ReceiptBeforeEffect'
      BY <1>0, <3>1 DEF CallInv, ReceiptBeforeEffect, Grows
    <3>3. ASSUME NEW m \in Nodes, Acting(m)', m \notin Orchestrated PROVE Journaled(Call(m))'
      <4>1. Call(m)' = Call(m)
        BY <3>1 DEF Call
      <4>2. CASE m = n
        <5>1. journal' = Append(journal, Started(Call(n), TRUE)) /\ Started(Call(n), TRUE) \in Receipts
          BY <2>2, <3>3, <4>2, CallReceipts DEF StartCall, ToolReceipts
        <5>2. PICK r \in Receipts : r = Started(Call(n), TRUE)
          BY <5>1
        <5>3. journal \in Seq(Receipts) /\ journal' = Append(journal, r)
          BY <5>1, <5>2 DEF TypeOK
        <5>4. Len(journal) + 1 \in DOMAIN journal' /\ journal'[Len(journal) + 1] = r
          BY <5>3
        <5>5. QED BY <4>1, <4>2, <5>2, <5>4 DEF Journaled
      <4>3. CASE m # n
        <5>1. Journaled(Call(m))
          BY <2>2, <3>3, <4>3 DEF StartCall, Become, Acting, CallInv, TypeOK
        <5>2. QED BY <1>0, <4>1, <5>1 DEF Journaled, Grows
      <4>4. QED BY <4>2, <4>3
    <3>4. QED BY <3>2, <3>3 DEF CallInv
  <2>3. CASE Apply(n)
    <3>1. applied' = applied \cup {Call(n)} /\ Acting(n)
          /\ UNCHANGED <<journal, steps, dispatched>>
      BY <2>3 DEF Apply, At, Acting, durable
    <3>2. Call(n).node = n
      BY DEF Call
    <3>3. ReceiptBeforeEffect'
      BY <3>1, <3>2 DEF CallInv, ReceiptBeforeEffect, Journaled
    <3>4. ASSUME NEW m \in Nodes, Acting(m)', m \notin Orchestrated PROVE Journaled(Call(m))'
      <4>1. Acting(m)
        BY <2>3, <3>1, <3>4 DEF Apply, Become, Acting, TypeOK
      <4>2. QED BY <3>1, <3>4, <4>1 DEF CallInv, Journaled, Call
    <3>5. QED BY <3>3, <3>4 DEF CallInv
  <2>4. QED BY <1>1, <2>1, <2>2, <2>3 DEF AgentStep
<1>2. ASSUME NEW n \in Nodes,
             Timeout(n) \/ RejectPhase(n) \/ AcceptResult(n) \/ StopPlan(n)
      PROVE  CallInv'
  BY <1>0, <1>2, OthersJournaled
     DEF Timeout, RejectPhase, AcceptResult, StopPlan, Ends, Become, Acting, agents, observed,
         TypeOK
<1>3. CASE DispatchWave
  BY <1>0, <1>3, OthersJournaled DEF DispatchWave, Acting, observed, TypeOK
<1>4. CASE FailWave \/ NextWave \/ Finalize
  BY <1>0, <1>4, OthersJournaled DEF FailWave, NextWave, Finalize, Acting, agents, observed
<1>5. CASE Crash
  BY <1>0, <1>5, OthersJournaled DEF Crash, Acting, observed
<1>6. CASE Resume
  BY <1>0, <1>6, OthersJournaled DEF Resume, Acting, observed
<1>7. QED BY <1>1, <1>2, <1>3, <1>4, <1>5, <1>6 DEF Next, PlanStep

-----------------------------------------------------------------------------
(***************************************************************************)
(* The theorems                                                            *)
(***************************************************************************)
LEMMA InitInv == Init => IInv
<1>1. SUFFICES ASSUME Init PROVE IInv
  OBVIOUS
<1>2. TypeOK
  <2>1. /\ journal \in Seq(Receipts) /\ store \in Seq(Checkpoints)
        /\ Len(store) = 0 /\ Len(journal) = 0
    BY <1>1 DEF Init
  <2>2. pc \in [Nodes -> NodeStates] /\ steps \in [Nodes -> 0..MaxSteps]
        /\ dispatched \in [Nodes -> Nat] /\ retries \in [Nodes -> Nat]
        /\ \A n \in Nodes : retries[n] <= Retries[n]
    BY <1>1, BoundsAssumption DEF Init, NodeStates
  <2>3. /\ applied \in SUBSET Calls /\ settled \in SUBSET applied /\ mark \in 0..Len(journal)
        /\ committed \in SUBSET Nodes /\ completed \in SUBSET Nodes
        /\ Len(store) <= MaxCheckpoints /\ resumes \in 0..MaxResumes /\ failures \in 0..MaxFailures
    BY <1>1, <2>1, BoundsAssumption DEF Init
  <2>4. sealed \in BOOLEAN /\ stored \in Nat /\ wave \in Waves
        /\ session \in {"running", "finalizing", "ended", "down", "refused"}
    BY <1>1, FirstWave DEF Init
  <2>5. QED
    BY <2>1, <2>2, <2>3, <2>4 DEF TypeOK
<1>3. LedgerInv
  BY <1>1 DEF Init, LedgerInv, ReceiptsInOrder, NewestIsLast
<1>4. CallInv
  BY <1>1 DEF Init, CallInv, ReceiptBeforeEffect, Acting
<1>5. QED BY <1>2, <1>3, <1>4 DEF IInv

LEMMA StepInv == IInv /\ [Next]_vars => IInv'
<1>1. SUFFICES ASSUME IInv, [Next]_vars PROVE IInv'
  OBVIOUS
<1>2. CASE Next
  BY <1>1, <1>2, StepTypes, StepCalls DEF IInv
<1>3. CASE UNCHANGED vars
  BY <1>1, <1>3
     DEF IInv, TypeOK, LedgerInv, ReceiptsInOrder, NewestIsLast, Newest, CallInv,
         ReceiptBeforeEffect, Acting, Journaled, Call,
         vars, durable, agents, bounds, observed
<1>4. QED BY <1>1, <1>2, <1>3

LEMMA Invariance == Spec => []IInv
  BY InitInv, StepInv, PTL DEF Spec

\* Every variable keeps its type, and the checkpoint store its cap, whatever
\* the plan, the bounds and the crashes.
THEOREM TypeCorrect == Spec => []TypeOK
<1>1. IInv => TypeOK
  BY DEF IInv
<1>2. QED BY <1>1, Invariance, PTL

\* record_tool_execution_started comes before the handler: no effect of the
\* task is missing from its journal.
THEOREM ReceiptsFirst == Spec => []ReceiptBeforeEffect
<1>1. IInv => ReceiptBeforeEffect
  BY DEF IInv, CallInv
<1>2. QED BY <1>1, Invariance, PTL

\* Only resume_task starts the task again.
LEMMA AdmitIsResume ==
  ASSUME Next, Admit
  PROVE  Resume /\ Admissible
  BY DEF Admit, Next, AgentStep, PlanStep, StartAgent, PeriodicCheckpoint, Inspect, MayCall,
     StartCall, StartRefused, Apply, FinishCall, FinishAgent, RetryDispatch, Timeout, RejectPhase,
     AcceptResult, StopPlan, Turn, Joined, DispatchWave, FailWave, NextWave, Finalize, Crash,
     Resume, At

\* A checkpoint that passes the gate has no effectful receipt after it.
LEMMA AdmissibleBoundary ==
  ASSUME TypeOK, LedgerInv, Admissible
  PROVE  ~RiskySinceMark
<1>1. PICK p \in DOMAIN journal :
        /\ journal[p] = Committed(stored)
        /\ \A q \in (p + 1)..Len(journal) : ~Risky(journal[q])
  BY DEF Admissible, SafeToResume, LedgerInv, NewestIsLast
<1>2. journal[p].kind = "checkpoint" /\ journal[p].id = stored
  BY <1>1 DEF Committed
<1>3. p = mark + 1
  BY <1>1, <1>2 DEF LedgerInv, ReceiptsInOrder
<1>4. mark \in Nat /\ Len(journal) \in Nat
  BY DEF TypeOK
<1>5. ASSUME NEW q \in (mark + 1)..Len(journal),
             journal[q].kind = "mutated" \/ (journal[q].kind = "started" /\ journal[q].risky)
      PROVE  FALSE
  <2>1. q # p
    BY <1>2, <1>5
  <2>2. q \in (p + 1)..Len(journal)
    BY <1>3, <1>4, <2>1
  <2>3. QED BY <1>1, <1>5, <2>2 DEF Risky
<1>6. QED BY <1>5 DEF RiskySinceMark

\* assess_resume_safety never admits a resume past an effectful call, for any
\* plan, any crash and any lost receipt.
THEOREM NoCallPastBoundary == Spec => NoCallSinceBoundary
<1>1. IInv /\ [Next]_vars => [SafeAdmission]_vars
  BY AdmitIsResume, AdmissibleBoundary DEF IInv, SafeAdmission
<1>2. QED BY <1>1, Invariance, PTL DEF Spec, NoCallSinceBoundary

-----------------------------------------------------------------------------
(***************************************************************************)
(* Where the boundary is exact: a plan whose waves are single nodes, none  *)
(* of them orchestrated. No checkpoint is then taken while a call is open. *)
(***************************************************************************)
Solo == Orchestrated = {} /\ \A m, n \in Nodes : Depth[m] = Depth[n] => m = n

OpenCall(n) == \E p \in DOMAIN journal : p > mark /\ journal[p] = Started(Call(n), TRUE)

WaveInv == \A n \in Nodes : pc[n] \in {"waiting", "reused", "accepted"} \/ InWave(n)

EffectInv ==
  /\ applied # settled => RiskySinceMark
  /\ \A n \in Nodes : Acting(n) => OpenCall(n)

\* Only the agents of the current wave are active.
LEMMA StepWave ==
  ASSUME TypeOK, WaveInv, Next
  PROVE  WaveInv'
<1>1. ASSUME NEW n \in Nodes,
             wave' = wave, pc[n] \notin {"waiting", "reused", "accepted"},
             \A m \in Nodes : m # n => pc'[m] = pc[m]
      PROVE  WaveInv'
  BY <1>1 DEF WaveInv, InWave
<1>2. ASSUME NEW n \in Nodes, AgentStep(n) \/ Timeout(n) \/ RejectPhase(n) \/ AcceptResult(n)
      PROVE  WaveInv'
  BY <1>1, <1>2
     DEF AgentStep, StartAgent, PeriodicCheckpoint, Inspect, StartCall, StartRefused, Apply,
         FinishCall, FinishAgent, RetryDispatch, Timeout, RejectPhase, AcceptResult, Turn, Settled,
         MayCall, At, Ends, Become, TypeOK
<1>3. CASE DispatchWave
  BY <1>3 DEF DispatchWave, WaveInv, InWave, TypeOK
<1>4. CASE NextWave
  BY <1>4 DEF NextWave, WaveInv, InWave, Settled, agents
<1>5. ASSUME NEW n \in Nodes, StopPlan(n) PROVE WaveInv'
  BY <1>5 DEF StopPlan, WaveInv, InWave, agents
<1>6. CASE FailWave \/ Finalize
  BY <1>6 DEF FailWave, Finalize, WaveInv, InWave, agents
<1>7. CASE Crash
  BY <1>7 DEF Crash, WaveInv
<1>8. CASE Resume
  BY <1>8 DEF Resume, WaveInv, InWave
<1>9. QED BY <1>2, <1>3, <1>4, <1>5, <1>6, <1>7, <1>8 DEF Next, PlanStep

\* A step that neither takes a checkpoint nor has an effect
LEMMA QuietEffects ==
  ASSUME TypeOK, Grows, journal' \in Seq(Receipts), EffectInv,
         UNCHANGED <<applied, settled, mark>>,
         \A n \in Nodes : Acting(n)' =>
           Acting(n) /\ steps'[n] = steps[n] /\ dispatched'[n] = dispatched[n]
  PROVE  EffectInv'
<1>1. ASSUME NEW n \in Nodes, Acting(n)' PROVE OpenCall(n)'
  <2>1. OpenCall(n) /\ Call(n)' = Call(n)
    BY <1>1 DEF EffectInv, Call
  <2>2. QED BY <2>1 DEF OpenCall, Grows
<1>2. ASSUME RiskySinceMark PROVE RiskySinceMark'
  <2>1. /\ Len(journal) \in Nat /\ Len(journal') \in Nat /\ Len(journal) <= Len(journal')
        /\ \A p \in 1..Len(journal) : journal'[p] = journal[p]
        /\ mark \in Nat /\ mark' = mark
    BY DEF Grows, TypeOK
  <2>2. QED BY <1>2, <2>1 DEF RiskySinceMark
<1>3. QED BY <1>1, <1>2 DEF EffectInv

\* A checkpoint taken while no call is open
LEMMA CheckpointEffects ==
  ASSUME TypeOK, Grows, journal' \in Seq(Receipts), EffectInv, applied' = applied,
         settled' = applied' \/ UNCHANGED <<journal, settled, mark>>,
         \A n \in Nodes : ~Acting(n)'
  PROVE  EffectInv'
<1>1. CASE settled' = applied'
  BY <1>1 DEF EffectInv
<1>2. CASE UNCHANGED <<journal, settled, mark>>
  BY <1>2 DEF EffectInv, RiskySinceMark
<1>3. QED BY <1>1, <1>2

LEMMA OpenIsRisky ==
  ASSUME TypeOK, NEW n \in Nodes, OpenCall(n)
  PROVE  RiskySinceMark
<1>1. PICK p \in DOMAIN journal : p > mark /\ journal[p] = Started(Call(n), TRUE)
  BY DEF OpenCall
<1>2. journal[p].kind = "started" /\ journal[p].risky
  BY <1>1 DEF Started
<1>3. p \in (mark + 1)..Len(journal)
  BY <1>1 DEF TypeOK
<1>4. QED BY <1>2, <1>3 DEF RiskySinceMark

\* With waves of a single node, the node whose agent moves is the only one
\* that can have a call open.
LEMMA StepEffects ==
  ASSUME TypeOK, LedgerInv, WaveInv, EffectInv, Solo, Next
  PROVE  EffectInv'
<1>0. Grows /\ journal' \in Seq(Receipts)
  BY StepTypes DEF TypeOK
<1>1. ASSUME NEW n \in Nodes, InWave(n), UNCHANGED wave, WaveInv', ~Acting(n)'
      PROVE  \A m \in Nodes : ~Acting(m)'
  BY <1>1 DEF Solo, WaveInv, InWave, Acting
<1>2. WaveInv'
  BY StepWave
<1>3. ASSUME NEW n \in Nodes, AgentStep(n) PROVE EffectInv'
  <2>1. CASE StartAgent(n) \/ PeriodicCheckpoint(n) \/ FinishAgent(n)
    <3>1. InWave(n) /\ UNCHANGED wave /\ ~Acting(n)' /\ UNCHANGED <<sealed, applied>>
          /\ RunnerCheckpoint(n)
      BY <2>1 DEF StartAgent, PeriodicCheckpoint, FinishAgent, At, WaveInv, Ends, Become, Acting,
         TypeOK
    <3>2. \A m \in Nodes : ~Acting(m)'
      BY <1>1, <1>2, <3>1
    <3>3. QED BY <1>0, <3>1, <3>2, RunnerWrites, CheckpointEffects
  <2>2. CASE Inspect(n) \/ StartRefused(n) \/ FinishCall(n) \/ RetryDispatch(n)
    BY <1>0, <2>2, QuietEffects
       DEF Inspect, StartRefused, FinishCall, RetryDispatch, Acting, At, MayCall, TakeStep, Ends,
           Become, observed, TypeOK, NodeStates
  <2>3. CASE StartCall(n)
    <3>1. UNCHANGED <<applied, settled, mark, steps, dispatched>>
      BY <2>3 DEF StartCall, observed
    <3>2. PICK r \in Receipts : r = Started(Call(n), TRUE)
      BY CallReceipts DEF ToolReceipts
    <3>3. journal' = Append(journal, r) /\ journal \in Seq(Receipts) /\ mark \in 0..Len(journal)
      BY <2>3, <3>2 DEF StartCall, Solo, TypeOK
    <3>4. Len(journal) + 1 \in DOMAIN journal' /\ journal'[Len(journal) + 1] = r
          /\ Len(journal) + 1 > mark
      BY <3>3
    <3>5. Call(n)' = Call(n)
      BY <3>1 DEF Call
    <3>6. OpenCall(n)'
      BY <3>1, <3>2, <3>4, <3>5 DEF OpenCall
    <3>7. ASSUME NEW m \in Nodes, Acting(m)' PROVE m = n
      <4>1. InWave(m)' /\ InWave(n)'
        BY <1>2, <2>3, <3>7 DEF WaveInv, Acting, StartCall, Become, TypeOK
      <4>2. QED BY <4>1 DEF InWave, Solo
    <3>8. r.kind = "started" /\ r.risky
      BY <3>2 DEF Started
    <3>9. RiskySinceMark'
      BY <3>1, <3>3, <3>4, <3>8 DEF RiskySinceMark
    <3>10. QED BY <3>6, <3>7, <3>9 DEF EffectInv
  <2>4. CASE Apply(n)
    <3>1. Acting(n) /\ UNCHANGED <<journal, settled, mark, steps, dispatched>>
          /\ \A m \in Nodes : Acting(m)' => Acting(m)
      BY <2>4 DEF Apply, At, Become, Acting, durable, TypeOK
    <3>2. RiskySinceMark
      BY <3>1, OpenIsRisky DEF EffectInv
    <3>3. QED BY <3>1, <3>2 DEF EffectInv, RiskySinceMark, OpenCall, Call
  <2>5. QED BY <1>3, <2>1, <2>2, <2>3, <2>4 DEF AgentStep
<1>4. ASSUME NEW n \in Nodes, AcceptResult(n) PROVE EffectInv'
  <2>1. InWave(n) /\ UNCHANGED wave /\ ~Acting(n)' /\ UNCHANGED <<sealed, applied>>
    BY <1>4 DEF AcceptResult, Turn, Become, Acting, TypeOK
  <2>2. \A m \in Nodes : ~Acting(m)'
    BY <1>1, <1>2, <2>1
  <2>3. QED BY <1>0, <1>4, <2>1, <2>2, StepWrites, CheckpointEffects
<1>5. ASSUME NEW n \in Nodes, Timeout(n) \/ RejectPhase(n) \/ StopPlan(n) PROVE EffectInv'
  BY <1>0, <1>5, QuietEffects
     DEF Timeout, RejectPhase, StopPlan, Ends, Become, Acting, agents, observed, TypeOK
<1>6. CASE DispatchWave
  BY <1>0, <1>6, QuietEffects DEF DispatchWave, Acting, observed, TypeOK
<1>7. CASE FailWave \/ NextWave \/ Finalize
  BY <1>0, <1>7, QuietEffects DEF FailWave, NextWave, Finalize, Acting, agents, observed
<1>8. CASE Crash \/ Resume
  BY <1>0, <1>8, QuietEffects DEF Crash, Resume, Acting, observed
<1>9. QED BY <1>3, <1>4, <1>5, <1>6, <1>7, <1>8 DEF Next, PlanStep

LEMMA SoloInvariance ==
  ASSUME Solo
  PROVE  Spec => [](IInv /\ WaveInv /\ EffectInv)
<1>1. Init => IInv /\ WaveInv /\ EffectInv
  BY InitInv DEF Init, WaveInv, EffectInv, Acting
<1>2. IInv /\ WaveInv /\ EffectInv /\ [Next]_vars => (IInv /\ WaveInv /\ EffectInv)'
  <2>1. SUFFICES ASSUME IInv, WaveInv, EffectInv, [Next]_vars
                 PROVE  (IInv /\ WaveInv /\ EffectInv)'
    OBVIOUS
  <2>2. CASE Next
    BY <2>1, <2>2, StepInv, StepWave, StepEffects DEF IInv
  <2>3. CASE UNCHANGED vars
    <3>1. WaveInv' /\ EffectInv'
      BY <2>1, <2>3 DEF WaveInv, InWave, EffectInv, RiskySinceMark, Acting, OpenCall, Call,
         vars, durable, agents, bounds, observed
    <3>2. QED BY <2>1, <3>1, StepInv
  <2>4. QED BY <2>1, <2>2, <2>3
<1>3. QED BY <1>1, <1>2, PTL DEF Spec

\* In a plan of single-node waves without orchestrated nodes, an admitted
\* resume starts from exactly the effects its checkpoint knows of. Waves with
\* two nodes and orchestrated nodes are where the runs find it violated.
THEOREM ExactForChains ==
  ASSUME Solo
  PROVE  Spec => ExactBoundary
<1>1. IInv /\ EffectInv /\ [Next]_vars => [Admit => applied = settled]_vars
  BY AdmitIsResume, AdmissibleBoundary DEF IInv, EffectInv
<1>2. QED BY <1>1, SoloInvariance, PTL DEF Spec, ExactBoundary

-----------------------------------------------------------------------------
(***************************************************************************)
(* A refusal always has a cause, and a sealed task stays as it is.         *)
(***************************************************************************)
\* assess_resume_safety refuses only for want of a checkpoint or of its
\* receipt, or because of an effectful receipt since.
THEOREM RefusalsJustified == Spec => RefusalJustified
<1>1. ASSUME TypeOK, LedgerInv, Next, Refuse
      PROVE  \/ store = <<>>
             \/ \A p \in DOMAIN journal : journal[p] # Committed(Newest.id)
             \/ RiskySinceMark
  <2>1. Resume /\ ~Admissible
    BY <1>1 DEF Refuse, Next, AgentStep, PlanStep, StartAgent, PeriodicCheckpoint, Inspect,
       StartCall, StartRefused, Apply, FinishCall, FinishAgent, RetryDispatch, Timeout,
       RejectPhase, AcceptResult, StopPlan, DispatchWave, FailWave, NextWave, Finalize, Crash,
       Resume
  <2>2. SUFFICES ASSUME store # <<>>,
                        NEW p \in DOMAIN journal, journal[p] = Committed(Newest.id)
                 PROVE  RiskySinceMark
    OBVIOUS
  <2>3. Newest.id = stored
    BY <1>1, <2>2 DEF LedgerInv, NewestIsLast
  <2>4. journal[p].kind = "checkpoint" /\ journal[p].id = stored
    BY <2>2, <2>3 DEF Committed
  <2>5. p = mark + 1
    BY <1>1, <2>4 DEF LedgerInv, ReceiptsInOrder
  <2>6. PICK q \in (p + 1)..Len(journal) : Risky(journal[q])
    BY <2>1, <2>2 DEF Admissible, SafeToResume
  <2>7. q \in (mark + 1)..Len(journal)
    BY <1>1, <2>5, <2>6 DEF TypeOK
  <2>8. QED BY <2>6, <2>7 DEF Risky, RiskySinceMark
<1>2. IInv /\ [Next]_vars => [JustifiedRefusal]_vars
  BY <1>1 DEF IInv, JustifiedRefusal
<1>3. QED BY <1>2, Invariance, PTL DEF Spec, RefusalJustified

\* No call is open once the plan has been left.
SealInv ==
  sealed \/ session \in {"finalizing", "ended"} => \A n \in Nodes : ~Acting(n)

LEMMA StepSeal ==
  ASSUME TypeOK, WaveInv, SealInv, Orchestrated = {}, Next
  PROVE  SealInv'
<1>1. ASSUME NEW n \in Nodes, AgentStep(n) \/ Timeout(n) \/ RejectPhase(n) \/ AcceptResult(n)
      PROVE  SealInv'
  <2>1. session = "running" /\ UNCHANGED <<session, sealed>>
        /\ \A m \in Nodes : m # n => pc'[m] = pc[m]
    BY <1>1
       DEF AgentStep, StartAgent, PeriodicCheckpoint, Inspect, StartCall, StartRefused, Apply,
           FinishCall, FinishAgent, RetryDispatch, Timeout, RejectPhase, AcceptResult, Turn,
           Joined, MayCall, At, Ends, Become, durable, TypeOK
  <2>2. Acting(n)' => Acting(n) \/ ~sealed
    BY <1>1
       DEF AgentStep, StartAgent, PeriodicCheckpoint, Inspect, StartCall, StartRefused, Apply,
           FinishCall, FinishAgent, RetryDispatch, Timeout, RejectPhase, AcceptResult, At, Ends,
           Become, Acting, TypeOK
  <2>3. QED BY <2>1, <2>2 DEF SealInv, Acting
<1>2. CASE DispatchWave
  BY <1>2 DEF DispatchWave, SealInv, Acting, durable, TypeOK
<1>3. CASE FailWave \/ (\E n \in Nodes : StopPlan(n))
  <2>1. Joined /\ UNCHANGED pc
    BY <1>3 DEF FailWave, StopPlan, Turn, agents
  <2>2. \A n \in Nodes : ~Acting(n)
    BY <2>1 DEF Joined, WaveInv, Settled, Returned, Acting
  <2>3. QED BY <2>1, <2>2 DEF SealInv, Acting
<1>4. CASE NextWave
  <2>1. \A n \in Nodes : ~Acting(n)
    BY <1>4 DEF NextWave, WaveInv, Settled, Acting
  <2>2. QED BY <1>4, <2>1 DEF NextWave, SealInv, Acting, agents
<1>5. CASE Finalize
  BY <1>5 DEF Finalize, SealInv, Acting, agents
<1>6. CASE Crash \/ Resume
  BY <1>6 DEF Crash, Resume, SealInv, Acting, durable
<1>7. QED BY <1>1, <1>2, <1>3, <1>4, <1>5, <1>6 DEF Next, PlanStep

\* finalize_checked ends the effects of a task without orchestrated nodes:
\* a resume of it may run agents, none of whose handlers runs.
THEOREM SealedIsInert ==
  ASSUME Orchestrated = {}
  PROVE  Spec => SealedTaskIsInert
<1>1. Init => IInv /\ WaveInv /\ SealInv
  BY InitInv DEF Init, WaveInv, SealInv, Acting
<1>2. IInv /\ WaveInv /\ SealInv /\ [Next]_vars => (IInv /\ WaveInv /\ SealInv)'
  <2>1. SUFFICES ASSUME IInv, WaveInv, SealInv, [Next]_vars
                 PROVE  (IInv /\ WaveInv /\ SealInv)'
    OBVIOUS
  <2>2. CASE Next
    BY <2>1, <2>2, StepInv, StepWave, StepSeal DEF IInv
  <2>3. CASE UNCHANGED vars
    <3>1. WaveInv' /\ SealInv'
      BY <2>1, <2>3 DEF WaveInv, InWave, SealInv, Acting, vars, durable, agents
    <3>2. QED BY <2>1, <3>1, StepInv
  <2>4. QED BY <2>1, <2>2, <2>3
<1>3. SealInv /\ [Next]_vars => [sealed => applied' = applied]_vars
  <2>1. SUFFICES ASSUME SealInv, Next, sealed PROVE applied' = applied
    OBVIOUS
  <2>2. ASSUME NEW n \in Nodes, Apply(n) PROVE FALSE
    BY <2>1, <2>2 DEF SealInv, Apply, At, Acting
  <2>3. QED
    BY <2>1, <2>2
       DEF Next, AgentStep, PlanStep, StartAgent, PeriodicCheckpoint, Inspect, StartCall,
           StartRefused, FinishCall, FinishAgent, RetryDispatch, Timeout, RejectPhase,
           AcceptResult, StopPlan, DispatchWave, FailWave, NextWave, Finalize, Crash, Resume,
           observed
<1>4. QED BY <1>1, <1>2, <1>3, PTL DEF Spec, SealedTaskIsInert

\* The gate admits only what is safe and refuses only for a cause.
THEOREM GateIsJustified == Spec => GateJustified
<1>1. [SafeAdmission]_vars /\ [JustifiedRefusal]_vars => [SafeAdmission /\ JustifiedRefusal]_vars
  OBVIOUS
<1>2. QED
  BY <1>1, NoCallPastBoundary, RefusalsJustified, PTL
     DEF NoCallSinceBoundary, RefusalJustified, GateJustified

-----------------------------------------------------------------------------
(***************************************************************************)
(* Accepted work is kept until agents' records fill the cap: pruning then  *)
(* has taken the step records away and agents have nothing to inherit.     *)
(***************************************************************************)
\* The last step record in the store says what is committed, and so do all
\* records since; the last one is gone only once the store is full.
RecordInv ==
  /\ StepIndices # {} =>
       \E i \in StepIndices :
         /\ \A j \in StepIndices : j <= i
         /\ \A j \in i..Len(store) : store[j].completed = committed
  /\ committed # {} => StepIndices # {} \/ StepsEvicted

\* A run has what is committed as completed, unless it was resumed without,
\* and has not made a plan again that it has as completed.
ReuseInv ==
  session = "running" =>
    /\ committed \subseteq completed \/ StepsEvicted
    /\ \A n \in Planners \cap completed : pc[n] \in {"waiting", "reused", "accepted"}

\* Pruning drops some oldest records, none while there is room.
LEMMA PruneShifts ==
  ASSUME NEW s \in Seq(Checkpoints)
  PROVE  \E k \in 0..Len(s) :
           /\ Len(Prune(s)) = Len(s) - k /\ Len(s) - k <= MaxCheckpoints
           /\ k > 0 => Len(s) - k = MaxCheckpoints
           /\ \A j \in 1..(Len(s) - k) : Prune(s)[j] = s[j + k]
<1>1. MaxCheckpoints \in Nat /\ MaxCheckpoints >= 1 /\ Len(s) \in Nat
  BY BoundsAssumption
<1>2. PICK excess : excess = Len(s) - MaxCheckpoints
  OBVIOUS
<1>3. CASE excess > 0
  <2>1. Prune(s) = SubSeq(s, excess + 1, Len(s))
    BY <1>2, <1>3 DEF Prune
  <2>2. /\ Len(SubSeq(s, excess + 1, Len(s))) = MaxCheckpoints
        /\ \A j \in 1..MaxCheckpoints : SubSeq(s, excess + 1, Len(s))[j] = s[j + excess]
    BY <1>1, <1>2, <1>3
  <2>3. excess \in 0..Len(s) /\ Len(s) - excess = MaxCheckpoints
    BY <1>1, <1>2, <1>3
  <2>4. QED BY <1>1, <2>1, <2>2, <2>3
<1>4. CASE ~(excess > 0)
  BY <1>1, <1>2, <1>4 DEF Prune
<1>5. QED BY <1>3, <1>4

\* A stored checkpoint is the last record, behind those that are left.
LEMMA StoreShifts ==
  ASSUME TypeOK, NEW record \in Checkpoints, store' = Prune(Append(store, record))
  PROVE  \E k \in 0..Len(store) :
           /\ Len(store') = Len(store) + 1 - k
           /\ k > 0 => Len(store') = MaxCheckpoints
           /\ store'[Len(store')] = record
           /\ \A j \in 1..(Len(store') - 1) : store'[j] = store[j + k]
<1>1. /\ store \in Seq(Checkpoints) /\ Len(store) \in Nat
      /\ MaxCheckpoints \in Nat /\ MaxCheckpoints >= 1
  BY BoundsAssumption DEF TypeOK
<1>2. PICK s \in Seq(Checkpoints) : s = Append(store, record)
  BY <1>1, AppendRecord
<1>3. /\ Len(s) = Len(store) + 1 /\ s[Len(store) + 1] = record
      /\ \A j \in 1..Len(store) : s[j] = store[j]
  BY <1>1, <1>2
<1>4. PICK k \in 0..Len(s) :
        /\ Len(Prune(s)) = Len(s) - k /\ Len(s) - k <= MaxCheckpoints
        /\ k > 0 => Len(s) - k = MaxCheckpoints
        /\ \A j \in 1..(Len(s) - k) : Prune(s)[j] = s[j + k]
  BY PruneShifts
<1>5. store' = Prune(s)
  BY <1>2
<1>6. /\ k \in 0..Len(store) /\ Len(store') = Len(store) + 1 - k
      /\ k > 0 => Len(store') = MaxCheckpoints
  BY <1>1, <1>3, <1>4, <1>5
<1>7. store'[Len(store')] = record
  <2>1. Len(store') \in 1..(Len(s) - k) /\ Len(store') + k = Len(store) + 1
    BY <1>1, <1>3, <1>6
  <2>2. QED BY <1>3, <1>4, <1>5, <2>1
<1>8. ASSUME NEW j \in 1..(Len(store') - 1) PROVE store'[j] = store[j + k]
  <2>1. j \in 1..(Len(s) - k) /\ j + k \in 1..Len(store)
    BY <1>1, <1>3, <1>6, <1>8
  <2>2. QED BY <1>3, <1>4, <1>5, <2>1
<1>9. QED BY <1>6, <1>7, <1>8


\* A store of agents' records alone is not left by one more of them, and once
\* full it stays full.
LEMMA EvictedStays ==
  ASSUME TypeOK, TypeOK', NEW record \in Checkpoints, record.kind = "runner",
         store' = Prune(Append(store, record)), StepIndices = {}
  PROVE  StepIndices' = {} /\ (StepsEvicted => StepsEvicted')
<1>1. PICK k \in 0..Len(store) :
        /\ Len(store') = Len(store) + 1 - k
        /\ k > 0 => Len(store') = MaxCheckpoints
        /\ store'[Len(store')] = record
        /\ \A j \in 1..(Len(store') - 1) : store'[j] = store[j + k]
  BY StoreShifts
<1>2. /\ DOMAIN store = 1..Len(store) /\ DOMAIN store' = 1..Len(store')
      /\ Len(store') <= MaxCheckpoints
      /\ Len(store) \in Nat /\ Len(store') \in Nat
  BY DEF TypeOK
<1>3. ASSUME NEW j \in StepIndices' PROVE FALSE
  <2>1. j \in 1..Len(store') /\ store'[j].kind = "step"
    BY <1>2, <1>3 DEF StepIndices
  <2>2. j # Len(store')
    BY <1>1, <2>1
  <2>3. j \in 1..(Len(store') - 1) /\ j + k \in 1..Len(store)
    <3>1. PICK here \in Nat, next \in Nat : here = Len(store) /\ next = Len(store')
      BY <1>2
    <3>2. next = here + 1 - k /\ k \in 0..here /\ j \in 1..next /\ j # next
      BY <1>1, <2>1, <2>2, <3>1
    <3>3. j \in 1..(next - 1) /\ j + k \in 1..here
      BY <3>1, <3>2
    <3>4. QED BY <3>1, <3>3
  <2>4. QED BY <1>1, <1>2, <2>1, <2>3 DEF StepIndices
<1>4. StepsEvicted => Len(store') = MaxCheckpoints
  BY <1>1, <1>2 DEF StepsEvicted
<1>5. QED BY <1>3, <1>4 DEF StepsEvicted

\* What a checkpoint of an agent stores, if it stores anything
LEMMA RunnerStores ==
  ASSUME TypeOK, NEW n \in Nodes, RunnerCheckpoint(n), store' # store
  PROVE  \E record \in Checkpoints :
           /\ record.kind = "runner" /\ record.completed = Inherited
           /\ store' = Prune(Append(store, record))
<1>1. PICK nodes \in SUBSET Nodes : nodes = Inherited
  BY DEF Inherited
<1>2. PICK record : record = [id |-> stored + 1, kind |-> "runner", completed |-> nodes]
  OBVIOUS
<1>3. record \in Checkpoints
  BY <1>2 DEF Checkpoints, TypeOK
<1>4. store' = Prune(Append(store, record))
  BY <1>1, <1>2 DEF RunnerCheckpoint, Checkpoint
<1>5. QED BY <1>1, <1>2, <1>3, <1>4

\* An agent's record carries over what the last step record says.
LEMMA RunnerRecords ==
  ASSUME TypeOK, TypeOK', RecordInv, NEW n \in Nodes, RunnerCheckpoint(n)
  PROVE  RecordInv' /\ (StepsEvicted => StepsEvicted')
<1>1. committed' = committed
  BY DEF RunnerCheckpoint, Checkpoint
<1>2. CASE store' = store
  BY <1>1, <1>2 DEF RecordInv, StepIndices, StepsEvicted
<1>3. CASE store' # store /\ StepIndices = {}
  <2>1. PICK record \in Checkpoints :
          record.kind = "runner" /\ store' = Prune(Append(store, record))
    BY <1>3, RunnerStores
  <2>2. StepIndices' = {} /\ (StepsEvicted => StepsEvicted')
    BY <1>3, <2>1, EvictedStays
  <2>3. QED BY <1>1, <1>3, <2>2 DEF RecordInv
<1>4. CASE store' # store /\ StepIndices # {}
  <2>1. PICK i \in StepIndices :
          /\ \A j \in StepIndices : j <= i
          /\ \A j \in i..Len(store) : store[j].completed = committed
    BY <1>4 DEF RecordInv
  <2>2. store \in Seq(Checkpoints) /\ Len(store) \in Nat /\ i \in 1..Len(store)
    BY <2>1 DEF StepIndices, TypeOK
  <2>3. Inherited = committed
    <3>1. store[i].completed = committed /\ committed \subseteq Nodes
      BY <2>1, <2>2 DEF TypeOK
    <3>2. \A j \in StepIndices : (\A l \in StepIndices : l <= j) => j = i
      BY <2>1, <2>2 DEF StepIndices
    <3>3. QED BY <2>1, <3>1, <3>2 DEF Inherited
  <2>4. PICK record \in Checkpoints :
          /\ record.kind = "runner" /\ record.completed = committed
          /\ store' = Prune(Append(store, record))
    BY <1>4, <2>3, RunnerStores
  <2>5. PICK k \in 0..Len(store) :
          /\ Len(store') = Len(store) + 1 - k
          /\ k > 0 => Len(store') = MaxCheckpoints
          /\ store'[Len(store')] = record
          /\ \A j \in 1..(Len(store') - 1) : store'[j] = store[j + k]
    BY <2>4, StoreShifts
  <2>6. Len(store') \in Nat /\ DOMAIN store' = 1..Len(store')
    BY DEF TypeOK
  <2>7. ASSUME NEW j \in StepIndices'
        PROVE  j + k \in StepIndices /\ j \in 1..(Len(store') - 1)
    <3>1. j \in 1..Len(store') /\ store'[j].kind = "step"
      BY <2>6, <2>7 DEF StepIndices
    <3>2. j # Len(store')
      BY <2>4, <2>5, <3>1
    <3>3. j \in 1..(Len(store') - 1) /\ j + k \in 1..Len(store)
      <4>1. PICK here \in Nat, next \in Nat : here = Len(store) /\ next = Len(store')
        BY <2>2, <2>6
      <4>2. next = here + 1 - k /\ k \in 0..here /\ j \in 1..next /\ j # next
        BY <2>5, <3>1, <3>2, <4>1
      <4>3. j \in 1..(next - 1) /\ j + k \in 1..here
        BY <4>1, <4>2
      <4>4. QED BY <4>1, <4>3
    <3>4. QED BY <2>2, <2>5, <3>1, <3>3 DEF StepIndices
  <2>8. ASSUME i > k PROVE RecordInv' /\ StepIndices' # {}
    <3>1. i - k \in 1..(Len(store') - 1) /\ i - k \in StepIndices'
      <4>1. i - k \in 1..(Len(store') - 1) /\ i - k + k = i
        BY <2>2, <2>5, <2>8
      <4>2. store'[i - k] = store[i] /\ store[i].kind = "step"
        BY <2>1, <2>5, <4>1 DEF StepIndices
      <4>3. QED BY <2>6, <4>1, <4>2 DEF StepIndices
    <3>2. \A j \in StepIndices' : j <= i - k
      BY <2>1, <2>2, <2>5, <2>6, <2>7
    <3>3. ASSUME NEW j \in (i - k)..Len(store') PROVE store'[j].completed = committed'
      <4>1. CASE j = Len(store')
        BY <1>1, <2>4, <2>5, <4>1
      <4>2. CASE j # Len(store')
        <5>1. j \in 1..(Len(store') - 1) /\ j + k \in i..Len(store)
          <6>1. PICK here \in Nat, next \in Nat : here = Len(store) /\ next = Len(store')
            BY <2>2, <2>6
          <6>2. /\ next = here + 1 - k /\ k \in 0..here /\ i \in 1..here /\ i > k
                /\ j \in (i - k)..next /\ j # next
            BY <2>2, <2>5, <2>8, <3>3, <4>2, <6>1
          <6>3. j \in 1..(next - 1) /\ j + k \in i..here
            BY <6>1, <6>2
          <6>4. QED BY <6>1, <6>3
        <5>2. QED BY <1>1, <2>1, <2>5, <5>1
      <4>3. QED BY <4>1, <4>2
    <3>4. QED BY <3>1, <3>2, <3>3 DEF RecordInv
  <2>9. ASSUME ~(i > k) PROVE RecordInv'
    <3>1. StepIndices' = {}
      <4>1. ASSUME NEW j \in StepIndices' PROVE FALSE
        <5>1. j + k <= i /\ j \in 1..(Len(store') - 1)
          BY <2>1, <2>7, <4>1
        <5>2. QED BY <2>2, <2>5, <2>6, <2>9, <5>1
      <4>2. QED BY <4>1
    <3>2. Len(store') = MaxCheckpoints
      BY <2>2, <2>5, <2>9
    <3>3. QED BY <3>1, <3>2 DEF RecordInv, StepsEvicted
  <2>10. QED BY <1>4, <2>8, <2>9 DEF StepsEvicted
<1>5. QED BY <1>2, <1>3, <1>4

\* SA's record says what is committed from here on.
LEMMA StepRecords ==
  ASSUME TypeOK, RecordInv, NEW n \in Nodes, AcceptResult(n)
  PROVE  RecordInv'
<1>1. CASE UNCHANGED <<store, committed>>
  BY <1>1 DEF RecordInv, StepIndices, StepsEvicted
<1>2. CASE ~ UNCHANGED <<store, committed>>
  <2>1. PICK nodes \in SUBSET Nodes : nodes = completed \cup {n}
    BY DEF TypeOK
  <2>2. PICK record \in Checkpoints :
          /\ record = [id |-> stored + 1, kind |-> "step", completed |-> nodes]
          /\ store' = Prune(Append(store, record))
          /\ committed' = nodes
    <3>1. Checkpoint("step", nodes)
      BY <2>1 DEF AcceptResult
    <3>2. PICK record : record = [id |-> stored + 1, kind |-> "step", completed |-> nodes]
      OBVIOUS
    <3>3. record \in Checkpoints
      BY <3>2 DEF Checkpoints, TypeOK
    <3>4. store' = Prune(Append(store, record)) /\ committed' = nodes
      BY <1>2, <3>1, <3>2 DEF Checkpoint
    <3>5. QED BY <3>2, <3>3, <3>4
  <2>3. PICK k \in 0..Len(store) :
          /\ Len(store') = Len(store) + 1 - k
          /\ store'[Len(store')] = record
    BY <2>2, StoreShifts
  <2>4. Append(store, record) \in Seq(Checkpoints) /\ Append(store, record) # <<>>
    BY AppendRecord DEF TypeOK
  <2>5. store' \in Seq(Checkpoints) /\ store' # <<>>
    BY <2>2, <2>4, PruneKeepsNewest
  <2>6. DOMAIN store' = 1..Len(store') /\ Len(store') \in Nat /\ Len(store') >= 1
    BY <2>5
  <2>7. Len(store') \in StepIndices' /\ \A j \in StepIndices' : j <= Len(store')
    BY <2>2, <2>3, <2>6 DEF StepIndices
  <2>8. \A j \in Len(store')..Len(store') : store'[j].completed = committed'
    BY <2>2, <2>3, <2>6
  <2>9. QED BY <2>7, <2>8 DEF RecordInv
<1>3. QED BY <1>1, <1>2

\* Only a checkpoint touches the records.
LEMMA RecordsKept ==
  ASSUME RecordInv, UNCHANGED <<store, committed>>
  PROVE  RecordInv' /\ (StepsEvicted => StepsEvicted')
  BY DEF RecordInv, StepIndices, StepsEvicted

LEMMA StepRecordInv ==
  ASSUME TypeOK, TypeOK', RecordInv, Next
  PROVE  RecordInv'
<1>1. ASSUME NEW n \in Nodes, StartAgent(n) \/ PeriodicCheckpoint(n) \/ FinishAgent(n)
      PROVE  RecordInv'
  BY <1>1, RunnerRecords DEF StartAgent, PeriodicCheckpoint, FinishAgent
<1>2. ASSUME NEW n \in Nodes,
             \/ Inspect(n) \/ StartCall(n) \/ StartRefused(n) \/ Apply(n) \/ FinishCall(n)
             \/ RetryDispatch(n) \/ Timeout(n) \/ RejectPhase(n) \/ StopPlan(n)
      PROVE  RecordInv'
  BY <1>2, RecordsKept
     DEF Inspect, StartCall, StartRefused, Apply, FinishCall, RetryDispatch, Timeout, RejectPhase,
         StopPlan, durable, observed
<1>3. CASE DispatchWave \/ FailWave \/ NextWave \/ Finalize \/ Crash \/ Resume
  BY <1>3, RecordsKept
     DEF DispatchWave, FailWave, NextWave, Finalize, Crash, Resume, durable, observed
<1>4. QED BY <1>1, <1>2, <1>3, StepRecords DEF Next, AgentStep, PlanStep

\* The newest record has everything committed, or the step records are gone.
LEMMA RecordsSurvive ==
  ASSUME TypeOK, RecordInv
  PROVE  CommittedWorkSurvives
<1>1. SUFFICES ASSUME store # <<>>, committed # {}, ~StepsEvicted
               PROVE  committed = Newest.completed
  BY DEF CommittedWorkSurvives
<1>2. PICK i \in StepIndices : \A j \in i..Len(store) : store[j].completed = committed
  BY <1>1 DEF RecordInv
<1>3. Len(store) \in i..Len(store)
  BY <1>2 DEF StepIndices, TypeOK
<1>4. QED BY <1>2, <1>3 DEF Newest

\* A step that stores no record of SA's leaves committed as it is.
LEMMA AgentsReuse ==
  ASSUME TypeOK, TypeOK', RecordInv, ReuseInv, NEW n \in Nodes,
         AgentStep(n) \/ Timeout(n) \/ RejectPhase(n)
  PROVE  ReuseInv'
<1>1. /\ session = "running" /\ UNCHANGED completed
      /\ pc[n] \notin {"waiting", "reused", "accepted"}
      /\ \A m \in Nodes : m # n => pc'[m] = pc[m]
  BY DEF AgentStep, StartAgent, PeriodicCheckpoint, Inspect, StartCall, StartRefused, Apply,
         FinishCall, FinishAgent, RetryDispatch, Timeout, RejectPhase, MayCall, At, Ends, Become,
         TypeOK
<1>2. UNCHANGED committed
  BY DEF AgentStep, StartAgent, PeriodicCheckpoint, Inspect, StartCall, StartRefused, Apply,
         FinishCall, FinishAgent, RetryDispatch, Timeout, RejectPhase, RunnerCheckpoint,
         Checkpoint, observed
<1>3. StepsEvicted => StepsEvicted'
  <2>1. CASE StartAgent(n) \/ PeriodicCheckpoint(n) \/ FinishAgent(n)
    BY <2>1, RunnerRecords DEF StartAgent, PeriodicCheckpoint, FinishAgent
  <2>2. CASE UNCHANGED store
    BY <2>2 DEF StepsEvicted, StepIndices
  <2>3. QED
    BY <2>1, <2>2
       DEF AgentStep, Inspect, StartCall, StartRefused, Apply, FinishCall, RetryDispatch, Timeout,
           RejectPhase, durable
<1>4. ASSUME session' = "running", NEW m \in Planners \cap completed'
      PROVE  pc'[m] \in {"waiting", "reused", "accepted"}
  <2>1. m \in Planners \cap completed /\ m \in Nodes
    BY <1>1, <1>4, PlanAssumption
  <2>2. pc[m] \in {"waiting", "reused", "accepted"}
    BY <1>1, <2>1 DEF ReuseInv
  <2>3. QED BY <1>1, <2>1, <2>2
<1>5. QED BY <1>1, <1>2, <1>3, <1>4 DEF ReuseInv

\* A checkpoint that fails or succeeds leaves committed within the completed
\* nodes; a resume takes both from the same record.
LEMMA StepReuse ==
  ASSUME TypeOK, TypeOK', RecordInv, ReuseInv, Next
  PROVE  ReuseInv'
<1>1. ASSUME NEW n \in Nodes, AcceptResult(n) PROVE ReuseInv'
  <2>1. /\ session = "running" /\ completed' = completed \cup {n}
        /\ pc' = [pc EXCEPT ![n] = "accepted"]
        /\ committed' = completed \cup {n} \/ UNCHANGED <<store, committed>>
    BY <1>1 DEF AcceptResult, Turn, Joined, Become, Checkpoint
  <2>2. committed' \subseteq completed' \/ StepsEvicted'
    BY <2>1 DEF ReuseInv, StepsEvicted, StepIndices
  <2>3. \A m \in Planners \cap completed' : pc'[m] \in {"waiting", "reused", "accepted"}
    BY <2>1, PlanAssumption DEF ReuseInv, TypeOK
  <2>4. QED BY <2>2, <2>3 DEF ReuseInv
<1>2. CASE DispatchWave
  <2>1. ASSUME NEW n \in Planners \cap completed PROVE pc'[n] \in {"waiting", "reused", "accepted"}
    BY <1>2, <2>1, PlanAssumption DEF DispatchWave, MayReuse, ReuseInv
  <2>2. QED
    BY <1>2, <2>1 DEF DispatchWave, ReuseInv, StepsEvicted, StepIndices, durable, observed
<1>3. CASE FailWave \/ NextWave \/ Finalize \/ \E n \in Nodes : StopPlan(n)
  BY <1>3
     DEF FailWave, NextWave, Finalize, StopPlan, ReuseInv, StepsEvicted, StepIndices, durable,
         agents, observed
<1>4. CASE Crash
  BY <1>4 DEF Crash, ReuseInv
<1>5. CASE Resume
  <2>1. CASE Admissible
    <3>1. completed' = Newest.completed /\ UNCHANGED <<store, committed>> /\ store # <<>>
      BY <1>5, <2>1 DEF Resume, Admissible, durable, observed
    <3>2. committed' \subseteq completed' \/ StepsEvicted'
      BY <3>1, RecordsSurvive DEF CommittedWorkSurvives, StepsEvicted, StepIndices
    <3>3. \A n \in Nodes : pc'[n] = "waiting"
      BY <1>5, <2>1 DEF Resume
    <3>4. QED BY <3>2, <3>3, PlanAssumption DEF ReuseInv
  <2>2. CASE ~Admissible
    BY <1>5, <2>2 DEF Resume, ReuseInv
  <2>3. QED BY <2>1, <2>2
<1>6. QED BY <1>1, <1>2, <1>3, <1>4, <1>5, AgentsReuse DEF Next, PlanStep

\* Only a dispatch gives a node a new agent, and a committed Plan node is
\* neither dispatched with its wave nor dispatched again.
LEMMA PlanNotRedone ==
  ASSUME TypeOK, ReuseInv, Next
  PROVE  CommittedPlanNotRedone
<1>1. SUFFICES ASSUME ~StepsEvicted, NEW n \in Planners \cap committed
               PROVE  dispatched'[n] = dispatched[n]
  BY DEF CommittedPlanNotRedone
<1>2. n \in Nodes /\ n \in Planners
  BY PlanAssumption
<1>3. CASE DispatchWave
  <2>1. MayReuse(n)
    BY <1>1, <1>2, <1>3 DEF DispatchWave, ReuseInv, MayReuse
  <2>2. QED BY <1>2, <1>3, <2>1 DEF DispatchWave, TypeOK
<1>4. ASSUME NEW m \in Nodes, RetryDispatch(m) PROVE dispatched'[n] = dispatched[n]
  <2>1. m # n
    BY <1>1, <1>2, <1>4 DEF RetryDispatch, At, ReuseInv
  <2>2. QED BY <1>2, <1>4, <2>1 DEF RetryDispatch, TypeOK
<1>5. CASE UNCHANGED dispatched
  BY <1>5
<1>6. QED
  BY <1>3, <1>4, <1>5
     DEF Next, AgentStep, PlanStep, StartAgent, PeriodicCheckpoint, Inspect, StartCall,
         StartRefused, Apply, FinishCall, FinishAgent, Timeout, RejectPhase, AcceptResult,
         StopPlan, FailWave, NextWave, Finalize, Crash, Resume, agents

\* Whatever SA accepted is in the record a resume starts from and no committed
\* plan is made again, until agents' records fill the cap of the store: for any
\* plan, cap, crashes, failed writes and retries.
THEOREM AcceptedWorkStays == Spec => CommittedWorkStays
<1>1. Init => RecordInv /\ ReuseInv
  <2>1. ASSUME Init PROVE StepIndices = {}
    BY <2>1 DEF Init, StepIndices
  <2>2. QED BY <2>1 DEF Init, RecordInv, ReuseInv
<1>2. IInv /\ IInv' /\ RecordInv /\ ReuseInv /\ [Next]_vars => RecordInv' /\ ReuseInv'
  <2>1. SUFFICES ASSUME IInv, IInv', RecordInv, ReuseInv, [Next]_vars
                 PROVE  RecordInv' /\ ReuseInv'
    OBVIOUS
  <2>2. CASE Next
    BY <2>1, <2>2, StepRecordInv, StepReuse DEF IInv
  <2>3. CASE UNCHANGED vars
    BY <2>1, <2>3
       DEF RecordInv, ReuseInv, StepIndices, StepsEvicted, vars, durable, agents, observed
  <2>4. QED BY <2>1, <2>2, <2>3
<1>3. IInv /\ CommittedWorkSurvives' /\ ReuseInv /\ [Next]_vars
        => [CommittedWorkSurvives' /\ CommittedPlanNotRedone]_vars
  <2>1. SUFFICES ASSUME IInv, CommittedWorkSurvives', ReuseInv, Next
                 PROVE  CommittedWorkSurvives' /\ CommittedPlanNotRedone
    OBVIOUS
  <2>2. CommittedPlanNotRedone
    BY <2>1, PlanNotRedone DEF IInv
  <2>3. QED BY <2>1, <2>2
<1>4. IInv /\ RecordInv => CommittedWorkSurvives
  BY RecordsSurvive DEF IInv
<1>5. QED BY <1>1, <1>2, <1>3, <1>4, Invariance, PTL DEF Spec, CommittedWorkStays

=============================================================================
