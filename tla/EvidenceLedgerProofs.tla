------------------------ MODULE EvidenceLedgerProofs ------------------------
(***************************************************************************)
(* Proofs about EvidenceLedger for any number of handles, events, retries, *)
(* crashes and storage errors, and any read limit.                         *)
(*                                                                         *)
(* ChainInv says what the stored chain looks like and how far behind it a  *)
(* handle may be; CallInv adds what a call in progress has left on it.     *)
(* Both are inductive together, and give the refinement of EvidenceLog.    *)
(* RepairInv and ProgressInv add what opening and retrying have achieved.  *)
(***************************************************************************)
EXTENDS EvidenceLedger, Sequences, FiniteSetTheorems, TLAPS

\* What a handle in the middle of a call knows about the chain.
HandleOK(h) ==
  /\ pc[h] \in {"append", "seal"} =>
       view[h].next <= head.next /\ view[h].last = LastHash(view[h].next)
  /\ pc[h] \in {"readHead", "append", "sealReadHead", "seal"} => tries[h] < MaxRetries
  /\ pc[h] \in {"readHead", "append", "project"} => event[h] \in Events
  /\ opened[h] <= head.next
  /\ pc[h] = "reconcile" => cursor[h] <= opened[h]
  /\ pc[h] = "project" => cursor[h] < head.next

ChainInv ==
  /\ TypeOK
  /\ ChainLinked
  /\ SealMatchesChain
  /\ ProjectionFaithful
  /\ \A h \in Handles : HandleOK(h)

-----------------------------------------------------------------------------
\* A step that leaves the stored tables alone leaves the chain's part of the
\* invariant alone.
LEMMA DurableUnchanged ==
  ASSUME ChainInv, UNCHANGED durable
  PROVE  /\ ChainLinked' /\ SealMatchesChain' /\ ProjectionFaithful'
         /\ \A n : LastHash(n)' = LastHash(n)
  BY DEF ChainInv, ChainLinked, SealMatchesChain, ProjectionFaithful, LastHash, durable

\* A read of the frames returns no more than there are.
LEMMA VisibleBound ==
  ASSUME ChainInv
  PROVE  Visible \in Nat /\ Visible <= head.next
  <1>1. head.next \in Nat /\ DOMAIN frames = 0 .. head.next - 1
    BY DEF ChainInv, TypeOK, ChainLinked, HeadRecord
  <1>2. Cardinality(0 .. head.next - 1) = head.next
    BY <1>1, FS_Interval
  <1>3. Limit \in Nat
    BY EvidenceLedgerAssumption
  <1> QED
    BY <1>1, <1>2, <1>3 DEF Visible, Least

LEMMA ChainInit == Init => ChainInv
  <1> SUFFICES ASSUME Init PROVE ChainInv
    OBVIOUS
  <1>1. TypeOK
    BY EvidenceLedgerAssumption
    DEF Init, TypeOK, HeadRecord, Hashes, PCs, Outcomes
  <1>2. ChainLinked /\ SealMatchesChain /\ ProjectionFaithful
    BY DEF Init, ChainLinked, SealMatchesChain, ProjectionFaithful, LastHash
  <1>3. \A h \in Handles : HandleOK(h)
    BY DEF Init, HandleOK
  <1> QED
    BY <1>1, <1>2, <1>3 DEF ChainInv

-----------------------------------------------------------------------------
(* A frame appended at the head.                                           *)
LEMMA AppendKeepsChain ==
  ASSUME ChainInv, NEW h \in Handles, AppendCommits(h)
  PROVE  /\ frames' = Put(frames, head.next, NewFrame(h))
         /\ NewFrame(h) \in Frame /\ NewFrame(h).event = event[h]
         /\ head' \in HeadRecord /\ head'.next = head.next + 1 /\ head'.sealed = FALSE
         /\ DOMAIN frames' = 0 .. head.next
         /\ \A s \in DOMAIN frames : frames'[s] = frames[s]
         /\ ChainLinked'
         /\ SealMatchesChain'
         /\ ProjectionFaithful'
         /\ \A n \in 0 .. head.next : LastHash(n)' = LastHash(n)
  <1>n. PICK n : n = head.next
    OBVIOUS
  <1>f. PICK f : f = NewFrame(h)
    OBVIOUS
  <1>1. /\ n \in Nat /\ view[h].next = n /\ view[h].last = head.last
        /\ head.last \in Hashes /\ event[h] \in Events /\ ~head.sealed
        /\ DOMAIN frames = 0 .. n - 1
    BY <1>n DEF AppendCommits, HeadIsCurrent, ChainInv, ChainLinked, TypeOK, HeadRecord, HandleOK
  <1>2. /\ f \in Frame /\ f.event = event[h] /\ f.sequence = n
        /\ f.previous = head.last
    BY <1>1, <1>f DEF NewFrame, Frame, NewFrame
  <1>3. frames' = Put(frames, n, f) /\ UNCHANGED <<seal, projected>>
    BY <1>1, <1>f DEF AppendCommits, WriteFrame
  <1>4. head' = [next |-> n + 1, last |-> Hash(f), sealed |-> FALSE]
    BY <1>1, <1>f DEF AppendCommits, WriteFrame
  <1>5. Hash(f) \in Hashes
    BY <1>1, <1>2 DEF Hash, Hashes
  <1>6. /\ DOMAIN frames' = 0 .. n
        /\ frames'[n] = f
        /\ \A s \in DOMAIN frames : frames'[s] = frames[s]
    <2>1. n \notin DOMAIN frames /\ (0 .. n - 1) \union {n} = 0 .. n
      BY <1>1
    <2>2. /\ DOMAIN Put(frames, n, f) = DOMAIN frames \union {n}
          /\ Put(frames, n, f)[n] = f
          /\ \A x \in DOMAIN frames : x # n => Put(frames, n, f)[x] = frames[x]
      BY DEF Put
    <2> QED
      BY <1>1, <1>3, <2>1, <2>2
  <1>7. \A k \in 0 .. n : LastHash(k)' = LastHash(k)
    <2> TAKE k \in 0 .. n
    <2>1. k # 0 => k - 1 \in DOMAIN frames
      BY <1>1
    <2> QED
      BY <1>6, <2>1 DEF LastHash
  <1>8. head.last = LastHash(n)
    BY <1>n DEF ChainInv, ChainLinked
  <1>9. ChainLinked'
    <2>1. (head.last = LastHash(head.next))'
      BY <1>1, <1>4, <1>6 DEF LastHash, Hash
    <2>2. ASSUME NEW s \in DOMAIN frames'
          PROVE  frames'[s].sequence = s /\ frames'[s].previous = LastHash(s)'
      <3>1. CASE s = n
        BY <3>1, <1>1, <1>2, <1>6, <1>7, <1>8
      <3>2. CASE s # n
        <4>1. s \in DOMAIN frames /\ s \in 0 .. n
          BY <3>2, <1>1, <1>6
        <4> QED
          BY <4>1, <1>6, <1>7 DEF ChainInv, ChainLinked
      <3> QED
        BY <3>1, <3>2
    <2>3. DOMAIN frames' = 0 .. head'.next - 1
      BY <1>1, <1>4, <1>6
    <2> QED
      BY <2>1, <2>2, <2>3 DEF ChainLinked
  <1>10. SealMatchesChain'
    BY <1>1, <1>3, <1>4 DEF ChainInv, SealMatchesChain
  <1>11. ProjectionFaithful'
    BY <1>1, <1>3, <1>6 DEF ChainInv, ProjectionFaithful
  <1>12. head' \in HeadRecord /\ head'.next = n + 1 /\ head'.sealed = FALSE
    BY <1>1, <1>4, <1>5 DEF HeadRecord
  <1> QED
    BY <1>n, <1>f, <1>1, <1>2, <1>3, <1>6, <1>7, <1>9, <1>10, <1>11, <1>12

(* A projection stored for a frame of the chain.                           *)
LEMMA PersistKeepsChain ==
  ASSUME ChainInv, NEW s \in DOMAIN frames, Projectable(s), Persist(s),
         UNCHANGED <<frames, head, seal>>
  PROVE  /\ ChainLinked' /\ SealMatchesChain' /\ ProjectionFaithful'
         /\ \A n : LastHash(n)' = LastHash(n)
         /\ DOMAIN projected' = DOMAIN projected \union {s}
         /\ DOMAIN projected' \subseteq Nat
         /\ \A x \in DOMAIN projected' : projected'[x] \in Events
  <1>1. frames[s].event \in Events /\ s \in Nat
    BY DEF ChainInv, TypeOK, Frame
  <1>2. /\ DOMAIN projected' = DOMAIN projected \union {s}
        /\ projected'[s] = frames[s].event
        /\ \A x \in DOMAIN projected : x # s => projected'[x] = projected[x]
    BY DEF Persist, Put
  <1>3. ChainLinked' /\ SealMatchesChain' /\ \A n : LastHash(n)' = LastHash(n)
    BY DEF ChainInv, ChainLinked, SealMatchesChain, LastHash
  <1>4. ProjectionFaithful'
    BY <1>2 DEF ChainInv, ProjectionFaithful
  <1>5. \A x \in DOMAIN projected' : projected'[x] \in Events
    BY <1>1, <1>2 DEF ChainInv, TypeOK
  <1> QED
    BY <1>1, <1>2, <1>3, <1>4, <1>5 DEF ChainInv, TypeOK

-----------------------------------------------------------------------------
(* A step of one handle that writes none of the stored tables.             *)
LocalStep(h) ==
  \/ Open(h) \/ Opened(h) \/ (\E e \in Events : BeginAppend(h, e)) \/ ReadHead(h)
  \/ AppendRejected(h) \/ AppendConflicts(h) \/ AppendExhausted(h)
  \/ BeginSeal(h) \/ SealReadHead(h) \/ AlreadySealed(h) \/ SealConflicts(h)
  \/ AppendFails(h) \/ OpenFails(h) \/ SealFails(h)

LEMMA LocalKeepsChainInv ==
  ASSUME ChainInv, NEW h \in Handles, LocalStep(h)
  PROVE  ChainInv'
  <1>0. UNCHANGED durable
    BY DEF LocalStep, durable, Open, Opened, BeginAppend, ReadHead, AppendRejected,
       AppendConflicts, AppendExhausted, BeginSeal, SealReadHead, AlreadySealed,
       SealConflicts, AppendFails, OpenFails, SealFails
  <1>1. /\ ChainLinked' /\ SealMatchesChain' /\ ProjectionFaithful'
        /\ \A n : LastHash(n)' = LastHash(n)
    BY <1>0, DurableUnchanged
  <1>2. /\ TypeOK /\ head.next \in Nat /\ head.last = LastHash(head.next)
        /\ \A k \in Handles : HandleOK(k)
        /\ Visible \in Nat /\ Visible <= head.next
    BY VisibleBound DEF ChainInv, ChainLinked, TypeOK, HeadRecord
  <1>3. MaxRetries \in Nat \ {0} /\ MaxFailures \in Nat
    BY EvidenceLedgerAssumption
  <1> SUFFICES TypeOK' /\ \A k \in Handles : HandleOK(k)'
    BY <1>1 DEF ChainInv
  <1>4. CASE Open(h)
    <2>1. TypeOK'
      BY <1>0, <1>2, <1>3, <1>4, SMTT(60)
      DEF Open, Goto, TypeOK, HandleOK, durable, PCs, Outcomes
    <2>2. \A k \in Handles : HandleOK(k)'
      BY <1>0, <1>1, <1>2, <1>3, <1>4, SMTT(60)
      DEF Open, Goto, TypeOK, HandleOK, durable, PCs
    <2> QED
      BY <2>1, <2>2
  <1>5. CASE Opened(h)
    <2>1. TypeOK'
      BY <1>0, <1>2, <1>3, <1>5, SMTT(60)
      DEF Opened, Goto, TypeOK, HandleOK, durable, PCs, Outcomes
    <2>2. \A k \in Handles : HandleOK(k)'
      BY <1>0, <1>1, <1>2, <1>3, <1>5, SMTT(60)
      DEF Opened, Goto, TypeOK, HandleOK, durable, PCs
    <2> QED
      BY <2>1, <2>2
  <1>6. CASE \E e \in Events : BeginAppend(h, e)
    <2>1. TypeOK'
      BY <1>0, <1>2, <1>3, <1>6, SMTT(60)
      DEF BeginAppend, Goto, TypeOK, HandleOK, durable, PCs, Outcomes
    <2>2. \A k \in Handles : HandleOK(k)'
      BY <1>0, <1>1, <1>2, <1>3, <1>6, SMTT(60)
      DEF BeginAppend, Goto, TypeOK, HandleOK, durable, PCs
    <2> QED
      BY <2>1, <2>2
  <1>7. CASE ReadHead(h)
    <2>1. TypeOK'
      BY <1>0, <1>2, <1>3, <1>7, SMTT(60)
      DEF ReadHead, Goto, TypeOK, HandleOK, durable, PCs, Outcomes
    <2>2. \A k \in Handles : HandleOK(k)'
      BY <1>0, <1>1, <1>2, <1>3, <1>7, SMTT(60)
      DEF ReadHead, Goto, TypeOK, HandleOK, durable, PCs
    <2> QED
      BY <2>1, <2>2
  <1>8. CASE AppendRejected(h)
    <2>1. TypeOK'
      BY <1>0, <1>2, <1>3, <1>8, SMTT(60)
      DEF AppendRejected, Return, Goto, TypeOK, HandleOK, durable, PCs, Outcomes
    <2>2. \A k \in Handles : HandleOK(k)'
      BY <1>0, <1>1, <1>2, <1>3, <1>8, SMTT(60)
      DEF AppendRejected, Return, Goto, TypeOK, HandleOK, durable, PCs
    <2> QED
      BY <2>1, <2>2
  <1>9. CASE AppendConflicts(h)
    <2>1. TypeOK'
      BY <1>0, <1>2, <1>3, <1>9, SMTT(60)
      DEF AppendConflicts, Conflicts, Goto, TypeOK, HandleOK, durable, PCs, Outcomes
    <2>2. \A k \in Handles : HandleOK(k)'
      BY <1>0, <1>1, <1>2, <1>3, <1>9, SMTT(60)
      DEF AppendConflicts, Conflicts, Goto, TypeOK, HandleOK, durable, PCs
    <2> QED
      BY <2>1, <2>2
  <1>10. CASE AppendExhausted(h)
    <2>1. TypeOK'
      BY <1>0, <1>2, <1>3, <1>10, SMTT(60)
      DEF AppendExhausted, Conflicts, Return, Goto, TypeOK, HandleOK, durable, PCs, Outcomes
    <2>2. \A k \in Handles : HandleOK(k)'
      BY <1>0, <1>1, <1>2, <1>3, <1>10, SMTT(60)
      DEF AppendExhausted, Conflicts, Return, Goto, TypeOK, HandleOK, durable, PCs
    <2> QED
      BY <2>1, <2>2
  <1>11. CASE BeginSeal(h)
    <2>1. TypeOK'
      BY <1>0, <1>2, <1>3, <1>11, SMTT(60)
      DEF BeginSeal, Goto, TypeOK, HandleOK, durable, PCs, Outcomes
    <2>2. \A k \in Handles : HandleOK(k)'
      BY <1>0, <1>1, <1>2, <1>3, <1>11, SMTT(60)
      DEF BeginSeal, Goto, TypeOK, HandleOK, durable, PCs
    <2> QED
      BY <2>1, <2>2
  <1>12. CASE SealReadHead(h)
    <2>1. TypeOK'
      BY <1>0, <1>2, <1>3, <1>12, SMTT(60)
      DEF SealReadHead, Goto, TypeOK, HandleOK, durable, PCs, Outcomes
    <2>2. \A k \in Handles : HandleOK(k)'
      BY <1>0, <1>1, <1>2, <1>3, <1>12, SMTT(60)
      DEF SealReadHead, Goto, TypeOK, HandleOK, durable, PCs
    <2> QED
      BY <2>1, <2>2
  <1>13. CASE AlreadySealed(h)
    <2>1. TypeOK'
      BY <1>0, <1>2, <1>3, <1>13, SMTT(60)
      DEF AlreadySealed, Goto, TypeOK, HandleOK, durable, PCs, Outcomes
    <2>2. \A k \in Handles : HandleOK(k)'
      BY <1>0, <1>1, <1>2, <1>3, <1>13, SMTT(60)
      DEF AlreadySealed, Goto, TypeOK, HandleOK, durable, PCs
    <2> QED
      BY <2>1, <2>2
  <1>14. CASE SealConflicts(h)
    <2>1. TypeOK'
      BY <1>0, <1>2, <1>3, <1>14, SMTT(60)
      DEF SealConflicts, Goto, TypeOK, HandleOK, durable, PCs, Outcomes
    <2>2. \A k \in Handles : HandleOK(k)'
      BY <1>0, <1>1, <1>2, <1>3, <1>14, SMTT(60)
      DEF SealConflicts, Goto, TypeOK, HandleOK, durable, PCs
    <2> QED
      BY <2>1, <2>2
  <1>15. CASE AppendFails(h)
    <2>1. TypeOK'
      BY <1>0, <1>2, <1>3, <1>15, SMTT(60)
      DEF AppendFails, Return, Goto, TypeOK, HandleOK, durable, PCs, Outcomes
    <2>2. \A k \in Handles : HandleOK(k)'
      BY <1>0, <1>1, <1>2, <1>3, <1>15, SMTT(60)
      DEF AppendFails, Return, Goto, TypeOK, HandleOK, durable, PCs
    <2> QED
      BY <2>1, <2>2
  <1>16. CASE OpenFails(h)
    <2>1. TypeOK'
      BY <1>0, <1>2, <1>3, <1>16, SMTT(60)
      DEF OpenFails, Goto, TypeOK, HandleOK, durable, PCs, Outcomes
    <2>2. \A k \in Handles : HandleOK(k)'
      BY <1>0, <1>1, <1>2, <1>3, <1>16, SMTT(60)
      DEF OpenFails, Goto, TypeOK, HandleOK, durable, PCs
    <2> QED
      BY <2>1, <2>2
  <1>17. CASE SealFails(h)
    <2>1. TypeOK'
      BY <1>0, <1>2, <1>3, <1>17, SMTT(60)
      DEF SealFails, Goto, TypeOK, HandleOK, durable, PCs, Outcomes
    <2>2. \A k \in Handles : HandleOK(k)'
      BY <1>0, <1>1, <1>2, <1>3, <1>17, SMTT(60)
      DEF SealFails, Goto, TypeOK, HandleOK, durable, PCs
    <2> QED
      BY <2>1, <2>2
  <1> QED
    BY <1>4, <1>5, <1>6, <1>7, <1>8, <1>9, <1>10, <1>11, <1>12, <1>13, <1>14, <1>15, <1>16, <1>17 DEF LocalStep

LEMMA AppendKeepsChainInv ==
  ASSUME ChainInv, NEW h \in Handles, AppendCommits(h)
  PROVE  ChainInv'
  <1>1. /\ frames' = Put(frames, head.next, NewFrame(h))
        /\ NewFrame(h) \in Frame
        /\ head' \in HeadRecord /\ head'.next = head.next + 1
        /\ DOMAIN frames' = 0 .. head.next
        /\ \A s \in DOMAIN frames : frames'[s] = frames[s]
        /\ ChainLinked' /\ SealMatchesChain' /\ ProjectionFaithful'
        /\ \A n \in 0 .. head.next : LastHash(n)' = LastHash(n)
    BY AppendKeepsChain
  <1>2. /\ TypeOK /\ head.next \in Nat /\ DOMAIN frames = 0 .. head.next - 1
        /\ \A k \in Handles : HandleOK(k)
    BY DEF ChainInv, ChainLinked, TypeOK, HeadRecord
  <1>3. /\ UNCHANGED <<seal, projected, event, view, tries, opened, outcome, since,
                        crashes, failures>>
        /\ cursor' = [cursor EXCEPT ![h] = head.next]
        /\ pc' = [pc EXCEPT ![h] = "project"]
        /\ event[h] \in Events
    BY <1>2 DEF AppendCommits, WriteFrame, HeadIsCurrent, Goto, HandleOK
  <1>4. TypeOK'
    <2>1. frames'[head.next] = NewFrame(h)
      BY <1>1 DEF Put
    <2>2. \A s \in DOMAIN frames' : s \in Nat /\ frames'[s] \in Frame
      <3> TAKE s \in DOMAIN frames'
      <3>1. s = head.next \/ s \in DOMAIN frames
        BY <1>1, <1>2
      <3> QED
        BY <1>1, <1>2, <2>1, <3>1 DEF TypeOK
    <2> QED
      BY <1>1, <1>2, <1>3, <2>2 DEF TypeOK, PCs
  <1>5. ASSUME NEW k \in Handles PROVE HandleOK(k)'
    <2>1. pc[k] \in {"append", "seal"} =>
            LastHash(view[k].next)' = LastHash(view[k].next)
      <3>1. view' = view /\ view[k].next \in Nat
        BY <1>2, <1>3 DEF TypeOK, HeadRecord
      <3>2. ASSUME NEW n \in Nat, n <= head.next PROVE LastHash(n)' = LastHash(n)
        BY <1>1, <1>2, <3>2
      <3> QED
        BY <1>2, <3>1, <3>2 DEF HandleOK, LastHash
    <2> QED
      BY <1>1, <1>2, <1>3, <2>1 DEF HandleOK, TypeOK, HeadRecord
  <1> QED
    BY <1>1, <1>4, <1>5 DEF ChainInv

LEMMA ProjectKeepsChainInv ==
  ASSUME ChainInv, NEW h \in Handles, ReconcileFrame(h) \/ Project(h)
  PROVE  ChainInv'
  <1>1. /\ TypeOK /\ head.next \in Nat /\ DOMAIN frames = 0 .. head.next - 1
        /\ \A k \in Handles : HandleOK(k)
    BY DEF ChainInv, ChainLinked, TypeOK, HeadRecord
  <1>2. cursor[h] \in DOMAIN frames
    BY <1>1 DEF HandleOK, TypeOK, ReconcileFrame, Project
  <1>3. Projectable(cursor[h]) /\ Persist(cursor[h]) /\ UNCHANGED <<frames, head, seal>>
    BY DEF ReconcileFrame, Project
  <1>4. /\ ChainLinked' /\ SealMatchesChain' /\ ProjectionFaithful'
        /\ \A n : LastHash(n)' = LastHash(n)
        /\ DOMAIN projected' \subseteq Nat
        /\ \A x \in DOMAIN projected' : projected'[x] \in Events
    BY <1>2, <1>3, PersistKeepsChain
  <1>5. CASE ReconcileFrame(h)
    <2>1. TypeOK'
      BY <1>1, <1>4, <1>5 DEF ReconcileFrame, TypeOK, PCs
    <2>2. \A k \in Handles : HandleOK(k)'
      BY <1>1, <1>3, <1>4, <1>5 DEF ReconcileFrame, TypeOK, HandleOK
    <2> QED
      BY <1>4, <2>1, <2>2 DEF ChainInv
  <1>6. CASE Project(h)
    <2>1. TypeOK'
      BY <1>1, <1>4, <1>6 DEF Project, Return, Goto, TypeOK, PCs, Outcomes
    <2>2. \A k \in Handles : HandleOK(k)'
      BY <1>1, <1>3, <1>4, <1>6 DEF Project, Return, Goto, TypeOK, HandleOK
    <2> QED
      BY <1>4, <2>1, <2>2 DEF ChainInv
  <1> QED
    BY <1>5, <1>6

LEMMA SealKeepsChainInv ==
  ASSUME ChainInv, NEW h \in Handles, SealCommits(h)
  PROVE  ChainInv'
  <1>1. /\ TypeOK /\ head \in HeadRecord /\ head.last = LastHash(head.next)
        /\ \A k \in Handles : HandleOK(k)
    BY DEF ChainInv, ChainLinked, TypeOK
  <1>2. /\ head' = [head EXCEPT !.sealed = TRUE]
        /\ seal' = [count |-> head.next, root |-> head.last]
        /\ pc' = [pc EXCEPT ![h] = "ready"]
        /\ UNCHANGED <<frames, projected, event, view, tries, cursor, opened, outcome,
                        since, crashes, failures>>
    BY DEF SealCommits, WriteSeal, HeadIsCurrent, Goto
  <1>3. /\ head'.next = head.next /\ head'.last = head.last /\ head'.sealed = TRUE
        /\ head' \in HeadRecord /\ seal' \in SealRecord
    BY <1>1, <1>2 DEF HeadRecord, SealRecord
  <1>4. \A n : LastHash(n)' = LastHash(n)
    BY <1>2 DEF LastHash
  <1>5. ChainLinked' /\ ProjectionFaithful'
    BY <1>2, <1>3 DEF ChainInv, ChainLinked, ProjectionFaithful, LastHash
  <1>6. SealMatchesChain'
    <2>1. seal' # NoSeal
      BY <1>2, <1>3, EvidenceLedgerAssumption DEF SealRecord, Hashes
    <2> QED
      BY <1>1, <1>2, <1>3, <2>1 DEF SealMatchesChain, LastHash
  <1>7. TypeOK'
    BY <1>1, <1>2, <1>3 DEF TypeOK, PCs
  <1>8. \A k \in Handles : HandleOK(k)'
    BY <1>1, <1>2, <1>3, <1>4 DEF HandleOK, TypeOK
  <1> QED
    BY <1>5, <1>6, <1>7, <1>8 DEF ChainInv

LEMMA CrashKeepsChainInv ==
  ASSUME ChainInv, Crash
  PROVE  ChainInv'
  <1>1. ChainLinked' /\ SealMatchesChain' /\ ProjectionFaithful'
    BY DurableUnchanged DEF Crash, durable
  <1>2. TypeOK'
    BY EvidenceLedgerAssumption DEF ChainInv, TypeOK, Crash, durable, PCs, Outcomes
  <1>3. \A k \in Handles : HandleOK(k)'
    BY DEF ChainInv, HandleOK, Crash, durable
  <1> QED
    BY <1>1, <1>2, <1>3 DEF ChainInv

LEMMA ChainStep == ChainInv /\ [Next]_vars => ChainInv'
  <1> SUFFICES ASSUME ChainInv, [Next]_vars PROVE ChainInv'
    OBVIOUS
  <1>1. ASSUME NEW h \in Handles, LocalStep(h) PROVE ChainInv'
    BY <1>1, LocalKeepsChainInv
  <1>2. ASSUME NEW h \in Handles, AppendCommits(h) PROVE ChainInv'
    BY <1>2, AppendKeepsChainInv
  <1>3. ASSUME NEW h \in Handles, ReconcileFrame(h) \/ Project(h) PROVE ChainInv'
    BY <1>3, ProjectKeepsChainInv
  <1>4. ASSUME NEW h \in Handles, SealCommits(h) PROVE ChainInv'
    BY <1>4, SealKeepsChainInv
  <1>5. ASSUME Crash PROVE ChainInv'
    BY <1>5, CrashKeepsChainInv
  <1>6. ASSUME UNCHANGED vars PROVE ChainInv'
    <2>1. UNCHANGED durable /\ UNCHANGED local /\ UNCHANGED <<outcome, since, crashes, failures>>
      BY <1>6 DEF vars
    <2>2. ChainLinked' /\ SealMatchesChain' /\ ProjectionFaithful'
      BY <2>1, DurableUnchanged
    <2>3. TypeOK' /\ \A k \in Handles : HandleOK(k)'
      BY <2>1 DEF ChainInv, TypeOK, HandleOK, LastHash, durable, local
    <2> QED
      BY <2>2, <2>3 DEF ChainInv
  <1> QED
    BY <1>1, <1>2, <1>3, <1>4, <1>5, <1>6 DEF Next, HandleStep, HandleFault, LocalStep

\* Type correctness, for any number of handles and events.
THEOREM TypeCorrect == Spec => []TypeOK
  <1>1. ChainInv => TypeOK
    BY DEF ChainInv
  <1> QED
    BY <1>1, ChainInit, ChainStep, PTL DEF Spec

\* Whatever handles append and seal at the same time, and whichever calls
\* fail or die, the stored frames are one gapless hash chain up to the head.
THEOREM ChainIntact == Spec => []ChainLinked
  <1>1. ChainInv => ChainLinked
    BY DEF ChainInv
  <1> QED
    BY <1>1, ChainInit, ChainStep, PTL DEF Spec

\* A seal, once there, covers exactly the stored chain.
THEOREM SealCoversChain == Spec => []SealMatchesChain
  <1>1. ChainInv => SealMatchesChain
    BY DEF ChainInv
  <1> QED
    BY <1>1, ChainInit, ChainStep, PTL DEF Spec

-----------------------------------------------------------------------------
(* What a call in progress has left on the chain.                          *)
InCall(h) == pc[h] \in {"readHead", "append", "project"}

CallOK(h) ==
  /\ InCall(h) => outcome[event[h]] = "pending"
  /\ pc[h] \in {"readHead", "append"} =>
       \A s \in DOMAIN frames : frames[s].event # event[h]
  /\ pc[h] = "project" => frames[cursor[h]].event = event[h]

CallInv ==
  /\ OneFramePerCall
  /\ AckedDurable
  /\ \A h \in Handles : CallOK(h)
  /\ \A h1, h2 \in Handles : InCall(h1) /\ InCall(h2) /\ event[h1] = event[h2] => h1 = h2

LEMMA CallInit == Init => CallInv
  BY DEF Init, CallInv, OneFramePerCall, AckedDurable, CallOK, InCall

(* The outcome of h's call is settled as r; no other call notices.         *)
LEMMA ReturnKeepsCallInv ==
  ASSUME ChainInv, CallInv, NEW h \in Handles, InCall(h), NEW r, Return(h, r),
         UNCHANGED <<frames, cursor>>, DOMAIN projected \subseteq DOMAIN projected',
         r \in {"failed", "acked"} \/ (r \in {"sealed", "conflict"} /\ pc[h] # "project"),
         r = "acked" => pc[h] = "project" /\ cursor[h] \in DOMAIN projected'
  PROVE  CallInv'
  <1>1. /\ event[h] \in Events /\ outcome \in [Events -> Outcomes] /\ pc \in [Handles -> PCs]
        /\ event \in [Handles -> Events \union {NoEvent}]
        /\ DOMAIN frames = 0 .. head.next - 1 /\ head.next \in Nat
        /\ \A s \in DOMAIN frames : frames[s].event \in Events
        /\ \A k \in Handles : InCall(k) => event[k] \in Events
        /\ pc[h] = "project" => cursor[h] \in DOMAIN frames
    BY DEF ChainInv, ChainLinked, TypeOK, HandleOK, InCall, Frame, HeadRecord
  <1>2. /\ outcome' = [outcome EXCEPT ![event[h]] = r]
        /\ pc' = [pc EXCEPT ![h] = "ready"]
        /\ event' = [event EXCEPT ![h] = NoEvent]
    BY DEF Return, Goto
  <1>3. OneFramePerCall'
    BY <1>1, <1>2 DEF CallInv, OneFramePerCall, CallOK, InCall, PCs
  <1>4. AckedDurable'
    <2> SUFFICES ASSUME NEW e \in Events, outcome'[e] = "acked"
                 PROVE  \E s \in DOMAIN frames : frames[s].event = e /\ s \in DOMAIN projected'
      BY DEF AckedDurable
    <2>1. CASE e = event[h]
      BY <1>1, <1>2, <2>1 DEF CallInv, CallOK
    <2>2. CASE e # event[h]
      BY <1>1, <1>2, <2>2 DEF CallInv, AckedDurable
    <2> QED
      BY <2>1, <2>2
  <1>5. \A k \in Handles : CallOK(k)'
    BY <1>1, <1>2 DEF CallInv, CallOK, InCall
  <1>6. \A h1, h2 \in Handles :
          InCall(h1)' /\ InCall(h2)' /\ event'[h1] = event'[h2] => h1 = h2
    BY <1>1, <1>2 DEF CallInv, InCall
  <1> QED
    BY <1>3, <1>4, <1>5, <1>6 DEF CallInv

(* A step that begins or ends no append call and writes no frame.          *)
LEMMA OtherKeepsCallInv ==
  ASSUME ChainInv, CallInv, UNCHANGED <<frames, event, outcome>>,
         DOMAIN projected \subseteq DOMAIN projected',
         \A h \in Handles :
           /\ InCall(h)' => InCall(h)
           /\ pc'[h] \in {"readHead", "append"} => pc[h] \in {"readHead", "append"}
           /\ pc'[h] = "project" => pc[h] = "project" /\ cursor'[h] = cursor[h]
  PROVE  CallInv'
  <1>1. OneFramePerCall' /\ AckedDurable'
    BY DEF CallInv, OneFramePerCall, AckedDurable
  <1>2. \A k \in Handles : CallOK(k)'
    BY DEF CallInv, CallOK, InCall
  <1> QED
    BY <1>1, <1>2 DEF CallInv

LEMMA BeginKeepsCallInv ==
  ASSUME ChainInv, CallInv, NEW h \in Handles, NEW e \in Events, BeginAppend(h, e)
  PROVE  CallInv'
  <1>1. /\ outcome \in [Events -> Outcomes] /\ pc \in [Handles -> PCs]
        /\ event \in [Handles -> Events \union {NoEvent}]
        /\ \A s \in DOMAIN frames : frames[s].event \in Events
        /\ \A k \in Handles : InCall(k) => event[k] \in Events
    BY DEF ChainInv, TypeOK, HandleOK, InCall, Frame
  <1>2. /\ outcome[e] = "none" /\ outcome' = [outcome EXCEPT ![e] = "pending"]
        /\ pc' = [pc EXCEPT ![h] = "readHead"] /\ event' = [event EXCEPT ![h] = e]
        /\ UNCHANGED <<frames, projected, cursor>>
    BY DEF BeginAppend, Goto, durable
  <1>3. \A s \in DOMAIN frames : frames[s].event # e
    BY <1>2 DEF CallInv, OneFramePerCall
  <1>4. \A k \in Handles : InCall(k) => event[k] # e
    BY <1>2 DEF CallInv, CallOK
  <1>5. OneFramePerCall'
    BY <1>1, <1>2, <1>3 DEF CallInv, OneFramePerCall
  <1>6. AckedDurable'
    BY <1>1, <1>2 DEF CallInv, AckedDurable
  <1>7. \A k \in Handles : CallOK(k)'
    BY <1>1, <1>2, <1>3, <1>4 DEF CallInv, CallOK, InCall
  <1>8. \A h1, h2 \in Handles :
          InCall(h1)' /\ InCall(h2)' /\ event'[h1] = event'[h2] => h1 = h2
    BY <1>1, <1>2, <1>4 DEF CallInv, InCall
  <1> QED
    BY <1>5, <1>6, <1>7, <1>8 DEF CallInv

LEMMA AppendKeepsCallInv ==
  ASSUME ChainInv, CallInv, NEW h \in Handles, AppendCommits(h)
  PROVE  CallInv'
  <1>n. PICK n : n = head.next
    OBVIOUS
  <1>1. /\ pc \in [Handles -> PCs] /\ n \in Nat /\ DOMAIN frames = 0 .. n - 1
        /\ outcome \in [Events -> Outcomes]
        /\ cursor \in [Handles -> Nat] /\ pc[h] = "append"
        /\ \A k \in Handles : pc[k] = "project" => cursor[k] \in DOMAIN frames
    BY <1>n DEF AppendCommits, ChainInv, ChainLinked, TypeOK, HeadRecord, HandleOK
  <1>2. /\ DOMAIN frames' = 0 .. n
        /\ \A s \in DOMAIN frames : frames'[s] = frames[s]
        /\ frames'[n].event = event[h]
    <2>1. /\ frames' = Put(frames, n, NewFrame(h)) /\ NewFrame(h).event = event[h]
          /\ DOMAIN frames' = 0 .. n
          /\ \A s \in DOMAIN frames : frames'[s] = frames[s]
      BY <1>n, AppendKeepsChain
    <2> QED
      BY <2>1 DEF Put
  <1>3. /\ UNCHANGED <<projected, event, outcome>>
        /\ cursor' = [cursor EXCEPT ![h] = n]
        /\ pc' = [pc EXCEPT ![h] = "project"]
    BY <1>n DEF AppendCommits, WriteFrame, HeadIsCurrent, Goto
  <1>4. \A s \in DOMAIN frames' : s \in DOMAIN frames \/ s = n
    BY <1>1, <1>2
  <1>5. /\ \A s \in DOMAIN frames : frames[s].event # event[h]
        /\ outcome[event[h]] = "pending" /\ InCall(h)
    BY <1>1 DEF CallInv, CallOK, InCall
  <1>6. OneFramePerCall'
    <2>1. \A s1, s2 \in DOMAIN frames' : frames'[s1].event = frames'[s2].event => s1 = s2
      BY <1>2, <1>4, <1>5 DEF CallInv, OneFramePerCall
    <2>2. \A s \in DOMAIN frames' :
            outcome'[frames'[s].event] \in {"pending", "acked", "failed", "lost"}
      BY <1>2, <1>3, <1>4, <1>5 DEF CallInv, OneFramePerCall
    <2> QED
      BY <2>1, <2>2 DEF OneFramePerCall
  <1>7. AckedDurable'
    BY <1>1, <1>2, <1>3 DEF CallInv, AckedDurable
  <1>8. ASSUME NEW k \in Handles PROVE CallOK(k)'
    <2>1. CASE k = h
      BY <1>1, <1>2, <1>3, <1>5, <2>1 DEF CallOK, InCall
    <2>2. CASE k # h
      <3>1. pc'[k] = pc[k] /\ cursor'[k] = cursor[k]
        BY <1>1, <1>3, <2>2
      <3>2. InCall(k) => event[k] # event[h]
        BY <1>5, <2>2 DEF CallInv
      <3>3. CallOK(k)
        BY DEF CallInv
      <3>4. pc[k] \in {"readHead", "append"} =>
              \A s \in DOMAIN frames' : frames'[s].event # event[k]
        BY <1>2, <1>4, <3>2, <3>3 DEF CallOK, InCall
      <3>5. pc[k] = "project" => frames'[cursor[k]].event = event[k]
        BY <1>1, <1>2, <3>3 DEF CallOK
      <3> QED
        BY <1>3, <3>1, <3>3, <3>4, <3>5 DEF CallOK, InCall
    <2> QED
      BY <2>1, <2>2
  <1>9. \A h1, h2 \in Handles :
          InCall(h1)' /\ InCall(h2)' /\ event'[h1] = event'[h2] => h1 = h2
    BY <1>1, <1>3 DEF CallInv, InCall
  <1> QED
    BY <1>6, <1>7, <1>8, <1>9 DEF CallInv

LEMMA CrashKeepsCallInv ==
  ASSUME ChainInv, CallInv, Crash
  PROVE  CallInv'
  <1>1. /\ outcome \in [Events -> Outcomes]
        /\ \A s \in DOMAIN frames : frames[s].event \in Events
    BY DEF ChainInv, TypeOK, Frame
  <1>2. OneFramePerCall' /\ AckedDurable'
    BY <1>1 DEF Crash, durable, CallInv, OneFramePerCall, AckedDurable
  <1>3. \A k \in Handles : CallOK(k)' /\ ~InCall(k)'
    BY DEF Crash, CallOK, InCall
  <1> QED
    BY <1>2, <1>3 DEF CallInv

LEMMA CallStep == ChainInv /\ CallInv /\ [Next]_vars => CallInv'
  <1> SUFFICES ASSUME ChainInv, CallInv, [Next]_vars PROVE CallInv'
    OBVIOUS
  <1>0. /\ pc \in [Handles -> PCs] /\ cursor \in [Handles -> Nat]
        /\ \A k \in Handles : pc[k] = "project" => cursor[k] \in DOMAIN frames
    BY DEF ChainInv, ChainLinked, TypeOK, HeadRecord, HandleOK
  <1>1. ASSUME NEW h \in Handles, NEW e \in Events, BeginAppend(h, e) PROVE CallInv'
    BY <1>1, BeginKeepsCallInv
  <1>2. ASSUME NEW h \in Handles, AppendCommits(h) PROVE CallInv'
    BY <1>2, AppendKeepsCallInv
  <1>3. ASSUME NEW h \in Handles, AppendRejected(h) PROVE CallInv'
    <2>1. /\ InCall(h) /\ pc[h] # "project" /\ Return(h, "sealed")
          /\ UNCHANGED <<frames, cursor, projected>>
      BY <1>3 DEF AppendRejected, InCall, durable
    <2> QED
      BY <2>1, ReturnKeepsCallInv
  <1>4. ASSUME NEW h \in Handles, AppendExhausted(h) PROVE CallInv'
    <2>1. /\ InCall(h) /\ pc[h] # "project" /\ Return(h, "conflict")
          /\ UNCHANGED <<frames, cursor, projected>>
      BY <1>4 DEF AppendExhausted, Conflicts, InCall, durable
    <2> QED
      BY <2>1, ReturnKeepsCallInv
  <1>5. ASSUME NEW h \in Handles, Project(h) PROVE CallInv'
    <2>1. /\ InCall(h) /\ pc[h] = "project" /\ Return(h, "acked")
          /\ UNCHANGED <<frames, cursor>>
          /\ DOMAIN projected' = DOMAIN projected \union {cursor[h]}
      BY <1>5 DEF Project, InCall, Persist, Put
    <2> QED
      BY <2>1, ReturnKeepsCallInv
  <1>6. ASSUME NEW h \in Handles, AppendFails(h) PROVE CallInv'
    <2>1. /\ InCall(h) /\ Return(h, "failed") /\ UNCHANGED <<frames, cursor, projected>>
      BY <1>6 DEF AppendFails, InCall, durable
    <2> QED
      BY <2>1, ReturnKeepsCallInv
  <1>7. ASSUME Crash PROVE CallInv'
    BY <1>7, CrashKeepsCallInv
  <1>8. ASSUME NEW h \in Handles, ReconcileFrame(h) PROVE CallInv'
    <2>1. /\ UNCHANGED <<frames, event, outcome, pc>> /\ pc[h] = "reconcile"
          /\ DOMAIN projected \subseteq DOMAIN projected'
          /\ \A k \in Handles : k # h => cursor'[k] = cursor[k]
      BY <1>0, <1>8 DEF ReconcileFrame, Persist, Put
    <2> QED
      BY <2>1, OtherKeepsCallInv DEF InCall
  <1>9. ASSUME NEW h \in Handles, Open(h) \/ Opened(h) \/ OpenFails(h) PROVE CallInv'
    <2>1. /\ UNCHANGED <<frames, projected, event, outcome>>
          /\ pc'[h] \in {"reconcile", "ready", "closed"}
          /\ \A k \in Handles : k # h => pc'[k] = pc[k] /\ cursor'[k] = cursor[k]
      BY <1>0, <1>9 DEF Open, Opened, OpenFails, Goto, durable
    <2> QED
      BY <2>1, OtherKeepsCallInv DEF InCall
  <1>10. ASSUME NEW h \in Handles, ReadHead(h) \/ AppendConflicts(h) PROVE CallInv'
    <2>1. /\ UNCHANGED <<frames, projected, event, outcome, cursor>>
          /\ pc[h] \in {"readHead", "append"} /\ pc'[h] \in {"readHead", "append"}
          /\ \A k \in Handles : k # h => pc'[k] = pc[k]
      BY <1>0, <1>10 DEF ReadHead, AppendConflicts, Conflicts, Goto, durable
    <2> QED
      BY <2>1, OtherKeepsCallInv DEF InCall
  <1>11. ASSUME NEW h \in Handles,
                \/ BeginSeal(h) \/ SealReadHead(h) \/ AlreadySealed(h)
                \/ SealCommits(h) \/ SealConflicts(h) \/ SealFails(h)
         PROVE  CallInv'
    <2>1. /\ UNCHANGED <<frames, projected, event, outcome, cursor>>
          /\ pc'[h] \in {"ready", "sealReadHead", "seal"}
          /\ \A k \in Handles : k # h => pc'[k] = pc[k]
      BY <1>0, <1>11 DEF BeginSeal, SealReadHead, AlreadySealed, SealCommits, WriteSeal,
         SealConflicts, SealFails, Goto, durable
    <2> QED
      BY <2>1, OtherKeepsCallInv DEF InCall
  <1>12. ASSUME UNCHANGED vars PROVE CallInv'
    BY <1>12, OtherKeepsCallInv DEF vars, durable, local, InCall
  <1> QED
    BY <1>1, <1>2, <1>3, <1>4, <1>5, <1>6, <1>7, <1>8, <1>9, <1>10, <1>11, <1>12
    DEF Next, HandleStep, HandleFault

\* However often an append call is retried, it leaves at most one frame, and
\* none when it was turned away.
THEOREM AtMostOneFrame == Spec => []OneFramePerCall
  <1>1. CallInv => OneFramePerCall
    BY DEF CallInv
  <1> QED
    BY <1>1, ChainInit, ChainStep, CallInit, CallStep, PTL DEF Spec

\* No acknowledged event is ever lost, nor its projection.
THEOREM AcknowledgedIsDurable == Spec => []AckedDurable
  <1>1. CallInv => AckedDurable
    BY DEF CallInv
  <1> QED
    BY <1>1, ChainInit, ChainStep, CallInit, CallStep, PTL DEF Spec

-----------------------------------------------------------------------------
(* Refinement: each step of the ledger is a step of the log or a stutter.  *)
LogOf == [i \in 1 .. head.next |-> frames[i - 1].event]
AckedOf == {e \in Events : outcome[e] = "acked"}

LEMMA LogInit == Init => Log!Init
  <1> SUFFICES ASSUME Init PROVE LogOf = <<>> /\ head.sealed = FALSE /\ AckedOf = {}
    BY DEF Log!Init, LogOf, AckedOf
  <1> QED
    BY DEF Init, LogOf, AckedOf

LEMMA LogGrows ==
  ASSUME ChainInv, CallInv, NEW h \in Handles, AppendCommits(h)
  PROVE  Log!Next
  <1>n. PICK n : n = head.next
    OBVIOUS
  <1>e. PICK e : e = event[h]
    OBVIOUS
  <1>1. /\ n \in Nat /\ DOMAIN frames = 0 .. n - 1 /\ head.sealed = FALSE
        /\ e \in Events /\ UNCHANGED outcome
        /\ \A s \in DOMAIN frames : frames[s].event \in Events
    BY <1>n, <1>e DEF AppendCommits, WriteFrame, ChainInv, ChainLinked, TypeOK, HeadRecord, HandleOK, Frame
  <1>2. /\ head'.next = n + 1 /\ head'.sealed = FALSE
        /\ \A s \in DOMAIN frames : frames'[s] = frames[s]
        /\ frames' = Put(frames, n, NewFrame(h)) /\ NewFrame(h).event = e
    BY <1>n, <1>e, AppendKeepsChain
  <1>3. frames'[n].event = e
    BY <1>2 DEF Put
  <1>4. \A s \in DOMAIN frames : frames[s].event # e
    BY <1>e DEF AppendCommits, CallInv, CallOK
  <1>5. LogOf = [i \in 1 .. n |-> frames[i - 1].event]
    BY <1>n DEF LogOf
  <1>6. LogOf' = [i \in 1 .. n + 1 |-> frames'[i - 1].event]
    BY <1>2 DEF LogOf
  <1>7. e \notin Log!Recorded
    <2> SUFFICES ASSUME NEW i \in 1 .. n PROVE frames[i - 1].event # e
      BY <1>n DEF Log!Recorded
    <2> QED
      BY <1>1, <1>4
  <1>8. LogOf' = Append(LogOf, e)
    <2>1. LogOf \in Seq(Events) /\ Len(LogOf) = n
      BY <1>1, <1>5
    <2>2. /\ Append(LogOf, e) \in Seq(Events)
          /\ Len(Append(LogOf, e)) = n + 1
          /\ \A i \in 1 .. n : Append(LogOf, e)[i] = LogOf[i]
          /\ Append(LogOf, e)[n + 1] = e
      BY <1>1, <2>1
    <2>3. ASSUME NEW i \in 1 .. n + 1 PROVE LogOf'[i] = Append(LogOf, e)[i]
      <3>1. CASE i = n + 1
        BY <1>1, <1>3, <1>6, <2>2, <3>1
      <3>2. CASE i \in 1 .. n
        <4>1. i - 1 \in DOMAIN frames
          BY <1>1, <3>2
        <4> QED
          BY <1>1, <1>2, <1>5, <1>6, <2>2, <3>2, <4>1
      <3>3. i = n + 1 \/ i \in 1 .. n
        BY <1>1
      <3> QED
        BY <3>1, <3>2, <3>3
    <2>4. LogOf' \in Seq(Events) /\ Len(LogOf') = n + 1
      <3>1. ASSUME NEW i \in 1 .. n + 1 PROVE frames'[i - 1].event \in Events
        BY <1>1, <1>2, <1>3, <3>1
      <3> QED
        BY <1>1, <1>6, <3>1
    <2> QED
      BY <1>1, <2>2, <2>3, <2>4
  <1>9. Log!Record(e)
    BY <1>1, <1>2, <1>7, <1>8 DEF Log!Record, LogOf
  <1> QED
    BY <1>1, <1>9 DEF Log!Next

LEMMA LogStep == ChainInv /\ CallInv /\ [Next]_vars => [Log!Next]_(Log!logVars)
  <1> SUFFICES ASSUME ChainInv, CallInv, [Next]_vars
               PROVE  Log!Next \/ UNCHANGED <<LogOf, head.sealed, AckedOf>>
    BY DEF Log!logVars, LogOf, AckedOf
  <1>0. outcome \in [Events -> Outcomes]
    BY DEF ChainInv, TypeOK
  <1>1. ASSUME NEW h \in Handles, AppendCommits(h) PROVE Log!Next
    BY <1>1, LogGrows
  <1>2. ASSUME NEW h \in Handles, SealCommits(h) PROVE Log!Next
    <2>1. /\ head'.next = head.next /\ head'.sealed = TRUE
          /\ UNCHANGED <<frames, outcome>>
      BY <1>2 DEF SealCommits, WriteSeal, ChainInv, TypeOK, HeadRecord
    <2> QED
      BY <2>1 DEF Log!Next, Log!Seal
  <1>3. ASSUME NEW h \in Handles, Project(h) PROVE Log!Next
    <2>e. PICK e : e = event[h]
      OBVIOUS
    <2>1. /\ e \in Events /\ UNCHANGED <<frames, head>>
          /\ outcome' = [outcome EXCEPT ![e] = "acked"]
          /\ cursor[h] \in 0 .. head.next - 1 /\ head.next \in Nat
          /\ frames[cursor[h]].event = e
      BY <1>3, <2>e DEF Project, Return, ChainInv, TypeOK, HeadRecord, HandleOK, CallInv, CallOK
    <2>2. e \in Log!Recorded
      <3>1. cursor[h] + 1 \in 1 .. head.next /\ (cursor[h] + 1) - 1 = cursor[h]
        BY <2>1
      <3> QED
        BY <2>1, <3>1 DEF Log!Recorded
    <2>3. AckedOf' = AckedOf \union {e}
      BY <1>0, <2>1 DEF AckedOf
    <2>4. Log!Acknowledge(e)
      BY <2>1, <2>2, <2>3 DEF Log!Acknowledge, AckedOf
    <2> QED
      BY <2>1, <2>4 DEF Log!Next
  <1>4. ASSUME NEW h \in Handles, NEW r, r # "acked", Return(h, r), UNCHANGED durable,
               outcome[event[h]] = "pending" \/ event[h] \notin Events
        PROVE  UNCHANGED <<LogOf, head.sealed, AckedOf>>
    <2>1. AckedOf' = AckedOf
      BY <1>0, <1>4 DEF AckedOf, Return
    <2> QED
      BY <1>4, <2>1 DEF LogOf, durable
  <1>5. ASSUME NEW h \in Handles, AppendRejected(h) \/ AppendExhausted(h) \/ AppendFails(h)
        PROVE  UNCHANGED <<LogOf, head.sealed, AckedOf>>
    <2>1. outcome[event[h]] = "pending" /\ UNCHANGED durable
      BY <1>5 DEF AppendRejected, AppendExhausted, Conflicts, AppendFails, CallInv, CallOK, InCall
    <2>2. Return(h, "sealed") \/ Return(h, "conflict") \/ Return(h, "failed")
      BY <1>5 DEF AppendRejected, AppendExhausted, AppendFails
    <2> QED
      BY <1>4, <2>1, <2>2
  <1>6. ASSUME NEW h \in Handles, NEW e \in Events, BeginAppend(h, e)
        PROVE  UNCHANGED <<LogOf, head.sealed, AckedOf>>
    <2>1. AckedOf' = AckedOf
      BY <1>0, <1>6 DEF AckedOf, BeginAppend
    <2> QED
      BY <1>6, <2>1 DEF BeginAppend, durable, LogOf
  <1>7. ASSUME Crash PROVE UNCHANGED <<LogOf, head.sealed, AckedOf>>
    <2>1. AckedOf' = AckedOf
      BY <1>0, <1>7 DEF AckedOf, Crash
    <2> QED
      BY <1>7, <2>1 DEF Crash, durable, LogOf
  <1>8. ASSUME UNCHANGED <<frames, head, outcome>>
        PROVE  UNCHANGED <<LogOf, head.sealed, AckedOf>>
    BY <1>8 DEF LogOf, AckedOf
  <1>9. ASSUME NEW h \in Handles,
               \/ Open(h) \/ ReconcileFrame(h) \/ Opened(h) \/ ReadHead(h)
               \/ AppendConflicts(h) \/ BeginSeal(h) \/ SealReadHead(h) \/ AlreadySealed(h)
               \/ SealConflicts(h) \/ OpenFails(h) \/ SealFails(h)
        PROVE  UNCHANGED <<frames, head, outcome>>
    BY <1>9 DEF Open, ReconcileFrame, Opened, ReadHead, AppendConflicts, Conflicts, BeginSeal,
       SealReadHead, AlreadySealed, SealConflicts, OpenFails, SealFails, durable
  <1>10. ASSUME UNCHANGED vars PROVE UNCHANGED <<frames, head, outcome>>
    BY <1>10 DEF vars, durable
  <1> QED
    BY <1>1, <1>2, <1>3, <1>5, <1>6, <1>7, <1>8, <1>9, <1>10
    DEF Next, HandleStep, HandleFault

\* The ledger, with its frames, heads, retries, crashes and errors, is an
\* append-only log with a seal that acknowledges only what it recorded.
THEOREM LedgerIsALog == Spec => LogSpec
  <1>1. LogSpec <=> Log!Init /\ [][Log!Next]_(Log!logVars)
    BY DEF LogSpec, Log!Spec
  <1> QED
    BY <1>1, LogInit, LogStep, ChainInit, ChainStep, CallInit, CallStep, PTL DEF Spec

\* The seal is a permanent barrier, for appends in progress too.
THEOREM SealIsPermanent == Spec => SealIsFinal
  <1>1. [Next]_vars => [head.sealed => UNCHANGED <<frames, head, seal>>]_vars
    <2> SUFFICES ASSUME [Next]_vars, head.sealed PROVE UNCHANGED <<frames, head, seal>>
      OBVIOUS
    <2>1. ASSUME NEW h \in Handles, HandleStep(h) PROVE UNCHANGED <<frames, head, seal>>
      BY <2>1 DEF HandleStep, ReconcileFrame, Opened, ReadHead, AppendRejected, AppendCommits,
         AppendConflicts, AppendExhausted, Conflicts, Project, SealReadHead, AlreadySealed,
         SealCommits, SealConflicts, durable
    <2>2. ASSUME NEW h \in Handles, HandleFault(h) PROVE UNCHANGED <<frames, head, seal>>
      BY <2>2 DEF HandleFault, AppendFails, OpenFails, SealFails, durable
    <2>3. ASSUME NEW h \in Handles, NEW e \in Events,
                 Open(h) \/ BeginSeal(h) \/ BeginAppend(h, e)
          PROVE  UNCHANGED <<frames, head, seal>>
      BY <2>3 DEF Open, BeginSeal, BeginAppend, durable
    <2>4. Crash \/ UNCHANGED vars => UNCHANGED <<frames, head, seal>>
      BY DEF Crash, vars, durable
    <2>5. ASSUME NEW h \in Handles, Open(h) \/ BeginSeal(h)
          PROVE  UNCHANGED <<frames, head, seal>>
      BY <2>5 DEF Open, BeginSeal, durable
    <2> QED
      BY <2>1, <2>2, <2>3, <2>4, <2>5 DEF Next
  <1> QED
    BY <1>1, PTL DEF Spec, SealIsFinal

\* Frames and seal are at every moment what verify() asks of them.
THEOREM EvidenceStaysIntact == Spec => []EvidenceIntact
  <1> QED
    BY ChainIntact, SealCoversChain, PTL DEF EvidenceIntact

\* Every answer of append agrees with the chain, for good.
THEOREM AnswersStayTrue == Spec => []AnswersAreTrue
  <1> QED
    BY AtMostOneFrame, AcknowledgedIsDurable, PTL DEF AnswersAreTrue

-----------------------------------------------------------------------------
(* The projection.  What an opened handle saw is projected; a handle that   *)
(* is being opened has projected what is behind its cursor.                 *)
ProjectedTo(n) == 0 .. n - 1 \subseteq DOMAIN projected
RepairedBy(h) ==
  /\ pc[h] = "reconcile" => ProjectedTo(cursor[h])
  /\ pc[h] \notin {"closed", "reconcile"} => ProjectedTo(opened[h])
RepairInv == \A h \in Handles : RepairedBy(h)

\* Nothing is ever unprojected, so a handle that stays where it is keeps this.
LEMMA RepairedStays ==
  ASSUME ChainInv, NEW h \in Handles, RepairedBy(h), DOMAIN projected \subseteq DOMAIN projected',
         pc'[h] = "closed" \/ opened'[h] = opened[h],
         \/ pc'[h] = "closed"
         \/ pc[h] \notin {"closed", "reconcile"} /\ pc'[h] # "reconcile"
         \/ pc'[h] = pc[h] /\ cursor'[h] = cursor[h]
  PROVE  RepairedBy(h)'
  BY DEF RepairedBy, ProjectedTo

\* A step of one handle moves that handle only.
LEMMA RepairStep == ChainInv /\ RepairInv /\ [Next]_vars => RepairInv'
  <1> SUFFICES ASSUME ChainInv, RepairInv, [Next]_vars PROVE RepairInv'
    OBVIOUS
  <1>1. /\ pc \in [Handles -> PCs] /\ cursor \in [Handles -> Nat] /\ opened \in [Handles -> Nat]
        /\ \A h \in Handles : RepairedBy(h)
        /\ \A h \in Handles : pc[h] = "reconcile" => cursor[h] <= opened[h]
    BY DEF ChainInv, TypeOK, HandleOK, RepairInv
  <1>2. ASSUME NEW h \in Handles, DOMAIN projected \subseteq DOMAIN projected', RepairedBy(h)',
               \A k \in Handles \ {h} :
                 pc'[k] = pc[k] /\ cursor'[k] = cursor[k] /\ opened'[k] = opened[k]
        PROVE  RepairInv'
    BY <1>1, <1>2, RepairedStays DEF RepairInv
  <1>3. ASSUME NEW h \in Handles, Open(h) PROVE RepairInv'
    <2>1. /\ pc'[h] = "reconcile" /\ cursor'[h] = 0 /\ projected' = projected
          /\ \A k \in Handles \ {h} :
               pc'[k] = pc[k] /\ cursor'[k] = cursor[k] /\ opened'[k] = opened[k]
      BY <1>1, <1>3 DEF Open, Goto, durable
    <2>2. RepairedBy(h)'
      BY <2>1 DEF RepairedBy, ProjectedTo
    <2> QED BY <1>2, <2>1, <2>2
  <1>4. ASSUME NEW h \in Handles, ReconcileFrame(h) PROVE RepairInv'
    <2>1. /\ pc[h] = "reconcile" /\ pc' = pc /\ opened' = opened /\ cursor'[h] = cursor[h] + 1
          /\ DOMAIN projected' = DOMAIN projected \union {cursor[h]}
          /\ \A k \in Handles \ {h} : cursor'[k] = cursor[k]
      BY <1>1, <1>4 DEF ReconcileFrame, Persist, Put
    <2>2. 0 .. cursor[h] = 0 .. cursor[h] - 1 \union {cursor[h]} /\ cursor[h] \in Nat
      BY <1>1
    <2>3. RepairedBy(h)'
      BY <1>1, <2>1, <2>2 DEF RepairedBy, ProjectedTo
    <2> QED BY <1>2, <2>1, <2>3
  <1>5. ASSUME NEW h \in Handles, Opened(h) PROVE RepairInv'
    <2>1. /\ pc[h] = "reconcile" /\ cursor[h] = opened[h] /\ pc'[h] = "ready"
          /\ UNCHANGED <<projected, cursor, opened>>
          /\ \A k \in Handles \ {h} : pc'[k] = pc[k]
      BY <1>1, <1>5 DEF Opened, Goto, durable
    <2>2. RepairedBy(h)'
      BY <1>1, <2>1 DEF RepairedBy, ProjectedTo
    <2> QED BY <1>2, <2>1, <2>2
  <1>6. ASSUME NEW h \in Handles, OpenFails(h) PROVE RepairInv'
    <2>1. /\ pc'[h] = "closed" /\ UNCHANGED <<projected, cursor, opened>>
          /\ \A k \in Handles \ {h} : pc'[k] = pc[k]
      BY <1>1, <1>6 DEF OpenFails, Goto, durable
    <2> QED BY <1>1, <1>2, <2>1, RepairedStays
  <1>7. ASSUME NEW h \in Handles, AppendCommits(h) PROVE RepairInv'
    <2>1. /\ pc[h] = "append" /\ pc'[h] = "project" /\ UNCHANGED <<projected, opened>>
          /\ \A k \in Handles \ {h} : pc'[k] = pc[k] /\ cursor'[k] = cursor[k]
      BY <1>1, <1>7 DEF AppendCommits, WriteFrame, Goto
    <2> QED BY <1>1, <1>2, <2>1, RepairedStays
  <1>8. ASSUME NEW h \in Handles,
               \/ \E e \in Events : BeginAppend(h, e)
               \/ ReadHead(h) \/ AppendRejected(h) \/ AppendConflicts(h) \/ AppendExhausted(h)
               \/ Project(h) \/ BeginSeal(h) \/ SealReadHead(h) \/ AlreadySealed(h)
               \/ SealCommits(h) \/ SealConflicts(h) \/ AppendFails(h) \/ SealFails(h)
        PROVE  RepairInv'
    <2>1. /\ pc[h] \notin {"closed", "reconcile"} /\ UNCHANGED <<cursor, opened>>
          /\ pc'[h] \notin {"closed", "reconcile"}
          /\ \A k \in Handles \ {h} : pc'[k] = pc[k]
      BY <1>1, <1>8, SMTT(60)
      DEF BeginAppend, ReadHead, AppendRejected, AppendConflicts, AppendExhausted, Conflicts,
          Project, BeginSeal, SealReadHead, AlreadySealed, SealCommits, WriteSeal,
          SealConflicts, AppendFails, SealFails, Return, Goto
    <2>2. DOMAIN projected \subseteq DOMAIN projected'
      BY <1>8
      DEF BeginAppend, ReadHead, AppendRejected, AppendConflicts, AppendExhausted,
          Project, Persist, Put, BeginSeal, SealReadHead, AlreadySealed, SealCommits, WriteSeal,
          SealConflicts, AppendFails, SealFails, durable
    <2> QED BY <1>1, <1>2, <2>1, <2>2, RepairedStays
  <1>9. CASE Crash
    BY <1>9 DEF Crash, durable, RepairInv, RepairedBy
  <1>10. CASE UNCHANGED vars
    BY <1>10 DEF vars, durable, local, RepairInv, RepairedBy, ProjectedTo
  <1> QED
    BY <1>3, <1>4, <1>5, <1>6, <1>7, <1>8, <1>9, <1>10 DEF Next, HandleStep, HandleFault

\* An audit of an opened journal that was not extended finds what it looks for.
LEMMA AuditHolds ==
  ASSUME ChainInv, RepairInv
  PROVE  ProjectionRecovers
  <1>1. /\ head.next \in Nat /\ DOMAIN frames = 0 .. head.next - 1
        /\ head.last = LastHash(head.next) /\ ChainLinked /\ SealMatchesChain
        /\ ProjectionFaithful
    BY DEF ChainInv, TypeOK, HeadRecord, ChainLinked
  <1>2. OpenRepairs
    BY DEF RepairInv, RepairedBy, ProjectedTo, OpenRepairs
  <1>3. ASSUME NEW h \in Handles, pc[h] = "ready", opened[h] = Cardinality(DOMAIN frames),
               Cardinality(DOMAIN frames) <= Limit
        PROVE  Valid
    <2>1. Cardinality(DOMAIN frames) = head.next
      BY <1>1, FS_Interval
    <2>2. Visible = head.next
      BY <1>1, <1>3, <2>1, EvidenceLedgerAssumption DEF Visible, Least
    <2>3. 0 .. head.next - 1 \subseteq DOMAIN projected
      BY <1>2, <1>3, <2>1 DEF OpenRepairs
    <2>4. \A s \in 0 .. head.next - 1 :
            /\ s \in DOMAIN frames
            /\ frames[s].sequence = s /\ frames[s].previous = LastHash(s)
            /\ s \in DOMAIN projected /\ projected[s] = frames[s].event
      BY <1>1, <2>3 DEF ChainLinked, ProjectionFaithful
    <2>5. seal # NoSeal => seal = [count |-> head.next, root |-> LastHash(head.next)]
      BY <1>1 DEF SealMatchesChain
    <2> QED BY <2>2, <2>4, <2>5 DEF Valid
  <1> QED BY <1>1, <1>2, <1>3 DEF ProjectionRecovers, AuditPasses

\* Reconciliation heals the projection (TaskExecutionJournal::new), whoever else is
\* projecting and whatever crashed: what is projected is right, an opened journal
\* misses nothing it saw, and an audit of it passes.
THEOREM ReconciliationHeals == Spec => []ProjectionRecovers
  <1>1. Init => RepairInv
    BY DEF Init, RepairInv, RepairedBy
  <1> QED BY <1>1, AuditHolds, ChainInit, ChainStep, RepairStep, PTL DEF Spec

-----------------------------------------------------------------------------
(* Conflicts.  While a call holds a head it read, its conflicts were met    *)
(* before that head.                                                        *)
ProgressMade(h) ==
  /\ tries[h] <= head.next - since[h]
  /\ pc[h] \in {"append", "seal"} => tries[h] <= view[h].next - since[h]
ProgressInv == \A h \in Handles : ProgressMade(h)

\* Every step keeps that.
LEMMA ProgressStep == ChainInv /\ ProgressInv /\ [Next]_vars => ProgressInv'
  <1> SUFFICES ASSUME ChainInv, ProgressInv, [Next]_vars PROVE ProgressInv'
    OBVIOUS
  <1>1. /\ pc \in [Handles -> PCs] /\ tries \in [Handles -> 0 .. MaxRetries]
        /\ since \in [Handles -> Nat] /\ view \in [Handles -> HeadRecord]
        /\ head \in HeadRecord /\ MaxRetries \in Nat
        /\ \A h \in Handles : ProgressMade(h)
    BY EvidenceLedgerAssumption DEF ChainInv, TypeOK, ProgressInv
  <1>2. head.next \in Nat /\ \A h \in Handles : view[h].next \in Nat /\ tries[h] \in Nat
        /\ since[h] \in Nat
    BY <1>1 DEF HeadRecord
  \* Only a commit and a seal write the head.
  <1>3. ASSUME NEW h \in Handles, head'.next \in Nat, head'.next >= head.next, ProgressMade(h)',
               \A k \in Handles \ {h} : /\ pc'[k] = pc[k] /\ tries'[k] = tries[k]
                                        /\ view'[k] = view[k] /\ since'[k] = since[k]
        PROVE  ProgressInv'
    BY <1>1, <1>2, <1>3 DEF ProgressInv, ProgressMade
  <1>4. ASSUME NEW h \in Handles, Open(h) \/ ReconcileFrame(h) \/ Opened(h) \/ AppendRejected(h)
                 \/ Project(h) \/ AlreadySealed(h) \/ AppendFails(h) \/ OpenFails(h) \/ SealFails(h)
        PROVE  ProgressInv'
    <2>1. /\ UNCHANGED <<head, tries, view, since>>
          /\ pc'[h] \notin {"append", "seal"}
          /\ \A k \in Handles \ {h} : pc'[k] = pc[k]
      BY <1>1, <1>4
      DEF Open, ReconcileFrame, Opened, AppendRejected, Project, AlreadySealed, AppendFails,
          OpenFails, SealFails, Return, Goto, durable
    <2> QED BY <1>1, <1>2, <1>3, <2>1 DEF ProgressMade
  <1>5. ASSUME NEW h \in Handles, (\E e \in Events : BeginAppend(h, e)) \/ BeginSeal(h)
        PROVE  ProgressInv'
    <2>1. /\ head' = head /\ tries'[h] = 0 /\ since'[h] = head.next /\ view' = view
          /\ pc'[h] \notin {"append", "seal"}
          /\ \A k \in Handles \ {h} :
               pc'[k] = pc[k] /\ tries'[k] = tries[k] /\ since'[k] = since[k]
      BY <1>1, <1>5 DEF BeginAppend, BeginSeal, Goto, durable
    <2> QED BY <1>2, <1>3, <2>1 DEF ProgressMade
  <1>6. ASSUME NEW h \in Handles, ReadHead(h) \/ SealReadHead(h) PROVE ProgressInv'
    <2>1. /\ UNCHANGED <<head, tries, since>> /\ view'[h] = head
          /\ \A k \in Handles \ {h} : pc'[k] = pc[k] /\ view'[k] = view[k]
      BY <1>1, <1>6 DEF ReadHead, SealReadHead, Goto, durable
    <2> QED BY <1>1, <1>2, <1>3, <2>1 DEF ProgressMade
  <1>7. ASSUME NEW h \in Handles, AppendCommits(h) \/ SealCommits(h) PROVE ProgressInv'
    <2>1. /\ UNCHANGED <<tries, since, view>> /\ pc'[h] \notin {"append", "seal"}
          /\ \A k \in Handles \ {h} : pc'[k] = pc[k]
      BY <1>1, <1>7 DEF AppendCommits, WriteFrame, SealCommits, WriteSeal, Goto
    <2>2. head'.next \in Nat /\ head'.next >= head.next
      BY <1>1, <1>2, <1>7 DEF AppendCommits, WriteFrame, SealCommits, WriteSeal, HeadIsCurrent,
         HeadRecord
    <2> QED BY <1>1, <1>2, <1>3, <2>1, <2>2 DEF ProgressMade
  \* The head a call lost against is newer than the one it had read.
  <1>8. ASSUME NEW h \in Handles, AppendConflicts(h) \/ AppendExhausted(h) \/ SealConflicts(h)
        PROVE  ProgressInv'
    <2>1. /\ pc[h] \in {"append", "seal"} /\ UNCHANGED <<head, since, view>>
          /\ tries'[h] = tries[h] + 1 /\ pc'[h] \notin {"append", "seal"}
          /\ \A k \in Handles \ {h} : pc'[k] = pc[k] /\ tries'[k] = tries[k]
      BY <1>1, <1>8 DEF AppendConflicts, AppendExhausted, Conflicts, SealConflicts, Return, Goto,
         durable
    <2>2. /\ view[h].next <= head.next /\ view[h].last = LastHash(view[h].next)
          /\ head.last = LastHash(head.next) /\ DOMAIN frames = 0 .. head.next - 1
      BY <2>1 DEF ChainInv, HandleOK, ChainLinked
    <2>3. view[h].next < head.next
      BY <1>2, <1>8, <2>2
      DEF AppendConflicts, AppendExhausted, Conflicts, SealConflicts, HeadIsCurrent
    <2> QED BY <1>1, <1>2, <1>3, <2>1, <2>3 DEF ProgressMade
  <1>9. CASE Crash
    BY <1>1, <1>2, <1>9 DEF Crash, durable, ProgressInv, ProgressMade
  <1>10. CASE UNCHANGED vars
    BY <1>1, <1>10 DEF vars, durable, local, ProgressInv, ProgressMade
  <1> QED
    BY <1>4, <1>5, <1>6, <1>7, <1>8, <1>9, <1>10 DEF Next, HandleStep, HandleFault

\* A call is turned away only after others appended as often as it tried (append,
\* MAX_APPEND_RETRIES): its own retries never conflict with each other.
THEOREM RetriesMeanProgress == Spec => []RetryMeansProgress
  <1>1. Init => ProgressInv
    BY DEF Init, ProgressInv, ProgressMade
  <1>2. ProgressInv => RetryMeansProgress
    BY DEF ProgressInv, ProgressMade, RetryMeansProgress
  <1> QED BY <1>1, <1>2, ChainInit, ChainStep, ProgressStep, PTL DEF Spec
=============================================================================
