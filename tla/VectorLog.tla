----------------------------- MODULE VectorLog ------------------------------
(***************************************************************************)
(* The durability of the vector engine (crates/hyperspace-engine): the     *)
(* write-ahead log with its frozen segments (wal.rs), the two snapshot     *)
(* generations (snapshot.rs), and the mutations, the checkpoint and the    *)
(* recovery of the engine (engine.rs).  The process may die at any step,   *)
(* the machine may lose power and with it what was not synced, a write or  *)
(* an fsync of the log may fail, and a snapshot file may decay.            *)
(*                                                                         *)
(* A document is its IRI and the number of the attempt that wrote it; the  *)
(* HNSW graph, the metadata, the lexical index and the vector slots are    *)
(* written together under one lock and stand here as one map.              *)
(***************************************************************************)
EXTENDS Naturals, Sequences, FiniteSets, FiniteSetsExt

CONSTANTS
  Iris, Checkpointers,
  Absent, Damaged,   \* a snapshot file that is not there, or fails its digest
  MaxAttempts,       \* bound on mutations
  MaxFrozen,         \* bound on frozen segments
  MaxIoErrors,       \* EngineWal::MAX_IO_ERRORS
  MaxFaults,         \* bound on failed calls, process deaths and power losses
  MaxDamage,         \* bound on decayed snapshot files
  MaxCheckpoints     \* bound on checkpoints

ImageType == [clock : 0..MaxAttempts, docs : [Iris -> 0..MaxAttempts], known : SUBSET Iris]
ASSUME VectorLogAssumption ==
  /\ MaxAttempts \in Nat /\ MaxFrozen \in Nat /\ MaxIoErrors \in Nat \ {0}
  /\ MaxFaults \in Nat /\ MaxDamage \in Nat /\ MaxCheckpoints \in Nat
  /\ Absent # Damaged /\ Absent \notin ImageType /\ Damaged \notin ImageType

VARIABLES
  up,                          \* the engine is open and holds wal.lock
  state,                       \* clock, indexed documents, IRI registry
  errors,                      \* io_error_count
  active, synced,              \* active.wal and how many of its records are on the disk
  frozen,                      \* the frozen.*.wal files in the order of their names
  current, previous, staged,   \* index.snapshot, its .previous and its .next
  pc, covered,                 \* per checkpoint, its step and previous_snapshot_clock
  faults, damages, checkpoints,
  \* History: the attempts in order; those answered Ok; those a sync has covered;
  \* those appended to a segment that already held a torn record; how many attempts
  \* there had been when the engine was last opened.
  attempts, acked, sure, shadowed, opened

log == <<active, synced, frozen>>
files == <<current, previous, staged>>
bounds == <<faults, damages, checkpoints>>
history == <<attempts, acked, sure, shadowed, opened>>
vars == <<up, state, errors, log, files, pc, covered, bounds, history>>

Empty == [clock |-> 0, docs |-> [i \in Iris |-> 0], known |-> {}]
Init ==
  /\ up = TRUE /\ state = Empty /\ errors = 0
  /\ active = <<>> /\ synced = 0 /\ frozen = <<>>
  /\ current = Absent /\ previous = Absent /\ staged = Absent
  /\ pc = [c \in Checkpointers |-> "idle"] /\ covered = [c \in Checkpointers |-> 0]
  /\ faults = 0 /\ damages = 0 /\ checkpoints = 0
  /\ attempts = <<>> /\ acked = {} /\ sure = {} /\ shadowed = {} /\ opened = 0

Valid(file) == file \notin {Absent, Damaged}

-----------------------------------------------------------------------------
(* Replay: a segment is read up to its first torn record and cut there.    *)

Torn(segment) == \E k \in DOMAIN segment : ~segment[k].whole
Healed(segment) ==
  LET torn == {k \in DOMAIN segment : ~segment[k].whole}
  IN  IF torn = {} THEN segment ELSE SubSeq(segment, 1, Min(torn) - 1)

Put(docs, known, record) ==
  IF record.delete THEN [docs |-> [docs EXCEPT ![record.iri] = 0], known |-> known]
  ELSE [docs |-> [docs EXCEPT ![record.iri] = record.attempt],
        known |-> known \union {record.iri}]
Replay(base, record) ==
  IF record.clock <= base.clock THEN base
  ELSE LET after == Put(base.docs, base.known, record)
       IN  [clock |-> record.clock, docs |-> after.docs, known |-> after.known]
Replayed(base, records) ==
  LET after[n \in 0..Len(records)] == IF n = 0 THEN base ELSE Replay(after[n - 1], records[n])
  IN  after[Len(records)]

\* Segment after segment.
ReplayedAll(base, segments) ==
  LET after[n \in 0..Len(segments)] ==
        IF n = 0 THEN base ELSE Replayed(after[n - 1], Healed(segments[n]))
  IN  after[Len(segments)]
Recover(base, segments, last) == ReplayedAll(base, Append(segments, last))
Newest(cur, prev) == IF Valid(cur) THEN cur ELSE IF Valid(prev) THEN prev ELSE Empty

-----------------------------------------------------------------------------
(* insert, upsert and delete hold write_barrier to their end, and so does  *)
(* a checkpoint once it has read the clock of the current generation.      *)

Locked == \E c \in Checkpointers : pc[c] \notin {"idle", "read"}
Attempt(i, delete) ==
  [iri |-> i, delete |-> delete, clock |-> state.clock + 1, attempt |-> Len(attempts) + 1,
   whole |-> TRUE]

\* Every call draws a clock and registers its IRI, whatever becomes of the record.
Begin(i, delete) ==
  /\ up /\ ~Locked /\ Len(attempts) < MaxAttempts
  /\ delete => i \in state.known
  /\ attempts' = Append(attempts, [iri |-> i, delete |-> delete])
  /\ UNCHANGED <<up, files, pc, covered, damages, checkpoints, opened>>
\* Mutant: the clock does not advance.
DrawnSameClock(i, delete) ==
  [state EXCEPT !.clock = IF @ = 0 THEN 1 ELSE @,
                !.known = IF delete THEN @ ELSE @ \union {i}]
Drawn(i, delete) ==
  [state EXCEPT !.clock = @ + 1, !.known = IF delete THEN @ ELSE @ \union {i}]

\* The packet would exceed MAX_SIZE: the active file is synced and renamed first.
Segments(rotate) == IF rotate THEN [old |-> Append(frozen, active), new |-> <<>>]
                    ELSE [old |-> frozen, new |-> active]
MayRotate(rotate) == rotate => active # <<>> /\ Len(frozen) < MaxFrozen
SyncedBefore(rotate) == IF rotate THEN 0 ELSE synced
SureBefore(rotate) == IF rotate THEN acked ELSE sure

\* rotate: the size limit is reached; sync: the batch interval has elapsed.
Write(i, delete, rotate, sync) ==
  /\ Begin(i, delete) /\ errors < MaxIoErrors /\ MayRotate(rotate)
  /\ LET record == Attempt(i, delete)
         segs == Segments(rotate)
         n == record.attempt
     IN  /\ frozen' = segs.old /\ active' = Append(segs.new, record)
         /\ synced' = IF sync THEN Len(segs.new) + 1 ELSE SyncedBefore(rotate)
         /\ state' = [Drawn(i, delete) EXCEPT !.docs[i] = IF delete THEN 0 ELSE n]
         /\ acked' = acked \union {n}
         /\ sure' = IF sync THEN acked \union {n} ELSE SureBefore(rotate)
         /\ shadowed' = IF Torn(segs.new) THEN shadowed \union {n} ELSE shadowed
  /\ errors' = 0 /\ UNCHANGED faults

\* write_all fails after some bytes: they stay in the file.
WriteTorn(i, delete, rotate) ==
  /\ Begin(i, delete) /\ errors < MaxIoErrors /\ MayRotate(rotate) /\ faults < MaxFaults
  /\ LET segs == Segments(rotate)
     IN  /\ frozen' = segs.old
         /\ active' = Append(segs.new, [Attempt(i, delete) EXCEPT !.whole = FALSE])
  /\ synced' = SyncedBefore(rotate) /\ sure' = SureBefore(rotate)
  /\ state' = Drawn(i, delete) /\ errors' = errors + 1 /\ faults' = faults + 1
  /\ UNCHANGED <<acked, shadowed>>

\* Mutant: the record is applied although its append was answered with an error.
UnsyncedApplied(i, delete, rotate) ==
  /\ Begin(i, delete) /\ errors < MaxIoErrors /\ MayRotate(rotate) /\ faults < MaxFaults
  /\ LET segs == Segments(rotate)
     IN  /\ frozen' = segs.old /\ active' = Append(segs.new, Attempt(i, delete))
  /\ synced' = SyncedBefore(rotate) /\ sure' = SureBefore(rotate)
  /\ state' = [Drawn(i, delete) EXCEPT !.docs[i] = IF delete THEN 0 ELSE Len(attempts) + 1]
  /\ faults' = faults + 1
  /\ UNCHANGED <<errors, acked, shadowed>>
\* The fsync of the append fails: the caller gets an error, the record is in the file.
WriteUnsynced(i, delete, rotate) ==
  /\ Begin(i, delete) /\ errors < MaxIoErrors /\ MayRotate(rotate) /\ faults < MaxFaults
  /\ LET segs == Segments(rotate)
     IN  /\ frozen' = segs.old /\ active' = Append(segs.new, Attempt(i, delete))
  /\ synced' = SyncedBefore(rotate) /\ sure' = SureBefore(rotate)
  /\ state' = Drawn(i, delete) /\ faults' = faults + 1
  /\ UNCHANGED <<errors, acked, shadowed>>

\* After MAX_IO_ERRORS failures in a row the log refuses until the engine is reopened.
WriteRefused(i, delete) ==
  /\ Begin(i, delete) /\ errors >= MaxIoErrors
  /\ state' = Drawn(i, delete)
  /\ UNCHANGED <<errors, log, faults, acked, sure, shadowed>>

-----------------------------------------------------------------------------
(* The checkpoint.  The covered clock is read before the barrier is taken. *)

\* Mutant: the clock of the snapshot about to be written.
ReadOwnClock(c) ==
  /\ up /\ pc[c] = "idle" /\ checkpoints < MaxCheckpoints
  /\ covered' = [covered EXCEPT ![c] = state.clock]
  /\ pc' = [pc EXCEPT ![c] = "read"]
  /\ checkpoints' = checkpoints + 1
  /\ UNCHANGED <<up, state, errors, log, files, faults, damages, history>>
ReadCovered(c) ==
  /\ up /\ pc[c] = "idle" /\ checkpoints < MaxCheckpoints
  /\ covered' = [covered EXCEPT ![c] = IF Valid(current) THEN current.clock ELSE 0]
  /\ pc' = [pc EXCEPT ![c] = "read"]
  /\ checkpoints' = checkpoints + 1
  /\ UNCHANGED <<up, state, errors, log, files, faults, damages, history>>

\* Mutant: the barrier is not taken.
StageUnlocked(c) ==
  /\ pc[c] = "read"
  /\ synced' = Len(active) /\ sure' = acked
  /\ staged' = state
  /\ pc' = [pc EXCEPT ![c] = "staged"]
  /\ UNCHANGED <<up, state, errors, active, frozen, current, previous, covered, bounds,
                 attempts, acked, shadowed, opened>>
\* write_barrier, wal.sync, the image of the common clock, written and synced beside.
Stage(c) ==
  /\ pc[c] = "read" /\ ~Locked
  /\ synced' = Len(active) /\ sure' = acked
  /\ staged' = state
  /\ pc' = [pc EXCEPT ![c] = "staged"]
  /\ UNCHANGED <<up, state, errors, active, frozen, current, previous, covered, bounds,
                 attempts, acked, shadowed, opened>>

\* The current file, whatever it holds, becomes the previous generation.
KeepPrevious(c) ==
  /\ pc[c] = "staged" /\ current # Absent
  /\ previous' = current /\ current' = Absent
  /\ pc' = [pc EXCEPT ![c] = "moved"]
  /\ UNCHANGED <<up, state, errors, log, staged, covered, bounds, history>>

Publish(c) ==
  /\ \/ pc[c] = "moved"
     \/ pc[c] = "staged" /\ current = Absent
  /\ current' = staged /\ staged' = Absent
  /\ pc' = [pc EXCEPT ![c] = "saved"]
  /\ UNCHANGED <<up, state, errors, log, previous, covered, bounds, history>>

\* The step is bounded by MaxFrozen only through the number of checkpoints.
Rotate(c) ==
  /\ pc[c] = "saved"
  /\ frozen' = Append(frozen, active) /\ active' = <<>> /\ synced' = 0
  /\ pc' = [pc EXCEPT ![c] = "rotated"]
  /\ UNCHANGED <<up, state, errors, files, covered, bounds, history>>

\* cleanup_frozen_through: heals every segment and removes those the clock covers.
MaxClock(segment) ==
  LET whole == Healed(segment) IN Max({0} \union {whole[k].clock : k \in DOMAIN whole})
Removable(segment, clock) == 0 < MaxClock(segment) /\ MaxClock(segment) <= clock
Cleaned(segments, clock) ==
  LET kept[n \in 0..Len(segments)] ==
        IF n = 0 THEN <<>>
        ELSE IF Removable(segments[n], clock) THEN kept[n - 1]
        ELSE Append(kept[n - 1], Healed(segments[n]))
  IN  kept[Len(segments)]
Cleanup(c) ==
  /\ pc[c] = "rotated"
  /\ frozen' = Cleaned(frozen, covered[c])
  /\ pc' = [pc EXCEPT ![c] = "idle"] /\ covered' = [covered EXCEPT ![c] = 0]
  /\ UNCHANGED <<up, state, errors, active, synced, files, bounds, history>>

\* Any file operation may fail; the barrier is released and nothing is undone.  A
\* cleanup that fails may have removed the first segments.
CheckpointFails(c) ==
  /\ pc[c] # "idle" /\ (pc[c] = "read" => ~Locked) /\ faults < MaxFaults
  /\ \/ UNCHANGED frozen
     \/ /\ pc[c] = "rotated" /\ frozen # <<>> /\ Removable(Head(frozen), covered[c])
        /\ frozen' = Tail(frozen)
  /\ pc' = [pc EXCEPT ![c] = "idle"] /\ covered' = [covered EXCEPT ![c] = 0]
  /\ faults' = faults + 1
  /\ UNCHANGED <<up, state, errors, active, synced, files, damages, checkpoints, history>>

-----------------------------------------------------------------------------
(* Death, decay and recovery.                                              *)

Stop ==
  /\ up /\ faults < MaxFaults /\ faults' = faults + 1
  /\ up' = FALSE /\ state' = Empty /\ errors' = 0
  /\ pc' = [c \in Checkpointers |-> "idle"] /\ covered' = [c \in Checkpointers |-> 0]
  /\ UNCHANGED <<frozen, files, damages, checkpoints, attempts, shadowed, opened>>
Crash == Stop /\ UNCHANGED <<active, synced, acked, sure>>
\* The unsynced end of the log is lost from some record on.
PowerLoss ==
  /\ Stop
  /\ \E kept \in synced..Len(active) : active' = SubSeq(active, 1, kept)
  /\ acked' = sure /\ UNCHANGED <<synced, sure>>

Damage ==
  /\ damages < MaxDamage /\ damages' = damages + 1
  /\ \/ Valid(current) /\ current' = Damaged /\ UNCHANGED <<previous, staged>>
     \/ Valid(previous) /\ previous' = Damaged /\ UNCHANGED <<current, staged>>
  /\ UNCHANGED <<up, state, errors, log, pc, covered, faults, checkpoints, history>>

\* Unreadable generations are deleted up to the first that loads.  Where files decayed
\* and no whole generation is left, nothing that was answered is owed any more.
Open ==
  /\ ~up /\ up' = TRUE /\ opened' = Len(attempts)
  /\ LET bare == damages > 0 /\ ~Valid(current) /\ ~Valid(previous)
     IN  acked' = (IF bare THEN {} ELSE acked) /\ sure' = (IF bare THEN {} ELSE sure)
  /\ state' = Recover(Newest(current, previous), frozen, active)
  /\ current' = IF Valid(current) THEN current ELSE Absent
  /\ previous' = IF Valid(current) \/ Valid(previous) THEN previous ELSE Absent
  /\ frozen' = [k \in DOMAIN frozen |-> Healed(frozen[k])]
  /\ active' = Healed(active) /\ synced' = Min({synced, Len(Healed(active))})
  /\ UNCHANGED <<staged, errors, pc, covered, bounds, attempts, shadowed>>

-----------------------------------------------------------------------------
Mutate(i) ==
  \/ \E delete, rotate, sync \in BOOLEAN : Write(i, delete, rotate, sync)
  \/ \E delete, rotate \in BOOLEAN : WriteTorn(i, delete, rotate)
  \/ \E delete, rotate \in BOOLEAN : WriteUnsynced(i, delete, rotate)
  \/ \E delete \in BOOLEAN : WriteRefused(i, delete)
Checkpoint(c) ==
  \/ ReadCovered(c)
  \/ Stage(c)
  \/ KeepPrevious(c)
  \/ Publish(c)
  \/ Rotate(c)
  \/ Cleanup(c)
  \/ CheckpointFails(c)
Next ==
  \/ \E i \in Iris : Mutate(i)
  \/ \E c \in Checkpointers : Checkpoint(c)
  \/ Crash
  \/ PowerLoss
  \/ Damage
  \/ Open
Spec == Init /\ [][Next]_vars

-----------------------------------------------------------------------------
(* Properties.                                                             *)

SegmentType ==
  Seq([iri : Iris, delete : BOOLEAN, clock : 1..MaxAttempts, attempt : 1..MaxAttempts,
       whole : BOOLEAN])
FileType == ImageType \union {Absent, Damaged}
Steps == {"idle", "read", "staged", "moved", "saved", "rotated"}

\* Every variable keeps its type, and the write barrier is held by one checkpoint.
TypeOK ==
  /\ up \in BOOLEAN /\ state \in ImageType /\ errors \in 0..MaxIoErrors
  /\ active \in SegmentType /\ synced \in 0..Len(active) /\ frozen \in Seq(SegmentType)
  /\ current \in FileType /\ previous \in FileType /\ staged \in FileType
  /\ pc \in [Checkpointers -> Steps] /\ covered \in [Checkpointers -> 0..MaxAttempts]
  /\ \A c, d \in Checkpointers :
       pc[c] \notin {"idle", "read"} /\ pc[d] \notin {"idle", "read"} => c = d
  /\ attempts \in Seq([iri : Iris, delete : BOOLEAN])
  /\ sure \subseteq acked /\ acked \subseteq DOMAIN attempts
  /\ shadowed \subseteq DOMAIN attempts /\ opened \in 0..Len(attempts)

\* What an attempt leaves for its IRI.
Outcome(n) == IF attempts[n].delete THEN 0 ELSE n
LastOf(kept, i) == Max({0} \union {n \in kept : attempts[n].iri = i})
\* The documents are those of the last kept attempt or of a later attempt, answered
\* or not.
Faithful(docs, kept) ==
  \A i \in Iris :
    LET last == LastOf(kept, i)
        later == {n \in DOMAIN attempts : attempts[n].iri = i /\ n >= last}
    IN  docs[i] \in {Outcome(n) : n \in later} \union (IF last = 0 THEN {0} ELSE {})
\* The log gives back what was answered, except what stands behind a torn record.
Kept == acked \ shadowed
Rebuilt(base) == Recover(base, frozen, active).docs

\* At every step, running or dead, each generation that is whole rebuilds, with the log
\* as it then is, every write that was answered: the current one, and the previous one
\* if the current should fail.
GenerationsSuffice ==
  \A file \in {current, previous} : Valid(file) => Faithful(Rebuilt(file), Kept)

\* Until there is a second generation the log alone rebuilds it all, so that the first
\* one may fail.
LogSuffices == previous = Absent /\ damages = 0 => Faithful(Rebuilt(Empty), Kept)

\* Checkpoints, rotations and pruning keep every answered write recoverable.
Recoverable == GenerationsSuffice /\ LogSuffices

\* The running engine never shows a write that failed in this process: once a mutation
\* of the document was answered since the engine was opened, it shows the last of these.
\* Before that it shows what the recovery made of the attempts up to then: the last of
\* them that the log keeps, or a later one, answered or not, that was in the log.
AnsweredHere(i) == {n \in acked : n > opened /\ attempts[n].iri = i}
FoundFor(i) == {n \in 1..opened : attempts[n].iri = i /\ n >= LastOf(Kept, i)}
Presented(i) ==
  IF AnsweredHere(i) # {} THEN state.docs[i] = Outcome(Max(AnsweredHere(i)))
  ELSE \/ \E n \in FoundFor(i) : state.docs[i] = Outcome(n)
       \/ LastOf(Kept, i) = 0 /\ state.docs[i] = 0
ViewFaithful == up => \A i \in Iris : Presented(i)

\* What a restart makes of the files agrees with what the running engine shows, except
\* for a document with an attempt later than the last one the log is sure to give back:
\* one that was reported as failed and may be in the log nevertheless, or one that was
\* answered and stands behind a torn record, where no replay gets.
RestartAgrees ==
  up /\ damages = 0 =>
    LET docs == Rebuilt(Newest(current, previous)) IN
    \A i \in Iris :
      \/ docs[i] = state.docs[i]
      \/ \E n \in DOMAIN attempts \ Kept : attempts[n].iri = i /\ n > LastOf(Kept, i)
=============================================================================
