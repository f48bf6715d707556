----------------------------- MODULE EvidenceLog -----------------------------
(***************************************************************************)
(* What the task evidence ledger promises its users, without frames,       *)
(* heads, hashes or transactions: a log that only grows, one entry per     *)
(* event, until it is sealed; and an acknowledgement, given only for an    *)
(* event that is in the log.  EvidenceLedger implements it.                *)
(***************************************************************************)
EXTENDS Naturals, Sequences

CONSTANT Events

VARIABLES
  log,      \* the recorded events, in order
  sealed,   \* no event is recorded any more
  acked     \* events whose recording was acknowledged to the caller

logVars == <<log, sealed, acked>>

Recorded == {log[i] : i \in DOMAIN log}

Init == log = <<>> /\ sealed = FALSE /\ acked = {}

Record(e) ==
  /\ ~sealed
  /\ e \notin Recorded
  /\ log' = Append(log, e)
  /\ UNCHANGED <<sealed, acked>>

Acknowledge(e) ==
  /\ e \in Recorded
  /\ acked' = acked \union {e}
  /\ UNCHANGED <<log, sealed>>

Seal == sealed' = TRUE /\ UNCHANGED <<log, acked>>

Next == Seal \/ \E e \in Events : Record(e) \/ Acknowledge(e)

Spec == Init /\ [][Next]_logVars
=============================================================================
