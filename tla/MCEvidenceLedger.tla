-------------------------- MODULE MCEvidenceLedger --------------------------
(***************************************************************************)
(* TLC instance of EvidenceLedger: two handles, three events, so that one  *)
(* call can be overtaken twice.                                            *)
(***************************************************************************)
EXTENDS EvidenceLedger
CONSTANTS h1, h2, e1, e2, e3
MCHandles == {h1, h2}
MCEvents == {e1, e2, e3}

\* Events are interchangeable, so it is enough to look at the behaviours that
\* take them up in this order.  (SYMMETRY is not for liveness; no action that
\* has fairness takes up an event.)
InOrder ==
  /\ outcome[e2] # "none" => outcome[e1] # "none"
  /\ outcome[e3] # "none" => outcome[e2] # "none"
=============================================================================
