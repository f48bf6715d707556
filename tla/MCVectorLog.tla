---------------------------- MODULE MCVectorLog -----------------------------
(***************************************************************************)
(* TLC instances of VectorLog.                                             *)
(***************************************************************************)
EXTENDS VectorLog, TLC

CONSTANTS i1, i2, c1, c2

MCIris == {i1, i2}
MCCheckpointers == {c1, c2}
MCSymmetry == Permutations(MCIris) \union Permutations(MCCheckpointers)
=============================================================================
