---------------------------- MODULE MCMemoryTiers ---------------------------
(***************************************************************************)
(* TLC instances of MemoryTiers.                                           *)
(***************************************************************************)
EXTENDS MemoryTiers, TLC

CONSTANTS p1, p2, n1, n2

MCProcs == {p1, p2}
MCNodes == {n1, n2}
MCSymmetry == Permutations(MCProcs) \union Permutations(MCNodes)
=============================================================================
