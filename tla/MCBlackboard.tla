---------------------------- MODULE MCBlackboard ----------------------------
(***************************************************************************)
(* TLC instances of Blackboard.  A document of size 2 in the default graph *)
(* and one of size 1 in a named graph with another index key; single       *)
(* writes, a delete, the release of a subtree of two nodes, and a batch    *)
(* that lets one node grow before it lets another shrink.                  *)
(***************************************************************************)
EXTENDS Blackboard

CONSTANTS p1, p2, n1, n2

MCProcs == {p1, p2}
MCNodes == {n1, n2}
MCGraphs == {"default", "plan"}
MCKeys == {"type1", "type2"}

Doc(n, g, k, s, b) == [node |-> n, graph |-> g, key |-> k, size |-> s, blank |-> b]
Big(n) == Doc(n, "default", "type1", 2, FALSE)
Small(n) == Doc(n, "plan", "type2", 1, FALSE)
Blank(n) == Doc(n, "default", "type1", 1, TRUE)
MCCalls ==
  {[kind |-> "write", todo |-> <<Big(n2)>>], [kind |-> "write", todo |-> <<Blank(n2)>>],
   [kind |-> "write", todo |-> <<Big(n1), Small(n2)>>],
   [kind |-> "delete", todo |-> <<Big(n2)>>],
   [kind |-> "delete", todo |-> <<Big(n1), Big(n2)>>]}
MCDropCalls == {[kind |-> "write", todo |-> <<Big(n1)>>], [kind |-> "write", todo |-> <<Small(n2)>>]}
=============================================================================
