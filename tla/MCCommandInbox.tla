--------------------------- MODULE MCCommandInbox ---------------------------
(***************************************************************************)
(* TLC instance of CommandInbox: the kinds of command offered to it.       *)
(***************************************************************************)
EXTENDS CommandInbox

CONSTANTS t1, t2, u1, u2

MCTasks == {t1, t2}
MCOneTask == {t1}
MCUsers == {u1, u2}
MCKinds == {"target", "context", "resume"}
MCControls == {"pause", "resume", "signal"}
MCSymmetry == Permutations(Users) \union Permutations(Tasks)
=============================================================================
