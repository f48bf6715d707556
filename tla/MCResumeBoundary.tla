--------------------------- MODULE MCResumeBoundary ---------------------------
(***************************************************************************)
(* Plans for model-checking ResumeBoundary.                                *)
(***************************************************************************)
EXTENDS ResumeBoundary

\* a Plan node, then a Do node
Chain == <<1, 2>>
\* two nodes in one wave
Pair == <<1, 1>>

FirstPlans == {1}
NoPlanner == {}
SecondHasChildren == {2}
NoChildren == {}

NoRetry == <<0, 0>>
RetryFirst == <<1, 0>>
===============================================================================
