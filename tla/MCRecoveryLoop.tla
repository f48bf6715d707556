---------------------------- MODULE MCRecoveryLoop ----------------------------
(* RecoveryLoop for TLC: the shapes a generated plan can have after planning   *)
(* normalised it, and one external workflow.                                   *)
EXTENDS RecoveryLoop

At(i, r) == [at |-> i, role |-> r, deps |-> {i - 1} \ {0, 10}]
Linear == {At(1, "Plan"), At(2, "Do"), At(3, "Check"), At(4, "Act")}
Unplanned == {At(1, "Do"), At(2, "Check"), At(3, "Act")}
TwoDo == {At(1, "Do"), At(2, "Do"), At(3, "Check"), At(4, "Act")}
Direct == {At(1, "Do")}
Siblings == {At(1, "Do"), [At(2, "Do") EXCEPT !.deps = {}],
             [At(3, "Check") EXCEPT !.deps = {1, 2}], At(4, "Act")}
VerifyFirst == {At(11, "Check"), At(12, "Act")}

Of(steps, fallback, dag) ==
  [steps |-> steps, fallback |-> fallback, preflight |-> fallback # {}, dag |-> dag]

MCPlans == {Of(Linear, {}, FALSE), Of(TwoDo, {}, FALSE), Of(Direct, {}, FALSE),
            Of(Linear, {}, TRUE),
            Of(Siblings, {}, TRUE), Of(VerifyFirst, Unplanned, FALSE)}

\* The hypotheses of the theorems hold of these plans.
ASSUME PlanShapes == PlansImplementFirst /\ PlansStopCleanly /\ PlansOrdered
=============================================================================
