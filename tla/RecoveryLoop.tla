---------------------------- MODULE RecoveryLoop ----------------------------
(***************************************************************************)
(* Recovery inside one task: what the supervisor does when an agent of a   *)
(* plan fails or the check agent rejects its work.                         *)
(*                                                                         *)
(* Two nested loops decide it. execute_plan (src/src/core/sa/execution.rs) *)
(* runs a plan wave by wave, reconciles the delivery of a workspace file,  *)
(* repeats the check agent or sends the implementation back to a Do agent  *)
(* within budgets of the whole task, and returns a result with a recovery  *)
(* marker.  process_task_with_context (src/src/core/sa/process.rs) reads   *)
(* the marker and runs the next cycle with the same plan, with a plan cut  *)
(* to the descendants of a failed step, or not at all.  The rules for both *)
(* are in src/src/core/recovery.rs.                                        *)
(*                                                                         *)
(* A plan is a set of steps; a step has its index in the list (its id), a  *)
(* role and the indices it depends on.  The order of the list is assumed   *)
(* to be topological.                                                      *)
(***************************************************************************)
EXTENDS Naturals, FiniteSets

CONSTANTS
  Plans,        \* plans a task can start with, see Plan
  Findings,     \* the concrete findings a failed audit can name
  MaxCycles,    \* AgentSettings.max_pdca_cycles
  MaxRepairs,   \* execution_budget.max_ca_da_corrections
  MaxRechecks,  \* execution_budget.max_ca_evidence_rechecks
  MaxReplans,   \* execution_budget.max_plan_revisions
  MaxCommands   \* bound on delivery targets the user names while the task runs

Roles == {"Plan", "Do", "Check", "Act"}
Step == [at : Nat, role : Roles, deps : SUBSET Nat]
Plan == [steps : SUBSET Step, fallback : SUBSET Step, preflight : BOOLEAN, dag : BOOLEAN]

Indices(p) == {t.at : t \in p}
OfRole(p, r) == {t \in p : t.role = r}
First(S) == CHOOSE t \in S : \A u \in S : t.at <= u.at
Last(S) == CHOOSE t \in S : \A u \in S : u.at <= t.at

ASSUME RecoveryLoopAssumption ==
  /\ Plans \subseteq Plan
  /\ \A p \in Plans : \A steps \in {p.steps, p.fallback} :
       /\ IsFiniteSet(steps)
       /\ \A s, t \in steps : s.at = t.at => s = t
       /\ \A t \in steps : t.at > 0 /\ \A d \in t.deps : d \in Indices(steps) /\ d < t.at
  /\ \A p \in Plans : p.steps # {} /\ (p.preflight => p.fallback # {})
  /\ MaxCycles \in Nat \ {0} /\ MaxRepairs \in Nat /\ MaxRechecks \in Nat
  /\ MaxReplans \in Nat /\ MaxCommands \in Nat

(***************************************************************************)
(* Cutting a plan to what a retry runs again.                              *)
(***************************************************************************)
Unknown == 0   \* the index of a step the marker does not name

\* recovery_descendant_step_ids: the smallest set with i in it that has every
\* step depending on one of its members.
Descendants(p, i) ==
  {j \in Indices(p) : \A S \in SUBSET Indices(p) :
     (i \in S /\ \A t \in p : t.deps \cap S # {} => t.at \in S) => j \in S}

\* scoped_recovery_plan: the descendants, without their other dependencies.
Scoped(p, i) ==
  LET kept == Descendants(p, i) IN
  {[t EXCEPT !.deps = @ \cap kept] : t \in {u \in p : u.at \in kept}}

Gates(p) == OfRole(p, "Check") \union OfRole(p, "Act")

\* Where scoped_retry_plan_for_decision starts an implementation retry: the
\* nearest Do step up to the reported one, else the first Do step, else the
\* reported step if it is a gate, else the first gate.
DoStart(p, reported) ==
  LET named == {t \in p : t.at = reported}
      nearest == {t \in OfRole(p, "Do") : named # {} /\ t.at <= reported}
  IN IF nearest # {} THEN {Last(nearest)}
     ELSE IF OfRole(p, "Do") # {} THEN {First(OfRole(p, "Do"))}
     ELSE IF named \cap Gates(p) # {} THEN named
     ELSE IF Gates(p) # {} THEN {First(Gates(p))} ELSE {}

CheckStart(p, reported) ==
  LET named == {t \in OfRole(p, "Check") : t.at = reported} IN
  IF named # {} THEN named
  ELSE IF OfRole(p, "Check") # {} THEN {First(OfRole(p, "Check"))} ELSE {}

\* scoped_retry_plan_for_decision, {} when it finds no boundary.  A retry of
\* the check agent must not reach a step that can mutate the workspace.
RetryPlan(p, directive, reported) ==
  LET start == IF directive = "RetryCa" THEN CheckStart(p, reported) ELSE DoStart(p, reported)
  IN IF start = {} THEN {}
     ELSE LET cut == Scoped(p, First(start).at) IN
          IF directive = "RetryCa" /\ \E t \in cut : t.role \notin {"Check", "Act"}
          THEN {} ELSE cut

(***************************************************************************)
(* Audits.  What a check agent's answer amounts to after                   *)
(* apply_ca_dimension_audit: it passes, it shows a defect (or a missing    *)
(* receipt of the implementation), it lacks evidence, it lacks the         *)
(* required form, or a dimension fails although no defect is shown.        *)
(***************************************************************************)
Audits == {"pass", "defect", "gap", "form", "unclear"}
NoReport == [class |-> "none", task |-> FALSE]
Report == [class : Audits, task : BOOLEAN]
Rejects(r) == r.class \notin {"none", "pass"}
EvidenceOnly(r) == r.class \in {"gap", "form"}

\* The signature track_non_convergence compares: the reason of the report and
\* its finding.
Reason(class) == IF class = "unclear" THEN "defect" ELSE class
NoSignature == [reason |-> "none", finding |-> 0]
Signature(class, f) == [reason |-> Reason(class), finding |-> f]

RewriteLimit == 1   \* CA_TERMINAL_CONTRACT_RECHECK_LIMIT

VARIABLES
  task,      \* the task's plan, as planning left it
  plan,      \* the steps of the running cycle
  pc,        \* where the two loops are
  cycle,     \* cycle_num
  scoped,    \* next_scoped_plan, {} for None
  past,      \* steps of this cycle that were dispatched or deferred
  wave,      \* answers of a wave that handle_step_result has yet to see
  report,    \* latest_ca_report
  spent,     \* PdcaRecoveryState: the budgets, signature and repeats; replans
  retained,  \* latest_da_materialization is there
  target,    \* a delivery target is in the task's constraints
  facts,     \* receipts of this cycle: target written, read by a check since
  round,     \* which of the two delivery reconciliations is due
  redo,      \* the decision of the act agent is out of date
  last,      \* last_result
  commands,  \* delivery targets named so far (bound)
  hist       \* history, for the properties

vars == <<task, plan, pc, cycle, scoped, past, wave, report, spent, retained, target,
          facts, round, redo, last, commands, hist>>

Ended == {"accepted", "stopped", "error"}
Points == Ended \union {"cycle", "wave", "results", "deliver", "verify", "repair", "reaudit",
                        "mark", "decide", "gate", "route"}

Markers == {"none", "RetryCa", "RetryDa", "ReplanPa", "Blocked"}
Statuses == {"none", "success", "partial", "failed", "stop"}
NoMarker == [marker |-> "none", failed |-> Unknown]

\* status: of the result, "stop" for timeout and blocked; marker, failed: the
\* kernel's recovery route; scope: its summary says scope=Task; confirmed: the
\* verdict of a preflight act agent says that the work is already done.
Result(status, marker, failed) ==
  [status |-> status, marker |-> marker, failed |-> failed,
   scope |-> marker = "ReplanPa", confirmed |-> FALSE]
Plain(status) == Result(status, "none", Unknown)

Init ==
  /\ task \in Plans
  /\ plan = {} /\ scoped = {} /\ past = {} /\ wave = <<>>
  /\ pc = "cycle" /\ cycle = 0
  /\ report = NoReport
  /\ spent = [repairs |-> 0, rechecks |-> 0, rewrites |-> 0, replans |-> 0,
              sig |-> NoSignature, repeated |-> 0]
  /\ retained = FALSE
  /\ target \in (IF task.preflight THEN {FALSE} ELSE BOOLEAN)
  /\ facts = [wrote |-> FALSE, read |-> FALSE]
  /\ round = 1 /\ redo = FALSE
  /\ last = Plain("none")
  /\ commands = 0
  /\ hist = [checked |-> FALSE, decided |-> FALSE, halted |-> FALSE, due |-> TRUE,
             undue |-> FALSE, waived |-> FALSE, done |-> {}]

Cycles == IF task.preflight /\ MaxCycles < 2 THEN 2 ELSE MaxCycles

End(how) == pc' = how
Return(result) == /\ last' = result /\ pc' = "route"

\* check_and_process_supplementary_inputs, where it names a delivery target.
Drain(new) ==
  /\ new => commands < MaxCommands
  /\ commands' = IF new THEN commands + 1 ELSE commands
  /\ target' = (target \/ new)
KeepTarget == UNCHANGED <<target, commands>>

\* The receipts for a target just named: none, unless the cycle happened to
\* write that path already.
NoReceipts == [wrote |-> FALSE, read |-> FALSE]
Worked == redo \/ \E t \in OfRole(plan, "Do") : t.at \in past
Receipts(new) ==
  IF ~new THEN {facts}
  ELSE {NoReceipts} \union (IF Worked THEN [wrote : {TRUE}, read : BOOLEAN] ELSE {})

\* What a Do agent's tracked actions do to the receipts: nothing, a write of
\* the target, or a mutation that no receipt can attribute.
Writes == {"keep", "write", "taint"}
Written(f, w) ==
  CASE w = "write" -> [wrote |-> TRUE, read |-> FALSE]
    [] w = "taint" -> [wrote |-> FALSE, read |-> FALSE]
    [] OTHER       -> f
ReadBy(f, reads) == [f EXCEPT !.read = @ \/ (reads /\ f.wrote)]

\* History.  due: since the latest audit something other than missing evidence
\* asks for a Do agent, see EvidenceGapSpares; undue: one was dispatched again
\* when nothing did; waived: a preflight declared the work done already.
Implement(h) == [h EXCEPT !.checked = FALSE, !.decided = FALSE,
                          !.undue = @ \/ ~h.due]
Audited(h, r) == [h EXCEPT !.checked = ~Rejects(r), !.decided = FALSE,
                           !.due = r.class = "defect"]
Due(h) == [h EXCEPT !.due = TRUE]
Halt(h) == [h EXCEPT !.halted = TRUE]

\* track_non_convergence and the report it leaves.
Tracked(class, f) ==
  IF class = "pass" THEN [spent EXCEPT !.sig = NoSignature, !.repeated = 0]
  ELSE [spent EXCEPT !.sig = Signature(class, f),
                     !.repeated = IF @ >= 1 /\ spent.sig = Signature(class, f) THEN 2 ELSE 1]
Reported(class, f) ==
  [class |-> class,
   task |-> class \in {"defect", "unclear"} /\ Tracked(class, f).repeated >= 2]

(***************************************************************************)
(* The cycle: choose the plan, or stop because the token budget is spent.  *)
(***************************************************************************)
BeginCycle ==
  /\ pc = "cycle"
  /\ LET steps == IF scoped # {} THEN scoped
                  ELSE IF cycle > 0 /\ task.preflight THEN task.fallback ELSE task.steps
     IN /\ plan' = steps
        /\ retained' = (retained \/ OfRole(steps, "Do") # {})
  /\ scoped' = {} /\ past' = {} /\ wave' = <<>>
  /\ report' = NoReport /\ round' = 1 /\ redo' = FALSE
  /\ facts' = NoReceipts
  /\ last' = Plain("none")
  /\ pc' = "wave"
  /\ KeepTarget /\ UNCHANGED <<task, cycle, spent, hist>>

TokensSpent ==
  /\ pc = "cycle"
  /\ End("stopped")
  /\ KeepTarget
  /\ UNCHANGED <<task, plan, cycle, scoped, past, wave, report, spent, retained, facts, round,
                 redo, last, hist>>

(***************************************************************************)
(* The waves of execute_plan: every step whose predecessors are past, all  *)
(* at once.  An act agent waits while the latest audit fails.              *)
(***************************************************************************)
Runnable == {t \in plan : t.at \notin past /\ t.deps \subseteq past}
Dispatched == {t \in Runnable : t.role = "Act" => ~Rejects(report)}

Answers(r) == {"stop", "error"} \union
  CASE r = "Plan"  -> {"ok", "failed"}
    [] r = "Do"    -> {"ok", "partial", "failed"}
    [] r = "Check" -> Audits \union {"crash"}
    [] r = "Act"   -> {"success", "partial", "failed"}

DeferWave ==
  /\ pc = "wave" /\ Runnable # {} /\ Dispatched = {}
  /\ past' = past \union Indices(Runnable)
  /\ KeepTarget
  /\ UNCHANGED <<task, plan, pc, cycle, scoped, wave, report, spent, retained, facts, round,
                 redo, last, hist>>

DispatchWave ==
  /\ pc = "wave" /\ Dispatched # {}
  /\ past' = past \union Indices(Runnable)
  /\ \E new \in BOOLEAN : Drain(new) /\ facts' \in Receipts(new)
  /\ \E answer \in [Dispatched -> UNION {Answers(r) : r \in Roles}] :
       /\ \A t \in Dispatched : answer[t] \in Answers(t.role)
       /\ hist' = LET fresh == Indices(OfRole(Dispatched, "Do")) \ hist.done
                      h == CASE OfRole(Dispatched, "Do") = {} -> hist
                             [] fresh # {}                     -> Implement(Due(hist))
                             [] OTHER                          -> Implement(hist)
                      l == IF \E t \in Dispatched : answer[t] = "error" THEN Due(h) ELSE h
                  IN IF \E t \in Dispatched : answer[t] = "stop" THEN Halt(l) ELSE l
       /\ IF \E t \in Dispatched : answer[t] = "error"
          THEN /\ wave' = <<>>
               /\ IF Cardinality(Dispatched) = 1 THEN End("error") /\ UNCHANGED last
                                                 ELSE Return(Plain("failed"))
          ELSE /\ wave' = [i \in Indices(Dispatched) |->
                             answer[CHOOSE t \in Dispatched : t.at = i]]
               /\ pc' = "results" /\ UNCHANGED last
  /\ UNCHANGED <<task, plan, cycle, scoped, report, spent, retained, round, redo>>

(***************************************************************************)
(* handle_step_result, one answer after the other in the order of the      *)
(* list; the first that fails or stops ends the plan.                      *)
(***************************************************************************)
Seen == CHOOSE i \in DOMAIN wave : \A j \in DOMAIN wave : i <= j
SeenStep == CHOOSE t \in plan : t.at = Seen
Unseen == [i \in DOMAIN wave \ {Seen} |-> wave[i]]
Later == IF DOMAIN wave = {Seen} THEN "wave" ELSE "results"

\* failed_business_role_recovery, as build_failed_step_result marks it.
FailedStep(t) ==
  Result("failed",
         CASE t.role = "Do" -> "RetryDa" [] t.role = "Check" -> "RetryCa" [] OTHER -> "ReplanPa",
         t.at)

\* (mutant) a stopped agent is handled as a failed one.
StopSeenFailed ==
  /\ pc = "results" /\ wave[Seen] = "stop"
  /\ Return(FailedStep(SeenStep))
  /\ wave' = <<>>
  /\ KeepTarget
  /\ UNCHANGED <<task, plan, cycle, scoped, past, report, spent, retained, facts, round, redo, hist>>

StopSeen ==
  /\ pc = "results" /\ wave[Seen] = "stop"
  /\ Return(Plain("stop"))
  /\ wave' = <<>>
  /\ KeepTarget
  /\ UNCHANGED <<task, plan, cycle, scoped, past, report, spent, retained, facts, round, redo, hist>>

\* A failed check agent of a generated plan is audited like any other.
FailureSeen ==
  /\ pc = "results"
  /\ \/ wave[Seen] = "failed"
     \/ wave[Seen] = "crash" /\ task.dag
  /\ Return(FailedStep(SeenStep))
  /\ wave' = <<>>
  /\ hist' = IF SeenStep.role = "Check" THEN hist ELSE Due(hist)
  /\ KeepTarget
  /\ UNCHANGED <<task, plan, cycle, scoped, past, report, spent, retained, facts, round, redo>>

PlanSeen ==
  /\ pc = "results" /\ wave[Seen] = "ok" /\ SeenStep.role = "Plan"
  /\ last' = Plain("success")
  /\ wave' = Unseen /\ pc' = Later
  /\ KeepTarget
  /\ UNCHANGED <<task, plan, cycle, scoped, past, report, spent, retained, facts, round, redo, hist>>

\* (mutant) the agent's own status becomes the result's.
WorkSeenRaw ==
  /\ pc = "results" /\ wave[Seen] \in {"ok", "partial"} /\ SeenStep.role = "Do"
  /\ last' = Plain(wave[Seen])
  /\ hist' = [hist EXCEPT !.done = @ \union {Seen}]
  /\ wave' = Unseen /\ pc' = Later
  /\ KeepTarget
  /\ UNCHANGED <<task, plan, cycle, scoped, past, report, spent, retained, facts, round, redo>>

WorkSeen ==
  /\ pc = "results" /\ wave[Seen] \in {"ok", "partial"} /\ SeenStep.role = "Do"
  /\ last' = Plain(IF wave[Seen] = "ok" THEN "success" ELSE "partial")
  /\ \E w \in Writes : facts' = IF target THEN Written(facts, w) ELSE facts
  /\ hist' = [hist EXCEPT !.done = @ \union {Seen},
                          !.due = @ \/ wave[Seen] = "partial"]
  /\ wave' = Unseen /\ pc' = Later
  /\ KeepTarget
  /\ UNCHANGED <<task, plan, cycle, scoped, past, report, spent, retained, round, redo>>

\* The report of a check agent's answer, with the finding it names, and what
\* counting it as an audit leaves of the budgets.
Judge(class, f) ==
  /\ report' = Reported(class, f)
  /\ last' = Plain(IF class = "pass" THEN "success" ELSE "failed")
  /\ hist' = Audited(hist, Reported(class, f))
Audit(class, f) == spent' = Tracked(class, f) /\ Judge(class, f)

CheckSeen ==
  /\ pc = "results" /\ wave[Seen] \notin {"stop", "failed"} /\ SeenStep.role = "Check"
  /\ wave[Seen] = "crash" => ~task.dag
  /\ \E f \in Findings : Audit(IF wave[Seen] = "crash" THEN "gap" ELSE wave[Seen], f)
  /\ \E reads \in BOOLEAN : facts' = IF target THEN ReadBy(facts, reads) ELSE facts
  /\ wave' = Unseen /\ pc' = Later
  /\ KeepTarget
  /\ UNCHANGED <<task, plan, cycle, scoped, past, retained, round, redo>>

\* The act agent's declared verdict; the steps after it are skipped.
Decision(status, confirmed) == [Plain(status) EXCEPT !.confirmed = confirmed]

\* History: the preflight's act agent can waive the implementation.
Decided(status, confirmed) ==
  [hist EXCEPT !.decided = status = "success", !.due = @ \/ status = "partial",
               !.waived = @ \/ (confirmed /\ cycle = 0 /\ task.preflight)]

ActSeen ==
  /\ pc = "results" /\ wave[Seen] \in {"success", "partial"} /\ SeenStep.role = "Act"
  /\ \E confirmed \in BOOLEAN :
       /\ last' = Decision(wave[Seen], confirmed)
       /\ hist' = Decided(wave[Seen], confirmed)
  /\ past' = Indices(plan)
  /\ wave' = Unseen /\ pc' = Later
  /\ KeepTarget
  /\ UNCHANGED <<task, plan, cycle, scoped, report, spent, retained, facts, round, redo>>

WavesDone ==
  /\ pc = "wave" /\ Runnable = {}
  /\ \E new \in BOOLEAN : Drain(new) /\ facts' \in Receipts(new)
  /\ pc' = "deliver"
  /\ UNCHANGED <<task, plan, cycle, scoped, past, wave, report, spent, retained, round, redo, last, hist>>

(***************************************************************************)
(* reconcile_workspace_delivery: the target must have been written, and    *)
(* then read by a check agent.  It runs once after the waves and once      *)
(* before the decision.                                                    *)
(***************************************************************************)
HasRole(r) == OfRole(plan, r) # {}
Rigid == UNCHANGED <<task, plan, cycle, scoped, past, wave, retained>>
Delivered == target => facts.wrote /\ facts.read
AfterDelivery == IF round = 1 THEN "repair" ELSE "mark"
MissingRole(r) == /\ ~HasRole(r) /\ End("error") /\ UNCHANGED <<facts, redo, last, hist>>
LostAgent == /\ End("error") /\ UNCHANGED <<facts, redo, last>>
StoppedAgent == /\ Return(Plain("stop")) /\ UNCHANGED <<facts, redo>>

Deliver ==
  /\ pc = "deliver"
  /\ \/ /\ target => facts.wrote
        /\ pc' = "verify" /\ UNCHANGED <<facts, redo, last, hist>>
     \/ /\ target /\ ~facts.wrote /\ MissingRole("Do")
     \/ /\ target /\ ~facts.wrote /\ HasRole("Do")
        /\ \/ LostAgent /\ hist' = Due(Implement(Due(hist)))
           \/ StoppedAgent /\ hist' = Halt(Implement(Due(hist)))
           \/ /\ hist' = Due(Implement(Due(hist)))
              /\ Return(Plain("failed")) /\ UNCHANGED <<facts, redo>>
           \/ /\ hist' = Implement(Due(hist))
              /\ facts' = Written(facts, "write") /\ redo' = TRUE
              /\ pc' = "verify" /\ UNCHANGED last
  /\ KeepTarget /\ Rigid /\ UNCHANGED <<report, spent, round>>

\* (mutant) a verification after the decision leaves the decision alone.
VerifyQuiet ==
  /\ pc = "verify"
  /\ \/ ~Delivered /\ MissingRole("Check") /\ UNCHANGED <<report, spent>>
     \/ /\ Delivered /\ pc' = AfterDelivery
        /\ UNCHANGED <<facts, redo, last, hist, report, spent>>
     \/ /\ ~Delivered /\ HasRole("Check") /\ pc' = AfterDelivery /\ UNCHANGED redo
        /\ \E reads \in BOOLEAN, class \in Audits, f \in Findings :
             /\ facts' = ReadBy(facts, reads)
             /\ Audit(IF reads THEN class ELSE "gap", f)
  /\ KeepTarget /\ Rigid /\ UNCHANGED round

Verify ==
  /\ pc = "verify"
  /\ \/ /\ Delivered
        /\ pc' = AfterDelivery
        /\ UNCHANGED <<facts, redo, last, hist, report, spent>>
     \/ /\ ~Delivered /\ MissingRole("Check") /\ UNCHANGED <<report, spent>>
     \/ /\ ~Delivered /\ HasRole("Check")
        /\ \/ LostAgent /\ hist' = Due(hist) /\ UNCHANGED <<report, spent>>
           \/ StoppedAgent /\ hist' = Halt(hist) /\ UNCHANGED <<report, spent>>
           \/ /\ \E reads \in BOOLEAN, class \in Audits, f \in Findings :
                   /\ facts' = ReadBy(facts, reads)
                   /\ Audit(IF reads THEN class ELSE "gap", f)
              /\ redo' = TRUE /\ pc' = AfterDelivery
  /\ KeepTarget /\ Rigid /\ UNCHANGED round

(***************************************************************************)
(* The typed recovery loop of execute_plan.                                *)
(***************************************************************************)
\* (mutant) evidence that stays missing is handed back to planning.
DirectiveReplans(r) ==
  IF ~Rejects(r) THEN "Accept"
  ELSE IF \/ r.class = "gap" /\ spent.rechecks < MaxRechecks
          \/ r.class = "form" /\ spent.rewrites < RewriteLimit
       THEN "RetryCa"
  ELSE IF EvidenceOnly(r) \/ r.task \/ spent.repairs >= MaxRepairs THEN "ReplanPa" ELSE "RetryDa"

\* select_directive with recovery_budget_for_report.
Directive(r) ==
  IF ~Rejects(r) THEN "Accept"
  ELSE IF EvidenceOnly(r)
       THEN IF \/ r.task
               \/ r.class = "gap" /\ spent.rechecks >= MaxRechecks
               \/ r.class = "form" /\ spent.rewrites >= RewriteLimit
            THEN "Blocked" ELSE "RetryCa"
  ELSE IF r.task \/ spent.repairs >= MaxRepairs THEN "ReplanPa" ELSE "RetryDa"

\* Another audit by a fresh check agent; a rewrite of the form that shows a
\* gap is still a failure of the form.  There is a check step to dispatch: the
\* report that asks for the audit came from one.
Reaudit(rewrite, count) ==
  \/ Return(Plain("stop")) /\ hist' = Halt(hist) /\ spent' = count /\ UNCHANGED <<report, facts>>
  \/ \E class \in Audits, f \in Findings, reads \in BOOLEAN :
       LET seen == IF rewrite /\ class = "gap" THEN "form" ELSE class IN
       /\ Judge(seen, f)
       /\ spent' = [Tracked(seen, f) EXCEPT !.rechecks = count.rechecks,
                                            !.rewrites = count.rewrites]
       /\ facts' = IF target THEN ReadBy(facts, reads) ELSE facts
       /\ pc' = "repair"

\* (mutant) a rewrite of the report is not counted.
RecheckUncounted ==
  /\ pc = "repair" /\ Directive(report) = "RetryCa"
  /\ redo' = TRUE
  /\ LET rewrite == report.class = "form"
         count == IF rewrite THEN spent ELSE [spent EXCEPT !.rechecks = @ + 1]
     IN \/ Reaudit(rewrite, count)
        \/ spent' = count /\ UNCHANGED <<pc, report, facts, last, hist>>
  /\ KeepTarget /\ Rigid /\ UNCHANGED round

Recheck ==
  /\ pc = "repair" /\ Directive(report) = "RetryCa"
  /\ redo' = TRUE
  /\ LET rewrite == report.class = "form"
         count == IF rewrite THEN [spent EXCEPT !.rewrites = @ + 1]
                             ELSE [spent EXCEPT !.rechecks = @ + 1]
     IN \/ Reaudit(rewrite, count)
        \/ spent' = count /\ UNCHANGED <<pc, report, facts, last, hist>>
  /\ KeepTarget /\ Rigid /\ UNCHANGED round

\* Without an evidenced defect no Do agent gets to mutate the workspace.
RefuseRepair ==
  /\ pc = "repair" /\ Directive(report) = "RetryDa" /\ report.class = "unclear"
  /\ report' = [report EXCEPT !.class = "gap"]
  /\ KeepTarget /\ Rigid /\ UNCHANGED <<pc, spent, facts, round, redo, last, hist>>

LeaveRepair(new) == /\ pc' = "deliver" /\ round' = 2 /\ Drain(new)

Repair ==
  /\ pc = "repair" /\ Directive(report) = "RetryDa" /\ report.class # "unclear"
  /\ spent' = [spent EXCEPT !.repairs = @ + 1]
  /\ redo' = TRUE
  /\ \/ /\ ~HasRole("Do") /\ ~retained
        /\ End("error") /\ KeepTarget /\ UNCHANGED <<facts, last, hist, round>>
     \/ /\ HasRole("Do") \/ retained
        /\ \/ /\ hist' = Due(Implement(hist))
              /\ \E new \in BOOLEAN : LeaveRepair(new) /\ facts' \in Receipts(new)
              /\ UNCHANGED last
           \/ /\ hist' = Halt(Implement(hist))
              /\ Return(Plain("stop")) /\ KeepTarget /\ UNCHANGED <<facts, round>>
           \/ /\ hist' = Implement(hist)
              /\ \E w \in Writes : facts' = IF target THEN Written(facts, w) ELSE facts
              /\ pc' = "reaudit" /\ KeepTarget /\ UNCHANGED <<last, round>>
  /\ Rigid /\ UNCHANGED report

ReauditRepair ==
  /\ pc = "reaudit"
  /\ \/ Reaudit(FALSE, spent) /\ KeepTarget /\ UNCHANGED round
     \/ /\ \E new \in BOOLEAN : LeaveRepair(new) /\ facts' \in Receipts(new)
        /\ hist' = Due(hist)
        /\ UNCHANGED <<spent, report, last>>
  /\ Rigid /\ UNCHANGED redo

EndRepair ==
  /\ pc = "repair" /\ (report = NoReport \/ Directive(report) \in {"Accept", "Blocked", "ReplanPa"})
  /\ \E new \in BOOLEAN : LeaveRepair(new) /\ facts' \in Receipts(new)
  /\ Rigid /\ UNCHANGED <<report, spent, redo, last, hist>>

(***************************************************************************)
(* The end of execute_plan: name the route of a failed audit, decide again *)
(* if anything was repeated, and the two gates that can refuse a success.  *)
(***************************************************************************)
OwnerOf(directive) ==
  CASE directive = "RetryDa"              -> OfRole(plan, "Do")
    [] directive \in {"RetryCa", "Blocked"} -> OfRole(plan, "Check")
    [] OTHER                              -> OfRole(plan, "Plan")

Mark ==
  /\ pc = "mark"
  /\ last' = IF Rejects(report)
             THEN LET d == Directive(report)
                      owners == OwnerOf(d)
                  IN Result("failed", d, IF owners = {} THEN Unknown ELSE First(owners).at)
             ELSE last
  /\ hist' = IF report.class = "unclear" THEN Due(hist) ELSE hist
  /\ pc' = "decide"
  /\ KeepTarget /\ Rigid /\ UNCHANGED <<report, spent, facts, round, redo>>

\* The last act agent decides anew on the latest audit.
Decide ==
  /\ pc = "decide"
  /\ LET again == redo /\ report # NoReport /\ ~Rejects(report) /\ HasRole("Act") IN
     \/ ~again /\ pc' = "gate" /\ UNCHANGED <<last, hist>>
     \/ /\ again
        /\ \/ End("error") /\ hist' = Due(hist) /\ UNCHANGED last
           \/ Return(Plain("stop")) /\ hist' = Halt(hist)
           \/ Return(FailedStep(Last(OfRole(plan, "Act")))) /\ hist' = Due(hist)
           \/ \E status \in {"success", "partial"}, confirmed \in BOOLEAN :
                /\ last' = Decision(status, confirmed) /\ hist' = Decided(status, confirmed)
                /\ pc' = "gate"
  /\ KeepTarget /\ Rigid /\ UNCHANGED <<report, spent, facts, round, redo>>

\* A target named meanwhile, or a workspace the audit no longer describes.
Gate ==
  /\ pc = "gate"
  /\ \E new \in BOOLEAN :
       /\ Drain(new) /\ facts' \in Receipts(new)
       /\ IF target' /\ ~(facts'.wrote /\ facts'.read)
          THEN /\ Return([last EXCEPT !.status = "failed", !.scope = FALSE, !.confirmed = FALSE])
               /\ hist' = Due(hist)
          ELSE \/ pc' = "route" /\ UNCHANGED <<last, hist>>
               \/ HasRole("Check") /\ Return(FailedStep(Last(OfRole(plan, "Check")))) /\ UNCHANGED hist
  /\ Rigid /\ UNCHANGED <<report, spent, round, redo>>

(***************************************************************************)
(* process_task_with_context: what the result of execute_plan leads to.    *)
(***************************************************************************)
NeedsExecution == cycle = 0 /\ task.preflight /\ ~last.confirmed

NextCycle(cut) == /\ scoped' = cut /\ cycle' = cycle + 1 /\ pc' = "cycle"
Stop == /\ End("stopped") /\ UNCHANGED <<scoped, cycle, spent>>

RetryScoped(directive) ==
  LET cut == RetryPlan(plan, directive, last.failed) IN
  IF task.dag \/ cut = {} THEN Stop ELSE NextCycle(cut) /\ UNCHANGED spent

Replan ==
  IF NeedsExecution THEN NextCycle({}) /\ UNCHANGED spent
  ELSE IF spent.replans >= MaxReplans THEN Stop
  ELSE NextCycle({}) /\ spent' = [spent EXCEPT !.replans = @ + 1]

\* History: commands that came too late for the cycle ask for all of it again,
\* whatever a preflight waived.
Reopened(h) == [h EXCEPT !.due = TRUE, !.waived = FALSE]

\* Prose of a partial result can claim the scope of the task.  Commands that the
\* second close of the inbox finds (late) turn a passed cycle into a failed one:
\* the next runs the whole plan on no budget but that of the cycles.
Route ==
  /\ pc = "route"
  /\ \E prose, late \in BOOLEAN :
       LET passed == last.status = "success" /\ ~NeedsExecution
           declared == last.marker \in {"RetryCa", "RetryDa"}
           wide == last.scope \/ (last.status = "partial" /\ prose)
       IN /\ IF last.status = "stop" \/ last.marker = "Blocked" THEN Stop
             ELSE IF passed /\ ~late THEN End("accepted") /\ UNCHANGED <<scoped, cycle, spent>>
             ELSE IF cycle + 1 >= Cycles THEN Stop
             ELSE IF passed THEN NextCycle({}) /\ UNCHANGED spent
             ELSE IF ~NeedsExecution /\ (declared \/ ~wide)
                  THEN RetryScoped(IF declared THEN last.marker ELSE "RetryDa")
             ELSE Replan
          /\ hist' = IF passed /\ pc' = "cycle" THEN Reopened(hist)
                     ELSE IF NeedsExecution THEN Due(hist) ELSE hist
  /\ KeepTarget
  /\ UNCHANGED <<task, plan, past, wave, report, retained, facts, round, redo, last>>
Done == pc \in Ended /\ UNCHANGED vars

Next ==
  \/ BeginCycle \/ TokensSpent
  \/ DeferWave \/ DispatchWave
  \/ StopSeen \/ FailureSeen \/ PlanSeen \/ WorkSeen \/ CheckSeen \/ ActSeen
  \/ WavesDone \/ Deliver \/ Verify
  \/ Recheck \/ RefuseRepair \/ Repair \/ ReauditRepair \/ EndRepair
  \/ Mark \/ Decide \/ Gate \/ Route
  \/ Done

Spec == Init /\ [][Next]_vars

\* The supervisor awaits every dispatch under a timeout, so the loops never
\* sit still: each of their steps eventually happens.  A pause the user ordered
\* lasts until the user ends it; it is left out here (see CommandInbox).
FairSpec == Spec /\ WF_vars(Next)

(***************************************************************************)
(* Shapes of plans.  The steps past are closed under dependencies, so the  *)
(* shape of a plan is what can be ready after such a set.  A generated     *)
(* plan of standard or higher complexity is a chain of merged roles, which *)
(* has every shape below; a simple one of several roles and an external    *)
(* workflow keep the shape their author gave them.                         *)
(***************************************************************************)
Closed(p, P) == \A t \in p : t.at \in P => t.deps \subseteq P
Ready(p, P) == {t \in p : t.at \notin P /\ t.deps \subseteq P}
Fronts(p) == {P \in SUBSET Indices(p) : Closed(p, P)}

\* No agent runs beside another.
OneAtATime(p) == \A P \in Fronts(p) : \A s, t \in Ready(p, P) : s = t

\* Only Do and check agents run beside others.
WorkBeside(p) ==
  \A P \in Fronts(p) : \A s, t \in Ready(p, P) : s # t => s.role \in {"Do", "Check"}

\* No Do agent runs after a check agent.
ImplementFirst(p) ==
  \A P \in Fronts(p) : OfRole(Ready(p, P), "Do") # {} =>
    \A c \in OfRole(p, "Check") : c.at \notin P

\* Check agents run after every Do agent, act agents after everything else.
Ordered(p) ==
  \A P \in Fronts(p) :
    /\ OfRole(Ready(p, P), "Check") # {} => Indices(OfRole(p, "Do")) \subseteq P
    /\ OfRole(Ready(p, P), "Act") # {} => Indices(p \ OfRole(p, "Act")) \subseteq P

PlansImplementFirst == \A p \in Plans : \A steps \in {p.steps, p.fallback} : ImplementFirst(steps)
PlansStopCleanly ==
  \A p \in Plans : \A steps \in {p.steps, p.fallback} :
    OneAtATime(steps) \/ (p.dag /\ ~p.preflight /\ WorkBeside(steps))
PlansOrdered ==
  \A p \in Plans : \A steps \in {p.steps, p.fallback} :
    Ordered(steps) /\ (p.dag \/ OneAtATime(steps))

(***************************************************************************)
(* Properties.                                                             *)
(***************************************************************************)
\* The variables have their types.
TypeOK ==
  /\ task \in Plans
  /\ plan \subseteq Step /\ scoped \subseteq Step
  /\ pc \in Points /\ cycle \in Nat
  /\ past \subseteq Nat /\ DOMAIN wave \subseteq Indices(plan)
  /\ report \in Report \union {NoReport}
  /\ spent \in [repairs : Nat, rechecks : Nat, rewrites : Nat, replans : Nat,
                sig : [reason : Audits \union {"none"}, finding : Findings \union {0}],
                repeated : 0..2]
  /\ retained \in BOOLEAN /\ target \in BOOLEAN /\ redo \in BOOLEAN
  /\ facts \in [wrote : BOOLEAN, read : BOOLEAN]
  /\ round \in 1..2
  /\ last \in [status : Statuses, marker : Markers, failed : Nat, scope : BOOLEAN,
               confirmed : BOOLEAN]
  /\ commands \in 0..MaxCommands
  /\ hist \in [checked : BOOLEAN, decided : BOOLEAN, halted : BOOLEAN, due : BOOLEAN,
               undue : BOOLEAN, waived : BOOLEAN, done : SUBSET Nat]

\* A task accepted under a plan with check and act agents had its latest audit
\* pass after the last implementation step, was decided on that audit and no
\* earlier one, and has the receipts of its delivery target, whenever during
\* the cycle the target was named.
AcceptedIsVerified ==
  pc = "accepted" =>
    /\ HasRole("Check") => hist.checked
    /\ HasRole("Act") => hist.decided
    /\ Delivered

\* Whatever a retry left out, an accepted task has had an answer from every Do
\* step of its whole plan, unless the act agent of a preflight declared the
\* work done already.
AcceptedIsComplete ==
  pc = "accepted" =>
    hist.waived
    \/ Indices(OfRole(IF task.preflight THEN task.fallback ELSE task.steps, "Do")) \subseteq hist.done

\* An accepted result was earned: checked, decided, delivered and complete.
AcceptanceEarned == AcceptedIsVerified /\ AcceptedIsComplete

\* A timeout or a block leaves side effects nobody can judge: once a result is
\* one, no agent is dispatched and the task is neither retried nor accepted.
StopIsFinal == hist.halted => pc \in {"results", "route", "stopped"}

\* Missing evidence or a malformed report never sends the work back to a Do
\* agent, and nor does, within a cycle, an audit that fails without a defect.
\* A Do agent runs again only after a defect, a failed or partial agent, a
\* missing delivery, an agent lost elsewhere than in a recheck, a preflight that
\* did not confirm, a cycle that ended with such an audit, or commands too late
\* for a passed cycle.
EvidenceGapSpares == ~hist.undue

\* Every task that no user keeps paused is accepted, stopped or failed in the end.
TaskEnds == <>(pc \in Ended)
=============================================================================
