------------------------- MODULE RecoveryLoopProofs -------------------------
(***************************************************************************)
(* What the recovery loops promise for any plans, budgets and findings.    *)
(***************************************************************************)
EXTENDS RecoveryLoop, TLAPS, FiniteSetTheorems

\* A set of numbers that is not empty has a least element.
LEMMA LeastNumber ==
  ASSUME NEW S, S \subseteq Nat, S # {}
  PROVE  \E m \in S : \A n \in S : m <= n
<1>1. PICK m \in S : \A n \in S : ~ (<<n, m>> \in OpToRel(<, Nat))
  BY NatLessThanWellFounded, WFMin, Zenon
<1>2. \A n \in S : ~ (n < m)
  BY <1>1 DEF OpToRel
<1>3. QED BY <1>2

\* A finite one has a greatest element.
LEMMA GreatestNumber ==
  ASSUME NEW S, S \subseteq Nat, IsFiniteSet(S), S # {}
  PROVE  \E m \in S : \A n \in S : n <= m
<1> DEFINE Top(U) == \E m \in U : \A n \in U : n <= m
           Bad == {U \in SUBSET S : U # {} /\ ~Top(U)}
<1>1. SUFFICES ASSUME Bad # {} PROVE FALSE
  BY DEF Top
<1>2. IsWellFoundedOn(StrictSubsetOrdering(S), FiniteSubsetsOf(S))
  BY FS_StrictSubsetOrderingWellFounded
<1>3. Bad \subseteq FiniteSubsetsOf(S)
  BY FS_Subset DEF FiniteSubsetsOf
<1>4. PICK U \in Bad : \A V \in Bad : ~ (<<V, U>> \in StrictSubsetOrdering(S))
  <2> HIDE DEF Bad
  <2>1. QED BY <1>1, <1>2, <1>3, WFMin, Zenon
<1>5. PICK x \in U : TRUE
  BY <1>4
<1>6. U \ {x} \subseteq S /\ U \ {x} # U /\ x \in Nat /\ x \notin U \ {x}
  BY <1>4, <1>5
<1>7. CASE U \ {x} = {}
  <2>1. \A n \in U : n <= x
    BY <1>5, <1>6, <1>7
  <2>2. QED BY <1>4, <1>5, <2>1
<1>8. CASE U \ {x} # {}
  <2>1. U \ {x} \notin Bad
    BY <1>4, <1>5, <1>6 DEF StrictSubsetOrdering
  <2>2. PICK m \in U \ {x} : \A n \in U \ {x} : n <= m
    BY <1>6, <1>8, <2>1
  <2>3. m \in Nat
    BY <1>6
  <2>4. CASE x <= m
    <3>1. \A n \in U : n <= m BY <2>2, <2>4
    <3>2. QED BY <1>4, <2>2, <3>1
  <2>5. CASE ~ (x <= m)
    <3>1. \A n \in U : n <= x
      BY <1>4, <1>6, <2>2, <2>3, <2>5
    <3>2. QED BY <1>4, <1>5, <3>1
  <2>6. QED BY <2>4, <2>5
<1>9. QED BY <1>7, <1>8

\* What every plan of the task and every cut of one is.
Sound(p) ==
  /\ p \subseteq Step /\ IsFiniteSet(p)
  /\ \A s, t \in p : s.at = t.at => s = t
  /\ \A t \in p : t.at > 0 /\ \A d \in t.deps : d \in Indices(p) /\ d < t.at

\* The first and the last step of some, as the plan numbers them.
LEMMA FirstIn ==
  ASSUME NEW S, S \subseteq Step, S # {}
  PROVE  First(S) \in S /\ \A u \in S : First(S).at <= u.at
<1> DEFINE N == {t.at : t \in S}
<1>1. N \subseteq Nat /\ N # {}
  BY DEF Step
<1>2. PICK m \in N : \A n \in N : m <= n
  <2> HIDE DEF N
  <2>1. QED BY <1>1, LeastNumber
<1>3. \E t \in S : \A u \in S : t.at <= u.at
  BY <1>2
<1>4. QED BY <1>3 DEF First

\* The last.
LEMMA LastIn ==
  ASSUME NEW S, S \subseteq Step, IsFiniteSet(S), S # {}
  PROVE  Last(S) \in S /\ \A u \in S : u.at <= Last(S).at
<1> DEFINE f == [t \in S |-> t.at]
           N == {f[t] : t \in S}
<1>1. N \subseteq Nat /\ N # {}
  BY DEF Step
<1>2. IsFiniteSet(N)
  <2>1. f \in Surjection(S, N)
    BY DEF Surjection
  <2> HIDE DEF N, f
  <2>2. QED BY <2>1, FS_Surjection
<1>3. PICK m \in N : \A n \in N : n <= m
  <2> HIDE DEF N
  <2>1. QED BY <1>1, <1>2, GreatestNumber
<1>4. PICK t \in S : m = t.at
  BY <1>3
<1>5. \A u \in S : u.at <= t.at
  BY <1>3, <1>4
<1>6. QED BY <1>5 DEF Last

\* Cutting a plan leaves a plan.
LEMMA CutSound ==
  ASSUME NEW p, Sound(p), NEW i
  PROVE  /\ Sound(Scoped(p, i))
         /\ \A u \in Scoped(p, i) : \E t \in p : u.at = t.at /\ u.role = t.role
<1> DEFINE K == Descendants(p, i)
           cut(t) == [t EXCEPT !.deps = @ \cap K]
           kept == {u \in p : u.at \in K}
<1>1. Scoped(p, i) = {cut(t) : t \in kept}
  BY DEF Scoped
<1>2. K \subseteq Indices(p)
  BY DEF Descendants
<1>3. \A t \in p : /\ cut(t) \in Step /\ cut(t).at = t.at /\ cut(t).role = t.role
                   /\ cut(t).deps = t.deps \cap K
  BY DEF Sound, Step
<1>4. IsFiniteSet(Scoped(p, i))
  <2>1. IsFiniteSet(kept)
    BY FS_Subset DEF Sound
  <2>2. [t \in kept |-> cut(t)] \in Surjection(kept, Scoped(p, i))
    BY <1>1 DEF Surjection
  <2> HIDE DEF kept, cut
  <2>3. QED BY <2>1, <2>2, FS_Surjection
<1>5. Indices(Scoped(p, i)) = K
  <2>1. \A j \in K : \E t \in p : t.at = j
    BY <1>2 DEF Indices
  <2> HIDE DEF K, cut
  <2>2. \A u \in Scoped(p, i) : u.at \in K
    BY <1>1, <1>3
  <2>3. \A j \in K : \E u \in Scoped(p, i) : u.at = j
    BY <1>1, <1>3, <2>1
  <2>4. QED BY <2>2, <2>3 DEF Indices
<1> HIDE DEF K, cut
<1>6. \A u, v \in Scoped(p, i) : u.at = v.at => u = v
  BY <1>1, <1>3 DEF Sound
<1>7. \A u \in Scoped(p, i) : u.at > 0 /\ \A d \in u.deps : d \in K /\ d < u.at
  BY <1>1, <1>3 DEF Sound
<1>8. Scoped(p, i) \subseteq Step /\ \A u \in Scoped(p, i) : \E t \in p : u.at = t.at /\ u.role = t.role
  BY <1>1, <1>3
<1>9. Sound(Scoped(p, i))
  BY <1>4, <1>5, <1>6, <1>7, <1>8 DEF Sound
<1>10. QED BY <1>8, <1>9

\* A retry plan is a plan, and a verifier-only one has no Do step.
LEMMA RetryPlanSound ==
  ASSUME NEW p, Sound(p), NEW directive, NEW reported
  PROVE  /\ Sound(RetryPlan(p, directive, reported))
         /\ \A u \in RetryPlan(p, directive, reported) : \E t \in p : u.at = t.at /\ u.role = t.role
         /\ directive = "RetryCa" => OfRole(RetryPlan(p, directive, reported), "Do") = {}
<1>1. Sound({})
  BY FS_EmptySet DEF Sound
<1>2. QED BY <1>1, CutSound DEF RetryPlan, OfRole

Hist == [checked : BOOLEAN, decided : BOOLEAN, halted : BOOLEAN, due : BOOLEAN,
         undue : BOOLEAN, waived : BOOLEAN, done : SUBSET Nat]
Spent == [repairs : Nat, rechecks : Nat, rewrites : Nat, replans : Nat,
          sig : [reason : Audits \union {"none"}, finding : Findings \union {0}],
          repeated : 0..2]
Results == [status : Statuses, marker : Markers, failed : Nat, scope : BOOLEAN, confirmed : BOOLEAN]
Facts == [wrote : BOOLEAN, read : BOOLEAN]

\* What the steps record keeps the history a history.
LEMMA HistOps ==
  ASSUME NEW h \in Hist, NEW r \in Report \union {NoReport}
  PROVE  /\ Implement(h) \in Hist /\ Audited(h, r) \in Hist
         /\ Due(h) \in Hist /\ Halt(h) \in Hist /\ Reopened(h) \in Hist
         /\ \A i \in Nat, b \in BOOLEAN :
              [h EXCEPT !.done = @ \union {i}, !.due = @ \/ b] \in Hist
<1>1. PICK b \in BOOLEAN : b = ~Rejects(r)
  OBVIOUS
<1>2. PICK c \in BOOLEAN : c <=> r.class = "defect"
  OBVIOUS
<1>3. PICK d \in BOOLEAN : d = (h.undue \/ ~h.due)
  BY DEF Hist
<1>4. Audited(h, r) = [h EXCEPT !.checked = b, !.decided = FALSE, !.due = c]
  BY <1>1, <1>2 DEF Audited
<1>5. Implement(h) = [h EXCEPT !.checked = FALSE, !.decided = FALSE, !.undue = d]
  BY <1>3 DEF Implement
<1>6. ASSUME NEW i \in Nat, NEW e \in BOOLEAN
      PROVE  [h EXCEPT !.done = @ \union {i}, !.due = @ \/ e] \in Hist
  <2>1. PICK g \in BOOLEAN : g = (h.due \/ e)
    OBVIOUS
  <2>2. [h EXCEPT !.done = @ \union {i}, !.due = @ \/ e] = [h EXCEPT !.done = @ \union {i}, !.due = g]
    BY <2>1
  <2>3. QED BY <2>2 DEF Hist
<1>7. Audited(h, r) \in Hist
  BY <1>4 DEF Hist
<1>8. Implement(h) \in Hist
  BY <1>5 DEF Hist
<1>9. Due(h) \in Hist /\ Halt(h) \in Hist /\ Reopened(h) \in Hist
  BY DEF Hist, Due, Halt, Reopened
<1>10. QED BY <1>6, <1>7, <1>8, <1>9

\* The decision is recorded likewise.
LEMMA DecidedHist ==
  ASSUME hist \in Hist, NEW status, NEW confirmed \in BOOLEAN
  PROVE  Decided(status, confirmed) \in Hist
<1>1. PICK a \in BOOLEAN : a = (status = "success")
  OBVIOUS
<1>2. PICK b \in BOOLEAN : b = (hist.due \/ status = "partial")
  OBVIOUS
<1>3. PICK c \in BOOLEAN : c = (hist.waived \/ (confirmed /\ cycle = 0 /\ task.preflight))
  OBVIOUS
<1>4. Decided(status, confirmed) = [hist EXCEPT !.decided = a, !.due = b, !.waived = c]
  BY <1>1, <1>2, <1>3 DEF Decided
<1>5. QED BY <1>4 DEF Hist

\* What an audit leaves of the budgets, and the report it makes.
LEMMA TrackedType ==
  ASSUME spent \in Spent, NEW class \in Audits, NEW f \in Findings
  PROVE  /\ Tracked(class, f) \in Spent /\ Reported(class, f) \in Report
         /\ Reported(class, f).class = class
<1>1. Tracked(class, f) \in Spent
  <2>0. \A g \in [reason : Audits \union {"none"}, finding : Findings \union {0}], n \in 0..2 :
          [spent EXCEPT !.sig = g, !.repeated = n] \in Spent
    BY DEF Spent
  <2>1. PICK n \in 0..2 :
           n = IF spent.repeated >= 1 /\ spent.sig = Signature(class, f) THEN 2 ELSE 1
    OBVIOUS
  <2>2. Signature(class, f) \in [reason : Audits \union {"none"}, finding : Findings \union {0}]
    BY DEF Signature, Reason, Audits
  <2>3. NoSignature \in [reason : Audits \union {"none"}, finding : Findings \union {0}]
    BY DEF NoSignature
  <2>4. CASE class = "pass"
    <3>1. Tracked(class, f) = [spent EXCEPT !.sig = NoSignature, !.repeated = 0]
      BY <2>4 DEF Tracked
    <3>2. 0 \in 0..2
      OBVIOUS
    <3>3. [spent EXCEPT !.sig = NoSignature, !.repeated = 0] \in Spent
      BY <2>0, <2>3, <3>2, Zenon
    <3>4. QED BY <3>1, <3>3, Zenon
  <2>5. CASE class # "pass"
    <3>1. Tracked(class, f) = [spent EXCEPT !.sig = Signature(class, f), !.repeated = n]
      BY <2>1, <2>5 DEF Tracked
    <3>2. QED BY <3>1, <2>2, <2>0
  <2>6. QED BY <2>4, <2>5
<1>2. PICK b \in BOOLEAN : b = (class \in {"defect", "unclear"} /\ Tracked(class, f).repeated >= 2)
  OBVIOUS
<1>3. Reported(class, f) = [class |-> class, task |-> b]
  BY <1>2 DEF Reported
<1>4. QED BY <1>1, <1>3 DEF Report

\* Receipts.
LEMMA FactsType ==
  ASSUME facts \in Facts, NEW w, NEW b \in BOOLEAN
  PROVE  Receipts(b) \subseteq Facts /\ Written(facts, w) \in Facts /\ ReadBy(facts, b) \in Facts
<1>1. PICK c \in BOOLEAN : c = (facts.read \/ (b /\ facts.wrote))
  OBVIOUS
<1>2. ReadBy(facts, b) = [facts EXCEPT !.read = c]
  BY <1>1 DEF ReadBy
<1>3. NoReceipts \in Facts /\ [wrote : {TRUE}, read : BOOLEAN] \subseteq Facts
  BY DEF Facts, NoReceipts
<1>4. Receipts(b) \subseteq Facts
  BY <1>3 DEF Receipts
<1>5. Written(facts, w) \in Facts
  BY DEF Written, Facts
<1>6. ReadBy(facts, b) \in Facts
  BY <1>2 DEF Facts
<1>7. QED BY <1>4, <1>5, <1>6

\* Results.
LEMMA ResultsType ==
  /\ \A s \in Statuses : Plain(s) \in Results
  /\ \A s \in Statuses, m \in Markers, i \in Nat : Result(s, m, i) \in Results
  /\ \A t \in Step : FailedStep(t) \in Results
  /\ \A s \in Statuses, b \in BOOLEAN : Decision(s, b) \in Results
<1>1. \A s \in Statuses, m \in Markers, i \in Nat : Result(s, m, i) \in Results
  <2>1. SUFFICES ASSUME NEW s \in Statuses, NEW m \in Markers, NEW i \in Nat
                 PROVE  Result(s, m, i) \in Results
    OBVIOUS
  <2>2. PICK b \in BOOLEAN : b = (m = "ReplanPa")
    OBVIOUS
  <2>3. QED BY <2>2 DEF Result, Results
<1>2. \A s \in Statuses : Plain(s) \in Results
  BY <1>1 DEF Plain, Unknown, Markers
<1>3. QED BY <1>1, <1>2 DEF FailedStep, Step, Markers, Statuses, Decision, Results

\* The type invariant with what it rests on: the plan of the cycle and the cut
\* for the next are plans, and answers are looked at only while there are some.
TypeInv ==
  /\ task \in Plans /\ Sound(plan) /\ Sound(scoped)
  /\ pc \in Points /\ cycle \in Nat
  /\ past \subseteq Nat /\ DOMAIN wave \subseteq Indices(plan)
  /\ pc = "results" => DOMAIN wave # {}
  /\ \A t \in plan : t.at \in DOMAIN wave => wave[t.at] \in Answers(t.role) \ {"error"}
  /\ report \in Report \union {NoReport}
  /\ spent \in Spent
  /\ retained \in BOOLEAN /\ target \in BOOLEAN /\ redo \in BOOLEAN
  /\ facts \in Facts /\ round \in 1..2
  /\ last \in Results
  /\ commands \in 0..MaxCommands
  /\ hist \in Hist

\* The strengthened invariant has the type invariant in it.
LEMMA TypeInvGivesTypeOK == TypeInv => TypeOK
  BY DEF TypeInv, TypeOK, Sound, Hist, Spent, Results, Facts

\* A task starts with sound plans.
LEMMA PlansSound ==
  ASSUME NEW p \in Plans
  PROVE  Sound(p.steps) /\ Sound(p.fallback) /\ p.preflight \in BOOLEAN /\ p.dag \in BOOLEAN
         /\ p.steps # {} /\ (p.preflight => p.fallback # {})
  BY RecoveryLoopAssumption DEF Plan, Sound

\* The answer looked at next is one of a step of the plan.
LEMMA SeenIn ==
  ASSUME TypeInv, DOMAIN wave # {}
  PROVE  /\ Seen \in DOMAIN wave /\ SeenStep \in plan /\ SeenStep.at = Seen /\ Seen \in Nat
         /\ SeenStep \in Step /\ DOMAIN Unseen = DOMAIN wave \ {Seen}
<1>1. DOMAIN wave \subseteq Nat
  BY DEF TypeInv, Sound, Indices, Step
<1>2. \E i \in DOMAIN wave : \A j \in DOMAIN wave : i <= j
  BY <1>1, LeastNumber, Zenon
<1>3. Seen \in DOMAIN wave
  BY <1>2 DEF Seen
<1>4. \E t \in plan : t.at = Seen
  BY <1>3 DEF TypeInv, Indices
<1>5. SeenStep \in plan /\ SeenStep.at = Seen
  BY <1>4 DEF SeenStep
<1>6. QED BY <1>1, <1>3, <1>5 DEF Unseen, TypeInv, Sound

\* Initially every variable has its type.
LEMMA InitType == Init => TypeInv
<1>1. SUFFICES ASSUME Init PROVE TypeInv
  OBVIOUS
<1>2. Sound({}) /\ DOMAIN <<>> = {}
  BY FS_EmptySet DEF Sound
<1>3. last \in Results
  BY <1>1, ResultsType DEF Init, Statuses
<1>4. spent \in Spent
  BY <1>1 DEF Init, Spent, NoSignature
<1>5. hist \in Hist /\ facts \in Facts
  BY <1>1 DEF Init, Hist, Facts
<1>6. target \in BOOLEAN
  BY <1>1 DEF Init
<1>7. plan = {} /\ scoped = {} /\ DOMAIN wave = {}
  BY <1>1, <1>2 DEF Init
<1> HIDE DEF Sound
<1>8. QED
  <2>1. /\ Sound(plan) /\ Sound(scoped) /\ DOMAIN wave \subseteq Indices(plan)
        /\ \A t \in plan : t.at \in DOMAIN wave => wave[t.at] \in Answers(t.role) \ {"error"}
    BY <1>2, <1>7
  <2>2. pc \in Points /\ pc # "results"
    BY <1>1 DEF Init, Points
  <2>3. /\ task \in Plans /\ past \subseteq Nat /\ retained \in BOOLEAN /\ redo \in BOOLEAN
        /\ cycle = 0 /\ round = 1 /\ commands = 0
    BY <1>1 DEF Init
  <2>6. cycle \in Nat /\ round \in 1..2 /\ commands \in 0..MaxCommands
    BY <2>3, RecoveryLoopAssumption
  <2>5. report \in Report \union {NoReport}
    BY <1>1, Zenon DEF Init
  <2>4. QED BY <1>3, <1>4, <1>5, <1>6, <2>1, <2>2, <2>3, <2>5, <2>6 DEF TypeInv

\* One lemma per group of actions: each keeps the invariant of types.
LEMMA DrainType ==
  ASSUME TypeInv, NEW new \in BOOLEAN, Drain(new), facts' \in Receipts(new)
  PROVE  facts' \in Facts /\ target' \in BOOLEAN /\ commands' \in 0..MaxCommands
  BY FactsType, RecoveryLoopAssumption DEF TypeInv, Drain

\* The start of a cycle and the waves without a dispatch.
LEMMA TypeOfCycle ==
  ASSUME TypeInv, BeginCycle \/ TokensSpent \/ DeferWave \/ WavesDone
  PROVE  TypeInv'
<1>1. CASE BeginCycle
  <2>1. Sound(task.fallback) /\ Sound(task.steps)
    BY PlansSound DEF TypeInv
  <2>2. Sound(plan') /\ Sound({}) /\ DOMAIN <<>> = {}
    BY <1>1, <2>1, FS_EmptySet DEF BeginCycle, TypeInv, Sound
  <2>3. retained' \in BOOLEAN
    BY <1>1 DEF BeginCycle, TypeInv
  <2>4. last' \in Results /\ facts' \in Facts
    BY <1>1, ResultsType DEF BeginCycle, Statuses, Facts, NoReceipts
  <2>5. scoped' = {} /\ wave' = <<>> /\ pc' = "wave" /\ past' = {} /\ report' = NoReport
        /\ round' = 1 /\ redo' = FALSE
        /\ UNCHANGED <<target, commands, task, cycle, spent, hist>>
    BY <1>1 DEF BeginCycle, KeepTarget
  <2> HIDE DEF Sound
  <2>6. DOMAIN wave' = {}
    BY <2>2, <2>5
  <2>7. Sound(plan') /\ Sound(scoped')
    BY <2>2, <2>5
  <2>8. pc' \in Points /\ pc' # "results"
    BY <2>5 DEF Points
  <2>9. /\ past' \subseteq Nat /\ DOMAIN wave' \subseteq Indices(plan')
        /\ \A t \in plan' : t.at \in DOMAIN wave' => wave'[t.at] \in Answers(t.role) \ {"error"}
    BY <2>5, <2>6
  <2>10. report' \in Report \union {NoReport}
    BY <2>5, Zenon
  <2>12. round' \in 1..2
    BY <2>5
  <2>13. redo' \in BOOLEAN
    BY <2>5
  <2>11. QED BY <2>3, <2>4, <2>5, <2>7, <2>8, <2>9, <2>10, <2>12, <2>13 DEF TypeInv
<1>2. CASE TokensSpent
  BY <1>2 DEF TokensSpent, TypeInv, End, KeepTarget, Points, Ended
<1>3. CASE DeferWave
  <2>1. Indices(Runnable) \subseteq Nat
    BY DEF Runnable, Indices, TypeInv, Sound, Step
  <2>2. QED BY <1>3, <2>1 DEF DeferWave, TypeInv, KeepTarget
<1>4. CASE WavesDone
  <2>1. PICK new \in BOOLEAN : Drain(new) /\ facts' \in Receipts(new)
    BY <1>4 DEF WavesDone
  <2>2. facts' \in Facts /\ target' \in BOOLEAN /\ commands' \in 0..MaxCommands
    BY <2>1, DrainType
  <2>3. QED BY <1>4, <2>2 DEF WavesDone, TypeInv, Points
<1>5. QED BY <1>1, <1>2, <1>3, <1>4

\* An audit.
LEMMA AuditType ==
  ASSUME TypeInv, NEW class \in Audits, NEW f \in Findings, Judge(class, f)
  PROVE  report' \in Report \union {NoReport} /\ last' \in Results /\ hist' \in Hist
<1>1. Reported(class, f) \in Report
  BY TrackedType DEF TypeInv
<1>2. Reported(class, f) \in Report \union {NoReport}
  BY <1>1, Zenon
<1>3. Audited(hist, Reported(class, f)) \in Hist
  BY <1>2, HistOps DEF TypeInv
<1>4. last' \in Results
  BY ResultsType DEF Judge, Statuses
<1>5. QED BY <1>2, <1>3, <1>4 DEF Judge

\* A dispatch: the wave has an answer for every step it dispatched.
LEMMA TypeOfDispatch ==
  ASSUME TypeInv, DispatchWave
  PROVE  TypeInv'
<1>1. Indices(Runnable) \subseteq Nat /\ Indices(Dispatched) \subseteq Indices(plan)
  BY DEF Runnable, Dispatched, Indices, TypeInv, Sound, Step
<1>2. facts' \in Facts /\ target' \in BOOLEAN /\ commands' \in 0..MaxCommands
  BY DrainType DEF DispatchWave
<1>3. Due(hist) \in Hist /\ Implement(hist) \in Hist
  BY HistOps, Zenon DEF TypeInv
<1>4. Implement(Due(hist)) \in Hist
  BY <1>3, HistOps, Zenon DEF TypeInv
<1>5. hist' \in Hist
  <2>1. PICK h, l : /\ h \in {hist, Implement(hist), Implement(Due(hist))}
                    /\ l \in {h, Due(h)} /\ hist' \in {l, Halt(l)}
    <3> DEFINE fresh == Indices(OfRole(Dispatched, "Do")) \ hist.done
              h == CASE OfRole(Dispatched, "Do") = {} -> hist
                     [] fresh # {}                     -> Implement(Due(hist))
                     [] OTHER                          -> Implement(hist)
              l(a) == IF \E t \in Dispatched : a[t] = "error" THEN Due(h) ELSE h
    <3>1. PICK a : hist' = IF \E t \in Dispatched : a[t] = "stop" THEN Halt(l(a)) ELSE l(a)
      BY DEF DispatchWave
    <3>2. h \in {hist, Implement(hist), Implement(Due(hist))}
      OBVIOUS
    <3> HIDE DEF h
    <3>3. l(a) \in {h, Due(h)} /\ hist' \in {l(a), Halt(l(a))}
      BY <3>1
    <3>4. QED BY <3>2, <3>3
  <2>2. h \in Hist
    BY <1>3, <1>4, <2>1 DEF TypeInv
  <2>3. l \in Hist
    BY <2>1, <2>2, HistOps, Zenon DEF TypeInv
  <2>4. QED BY <2>1, <2>3, HistOps, Zenon DEF TypeInv
<1>6. /\ DOMAIN wave' \subseteq Indices(plan) /\ pc' \in {"results", "error", "route"}
      /\ \A t \in plan : t.at \in DOMAIN wave' => wave'[t.at] \in Answers(t.role) \ {"error"}
      /\ pc' = "results" => DOMAIN wave' # {}
      /\ last' \in {last, Plain("failed")}
  <2>1. PICK answer : /\ \A t \in Dispatched : answer[t] \in Answers(t.role)
                      /\ IF \E t \in Dispatched : answer[t] = "error"
                         THEN /\ wave' = <<>>
                              /\ IF Cardinality(Dispatched) = 1 THEN End("error") /\ UNCHANGED last
                                                                ELSE Return(Plain("failed"))
                         ELSE /\ wave' = [i \in Indices(Dispatched) |->
                                            answer[CHOOSE t \in Dispatched : t.at = i]]
                              /\ pc' = "results" /\ UNCHANGED last
    BY DEF DispatchWave
  <2>2. Dispatched # {} /\ Indices(Dispatched) # {}
    BY DEF DispatchWave, Indices
  <2>3. CASE \E t \in Dispatched : answer[t] = "error"
    <3>1. wave' = <<>> /\ pc' \in {"error", "route"} /\ last' \in {last, Plain("failed")}
      BY <2>1, <2>3 DEF End, Return
    <3>2. DOMAIN wave' = {} BY <3>1
    <3>3. QED BY <3>1, <3>2
  <2>4. CASE ~ \E t \in Dispatched : answer[t] = "error"
    <3>1. DOMAIN wave' = Indices(Dispatched) /\ pc' = "results" /\ last' = last
      BY <2>1, <2>4
    <3>2. ASSUME NEW t \in plan, t.at \in DOMAIN wave' PROVE wave'[t.at] \in Answers(t.role) \ {"error"}
      <4>1. t \in Dispatched
        BY <3>1, <3>2 DEF Indices, Dispatched, Runnable, TypeInv, Sound
      <4>2. (CHOOSE u \in Dispatched : u.at = t.at) = t
        BY <4>1 DEF Dispatched, Runnable, TypeInv, Sound
      <4>3. wave'[t.at] = answer[t]
        BY <2>1, <2>4, <3>1, <3>2, <4>2
      <4>4. QED BY <2>1, <2>4, <4>1, <4>3
    <3>3. QED BY <1>1, <2>2, <3>1, <3>2
  <2>5. QED BY <2>3, <2>4
<1>7. last' \in Results /\ pc' \in Points
  BY <1>6, ResultsType DEF TypeInv, Statuses, Points, Ended
<1>8. past' \subseteq Nat
  BY <1>1 DEF DispatchWave, TypeInv
<1>9. UNCHANGED <<task, plan, cycle, scoped, report, spent, retained, round, redo>>
  BY DEF DispatchWave
<1>10. QED BY <1>2, <1>5, <1>6, <1>7, <1>8, <1>9 DEF TypeInv

\* What a check agent can answer is an audit, a failure or a crash.
LEMMA AuditAnswer ==
  \A a \in Answers("Check") : a \notin {"stop", "failed", "error"} => a \in Audits \union {"crash"}
  BY DEF Answers

\* Answers are looked at until none is left.
LEMMA LaterIs == Later \in {"wave", "results"} /\ (Later = "results" <=> DOMAIN wave # {Seen})
  BY DEF Later

\* The answers.
LEMMA TypeOfSeen ==
  ASSUME TypeInv, StopSeen \/ FailureSeen \/ PlanSeen \/ WorkSeen \/ CheckSeen \/ ActSeen
  PROVE  TypeInv'
<1>1. /\ pc = "results" /\ DOMAIN wave # {}
      /\ Seen \in DOMAIN wave /\ SeenStep \in Step /\ SeenStep \in plan
      /\ Seen \in Nat /\ DOMAIN Unseen = DOMAIN wave \ {Seen}
      /\ DOMAIN <<>> = {}
  <2>1. pc = "results" /\ DOMAIN wave # {}
    BY DEF StopSeen, FailureSeen, PlanSeen, WorkSeen, CheckSeen, ActSeen, TypeInv
  <2>2. QED BY <2>1, SeenIn
<1>2. DOMAIN Unseen \subseteq Indices(plan) /\ Later \in {"wave", "results"}
      /\ (Later = "results" => DOMAIN Unseen # {})
  BY <1>1 DEF Later, TypeInv
<1>3. CASE StopSeen \/ FailureSeen
  <2>1. last' \in Results /\ hist' \in Hist /\ pc' = "route" /\ wave' = <<>>
    BY <1>1, <1>3, ResultsType, HistOps DEF StopSeen, FailureSeen, Return, TypeInv, Statuses
  <2>2. UNCHANGED <<task, plan, cycle, scoped, past, report, spent, retained, facts, round, redo, target, commands>>
    BY <1>3 DEF StopSeen, FailureSeen, KeepTarget
  <2>3. DOMAIN wave' = {} /\ pc' \in Points /\ pc' # "results"
    BY <1>1, <2>1 DEF Points
  <2>4. QED BY <2>1, <2>2, <2>3 DEF TypeInv
<1>4. CASE PlanSeen \/ WorkSeen \/ CheckSeen \/ ActSeen
  <2>1. /\ DOMAIN wave' \subseteq Indices(plan) /\ pc' \in Points
        /\ (pc' = "results" => DOMAIN wave' # {})
        /\ \A t \in plan : t.at \in DOMAIN wave' => wave'[t.at] \in Answers(t.role) \ {"error"}
    <3>1. wave' = Unseen /\ pc' = Later
      BY <1>4 DEF PlanSeen, WorkSeen, CheckSeen, ActSeen
    <3>2. Later \in Points
      BY <1>2 DEF Points
    <3>3. \A i \in DOMAIN Unseen : i \in DOMAIN wave /\ Unseen[i] = wave[i]
      BY DEF Unseen
    <3>4. QED BY <1>2, <3>1, <3>2, <3>3 DEF TypeInv
  <2>2. UNCHANGED <<task, plan, cycle, scoped, retained, round, redo, target, commands>>
    BY <1>4 DEF PlanSeen, WorkSeen, CheckSeen, ActSeen, KeepTarget
  <2>3. past' \subseteq Nat
    BY <1>4 DEF PlanSeen, WorkSeen, CheckSeen, ActSeen, TypeInv, Indices, Sound, Step
  <2>4. /\ spent' \in Spent /\ report' \in Report \union {NoReport}
        /\ last' \in Results /\ hist' \in Hist /\ facts' \in Facts
    <3>1. CASE PlanSeen
      BY <3>1, ResultsType DEF PlanSeen, TypeInv, Statuses
    <3>2. CASE WorkSeen
      <4>1. last' \in Results
        BY <3>2, ResultsType DEF WorkSeen, Statuses
      <4>2. facts' \in Facts
        BY <3>2, FactsType DEF WorkSeen, TypeInv
      <4>3. hist' \in Hist
        <5>1. PICK b \in BOOLEAN : b = (wave[Seen] = "partial")
          OBVIOUS
        <5>2. hist' = [hist EXCEPT !.done = @ \union {Seen}, !.due = @ \/ b]
          BY <3>2, <5>1 DEF WorkSeen
        <5>3. QED BY <1>1, <5>2, HistOps DEF TypeInv
      <4>4. QED BY <3>2, <4>1, <4>2, <4>3 DEF WorkSeen, TypeInv
    <3>3. CASE CheckSeen
      <4>1. PICK f \in Findings : Audit(IF wave[Seen] = "crash" THEN "gap" ELSE wave[Seen], f)
        BY <3>3 DEF CheckSeen
      <4>2. facts' \in Facts
        BY <3>3, FactsType DEF CheckSeen, TypeInv
      <4>3. (IF wave[Seen] = "crash" THEN "gap" ELSE wave[Seen]) \in Audits
        <5>1. wave[Seen] \in Answers("Check") \ {"error"}
          BY <1>1, <3>3, SeenIn DEF CheckSeen, TypeInv
        <5>2. wave[Seen] \in Audits \union {"crash"}
          BY <3>3, <5>1, AuditAnswer DEF CheckSeen
        <5>3. QED BY <5>2 DEF Audits
      <4>4. spent' \in Spent
        BY <4>1, <4>3, TrackedType DEF Audit, TypeInv
      <4>5. QED BY <4>1, <4>2, <4>3, <4>4, AuditType DEF Audit
    <3>4. CASE ActSeen
      <4>1. PICK confirmed \in BOOLEAN : /\ last' = Decision(wave[Seen], confirmed)
                                         /\ hist' = Decided(wave[Seen], confirmed)
        BY <3>4 DEF ActSeen
      <4>2. wave[Seen] \in Statuses
        BY <3>4 DEF ActSeen, Statuses
      <4>3. QED BY <3>4, <4>1, <4>2, ResultsType, DecidedHist DEF ActSeen, TypeInv
    <3>5. QED BY <1>4, <3>1, <3>2, <3>3, <3>4
  <2>5. QED BY <2>1, <2>2, <2>3, <2>4 DEF TypeInv
<1>5. QED BY <1>3, <1>4

\* Delivery, repair and the end of execute_plan leave the plan as it is.
LEMMA RigidType ==
  ASSUME TypeInv, Rigid, pc' \in Points, pc' # "results",
         report' \in Report \union {NoReport}, spent' \in Spent, redo' \in BOOLEAN,
         target' \in BOOLEAN, commands' \in 0..MaxCommands, facts' \in Facts, round' \in 1..2,
         last' \in Results, hist' \in Hist
  PROVE  TypeInv'
  BY DEF TypeInv, Rigid

\* The first and the last step of a role the plan has.
LEMMA RoleSteps ==
  ASSUME NEW p, Sound(p), NEW r
  PROVE  /\ OfRole(p, r) \subseteq p /\ OfRole(p, r) \subseteq Step /\ IsFiniteSet(OfRole(p, r))
         /\ OfRole(p, r) # {} => First(OfRole(p, r)) \in OfRole(p, r) /\ Last(OfRole(p, r)) \in OfRole(p, r)
<1>1. OfRole(p, r) \subseteq p /\ OfRole(p, r) \subseteq Step
  BY DEF OfRole, Sound
<1>2. IsFiniteSet(OfRole(p, r))
  BY <1>1, FS_Subset DEF Sound
<1>3. QED BY <1>1, <1>2, FirstIn, LastIn

\* Delivery of the target.
LEMMA TypeOfDeliver ==
  ASSUME TypeInv, Deliver
  PROVE  TypeInv'
<1>1. Due(hist) \in Hist
  BY HistOps, Zenon DEF TypeInv
<1>2. Implement(Due(hist)) \in Hist
  BY <1>1, HistOps, Zenon DEF TypeInv
<1>3. hist' \in Hist
  <2>1. hist' \in {hist, Due(Implement(Due(hist))), Halt(Implement(Due(hist))), Implement(Due(hist))}
    BY DEF Deliver, MissingRole
  <2>2. QED BY <1>2, <2>1, HistOps, Zenon DEF TypeInv
<1>4. facts' \in Facts /\ redo' \in BOOLEAN
  BY FactsType DEF Deliver, MissingRole, LostAgent, StoppedAgent, TypeInv
<1>5. last' \in {last, Plain("stop"), Plain("failed")} /\ pc' \in {"verify", "error", "route"}
  BY DEF Deliver, MissingRole, LostAgent, StoppedAgent, Return, End
<1>6. last' \in Results /\ pc' \in Points
  BY <1>5, ResultsType DEF TypeInv, Statuses, Points, Ended
<1>7. KeepTarget /\ Rigid /\ UNCHANGED <<report, spent, round>>
  BY DEF Deliver
<1>8. QED BY <1>3, <1>4, <1>5, <1>6, <1>7, RigidType DEF TypeInv, KeepTarget

\* Its verification.
LEMMA TypeOfVerify ==
  ASSUME TypeInv, Verify
  PROVE  TypeInv'
<1>1. KeepTarget /\ Rigid /\ UNCHANGED round
  BY DEF Verify
<1>2. /\ spent' \in Spent /\ report' \in Report \union {NoReport}
      /\ last' \in Results /\ hist' \in Hist /\ facts' \in Facts
      /\ pc' \in {"repair", "mark", "error", "route"} /\ redo' \in BOOLEAN
  <2>1. CASE Delivered /\ pc' = AfterDelivery /\ UNCHANGED <<facts, redo, last, hist, report, spent>>
    BY <2>1 DEF TypeInv, AfterDelivery
  <2>2. CASE MissingRole("Check") /\ UNCHANGED <<report, spent>>
    BY <2>2 DEF TypeInv, MissingRole, End
  <2>3. CASE LostAgent /\ hist' = Due(hist) /\ UNCHANGED <<report, spent>>
    BY <2>3, HistOps DEF TypeInv, LostAgent, End
  <2>4. CASE StoppedAgent /\ hist' = Halt(hist) /\ UNCHANGED <<report, spent>>
    BY <2>4, HistOps, ResultsType DEF TypeInv, StoppedAgent, Return, Statuses
  <2>5. CASE /\ \E reads \in BOOLEAN, class \in Audits, f \in Findings :
                 /\ facts' = ReadBy(facts, reads)
                 /\ Audit(IF reads THEN class ELSE "gap", f)
             /\ redo' = TRUE /\ pc' = AfterDelivery
    <3>1. PICK reads \in BOOLEAN, class \in Audits, f \in Findings :
                 /\ facts' = ReadBy(facts, reads)
                 /\ Audit(IF reads THEN class ELSE "gap", f)
      BY <2>5
    <3>2. (IF reads THEN class ELSE "gap") \in Audits
      BY DEF Audits
    <3>3. facts' \in Facts
      BY <3>1, FactsType DEF TypeInv
    <3>4. spent' \in Spent
      BY <3>1, <3>2, TrackedType DEF Audit, TypeInv
    <3>5. QED BY <2>5, <3>1, <3>2, <3>3, <3>4, AuditType DEF Audit, AfterDelivery
  <2>6. QED BY <2>1, <2>2, <2>3, <2>4, <2>5 DEF Verify
<1>3. pc' \in Points
  BY <1>2 DEF Points, Ended
<1>4. QED BY <1>1, <1>2, <1>3, RigidType DEF TypeInv, KeepTarget

\* Another audit.
LEMMA ReauditType ==
  ASSUME TypeInv, NEW rewrite \in BOOLEAN, NEW count \in Spent, Reaudit(rewrite, count)
  PROVE  /\ spent' \in Spent /\ report' \in Report \union {NoReport} /\ last' \in Results
         /\ hist' \in Hist /\ facts' \in Facts /\ pc' \in {"route", "repair"}
<1>1. CASE Return(Plain("stop")) /\ hist' = Halt(hist) /\ spent' = count /\ UNCHANGED <<report, facts>>
  BY <1>1, HistOps, ResultsType DEF TypeInv, Return, Statuses
<1>2. CASE \E class \in Audits, f \in Findings, reads \in BOOLEAN :
       LET seen == IF rewrite /\ class = "gap" THEN "form" ELSE class IN
       /\ Judge(seen, f)
       /\ spent' = [Tracked(seen, f) EXCEPT !.rechecks = count.rechecks,
                                            !.rewrites = count.rewrites]
       /\ facts' = IF target THEN ReadBy(facts, reads) ELSE facts
       /\ pc' = "repair"
  <2>1. PICK class \in Audits, f \in Findings, reads \in BOOLEAN :
       LET seen == IF rewrite /\ class = "gap" THEN "form" ELSE class IN
       /\ Judge(seen, f)
       /\ spent' = [Tracked(seen, f) EXCEPT !.rechecks = count.rechecks,
                                            !.rewrites = count.rewrites]
       /\ facts' = IF target THEN ReadBy(facts, reads) ELSE facts
       /\ pc' = "repair"
    BY <1>2
  <2>2. PICK seen \in Audits : seen = IF rewrite /\ class = "gap" THEN "form" ELSE class
    BY DEF Audits
  <2>3. /\ Judge(seen, f)
        /\ spent' = [Tracked(seen, f) EXCEPT !.rechecks = count.rechecks, !.rewrites = count.rewrites]
        /\ facts' = IF target THEN ReadBy(facts, reads) ELSE facts
        /\ pc' = "repair"
    BY <2>1, <2>2
  <2>4. facts' \in Facts
    BY <2>3, FactsType DEF TypeInv
  <2>5. Tracked(seen, f) \in Spent
    BY TrackedType DEF TypeInv
  <2>6. spent' \in Spent
    BY <2>3, <2>5 DEF Spent
  <2>7. QED BY <2>3, <2>4, <2>6, AuditType
<1>3. QED BY <1>1, <1>2 DEF Reaudit

\* The recovery loop.
LEMMA TypeOfRepair ==
  ASSUME TypeInv, Recheck \/ RefuseRepair \/ Repair \/ ReauditRepair \/ EndRepair
  PROVE  TypeInv'
<1>1. CASE Recheck
  <2> DEFINE rewrite == report.class = "form"
             count == IF rewrite THEN [spent EXCEPT !.rewrites = @ + 1]
                                 ELSE [spent EXCEPT !.rechecks = @ + 1]
  <2>1. PICK b \in BOOLEAN : b = rewrite
    OBVIOUS
  <2>2. count \in Spent
    BY DEF TypeInv, Spent
  <2>3. KeepTarget /\ Rigid /\ UNCHANGED round /\ redo' = TRUE
    BY <1>1 DEF Recheck
  <2>4. \/ Reaudit(rewrite, count)
        \/ spent' = count /\ UNCHANGED <<pc, report, facts, last, hist>>
    BY <1>1 DEF Recheck
  <2>5. pc = "repair"
    BY <1>1 DEF Recheck
  <2> HIDE DEF count, rewrite
  <2>6. /\ spent' \in Spent /\ report' \in Report \union {NoReport} /\ last' \in Results
        /\ hist' \in Hist /\ facts' \in Facts /\ pc' \in {"route", "repair"}
    <3>1. CASE Reaudit(rewrite, count)
      BY <2>1, <2>2, <3>1, ReauditType
    <3>2. CASE spent' = count /\ UNCHANGED <<pc, report, facts, last, hist>>
      BY <2>2, <2>5, <3>2 DEF TypeInv
    <3>3. QED BY <2>4, <3>1, <3>2
  <2>7. pc' \in Points
    BY <2>6 DEF Points
  <2>8. QED BY <2>3, <2>6, <2>7, RigidType DEF TypeInv, KeepTarget
<1>2. CASE RefuseRepair
  <2>1. report # NoReport
    BY <1>2 DEF RefuseRepair, NoReport
  <2>2. report \in Report
    BY <2>1 DEF TypeInv
  <2>3. report' \in Report
    BY <1>2, <2>2 DEF RefuseRepair, Report, Audits
  <2>4. report' \in Report \union {NoReport}
    BY <2>3, Zenon
  <2>5. hist' \in Hist
    BY <1>2 DEF RefuseRepair, TypeInv
  <2>6. pc' = "repair" /\ KeepTarget /\ Rigid /\ UNCHANGED <<pc, spent, facts, round, redo, last>>
    BY <1>2 DEF RefuseRepair
  <2>7. pc' \in Points BY <2>6 DEF Points
  <2>8. QED BY <2>4, <2>5, <2>6, <2>7, RigidType DEF TypeInv, KeepTarget
<1>3. CASE Repair
  <2>1. spent' \in Spent
    BY <1>3 DEF Repair, TypeInv, Spent
  <2>2. Implement(hist) \in Hist
    BY HistOps, Zenon DEF TypeInv
  <2>3. hist' \in {hist, Due(Implement(hist)), Halt(Implement(hist)), Implement(hist)}
    BY <1>3 DEF Repair
  <2>4. hist' \in Hist
    BY <2>2, <2>3, HistOps, Zenon DEF TypeInv
  <2>5. /\ facts' \in Facts /\ target' \in BOOLEAN /\ commands' \in 0..MaxCommands
        /\ pc' \in {"error", "deliver", "route", "reaudit"} /\ round' \in 1..2
        /\ last' \in {last, Plain("stop")}
    BY <1>3, FactsType, DrainType DEF Repair, TypeInv, KeepTarget, LeaveRepair, End, Return
  <2>6. last' \in Results /\ pc' \in Points
    BY <2>5, ResultsType DEF TypeInv, Statuses, Points, Ended
  <2>7. Rigid /\ UNCHANGED report /\ redo' = TRUE
    BY <1>3 DEF Repair
  <2>8. QED BY <2>1, <2>4, <2>5, <2>6, <2>7, RigidType DEF TypeInv
<1>4. CASE ReauditRepair
  <2>1. Rigid /\ UNCHANGED redo
    BY <1>4 DEF ReauditRepair
  <2>2. CASE Reaudit(FALSE, spent) /\ KeepTarget /\ UNCHANGED round
    <3>1. /\ spent' \in Spent /\ report' \in Report \union {NoReport} /\ last' \in Results
          /\ hist' \in Hist /\ facts' \in Facts /\ pc' \in {"route", "repair"}
      BY <2>2, ReauditType DEF TypeInv
    <3>2. pc' \in Points BY <3>1 DEF Points
    <3>3. QED BY <2>1, <2>2, <3>1, <3>2, RigidType DEF TypeInv, KeepTarget
  <2>3. CASE /\ \E new \in BOOLEAN : LeaveRepair(new) /\ facts' \in Receipts(new)
             /\ hist' = Due(hist)
             /\ UNCHANGED <<spent, report, last>>
    <3>1. /\ facts' \in Facts /\ target' \in BOOLEAN /\ commands' \in 0..MaxCommands
          /\ pc' = "deliver" /\ round' \in 1..2
      BY <2>3, DrainType DEF LeaveRepair
    <3>2. hist' \in Hist /\ pc' \in Points
      BY <2>3, <3>1, HistOps DEF TypeInv, Points
    <3>3. QED BY <2>1, <2>3, <3>1, <3>2, RigidType DEF TypeInv
  <2>4. QED BY <1>4, <2>2, <2>3 DEF ReauditRepair
<1>5. CASE EndRepair
  <2>1. /\ facts' \in Facts /\ target' \in BOOLEAN /\ commands' \in 0..MaxCommands
        /\ pc' = "deliver" /\ round' \in 1..2
    BY <1>5, DrainType DEF EndRepair, LeaveRepair
  <2>2. pc' \in Points BY <2>1 DEF Points
  <2>3. Rigid /\ UNCHANGED <<report, spent, redo, last, hist>>
    BY <1>5 DEF EndRepair
  <2>4. QED BY <2>1, <2>2, <2>3, RigidType DEF TypeInv
<1>6. QED BY <1>1, <1>2, <1>3, <1>4, <1>5

\* The directive for a rejecting report.
LEMMA DirectiveIs ==
  ASSUME NEW r
  PROVE  /\ Directive(r) \in {"Accept", "RetryCa", "RetryDa", "ReplanPa", "Blocked"}
         /\ Directive(r) = "Accept" <=> ~Rejects(r)
         /\ Rejects(r) => (EvidenceOnly(r) <=> Directive(r) \in {"RetryCa", "Blocked"})
  BY DEF Directive

\* The end of execute_plan.
LEMMA TypeOfEnd ==
  ASSUME TypeInv, Mark \/ Decide \/ Gate
  PROVE  TypeInv'
<1>1. CASE Mark
  <2>1. last' \in Results
    <3>1. CASE Rejects(report)
      <4>1. PICK d : d = Directive(report)
        OBVIOUS
      <4>2. d \in Markers
        BY <3>1, <4>1, DirectiveIs DEF Markers
      <4>3. PICK r : r \in {"Do", "Check", "Plan"} /\ OwnerOf(d) = OfRole(plan, r)
        BY DEF OwnerOf
      <4>4. PICK i \in Nat : i = IF OwnerOf(d) = {} THEN Unknown ELSE First(OwnerOf(d)).at
        BY <4>3, RoleSteps DEF TypeInv, Unknown, Step
      <4>5. last' = Result("failed", d, i)
        BY <1>1, <3>1, <4>1, <4>4 DEF Mark
      <4>6. QED BY <4>2, <4>5, ResultsType DEF Statuses
    <3>2. CASE ~Rejects(report)
      BY <1>1, <3>2 DEF Mark, TypeInv
    <3>3. QED BY <3>1, <3>2
  <2>2. pc' = "decide" /\ KeepTarget /\ Rigid /\ UNCHANGED <<report, spent, facts, round, redo>>
        /\ hist' \in {hist, Due(hist)}
    BY <1>1 DEF Mark
  <2>3. pc' \in Points /\ hist' \in Hist
    BY <2>2, HistOps DEF Points, TypeInv
  <2>4. QED BY <2>1, <2>2, <2>3, RigidType DEF TypeInv, KeepTarget
<1>2. CASE Decide
  <2>1. KeepTarget /\ Rigid /\ UNCHANGED <<report, spent, facts, round, redo>>
    BY <1>2 DEF Decide
  <2>2. last' \in Results /\ hist' \in Hist /\ pc' \in {"gate", "error", "route"}
    <3>1. CASE pc' = "gate" /\ UNCHANGED <<last, hist>>
      BY <3>1 DEF TypeInv
    <3>2. CASE End("error") /\ hist' = Due(hist) /\ UNCHANGED last
      BY <3>2, HistOps DEF End, TypeInv
    <3>3. CASE Return(Plain("stop")) /\ hist' = Halt(hist)
      BY <3>3, HistOps, ResultsType DEF Return, TypeInv, Statuses
    <3>4. CASE HasRole("Act") /\ Return(FailedStep(Last(OfRole(plan, "Act")))) /\ hist' = Due(hist)
      <4>1. Last(OfRole(plan, "Act")) \in Step
        BY <3>4, RoleSteps DEF HasRole, TypeInv
      <4>2. QED BY <3>4, <4>1, HistOps, ResultsType DEF Return, TypeInv
    <3>5. CASE \E status \in {"success", "partial"}, confirmed \in BOOLEAN :
                /\ last' = Decision(status, confirmed) /\ hist' = Decided(status, confirmed)
                /\ pc' = "gate"
      BY <3>5, ResultsType, DecidedHist DEF TypeInv, Statuses
    <3>6. QED BY <1>2, <3>1, <3>2, <3>3, <3>4, <3>5 DEF Decide
  <2>3. pc' \in Points BY <2>2 DEF Points, Ended
  <2>4. QED BY <2>1, <2>2, <2>3, RigidType DEF TypeInv, KeepTarget
<1>3. CASE Gate
  <2>1. Rigid /\ UNCHANGED <<report, spent, round, redo>>
    BY <1>3 DEF Gate
  <2>2. facts' \in Facts /\ target' \in BOOLEAN /\ commands' \in 0..MaxCommands
    BY <1>3, DrainType DEF Gate
  <2>3. last' \in Results /\ hist' \in Hist /\ pc' = "route"
    <3>1. CASE /\ Return([last EXCEPT !.status = "failed", !.scope = FALSE, !.confirmed = FALSE])
               /\ hist' = Due(hist)
      BY <3>1, HistOps DEF Return, TypeInv, Results, Statuses
    <3>2. CASE pc' = "route" /\ UNCHANGED <<last, hist>>
      BY <3>2 DEF TypeInv
    <3>3. CASE HasRole("Check") /\ Return(FailedStep(Last(OfRole(plan, "Check")))) /\ UNCHANGED hist
      <4>1. Last(OfRole(plan, "Check")) \in Step
        BY <3>3, RoleSteps DEF HasRole, TypeInv
      <4>2. QED BY <3>3, <4>1, ResultsType DEF Return, TypeInv
    <3>4. QED BY <1>3, <3>1, <3>2, <3>3 DEF Gate
  <2>4. pc' \in Points BY <2>3 DEF Points
  <2>5. QED BY <2>1, <2>2, <2>3, <2>4, RigidType DEF TypeInv
<1>4. QED BY <1>1, <1>2, <1>3

\* Where the supervisor goes from a result: to an end, to a cut of the plan,
\* or back to the plan of the task.
LEMMA RouteMoves ==
  ASSUME TypeInv, Route
  PROVE  /\ pc = "route"
         /\ \/ pc' \in {"stopped", "accepted"} /\ UNCHANGED <<scoped, cycle, spent>>
            \/ \E d : /\ d \in {"RetryDa", "RetryCa"} /\ (d = "RetryCa" => last.marker = "RetryCa")
                      /\ last.marker = "RetryCa" => d = "RetryCa"
                      /\ ~task.dag /\ ~NeedsExecution /\ last.status # "success"
                      /\ last.marker \in {"RetryCa", "RetryDa"} \/ ~last.scope
                      /\ RetryPlan(plan, d, last.failed) # {}
                      /\ NextCycle(RetryPlan(plan, d, last.failed)) /\ UNCHANGED spent
            \/ /\ NextCycle({})
               /\ spent' = spent \/ spent' = [spent EXCEPT !.replans = @ + 1]
               /\ NeedsExecution \/ last.status = "success"
                    \/ (last.marker \notin {"RetryCa", "RetryDa"} /\ (last.scope \/ last.status = "partial"))
         /\ hist' = IF last.status = "success" /\ ~NeedsExecution /\ pc' = "cycle" THEN Reopened(hist)
                    ELSE IF NeedsExecution THEN Due(hist) ELSE hist
         /\ KeepTarget /\ UNCHANGED <<task, plan, past, wave, report, retained, facts, round, redo, last>>
         /\ pc' = "accepted" => last.status = "success" /\ last.marker # "Blocked" /\ ~NeedsExecution
         /\ pc' = "cycle" => last.status # "stop" /\ last.marker # "Blocked"
<1> DEFINE declared == last.marker \in {"RetryCa", "RetryDa"}
           wide(prose) == last.scope \/ (last.status = "partial" /\ prose)
           passed == last.status = "success" /\ ~NeedsExecution
<1>1. PICK prose, late \in BOOLEAN :
          IF last.status = "stop" \/ last.marker = "Blocked" THEN Stop
          ELSE IF passed /\ ~late THEN End("accepted") /\ UNCHANGED <<scoped, cycle, spent>>
          ELSE IF cycle + 1 >= Cycles THEN Stop
          ELSE IF passed THEN NextCycle({}) /\ UNCHANGED spent
          ELSE IF ~NeedsExecution /\ (declared \/ ~wide(prose))
               THEN RetryScoped(IF declared THEN last.marker ELSE "RetryDa")
          ELSE Replan
  BY DEF Route
<1>2. /\ pc = "route"
      /\ hist' = IF passed /\ pc' = "cycle" THEN Reopened(hist)
                 ELSE IF NeedsExecution THEN Due(hist) ELSE hist
      /\ KeepTarget /\ UNCHANGED <<task, plan, past, wave, report, retained, facts, round, redo, last>>
  BY DEF Route
<1>3. CASE last.status = "stop" \/ last.marker = "Blocked"
  BY <1>1, <1>2, <1>3 DEF Stop, End
<1>4. CASE ~(last.status = "stop" \/ last.marker = "Blocked") /\ passed /\ ~late
  BY <1>1, <1>2, <1>4 DEF End
<1>5. CASE ~(last.status = "stop" \/ last.marker = "Blocked") /\ ~(passed /\ ~late)
  <2>1. CASE cycle + 1 >= Cycles
    <3>1. Stop BY <1>1, <1>5, <2>1
    <3>2. QED BY <1>2, <3>1 DEF Stop, End
  <2>2. CASE ~(cycle + 1 >= Cycles) /\ passed
    BY <1>1, <1>2, <1>5, <2>2 DEF NextCycle
  <2>3. CASE ~(cycle + 1 >= Cycles) /\ ~passed /\ ~NeedsExecution /\ (declared \/ ~wide(prose))
    <3>1. PICK d : d = IF declared THEN last.marker ELSE "RetryDa"
      OBVIOUS
    <3>2. RetryScoped(d)
      BY <1>1, <1>5, <2>3, <3>1
    <3>3. CASE task.dag \/ RetryPlan(plan, d, last.failed) = {}
      BY <1>2, <3>2, <3>3 DEF RetryScoped, Stop, End
    <3>4. CASE ~(task.dag \/ RetryPlan(plan, d, last.failed) = {})
      <4>1. NextCycle(RetryPlan(plan, d, last.failed)) /\ UNCHANGED spent
        BY <3>2, <3>4 DEF RetryScoped
      <4>2. pc' = "cycle" BY <4>1 DEF NextCycle
      <4>3. d \in {"RetryDa", "RetryCa"} /\ (d = "RetryCa" <=> last.marker = "RetryCa")
        BY <3>1
      <4>4. QED BY <1>2, <1>5, <2>3, <3>4, <4>1, <4>2, <4>3
    <3>5. QED BY <3>3, <3>4
  <2>4. CASE ~(cycle + 1 >= Cycles) /\ ~passed /\ ~(~NeedsExecution /\ (declared \/ ~wide(prose)))
    <3>1. Replan
      BY <1>1, <1>5, <2>4
    <3>2. \/ NextCycle({}) /\ (spent' = spent \/ spent' = [spent EXCEPT !.replans = @ + 1])
          \/ Stop
      BY <3>1 DEF Replan
    <3>3. CASE Stop
      BY <1>2, <3>3 DEF Stop, End
    <3>4. CASE NextCycle({}) /\ (spent' = spent \/ spent' = [spent EXCEPT !.replans = @ + 1])
      BY <1>2, <1>5, <2>4, <3>4 DEF NextCycle
    <3>5. QED BY <3>2, <3>3, <3>4
  <2>5. QED BY <2>1, <2>2, <2>3, <2>4
<1>6. QED BY <1>3, <1>4, <1>5

\* Routing keeps the types: what the next cycle runs is again a plan.
LEMMA TypeOfRoute ==
  ASSUME TypeInv, Route
  PROVE  TypeInv'
<1>1. Sound({})
  BY FS_EmptySet DEF Sound
<1>2. Sound(scoped') /\ spent' \in Spent /\ cycle' \in Nat /\ pc' \in {"stopped", "accepted", "cycle"}
  <2>1. CASE pc' \in {"stopped", "accepted"} /\ UNCHANGED <<scoped, cycle, spent>>
    BY <2>1 DEF TypeInv
  <2>2. CASE \E d : NextCycle(RetryPlan(plan, d, last.failed)) /\ UNCHANGED spent
    BY <2>2, RetryPlanSound DEF TypeInv, NextCycle
  <2>3. CASE NextCycle({}) /\ (spent' = spent \/ spent' = [spent EXCEPT !.replans = @ + 1])
    BY <1>1, <2>3 DEF TypeInv, NextCycle, Spent
  <2>4. QED BY <2>1, <2>2, <2>3, RouteMoves
<1>3. hist' \in Hist
  BY RouteMoves, HistOps, Zenon DEF TypeInv
<1>4. KeepTarget /\ UNCHANGED <<task, plan, past, wave, report, retained, facts, round, redo, last>>
  BY RouteMoves
<1>5. pc' \in Points /\ pc' # "results"
  BY <1>2 DEF Points, Ended
<1>6. QED BY <1>2, <1>3, <1>4, <1>5 DEF TypeInv, KeepTarget

\* Every step keeps the types.
LEMMA TypeStep == TypeInv /\ [Next]_vars => TypeInv'
<1>1. SUFFICES ASSUME TypeInv, [Next]_vars PROVE TypeInv'
  OBVIOUS
<1>2. CASE UNCHANGED vars
  BY <1>1, <1>2 DEF vars, TypeInv
<1>3. CASE Next
  BY <1>1, <1>3, TypeOfCycle, TypeOfDispatch, TypeOfSeen, TypeOfDeliver, TypeOfVerify, TypeOfRepair,
     TypeOfEnd, TypeOfRoute, <1>2 DEF Next, Done
<1>4. QED BY <1>1, <1>2, <1>3

\* The strengthened type invariant holds in every behaviour.
LEMMA TypeInvariant == Spec => []TypeInv
  BY InitType, TypeStep, PTL DEF Spec

\* The variables of the recovery loops keep their types, whatever the plans, the
\* budgets and the findings: in particular the result, the counters and the cut
\* of every cycle (src/src/core/sa/process.rs, src/src/core/sa/execution.rs).
THEOREM TypeCorrect == Spec => []TypeOK
  BY TypeInvariant, TypeInvGivesTypeOK, PTL


-----------------------------------------------------------------------------
(***************************************************************************)
(* Evidence gaps spare the implementation.                                 *)
(***************************************************************************)
Ran == past \subseteq Indices(plan) /\ Closed(plan, past) /\ DOMAIN wave \subseteq past

\* A result that stops the task or sends it to its check agents.
Harmless == last.status = "stop" \/ last.marker \in {"RetryCa", "Blocked"}

\* Nothing asks for a Do agent: the next cycle has none, or this one is past
\* its implementation and its result cannot lead back to it.
Settled ==
  /\ pc = "cycle" => scoped # {} /\ OfRole(scoped, "Do") = {}
  /\ pc \in {"wave", "results"} =>
       OfRole(plan, "Do") = {} \/ \E c \in OfRole(plan, "Check") : c.at \in past
  /\ pc \notin Ended \union {"cycle"} =>
       /\ report.class = "none" =>
            /\ OfRole(plan, "Do") = {} /\ last.marker \in {"none", "RetryCa", "Blocked"}
            /\ ~last.scope /\ last.status # "partial"
       /\ report.class = "pass" =>
            \/ last.status = "success" /\ last.marker = "none" /\ ~last.scope
            \/ pc = "route" /\ Harmless
       /\ report.class \in {"gap", "form", "unclear"} /\ pc \in {"decide", "gate", "route"} => Harmless

GapInv ==
  /\ TypeInv /\ Ran /\ ImplementFirst(plan) /\ ImplementFirst(scoped)
  /\ ~hist.undue
  /\ report.class = "defect" => hist.due
  /\ ~hist.due => Settled

\* The members of a cut, and that it is closed under being depended on.
LEMMA CutMembers ==
  ASSUME NEW p, Sound(p), NEW i
  PROVE  LET K == Descendants(p, i) IN
         /\ K \subseteq Indices(p)
         /\ \A t \in p : t.deps \cap K # {} => t.at \in K
         /\ i \in Indices(p) => i \in K
         /\ Indices(Scoped(p, i)) = K
         /\ \A u \in Scoped(p, i) : \E t \in p :
              u.at = t.at /\ u.role = t.role /\ u.deps = t.deps \cap K
<1> DEFINE K == Descendants(p, i)
           cut(t) == [t EXCEPT !.deps = @ \cap K]
           kept == {u \in p : u.at \in K}
<1>1. Scoped(p, i) = {cut(t) : t \in kept}
  BY DEF Scoped
<1>2. K \subseteq Indices(p) /\ (i \in Indices(p) => i \in K)
  BY DEF Descendants
<1>3. \A t \in p : cut(t).at = t.at /\ cut(t).role = t.role /\ cut(t).deps = t.deps \cap K
  BY DEF Sound, Step
<1>4. ASSUME NEW t \in p, NEW d \in t.deps, d \in K PROVE t.at \in K
  <2>1. t.at \in Indices(p)
    BY DEF Indices
  <2>2. ASSUME NEW S \in SUBSET Indices(p), i \in S, \A u \in p : u.deps \cap S # {} => u.at \in S
        PROVE  t.at \in S
    <3>1. d \in S
      BY <1>4, <2>2 DEF Descendants
    <3>2. QED BY <1>4, <2>2, <3>1
  <2>3. QED BY <2>1, <2>2 DEF Descendants
<1> HIDE DEF K, cut
<1>5. \A u \in Scoped(p, i) : u.at \in K
  BY <1>1, <1>3
<1>6. \A j \in K : \E u \in Scoped(p, i) : u.at = j
  <2>1. \A j \in K : \E t \in p : t.at = j
    BY <1>2 DEF Indices
  <2>2. QED BY <1>1, <1>3, <2>1
<1>7. Indices(Scoped(p, i)) = K
  BY <1>5, <1>6 DEF Indices
<1>8. \A u \in Scoped(p, i) : \E t \in p : u.at = t.at /\ u.role = t.role /\ u.deps = t.deps \cap K
  BY <1>1, <1>3
<1>9. \A t \in p : t.deps \cap K # {} => t.at \in K
  BY <1>4
<1>10. QED BY <1>2, <1>7, <1>8, <1>9 DEF K

\* What is ready in a cut is ready in the plan once all of the rest is past.
LEMMA CutReady ==
  ASSUME NEW p, Sound(p), NEW i, NEW P,
         P \subseteq Indices(Scoped(p, i)), Closed(Scoped(p, i), P)
  PROVE  LET Q == P \union (Indices(p) \ Descendants(p, i)) IN
         /\ Q \subseteq Indices(p) /\ Closed(p, Q)
         /\ \A u \in Ready(Scoped(p, i), P) : \E t \in Ready(p, Q) : u.at = t.at /\ u.role = t.role
<1> DEFINE K == Descendants(p, i)
           Q == P \union (Indices(p) \ K)
           cut == Scoped(p, i)
<1>1. /\ K \subseteq Indices(p) /\ Indices(cut) = K
      /\ \A t \in p : t.deps \cap K # {} => t.at \in K
      /\ \A u \in cut : \E t \in p : u.at = t.at /\ u.role = t.role /\ u.deps = t.deps \cap K
  BY CutMembers
<1>2. \A t \in p : t.deps \subseteq Indices(p)
  BY DEF Sound
<1> HIDE DEF K, cut
<1>3. \A j \in K : \E u \in cut : u.at = j
  BY <1>1 DEF Indices
<1>4. \A s, t \in p : s.at = t.at => s = t
  BY DEF Sound
<1>5. P \subseteq K /\ Closed(cut, P)
  BY <1>1 DEF cut
<1>6. ASSUME NEW t \in p, t.at \in Q PROVE t.deps \subseteq Q
  <2>1. CASE t.at \in K
    <3>1. t.at \in P
      BY <1>6, <2>1
    <3>2. PICK u \in cut : u.at = t.at
      BY <1>3, <2>1
    <3>3. PICK v \in p : u.at = v.at /\ u.deps = v.deps \cap K
      BY <1>1
    <3>4. u.deps = t.deps \cap K
      BY <1>4, <3>2, <3>3
    <3>5. u.deps \subseteq P
      BY <1>5, <3>1, <3>2 DEF Closed
    <3>6. QED BY <1>2, <3>4, <3>5
  <2>2. CASE t.at \notin K
    BY <1>1, <1>2, <2>2
  <2>3. QED BY <2>1, <2>2
<1>7. ASSUME NEW u \in Ready(cut, P) PROVE \E t \in Ready(p, Q) : u.at = t.at /\ u.role = t.role
  <2>1. u \in cut /\ u.at \notin P /\ u.deps \subseteq P
    BY DEF Ready
  <2>2. PICK t \in p : u.at = t.at /\ u.role = t.role /\ u.deps = t.deps \cap K
    BY <1>1, <2>1
  <2>3. u.at \in K
    BY <1>1, <2>1 DEF Indices
  <2>4. t \in Ready(p, Q)
    BY <1>2, <2>1, <2>2, <2>3 DEF Ready
  <2>5. QED BY <2>2, <2>4
<1>8. QED BY <1>1, <1>5, <1>6, <1>7 DEF Closed, cut, K

\* A cut of a plan that implements first implements first.
LEMMA CutImplementFirst ==
  ASSUME NEW p, Sound(p), ImplementFirst(p), NEW i
  PROVE  ImplementFirst(Scoped(p, i))
<1> DEFINE cut == Scoped(p, i)
<1>1. SUFFICES ASSUME NEW P \in SUBSET Indices(cut), Closed(cut, P),
                      OfRole(Ready(cut, P), "Do") # {}, NEW c \in OfRole(cut, "Check")
               PROVE  c.at \notin P
  BY DEF ImplementFirst, Fronts
<1> DEFINE Q == P \union (Indices(p) \ Descendants(p, i))
<1>2. Q \in SUBSET Indices(p) /\ Closed(p, Q)
  BY <1>1, CutReady
<1>3. \E t \in Ready(p, Q) : t.role = "Do"
  BY <1>1, CutReady DEF OfRole
<1>4. PICK t \in p : c.at = t.at /\ c.role = t.role
  BY CutMembers DEF OfRole
<1>5. t \in OfRole(p, "Check")
  BY <1>4 DEF OfRole
<1>6. t.at \notin Q
  BY <1>2, <1>3, <1>5 DEF ImplementFirst, Fronts, OfRole
<1>7. QED BY <1>4, <1>6

\* So does a retry plan.
LEMMA RetryImplementFirst ==
  ASSUME NEW p, Sound(p), ImplementFirst(p), NEW d, NEW i
  PROVE  ImplementFirst(RetryPlan(p, d, i))
<1>1. ImplementFirst({})
  BY DEF ImplementFirst, Fronts, OfRole
<1>2. QED BY <1>1, CutImplementFirst DEF RetryPlan

-----------------------------------------------------------------------------
\* The fields of the history and of a result that the operators set.
LEMMA HistFields ==
  ASSUME NEW h \in Hist, NEW r
  PROVE  /\ Due(h).due /\ (Due(h).undue <=> h.undue)
         /\ Reopened(h).due /\ (Reopened(h).undue <=> h.undue)
         /\ (Halt(h).due <=> h.due) /\ (Halt(h).undue <=> h.undue)
         /\ (Implement(h).due <=> h.due) /\ (Implement(h).undue <=> h.undue \/ ~h.due)
         /\ (Audited(h, r).due <=> r.class = "defect")
         /\ (Audited(h, r).undue <=> h.undue)
  BY DEF Due, Reopened, Halt, Implement, Audited, Hist

\* The same of a decision.
LEMMA DecidedFields ==
  ASSUME hist \in Hist, NEW status, NEW confirmed
  PROVE  /\ Decided(status, confirmed).due <=> hist.due \/ status = "partial"
         /\ Decided(status, confirmed).undue <=> hist.undue
  BY DEF Decided, Hist

\* The fields of the results the loops make.
LEMMA ResultFields ==
  /\ \A s : Plain(s).status = s /\ Plain(s).marker = "none" /\ ~Plain(s).scope
  /\ \A s, b : Decision(s, b).status = s /\ Decision(s, b).marker = "none" /\ ~Decision(s, b).scope
  /\ \A s, m, i : /\ Result(s, m, i).status = s /\ Result(s, m, i).marker = m
                  /\ Result(s, m, i).scope <=> m = "ReplanPa"
  /\ \A t : /\ FailedStep(t).status = "failed"
            /\ t.role = "Check" => FailedStep(t).marker = "RetryCa" /\ ~FailedStep(t).scope
            /\ t.role = "Do" => FailedStep(t).marker = "RetryDa" /\ ~FailedStep(t).scope
            /\ FailedStep(t).failed = t.at
  BY DEF Plain, Decision, Result, FailedStep

\* What the next wave can run is what is ready after the steps past.
LEMMA ReadyIsRunnable == Runnable = Ready(plan, past)
  BY DEF Runnable, Ready

\* The steps past stay closed under dependencies and cover the wave.
LEMMA RanStep ==
  ASSUME TypeInv, Ran, [Next]_vars
  PROVE  Ran'
<1>1. DOMAIN <<>> = {}
  OBVIOUS
<1>2. /\ \A t \in Runnable : t \in plan /\ t.deps \subseteq past
      /\ Indices(Runnable) \subseteq Indices(plan)
      /\ \A t \in plan : t.at \in Indices(Runnable) => t \in Runnable
      /\ \A t \in plan : t.deps \subseteq Indices(plan)
  BY DEF Runnable, Indices, TypeInv, Sound
<1>3. CASE BeginCycle
  <2>1. past' = {} /\ wave' = <<>>
    BY <1>3 DEF BeginCycle
  <2>2. DOMAIN wave' = {} BY <1>1, <2>1
  <2>3. QED BY <2>1, <2>2 DEF Ran, Closed
<1>4. CASE DeferWave \/ DispatchWave
  <2>1. past' = past \union Indices(Runnable) /\ UNCHANGED plan
    BY <1>4 DEF DeferWave, DispatchWave
  <2>2. past' \subseteq Indices(plan) /\ Closed(plan, past')
    BY <1>2, <2>1 DEF Ran, Closed
  <2>3. DOMAIN wave' \subseteq past'
    <3>1. CASE DeferWave
      BY <2>1, <3>1 DEF DeferWave, Ran
    <3>2. CASE DispatchWave
      <4>1. DOMAIN wave' \subseteq Indices(Dispatched)
        <5>1. wave' = <<>> \/ \E a : wave' = [i \in Indices(Dispatched) |-> a[i]]
          <6>1. PICK answer : IF \E t \in Dispatched : answer[t] = "error"
                              THEN wave' = <<>>
                              ELSE wave' = [i \in Indices(Dispatched) |->
                                              answer[CHOOSE t \in Dispatched : t.at = i]]
            BY <3>2 DEF DispatchWave
          <6>2. CASE \E t \in Dispatched : answer[t] = "error"
            BY <6>1, <6>2
          <6>3. CASE ~ \E t \in Dispatched : answer[t] = "error"
            <7> DEFINE a == [i \in Indices(Dispatched) |-> answer[CHOOSE t \in Dispatched : t.at = i]]
            <7>1. wave' = [i \in Indices(Dispatched) |-> a[i]]
              BY <6>1, <6>3
            <7>2. QED BY <7>1
          <6>4. QED BY <6>2, <6>3
        <5>2. QED BY <1>1, <5>1
      <4>2. Indices(Dispatched) \subseteq Indices(Runnable)
        BY DEF Dispatched, Indices
      <4>3. QED BY <2>1, <4>1, <4>2
    <3>3. QED BY <1>4, <3>1, <3>2
  <2>4. QED BY <2>1, <2>2, <2>3 DEF Ran
<1>5. CASE StopSeen \/ FailureSeen
  <2>1. wave' = <<>> /\ UNCHANGED <<plan, past>>
    BY <1>5 DEF StopSeen, FailureSeen
  <2>2. DOMAIN wave' = {} BY <1>1, <2>1
  <2>3. QED BY <2>1, <2>2 DEF Ran
<1>6. CASE PlanSeen \/ WorkSeen \/ CheckSeen \/ ActSeen
  <2>1. wave' = Unseen /\ UNCHANGED plan /\ past' \in {past, Indices(plan)}
    BY <1>6 DEF PlanSeen, WorkSeen, CheckSeen, ActSeen
  <2>2. DOMAIN Unseen \subseteq DOMAIN wave
    BY DEF Unseen
  <2>3. QED BY <1>2, <2>1, <2>2 DEF Ran, Closed
<1>7. CASE UNCHANGED <<plan, past, wave>>
  BY <1>7 DEF Ran
<1>8. CASE Route
  BY <1>7, <1>8, RouteMoves
<1>9. QED
  BY <1>3, <1>4, <1>5, <1>6, <1>7, <1>8 DEF Next, vars, TokensSpent, WavesDone, Deliver, Verify, Recheck,
     RefuseRepair, Repair, ReauditRepair, EndRepair, Mark, Decide, Gate, Done, Rigid

\* The plan of every cycle implements first.
LEMMA ShapeStep ==
  ASSUME PlansImplementFirst, TypeInv, ImplementFirst(plan), ImplementFirst(scoped), [Next]_vars
  PROVE  ImplementFirst(plan)' /\ ImplementFirst(scoped)'
<1>1. ImplementFirst({})
  BY DEF ImplementFirst, Fronts, OfRole
<1>2. CASE BeginCycle
  <2>1. plan' \in {scoped, task.fallback, task.steps} /\ scoped' = {}
    BY <1>2 DEF BeginCycle
  <2>2. ImplementFirst(task.steps) /\ ImplementFirst(task.fallback)
    BY DEF PlansImplementFirst, TypeInv
  <2>3. QED BY <1>1, <2>1, <2>2
<1>3. CASE Route
  <2>1. /\ UNCHANGED plan
        /\ scoped' \in {scoped, {}} \/ \E d : scoped' = RetryPlan(plan, d, last.failed)
    BY <1>3, RouteMoves DEF NextCycle
  <2>2. QED BY <1>1, <2>1, RetryImplementFirst DEF TypeInv
<1>4. CASE UNCHANGED <<plan, scoped>>
  BY <1>4
<1>5. QED
  BY <1>2, <1>3, <1>4 DEF Next, vars, TokensSpent, DeferWave, DispatchWave, WavesDone, Deliver, Verify,
     Recheck, RefuseRepair, Repair, ReauditRepair, EndRepair, Mark, Decide, Gate, Done, Rigid, StopSeen,
     FailureSeen, PlanSeen, WorkSeen, CheckSeen, ActSeen

Spared ==
  /\ ~hist.undue
  /\ report.class = "defect" => hist.due
  /\ ~hist.due => Settled

\* While something asks for a Do agent there is nothing else to keep.
LEMMA DuePointsSpared ==
  ASSUME ~hist'.undue, hist'.due
  PROVE  Spared'
  BY DEF Spared

\* A report and the history it leaves.
LEMMA AuditFields ==
  ASSUME TypeInv, NEW class \in Audits, NEW f \in Findings, Judge(class, f)
  PROVE  /\ report'.class = class
         /\ hist'.due <=> class = "defect"
         /\ hist'.undue <=> hist.undue
         /\ last'.status = IF class = "pass" THEN "success" ELSE "failed"
         /\ last'.marker = "none" /\ ~last'.scope
<1>1. Reported(class, f).class = class
  BY TrackedType DEF TypeInv
<1>2. PICK r : r = Reported(class, f)
  OBVIOUS
<1>3. report' = r /\ r.class = class /\ hist' = Audited(hist, r)
  BY <1>1, <1>2 DEF Judge
<1>4. (hist'.due <=> class = "defect") /\ (hist'.undue <=> hist.undue)
  BY <1>3, HistFields DEF TypeInv
<1>5. QED BY <1>3, <1>4, ResultFields DEF Judge

\* One lemma per group of actions: each keeps what spares the Do agents.
LEMMA GapCycle ==
  ASSUME TypeInv, Ran, Spared, BeginCycle \/ TokensSpent \/ DeferWave \/ WavesDone
  PROVE  Spared'
<1>1. CASE BeginCycle
  <2>1. /\ pc = "cycle" /\ pc' = "wave" /\ report' = NoReport /\ last' = Plain("none") /\ UNCHANGED hist
        /\ scoped # {} => plan' = scoped
    BY <1>1 DEF BeginCycle
  <2>2. report'.class = "none"
    BY <2>1 DEF NoReport
  <2>3. ~last'.scope /\ last'.marker = "none" /\ last'.status = "none"
    BY <2>1, ResultFields
  <2>4. ~hist.due => OfRole(plan', "Do") = {}
    BY <2>1 DEF Spared, Settled, Harmless
  <2>5. QED BY <2>1, <2>2, <2>3, <2>4 DEF Spared, Settled, Harmless, Ended
<1>2. CASE TokensSpent
  BY <1>2 DEF TokensSpent, End, Spared, Settled, Harmless, Ended
<1>3. CASE DeferWave
  <2>1. pc = "wave" /\ past \subseteq past' /\ UNCHANGED <<plan, pc, scoped, report, last, hist>>
    BY <1>3 DEF DeferWave
  <2>2. QED BY <2>1 DEF Spared, Settled, Harmless
<1>4. CASE WavesDone
  <2>1. pc = "wave" /\ pc' = "deliver" /\ UNCHANGED <<plan, scoped, report, last, hist>>
    BY <1>4 DEF WavesDone
  <2>2. QED BY <2>1 DEF Spared, Settled, Harmless, Ended
<1>5. QED BY <1>1, <1>2, <1>3, <1>4

\* A Do agent is dispatched again only while something asks for one.
LEMMA GapDispatch ==
  ASSUME TypeInv, Ran, ImplementFirst(plan), Spared, DispatchWave
  PROVE  Spared'
<1>1. /\ pc = "wave" /\ past \subseteq past' /\ UNCHANGED <<plan, scoped, report>>
      /\ Dispatched \subseteq Runnable
  BY DEF DispatchWave, Dispatched
<1>2. PICK a : /\ hist' = LET fresh == Indices(OfRole(Dispatched, "Do")) \ hist.done
                              h == CASE OfRole(Dispatched, "Do") = {} -> hist
                                     [] fresh # {}                     -> Implement(Due(hist))
                                     [] OTHER                          -> Implement(hist)
                              l == IF \E t \in Dispatched : a[t] = "error" THEN Due(h) ELSE h
                          IN IF \E t \in Dispatched : a[t] = "stop" THEN Halt(l) ELSE l
               /\ ~(\E t \in Dispatched : a[t] = "error") => pc' = "results" /\ UNCHANGED last
  BY DEF DispatchWave
<1> DEFINE h == CASE OfRole(Dispatched, "Do") = {} -> hist
                  [] Indices(OfRole(Dispatched, "Do")) \ hist.done # {} -> Implement(Due(hist))
                  [] OTHER -> Implement(hist)
           l == IF \E t \in Dispatched : a[t] = "error" THEN Due(h) ELSE h
<1>3. hist' \in {l, Halt(l)}
  BY <1>2
<1>4. OfRole(Dispatched, "Do") # {} => hist.due
  <2>1. SUFFICES ASSUME OfRole(Dispatched, "Do") # {}, ~hist.due PROVE FALSE
    OBVIOUS
  <2>2. OfRole(Ready(plan, past), "Do") # {}
    BY <1>1, <2>1, ReadyIsRunnable DEF OfRole
  <2>3. \A c \in OfRole(plan, "Check") : c.at \notin past
    BY <2>2 DEF ImplementFirst, Fronts, Ran
  <2>4. OfRole(plan, "Do") # {}
    BY <2>2 DEF OfRole, Ready
  <2>5. QED BY <1>1, <2>1, <2>3, <2>4 DEF Spared, Settled, Harmless
<1>5. /\ h \in Hist /\ ~h.undue /\ (h.due <=> hist.due)
  <2>1. Due(hist) \in Hist /\ Due(hist).due /\ ~Due(hist).undue
    BY HistOps, HistFields, Zenon DEF TypeInv, Spared
  <2>2. /\ Implement(Due(hist)) \in Hist /\ Implement(hist) \in Hist
    BY <2>1, HistOps, Zenon DEF TypeInv
  <2>3. Implement(Due(hist)).due /\ ~Implement(Due(hist)).undue
    BY <2>1, HistFields
  <2>4. hist.due => Implement(hist).due /\ ~Implement(hist).undue
    BY HistFields DEF TypeInv, Spared
  <2>5. CASE OfRole(Dispatched, "Do") = {}
    <3>1. Indices(OfRole(Dispatched, "Do")) = {}
      BY <2>5 DEF Indices
    <3>2. h = hist
      BY <2>5, <3>1
    <3>3. QED BY <3>2 DEF TypeInv, Spared
  <2>6. CASE OfRole(Dispatched, "Do") # {}
    <3>1. h \in {Implement(hist), Implement(Due(hist))}
      BY <2>6
    <3> HIDE DEF h
    <3>2. QED BY <1>4, <2>2, <2>3, <2>4, <2>6, <3>1
  <2>7. QED BY <2>5, <2>6
<1> HIDE DEF h
<1>6. l \in Hist /\ ~l.undue /\ (hist.due => l.due) /\ ((\E t \in Dispatched : a[t] = "error") => l.due)
      /\ (~(\E t \in Dispatched : a[t] = "error") => (l.due <=> hist.due))
  <2>1. Due(h) \in Hist /\ Due(h).due /\ ~Due(h).undue
    BY <1>5, HistOps, HistFields, Zenon
  <2>2. QED BY <1>5, <2>1
<1> HIDE DEF l
<1>7. ~hist'.undue /\ (hist'.due <=> l.due)
  BY <1>3, <1>6, HistFields
<1>8. CASE \E t \in Dispatched : a[t] = "error"
  BY <1>6, <1>7, <1>8, DuePointsSpared
<1>9. CASE ~ \E t \in Dispatched : a[t] = "error"
  <2>1. pc' = "results" /\ UNCHANGED last /\ (hist'.due <=> hist.due)
    BY <1>2, <1>6, <1>7, <1>9
  <2>2. QED BY <1>1, <1>7, <2>1 DEF Spared, Settled, Harmless, Ended
<1>10. QED BY <1>8, <1>9

\* The answers of a wave.
LEMMA GapSeen ==
  ASSUME TypeInv, Ran, Spared, StopSeen \/ FailureSeen \/ PlanSeen \/ WorkSeen \/ CheckSeen \/ ActSeen
  PROVE  Spared'
<1>1. /\ pc = "results" /\ DOMAIN wave # {}
      /\ Seen \in DOMAIN wave /\ SeenStep \in plan /\ SeenStep.at = Seen
      /\ wave[Seen] \in Answers(SeenStep.role) \ {"error"} /\ SeenStep.role \in Roles
  <2>1. pc = "results" /\ DOMAIN wave # {}
    BY DEF StopSeen, FailureSeen, PlanSeen, WorkSeen, CheckSeen, ActSeen, TypeInv
  <2>2. QED BY <2>1, SeenIn DEF TypeInv, Step
<1>2. past \subseteq past'
  BY DEF Ran, StopSeen, FailureSeen, PlanSeen, WorkSeen, CheckSeen, ActSeen
<1>3. CASE StopSeen
  <2>1. pc' = "route" /\ last' = Plain("stop") /\ UNCHANGED <<plan, scoped, report, hist>>
    BY <1>3 DEF StopSeen, Return
  <2>2. last'.status = "stop" /\ last'.marker = "none" /\ ~last'.scope
    BY <2>1, ResultFields
  <2>3. QED BY <1>1, <2>1, <2>2 DEF Spared, Settled, Harmless, Ended
<1>4. CASE FailureSeen
  <2>1. /\ pc' = "route" /\ last' = FailedStep(SeenStep) /\ UNCHANGED <<plan, scoped, report>>
        /\ hist' = IF SeenStep.role = "Check" THEN hist ELSE Due(hist)
    BY <1>4 DEF FailureSeen, Return
  <2>2. CASE SeenStep.role = "Check"
    <3>1. last'.status = "failed" /\ last'.marker = "RetryCa" /\ ~last'.scope
      BY <2>1, <2>2, ResultFields
    <3>2. QED BY <1>1, <2>1, <2>2, <3>1 DEF Spared, Settled, Harmless, Ended
  <2>3. CASE SeenStep.role # "Check"
    <3>1. hist'.due /\ ~hist'.undue
      BY <2>1, <2>3, HistFields DEF TypeInv, Spared
    <3>2. QED BY <3>1, DuePointsSpared
  <2>4. QED BY <2>2, <2>3
<1>5. Later \in {"wave", "results"}
  BY DEF Later
<1>6. CASE PlanSeen
  <2>1. pc' = Later /\ last' = Plain("success") /\ UNCHANGED <<plan, past, scoped, report, hist>>
    BY <1>6 DEF PlanSeen
  <2>2. last'.status = "success" /\ last'.marker = "none" /\ ~last'.scope
    BY <2>1, ResultFields
  <2>3. QED BY <1>1, <1>5, <2>1, <2>2 DEF Spared, Settled, Harmless, Ended
<1>7. CASE WorkSeen
  <2>1. /\ pc' = Later /\ last' = Plain(IF wave[Seen] = "ok" THEN "success" ELSE "partial")
        /\ UNCHANGED <<plan, past, scoped, report>> /\ wave[Seen] \in {"ok", "partial"}
        /\ hist' = [hist EXCEPT !.done = @ \union {Seen}, !.due = @ \/ wave[Seen] = "partial"]
    BY <1>7 DEF WorkSeen
  <2>2. (hist'.due <=> hist.due \/ wave[Seen] = "partial") /\ (hist'.undue <=> hist.undue)
    BY <2>1 DEF TypeInv, Hist
  <2>3. last'.marker = "none" /\ ~last'.scope /\ last'.status = (IF wave[Seen] = "ok" THEN "success" ELSE "partial")
    BY <2>1, ResultFields
  <2>4. QED BY <1>1, <1>5, <2>1, <2>2, <2>3 DEF Spared, Settled, Harmless, Ended
<1>8. CASE CheckSeen
  <2>1. PICK f \in Findings : Judge(IF wave[Seen] = "crash" THEN "gap" ELSE wave[Seen], f)
    BY <1>8 DEF CheckSeen, Audit
  <2>2. PICK class \in Audits : class = IF wave[Seen] = "crash" THEN "gap" ELSE wave[Seen]
    BY <1>1, <1>8, AuditAnswer DEF CheckSeen, Audits
  <2>3. /\ report'.class = class /\ (hist'.due <=> class = "defect")
        /\ (hist'.undue <=> hist.undue) /\ last'.marker = "none" /\ ~last'.scope
        /\ last'.status = IF class = "pass" THEN "success" ELSE "failed"
    BY <2>1, <2>2, AuditFields
  <2>4. \E c \in OfRole(plan', "Check") : c.at \in past'
    BY <1>1, <1>2, <1>8 DEF CheckSeen, OfRole, Ran
  <2>5. pc' = Later /\ UNCHANGED scoped
    BY <1>8 DEF CheckSeen
  <2>6. class # "none" BY DEF Audits
  <2>7. QED BY <1>5, <2>2, <2>3, <2>4, <2>5, <2>6 DEF Spared, Settled, Harmless, Ended
<1>9. CASE ActSeen
  <2>1. PICK confirmed \in BOOLEAN : /\ last' = Decision(wave[Seen], confirmed)
                                     /\ hist' = Decided(wave[Seen], confirmed)
    BY <1>9 DEF ActSeen
  <2>2. pc' = Later /\ UNCHANGED <<plan, scoped, report>> /\ wave[Seen] \in {"success", "partial"}
    BY <1>9 DEF ActSeen
  <2>3. (hist'.due <=> hist.due \/ wave[Seen] = "partial") /\ (hist'.undue <=> hist.undue)
    BY <2>1, DecidedFields DEF TypeInv
  <2>4. last'.marker = "none" /\ ~last'.scope /\ last'.status = wave[Seen]
    BY <2>1, ResultFields
  <2>5. QED BY <1>1, <1>2, <1>5, <2>2, <2>3, <2>4 DEF Spared, Settled, Harmless, Ended
<1>10. QED BY <1>3, <1>4, <1>6, <1>7, <1>8, <1>9

\* Steps of one cycle that leave the audit, the result and the history alone.
LEMMA GapQuiet ==
  ASSUME Spared, UNCHANGED <<plan, scoped, report, last, hist>>,
         pc \notin Ended \union {"cycle", "route"}, pc' \notin {"cycle", "wave", "results", "decide", "gate", "route"}
  PROVE  Spared'
  BY DEF Spared, Settled, Harmless, Ended

\* Steps that end the task need nothing further.
LEMMA GapEnds ==
  ASSUME Spared, pc' \in Ended, UNCHANGED report, hist'.due <=> hist.due, hist'.undue <=> hist.undue
  PROVE  Spared'
  BY DEF Spared, Settled, Harmless, Ended

\* Steps that an audit ends.
LEMMA GapAudits ==
  ASSUME TypeInv, Spared, NEW class \in Audits, NEW f \in Findings, Judge(class, f),
         UNCHANGED <<plan, scoped>>, pc' \in {"repair", "mark"}
  PROVE  Spared'
<1>1. /\ report'.class = class /\ (hist'.due <=> class = "defect")
      /\ (hist'.undue <=> hist.undue) /\ last'.marker = "none" /\ ~last'.scope
      /\ last'.status = IF class = "pass" THEN "success" ELSE "failed"
  BY AuditFields
<1>2. class # "none" BY DEF Audits
<1>3. QED BY <1>1, <1>2 DEF Spared, Settled, Harmless, Ended

\* Steps that stop the cycle.
LEMMA GapStops ==
  ASSUME TypeInv, Spared, pc \notin Ended \union {"cycle"},
         Return(Plain("stop")), UNCHANGED <<plan, scoped, report>>,
         hist'.due <=> hist.due, hist'.undue <=> hist.undue
  PROVE  Spared'
<1>1. pc' = "route" /\ last'.status = "stop" /\ last'.marker = "none" /\ ~last'.scope
  BY ResultFields DEF Return
<1>2. QED BY <1>1 DEF Spared, Settled, Harmless, Ended

\* The reconciliation of the delivery asks for a Do agent only after the target
\* turned out to be missing.
LEMMA GapDelivery ==
  ASSUME TypeInv, Spared, Deliver \/ Verify
  PROVE  Spared'
<1>1. UNCHANGED <<plan, scoped>> /\ pc \in {"deliver", "verify"}
  BY DEF Deliver, Verify, Rigid
<1>2. pc \notin Ended \union {"cycle", "route"}
  BY <1>1 DEF Ended
<1>3. CASE Deliver
  <2>1. UNCHANGED report
    BY <1>3 DEF Deliver
  <2>2. CASE pc' = "verify" /\ UNCHANGED <<last, hist>>
    BY <1>1, <1>2, <2>1, <2>2, GapQuiet
  <2>3. CASE MissingRole("Do")
    <3>1. pc' \in Ended /\ UNCHANGED hist
      BY <2>3 DEF MissingRole, End, Ended
    <3>2. QED BY <2>1, <3>1, GapEnds
  <2>4. CASE hist' \in {Due(Implement(Due(hist))), Halt(Implement(Due(hist))), Implement(Due(hist))}
    <3>1. Due(hist) \in Hist /\ Due(hist).due /\ ~Due(hist).undue
      BY HistOps, HistFields, Zenon DEF TypeInv, Spared
    <3>2. Implement(Due(hist)) \in Hist
      BY <3>1, HistOps, Zenon DEF TypeInv
    <3>3. Implement(Due(hist)).due /\ ~Implement(Due(hist)).undue
      BY <3>1, HistFields
    <3>4. hist'.due /\ ~hist'.undue
      BY <2>4, <3>2, <3>3, HistFields
    <3>5. QED BY <3>4, DuePointsSpared
  <2>5. QED BY <1>3, <2>2, <2>3, <2>4 DEF Deliver
<1>4. CASE Verify
  <2>1. CASE Delivered /\ pc' = AfterDelivery /\ UNCHANGED <<facts, redo, last, hist, report, spent>>
    BY <1>1, <1>2, <2>1, GapQuiet DEF AfterDelivery
  <2>2. CASE MissingRole("Check") /\ UNCHANGED <<report, spent>>
    <3>1. pc' \in Ended /\ UNCHANGED hist
      BY <2>2 DEF MissingRole, End, Ended
    <3>2. QED BY <2>2, <3>1, GapEnds
  <2>3. CASE LostAgent /\ hist' = Due(hist) /\ UNCHANGED <<report, spent>>
    BY <2>3, HistFields, DuePointsSpared DEF TypeInv, Spared
  <2>4. CASE StoppedAgent /\ hist' = Halt(hist) /\ UNCHANGED <<report, spent>>
    BY <1>1, <1>2, <2>4, HistFields, GapStops DEF TypeInv, StoppedAgent
  <2>5. CASE /\ \E reads \in BOOLEAN, class \in Audits, f \in Findings :
                 /\ facts' = ReadBy(facts, reads)
                 /\ Audit(IF reads THEN class ELSE "gap", f)
             /\ redo' = TRUE /\ pc' = AfterDelivery
    <3>1. PICK class \in Audits, f \in Findings : Judge(class, f)
      BY <2>5 DEF Audits, Audit
    <3>2. pc' \in {"repair", "mark"}
      BY <2>5 DEF AfterDelivery
    <3>3. QED BY <1>1, <3>1, <3>2, GapAudits
  <2>6. QED BY <1>4, <2>1, <2>2, <2>3, <2>4, <2>5 DEF Verify
<1>5. QED BY <1>3, <1>4

\* Another audit stops the task or reports.
LEMMA ReauditMoves ==
  ASSUME NEW rewrite, NEW count, Reaudit(rewrite, count)
  PROVE  \/ Return(Plain("stop")) /\ hist' = Halt(hist) /\ UNCHANGED report
         \/ pc' = "repair" /\ \E class \in Audits, f \in Findings : Judge(class, f)
  BY DEF Reaudit, Audits

\* The recovery loop sends work back to a Do agent only on a defect.
LEMMA GapRepair ==
  ASSUME TypeInv, Spared, Recheck \/ RefuseRepair \/ Repair \/ ReauditRepair \/ EndRepair
  PROVE  Spared'
<1>1. UNCHANGED <<plan, scoped>> /\ pc \in {"repair", "reaudit"}
  BY DEF Recheck, RefuseRepair, Repair, ReauditRepair, EndRepair, Rigid
<1>2. pc \notin Ended \union {"cycle", "route"}
  BY <1>1 DEF Ended
<1>3. ASSUME NEW rewrite, NEW count, Reaudit(rewrite, count) PROVE Spared'
  <2>1. CASE Return(Plain("stop")) /\ hist' = Halt(hist) /\ UNCHANGED report
    BY <1>1, <1>2, <2>1, HistFields, GapStops DEF TypeInv
  <2>2. CASE pc' = "repair" /\ \E class \in Audits, f \in Findings : Judge(class, f)
    BY <1>1, <2>2, GapAudits
  <2>3. QED BY <1>3, <2>1, <2>2, ReauditMoves
<1>4. ASSUME hist' = Due(hist) PROVE Spared'
  BY <1>4, HistFields, DuePointsSpared DEF TypeInv, Spared
<1>5. CASE Recheck
  <2>1. pc = "repair"
    BY <1>5 DEF Recheck
  <2>2. (\E rewrite, count : Reaudit(rewrite, count)) \/ UNCHANGED <<pc, report, last, hist>>
    BY <1>5 DEF Recheck
  <2>3. CASE UNCHANGED <<pc, report, last, hist>>
    BY <1>1, <1>2, <2>1, <2>3, GapQuiet
  <2>4. QED BY <1>3, <2>2, <2>3
<1>6. CASE RefuseRepair
  <2>1. /\ report' = [report EXCEPT !.class = "gap"] /\ pc = "repair" /\ UNCHANGED <<pc, last, hist>>
        /\ report.class = "unclear"
    BY <1>6 DEF RefuseRepair
  <2>2. report # NoReport
    BY <2>1 DEF NoReport
  <2>3. report \in Report
    BY <2>2 DEF TypeInv
  <2>4. report'.class = "gap"
    BY <2>1, <2>3 DEF Report
  <2>5. QED BY <1>1, <2>1, <2>4 DEF Spared, Settled, Harmless, Ended
<1>7. CASE Repair
  <2>1. report.class = "defect"
    <3>1. Rejects(report) /\ ~EvidenceOnly(report) /\ report.class # "unclear"
      BY <1>7, DirectiveIs DEF Repair
    <3>2. QED BY <3>1 DEF Rejects, EvidenceOnly, TypeInv, Report, Audits, NoReport
  <2>2. hist.due
    BY <2>1 DEF Spared
  <2>3. Implement(hist) \in Hist /\ Implement(hist).due /\ ~Implement(hist).undue
    BY <2>2, HistOps, HistFields, Zenon DEF TypeInv, Spared
  <2>4. hist' \in {hist, Due(Implement(hist)), Halt(Implement(hist)), Implement(hist)}
    BY <1>7 DEF Repair
  <2>5. hist'.due /\ ~hist'.undue
    BY <2>2, <2>3, <2>4, HistFields DEF Spared
  <2>6. QED BY <2>5, DuePointsSpared
<1>8. CASE ReauditRepair
  <2>1. (\E rewrite, count : Reaudit(rewrite, count)) \/ hist' = Due(hist)
    BY <1>8 DEF ReauditRepair
  <2>2. QED BY <1>3, <1>4, <2>1
<1>9. CASE EndRepair
  <2>1. pc' = "deliver" /\ UNCHANGED <<report, last, hist>>
    BY <1>9 DEF EndRepair, LeaveRepair
  <2>2. QED BY <1>1, <1>2, <2>1, GapQuiet
<1>10. QED BY <1>5, <1>6, <1>7, <1>8, <1>9

\* The marker, the decision and the gates.
LEMMA GapEnd ==
  ASSUME TypeInv, Spared, Mark \/ Decide \/ Gate
  PROVE  Spared'
<1>1. UNCHANGED <<plan, scoped, report>> /\ pc \in {"mark", "decide", "gate"}
  BY DEF Mark, Decide, Gate, Rigid
<1>2. pc \notin Ended \union {"cycle", "route"}
  BY <1>1 DEF Ended
<1>3. CASE Mark
  <2>1. pc = "mark" /\ pc' = "decide" /\ hist' = IF report.class = "unclear" THEN Due(hist) ELSE hist
    BY <1>3 DEF Mark
  <2>5. CASE report.class = "unclear"
    BY <2>1, <2>5, HistFields, DuePointsSpared DEF TypeInv, Spared
  <2>2. CASE Rejects(report) /\ report.class # "unclear"
    <3>1. PICK d, i : d = Directive(report) /\ last' = Result("failed", d, i)
      BY <1>3, <2>2 DEF Mark
    <3>2. last'.status = "failed" /\ last'.marker = d /\ (last'.scope <=> d = "ReplanPa")
      BY <3>1, ResultFields
    <3>3. report.class \in {"gap", "form"} => d \in {"RetryCa", "Blocked"}
      BY <2>2, <3>1, DirectiveIs DEF EvidenceOnly
    <3>4. report.class \in {"gap", "form", "defect"}
      BY <2>2 DEF Rejects, TypeInv, Report, Audits, NoReport
    <3>5. QED BY <1>1, <2>1, <3>2, <3>3, <3>4 DEF Spared, Settled, Harmless, Ended
  <2>3. CASE ~Rejects(report)
    <3>1. UNCHANGED last /\ report.class \in {"none", "pass"}
      BY <1>3, <2>3 DEF Mark, Rejects
    <3>2. QED BY <1>1, <2>1, <3>1 DEF Spared, Settled, Harmless, Ended
  <2>4. QED BY <2>2, <2>3, <2>5
<1>4. CASE Decide
  <2>1. pc = "decide" BY <1>4 DEF Decide
  <2>2. CASE pc' = "gate" /\ UNCHANGED <<last, hist>>
    BY <1>1, <2>1, <2>2 DEF Spared, Settled, Harmless, Ended
  <2>3. CASE End("error") /\ hist' = Due(hist)
    BY <2>3, HistFields, DuePointsSpared DEF TypeInv, Spared
  <2>4. CASE Return(Plain("stop")) /\ hist' = Halt(hist)
    BY <1>1, <1>2, <2>4, HistFields, GapStops DEF TypeInv
  <2>5. CASE hist' = Due(hist)
    BY <2>5, HistFields, DuePointsSpared DEF TypeInv, Spared
  <2>6. CASE ~Rejects(report) /\ \E status \in {"success", "partial"}, confirmed \in BOOLEAN :
                /\ last' = Decision(status, confirmed) /\ hist' = Decided(status, confirmed)
                /\ pc' = "gate"
    <3>1. PICK status \in {"success", "partial"}, confirmed \in BOOLEAN :
                /\ last' = Decision(status, confirmed) /\ hist' = Decided(status, confirmed)
                /\ pc' = "gate"
      BY <2>6
    <3>2. (hist'.due <=> hist.due \/ status = "partial") /\ (hist'.undue <=> hist.undue)
      BY <3>1, DecidedFields DEF TypeInv
    <3>3. last'.marker = "none" /\ ~last'.scope /\ last'.status = status
      BY <3>1, ResultFields
    <3>4. report.class \in {"none", "pass"}
      BY <2>6 DEF Rejects
    <3>5. QED BY <1>1, <2>1, <3>1, <3>2, <3>3, <3>4 DEF Spared, Settled, Harmless, Ended
  <2>7. QED BY <1>4, <2>2, <2>3, <2>4, <2>5, <2>6 DEF Decide
<1>5. CASE Gate
  <2>1. pc = "gate" /\ pc' = "route" BY <1>5 DEF Gate, Return
  <2>2. CASE hist' = Due(hist)
    BY <2>2, HistFields, DuePointsSpared DEF TypeInv, Spared
  <2>3. CASE UNCHANGED <<last, hist>>
    BY <1>1, <2>1, <2>3 DEF Spared, Settled, Harmless, Ended
  <2>4. CASE HasRole("Check") /\ Return(FailedStep(Last(OfRole(plan, "Check")))) /\ UNCHANGED hist
    <3>1. Last(OfRole(plan, "Check")) \in OfRole(plan, "Check")
      BY <2>4, RoleSteps DEF HasRole, TypeInv
    <3>2. last'.status = "failed" /\ last'.marker = "RetryCa" /\ ~last'.scope
      BY <2>4, <3>1, ResultFields DEF Return, OfRole
    <3>3. QED BY <1>1, <2>1, <2>4, <3>2 DEF Spared, Settled, Harmless, Ended
  <2>5. QED BY <1>5, <2>2, <2>3, <2>4 DEF Gate
<1>6. QED BY <1>3, <1>4, <1>5

\* A route that is not towards the implementation cuts a plan without Do steps.
LEMMA GapRoute ==
  ASSUME TypeInv, Spared, Route
  PROVE  Spared'
<1>1. CASE hist'.due
  <2>1. ~hist'.undue
    BY RouteMoves, HistFields DEF TypeInv, Spared
  <2>2. QED BY <1>1, <2>1, DuePointsSpared
<1>2. CASE ~hist'.due
  <2>1. ~NeedsExecution /\ UNCHANGED hist /\ ~hist.due /\ (pc' = "cycle" => last.status # "success")
    <3>1. hist \in Hist
      BY DEF TypeInv
    <3>2. hist' # Due(hist) /\ hist' # Reopened(hist)
      BY <1>2, <3>1, HistFields
    <3>3. QED BY <1>2, <3>2, RouteMoves, Zenon
  <2>2. pc = "route" /\ UNCHANGED <<report, plan, last>>
    BY RouteMoves
  <2>3. CASE pc' \in {"stopped", "accepted"}
    BY <2>1, <2>2, <2>3, GapEnds DEF Ended
  <2>4. CASE pc' \notin {"stopped", "accepted"}
    <3>1. pc' = "cycle"
      BY <2>4, RouteMoves DEF NextCycle
    <3>2. /\ report.class = "none" => /\ OfRole(plan, "Do") = {} /\ last.marker \in {"none", "RetryCa"}
                                      /\ ~last.scope /\ last.status # "partial"
          /\ report.class \in {"pass", "gap", "form", "unclear"} => last.marker = "RetryCa"
          /\ report.class # "defect"
      BY <2>1, <2>2, <3>1, RouteMoves DEF Spared, Settled, Harmless, Ended
    <3>4. \/ last.marker = "RetryCa"
          \/ /\ OfRole(plan, "Do") = {} /\ last.marker = "none"
             /\ ~last.scope /\ last.status # "partial"
      BY <3>2 DEF TypeInv, Report, Audits, NoReport
    <3>3. PICK d : /\ d \in {"RetryDa", "RetryCa"} /\ (last.marker = "RetryCa" => d = "RetryCa")
                   /\ RetryPlan(plan, d, last.failed) # {}
                   /\ scoped' = RetryPlan(plan, d, last.failed)
      BY <2>1, <2>4, <3>2, <3>4, RouteMoves DEF NextCycle
    <3>5. OfRole(scoped', "Do") = {}
      BY <3>3, <3>4, RetryPlanSound DEF TypeInv, OfRole
    <3>6. QED BY <2>1, <2>2, <3>1, <3>2, <3>3, <3>5 DEF Spared, Settled, Harmless, Ended
  <2>5. QED BY <2>3, <2>4
<1>3. QED BY <1>1, <1>2

\* Every step keeps the invariant.
LEMMA GapStep == PlansImplementFirst /\ GapInv /\ [Next]_vars => GapInv'
<1>1. SUFFICES ASSUME PlansImplementFirst, GapInv, [Next]_vars PROVE GapInv'
  OBVIOUS
<1>2. TypeInv /\ Ran /\ ImplementFirst(plan) /\ ImplementFirst(scoped) /\ Spared
  BY <1>1 DEF GapInv, Spared
<1>3. TypeInv' /\ Ran' /\ ImplementFirst(plan)' /\ ImplementFirst(scoped)'
  BY <1>1, <1>2, TypeStep, RanStep, ShapeStep
<1>4. Spared'
  <2>1. CASE UNCHANGED vars
    BY <1>2, <2>1 DEF vars, Spared, Settled, Harmless
  <2>2. CASE Next
    BY <1>2, <2>1, <2>2, GapCycle, GapDispatch, GapSeen, GapDelivery, GapRepair, GapEnd, GapRoute DEF Next, Done
  <2>3. QED BY <1>1, <2>1, <2>2
<1>5. QED BY <1>3, <1>4 DEF GapInv, Spared

\* A Do agent runs again only for one of the causes that EvidenceGapSpares
\* lists, for any plans that implement first and any budgets: a report that lacks
\* evidence or form, or fails without a defect, is none of them while its cycle
\* lasts.  select_directive, the refusal of a repair without a defect, the marker,
\* the route and the verifier-only retry plan all keep to it
\* (src/src/core/recovery.rs:315, src/src/core/sa/process.rs:1647).
THEOREM EvidenceSpares == ASSUME PlansImplementFirst PROVE Spec => []EvidenceGapSpares
<1>1. Init => GapInv
  <2>1. SUFFICES ASSUME Init PROVE GapInv
    OBVIOUS
  <2>2. TypeInv
    BY <2>1, InitType
  <2>3. plan = {} /\ scoped = {} /\ past = {} /\ wave = <<>> /\ hist.due /\ ~hist.undue
    BY <2>1 DEF Init
  <2>4. Ran /\ ImplementFirst({})
    <3>1. DOMAIN <<>> = {} OBVIOUS
    <3>2. QED BY <2>3, <3>1 DEF Ran, Closed, ImplementFirst, Fronts, OfRole
  <2>5. QED BY <2>2, <2>3, <2>4 DEF GapInv
<1>2. PlansImplementFirst /\ GapInv /\ [Next]_vars => GapInv'
  BY GapStep
<1>3. GapInv => EvidenceGapSpares
  BY DEF GapInv, EvidenceGapSpares
<1>4. QED BY <1>1, <1>2, <1>3, PTL DEF Spec

(***************************************************************************)
(* A stop is final.                                                        *)
(***************************************************************************)
\* The wave of a cycle has one step, or it is of a workflow, which is never
\* cut, and of its Do and check agents only.
Halting(p) == OneAtATime(p) \/ (task.dag /\ ~task.preflight /\ WorkBeside(p))
OneAnswer == \A i, j \in DOMAIN wave : i = j
WorkAnswers == \A t \in plan : t.at \in DOMAIN wave => t.role \in {"Do", "Check"}
Hopeless == /\ task.dag /\ ~task.preflight
            /\ last.status = "failed" /\ (last.marker \in {"RetryDa", "RetryCa"} \/ ~last.scope)

HaltInv ==
  hist.halted =>
    \/ pc = "stopped"
    \/ /\ pc = "results" /\ \E i \in DOMAIN wave : wave[i] = "stop"
       /\ OneAnswer \/ (task.dag /\ ~task.preflight /\ WorkAnswers)
    \/ pc = "route" /\ (last.status = "stop" \/ Hopeless)
StopInv == TypeInv /\ Ran /\ Halting(plan) /\ OneAtATime(scoped) /\ HaltInv

\* What the history operators leave alone.
LEMMA HistRest ==
  ASSUME NEW h \in Hist, NEW r
  PROVE  /\ \A k \in {Due(h), Reopened(h)} :
              /\ k.halted <=> h.halted
              /\ (k.checked <=> h.checked) /\ (k.decided <=> h.decided) /\ k.done = h.done
         /\ Due(h).waived <=> h.waived
         /\ /\ Halt(h).halted
            /\ (Halt(h).checked <=> h.checked) /\ (Halt(h).decided <=> h.decided)
            /\ Halt(h).done = h.done /\ (Halt(h).waived <=> h.waived)
         /\ /\ Implement(h).halted <=> h.halted
            /\ ~Implement(h).checked /\ ~Implement(h).decided
            /\ Implement(h).done = h.done /\ (Implement(h).waived <=> h.waived)
         /\ /\ Audited(h, r).halted <=> h.halted
            /\ (Audited(h, r).checked <=> ~Rejects(r)) /\ ~Audited(h, r).decided
            /\ Audited(h, r).done = h.done /\ (Audited(h, r).waived <=> h.waived)
  BY DEF Due, Reopened, Halt, Implement, Audited, Hist

\* What a decision does to the history.
LEMMA DecidedRest ==
  ASSUME hist \in Hist, NEW status, NEW confirmed
  PROVE  /\ Decided(status, confirmed).halted <=> hist.halted
         /\ Decided(status, confirmed).checked <=> hist.checked
         /\ Decided(status, confirmed).decided <=> status = "success"
         /\ Decided(status, confirmed).waived <=> hist.waived \/ (confirmed /\ cycle = 0 /\ task.preflight)
         /\ Decided(status, confirmed).done = hist.done
  BY DEF Decided, Hist

\* A cut of a plan whose agents run one at a time is such a plan too: the steps
\* it leaves out can be taken for done.
LEMMA CutOneAtATime ==
  ASSUME NEW p, Sound(p), OneAtATime(p), NEW i
  PROVE  OneAtATime(Scoped(p, i))
<1> DEFINE cut == Scoped(p, i)
<1>1. SUFFICES ASSUME NEW P \in Fronts(cut), NEW s \in Ready(cut, P), NEW t \in Ready(cut, P)
               PROVE  s = t
  BY DEF OneAtATime
<1> DEFINE Q == P \union (Indices(p) \ Descendants(p, i))
<1>2. P \subseteq Indices(cut) /\ Closed(cut, P)
  BY DEF Fronts
<1>3. /\ Q \subseteq Indices(p) /\ Closed(p, Q)
      /\ \A u \in Ready(cut, P) : \E x \in Ready(p, Q) : u.at = x.at
  <2>1. Q \subseteq Indices(p) /\ Closed(p, Q)
    BY <1>2, CutReady
  <2>2. \A u \in Ready(cut, P) : \E x \in Ready(p, Q) : u.at = x.at /\ u.role = x.role
    BY <1>2, CutReady
  <2>3. QED BY <2>1, <2>2
<1>4. s.at = t.at
  BY <1>3 DEF OneAtATime, Fronts
<1>5. Sound(cut)
  BY CutSound
<1>6. QED BY <1>4, <1>5 DEF Ready, Sound

\* So is the plan of any retry.
LEMMA RetryOneAtATime ==
  ASSUME NEW p, Sound(p), OneAtATime(p), NEW d, NEW i
  PROVE  OneAtATime(RetryPlan(p, d, i))
<1>1. OneAtATime({})
  BY DEF OneAtATime, Ready
<1>2. QED BY <1>1, CutOneAtATime DEF RetryPlan

\* The plans of a task keep the shape that lets a stop be final.
LEMMA StopShapeStep ==
  ASSUME PlansStopCleanly, TypeInv, Halting(plan), OneAtATime(scoped), [Next]_vars
  PROVE  Halting(plan)' /\ OneAtATime(scoped)'
<1>1. OneAtATime({})
  BY DEF OneAtATime, Ready
<1>2. CASE BeginCycle
  <2>1. plan' \in {scoped, task.fallback, task.steps} /\ scoped' = {} /\ task' = task
    BY <1>2 DEF BeginCycle
  <2>2. Halting(task.steps) /\ Halting(task.fallback)
    BY DEF PlansStopCleanly, TypeInv, Halting
  <2>3. QED BY <1>1, <2>1, <2>2 DEF Halting
<1>3. CASE Route
  <2>1. UNCHANGED <<plan, task>>
    BY <1>3, RouteMoves
  <2>2. CASE \E d : ~task.dag /\ scoped' = RetryPlan(plan, d, last.failed)
    <3>1. OneAtATime(plan)
      BY <2>2 DEF Halting
    <3>2. QED BY <2>1, <2>2, <3>1, RetryOneAtATime DEF TypeInv, Halting
  <2>3. CASE scoped' \in {scoped, {}}
    BY <1>1, <2>1, <2>3 DEF Halting
  <2>4. QED BY <1>3, <2>2, <2>3, RouteMoves DEF NextCycle
<1>4. CASE UNCHANGED <<plan, scoped, task>>
  BY <1>4 DEF Halting
<1>5. QED
  BY <1>2, <1>3, <1>4 DEF Next, vars, TokensSpent, DeferWave, DispatchWave, WavesDone, Deliver, Verify,
     Recheck, RefuseRepair, Repair, ReauditRepair, EndRepair, Mark, Decide, Gate, Done, Rigid, StopSeen,
     FailureSeen, PlanSeen, WorkSeen, CheckSeen, ActSeen

\* Steps that do not stop anything, outside a wave and its result.
LEMMA HaltQuiet ==
  ASSUME HaltInv, pc \notin {"results", "route", "stopped"}, hist'.halted => hist.halted
  PROVE  HaltInv'
  BY DEF HaltInv

\* Steps that return the stop.
LEMMA HaltStops ==
  ASSUME Return(Plain("stop"))
  PROVE  HaltInv'
  BY ResultFields DEF Return, HaltInv

\* What a dispatch makes of the wave and of the history.
LEMMA DispatchMoves ==
  ASSUME TypeInv, DispatchWave
  PROVE  \E a :
    /\ \A t \in Dispatched : a[t] \in Answers(t.role)
    /\ hist'.halted <=> hist.halted \/ \E t \in Dispatched : a[t] = "stop"
    /\ hist'.done = hist.done /\ (hist'.waived <=> hist.waived)
    /\ OfRole(Dispatched, "Do") = {} =>
         (hist'.checked <=> hist.checked) /\ (hist'.decided <=> hist.decided)
    /\ IF \E t \in Dispatched : a[t] = "error"
       THEN /\ wave' = <<>>
            /\ \/ Cardinality(Dispatched) = 1 /\ pc' = "error" /\ UNCHANGED last
               \/ Cardinality(Dispatched) # 1 /\ Return(Plain("failed"))
       ELSE /\ DOMAIN wave' = Indices(Dispatched)
            /\ \A t \in Dispatched : wave'[t.at] = a[t]
            /\ pc' = "results" /\ UNCHANGED last
<1>1. PICK a : /\ \A t \in Dispatched : a[t] \in Answers(t.role)
               /\ hist' = LET fresh == Indices(OfRole(Dispatched, "Do")) \ hist.done
                              h == CASE OfRole(Dispatched, "Do") = {} -> hist
                                     [] fresh # {}                     -> Implement(Due(hist))
                                     [] OTHER                          -> Implement(hist)
                              l == IF \E t \in Dispatched : a[t] = "error" THEN Due(h) ELSE h
                          IN IF \E t \in Dispatched : a[t] = "stop" THEN Halt(l) ELSE l
               /\ IF \E t \in Dispatched : a[t] = "error"
                  THEN /\ wave' = <<>>
                       /\ IF Cardinality(Dispatched) = 1 THEN End("error") /\ UNCHANGED last
                                                         ELSE Return(Plain("failed"))
                  ELSE /\ wave' = [i \in Indices(Dispatched) |-> a[CHOOSE t \in Dispatched : t.at = i]]
                       /\ pc' = "results" /\ UNCHANGED last
  BY DEF DispatchWave
<1> DEFINE h == CASE OfRole(Dispatched, "Do") = {} -> hist
                  [] Indices(OfRole(Dispatched, "Do")) \ hist.done # {} -> Implement(Due(hist))
                  [] OTHER -> Implement(hist)
           l == IF \E t \in Dispatched : a[t] = "error" THEN Due(h) ELSE h
<1>2. /\ h \in Hist /\ (h.halted <=> hist.halted) /\ h.done = hist.done /\ (h.waived <=> hist.waived)
      /\ OfRole(Dispatched, "Do") = {} => h = hist
  <2>1. Due(hist) \in Hist /\ (Due(hist).halted <=> hist.halted) /\ Due(hist).done = hist.done
        /\ (Due(hist).waived <=> hist.waived)
    BY HistOps, HistRest, Zenon DEF TypeInv
  <2>2. CASE OfRole(Dispatched, "Do") = {}
    <3>1. Indices(OfRole(Dispatched, "Do")) = {}
      BY <2>2 DEF Indices
    <3>2. h = hist
      BY <2>2, <3>1
    <3>3. QED BY <3>2 DEF TypeInv
  <2>3. CASE OfRole(Dispatched, "Do") # {}
    <3>1. h \in {Implement(hist), Implement(Due(hist))}
      BY <2>3
    <3> HIDE DEF h
    <3>2. ASSUME NEW k \in Hist
          PROVE  /\ Implement(k) \in Hist
                 /\ (Implement(k).halted <=> k.halted)
                 /\ Implement(k).done = k.done
                 /\ (Implement(k).waived <=> k.waived)
      <4>1. Implement(k) \in Hist
        BY HistOps, Zenon DEF TypeInv
      <4>2. QED BY <4>1, HistRest
    <3>3. hist \in Hist BY DEF TypeInv
    <3>4. QED BY <2>1, <2>3, <3>1, <3>2, <3>3
  <2>4. QED BY <2>2, <2>3
<1> HIDE DEF h
<1>3. /\ l \in Hist /\ (l.halted <=> h.halted) /\ l.done = h.done /\ (l.waived <=> h.waived)
      /\ (l.checked <=> h.checked) /\ (l.decided <=> h.decided)
  <2>1. Due(h) \in Hist
    BY <1>2, HistOps, Zenon
  <2>2. QED BY <1>2, <2>1, HistRest
<1>4. hist' = IF \E t \in Dispatched : a[t] = "stop" THEN Halt(l) ELSE l
  BY <1>1 DEF h
<1> HIDE DEF l
<1>5. /\ hist'.halted <=> hist.halted \/ \E t \in Dispatched : a[t] = "stop"
      /\ hist'.done = hist.done /\ (hist'.waived <=> hist.waived)
      /\ OfRole(Dispatched, "Do") = {} =>
           (hist'.checked <=> hist.checked) /\ (hist'.decided <=> hist.decided)
  <2>1. CASE \E t \in Dispatched : a[t] = "stop"
    BY <1>2, <1>3, <1>4, <2>1, HistRest
  <2>2. CASE ~ \E t \in Dispatched : a[t] = "stop"
    BY <1>2, <1>3, <1>4, <2>2
  <2>3. QED BY <2>1, <2>2
<1>6. CASE \E t \in Dispatched : a[t] = "error"
  BY <1>1, <1>5, <1>6 DEF End
<1>7. CASE ~ \E t \in Dispatched : a[t] = "error"
  <2>1. /\ wave' = [i \in Indices(Dispatched) |-> a[CHOOSE t \in Dispatched : t.at = i]]
        /\ pc' = "results" /\ UNCHANGED last
    BY <1>1, <1>7
  <2>2. DOMAIN wave' = Indices(Dispatched)
    BY <2>1
  <2>3. ASSUME NEW t \in Dispatched PROVE wave'[t.at] = a[t]
    <3>1. t.at \in Indices(Dispatched)
      BY DEF Indices
    <3>2. \A u \in Dispatched : u.at = t.at => u = t
      BY DEF Dispatched, Runnable, TypeInv, Sound
    <3>3. (CHOOSE u \in Dispatched : u.at = t.at) = t
      BY <3>2
    <3>4. QED BY <2>1, <3>1, <3>3
  <2>4. QED BY <1>1, <1>5, <1>7, <2>1, <2>2, <2>3
<1>8. QED BY <1>6, <1>7

\* A wave is of one agent just when it has one element.
LEMMA WaveOfOne ==
  ASSUME TypeInv
  PROVE  Cardinality(Dispatched) = 1 <=> \E t : Dispatched = {t}
<1>1. Dispatched \subseteq plan /\ IsFiniteSet(plan)
  BY DEF Dispatched, Runnable, TypeInv, Sound
<1>2. IsFiniteSet(Dispatched)
  BY <1>1, FS_Subset
<1>3. QED BY <1>2, FS_Singleton

\* An agent that is dispatched alone.
LEMMA AloneDispatched ==
  ASSUME Ran, OneAtATime(plan), Dispatched # {}
  PROVE  /\ \A s, t \in Dispatched : s = t
         /\ Cardinality(Dispatched) = 1
<1>1. past \in Fronts(plan) /\ Dispatched \subseteq Ready(plan, past)
  BY ReadyIsRunnable DEF Ran, Fronts, Dispatched
<1>2. \A s, t \in Dispatched : s = t
  BY <1>1 DEF OneAtATime
<1>3. PICK t : Dispatched = {t}
  BY <1>2
<1>4. QED BY <1>2, <1>3, FS_Singleton

\* A dispatch that is stopped has the stop among the answers it awaits.
LEMMA HaltDispatch ==
  ASSUME TypeInv, Ran, Halting(plan), HaltInv, DispatchWave
  PROVE  HaltInv'
<1>1. pc = "wave" /\ UNCHANGED <<plan, task>> /\ Dispatched # {} /\ Dispatched \subseteq Ready(plan, past)
  BY ReadyIsRunnable DEF DispatchWave, Dispatched
<1>2. ~hist.halted
  BY <1>1 DEF HaltInv
<1>3. PICK a :
    /\ hist'.halted <=> hist.halted \/ \E t \in Dispatched : a[t] = "stop"
    /\ IF \E t \in Dispatched : a[t] = "error"
       THEN \/ Cardinality(Dispatched) = 1 /\ pc' = "error" /\ UNCHANGED last
            \/ Cardinality(Dispatched) # 1 /\ Return(Plain("failed"))
       ELSE /\ DOMAIN wave' = Indices(Dispatched)
            /\ \A t \in Dispatched : wave'[t.at] = a[t]
            /\ pc' = "results"
  BY DispatchMoves
<1>4. SUFFICES ASSUME hist'.halted PROVE HaltInv'
  BY DEF HaltInv
<1>5. PICK x \in Dispatched : a[x] = "stop"
  BY <1>2, <1>3, <1>4
<1>6. past \in Fronts(plan)
  BY DEF Ran, Fronts
<1>7. CASE OneAtATime(plan)
  <2>1. \A s, t \in Dispatched : s = t
    BY <1>7, AloneDispatched, Zenon
  <2>2. ~ \E t \in Dispatched : a[t] = "error"
    BY <1>5, <2>1
  <2>3. /\ DOMAIN wave' = Indices(Dispatched) /\ wave'[x.at] = "stop" /\ pc' = "results"
    BY <1>3, <1>5, <2>2
  <2>4. x.at \in Indices(Dispatched) /\ \A i, j \in Indices(Dispatched) : i = j
    BY <1>5, <2>1 DEF Indices
  <2>5. QED BY <2>3, <2>4 DEF HaltInv, OneAnswer
<1>8. CASE task.dag /\ ~task.preflight /\ WorkBeside(plan) /\ ~OneAtATime(plan)
  <2>1. CASE \A s, t \in Dispatched : s = t
    <3>1. ~ \E t \in Dispatched : a[t] = "error"
      BY <1>5, <2>1
    <3>2. /\ DOMAIN wave' = Indices(Dispatched) /\ wave'[x.at] = "stop" /\ pc' = "results"
      BY <1>3, <1>5, <3>1
    <3>3. x.at \in Indices(Dispatched) /\ \A i, j \in Indices(Dispatched) : i = j
      BY <1>5, <2>1 DEF Indices
    <3>4. QED BY <3>2, <3>3 DEF HaltInv, OneAnswer
  <2>2. CASE ~ \A s, t \in Dispatched : s = t
    <3>1. \A t \in Dispatched : t.role \in {"Do", "Check"}
      BY <1>1, <1>6, <1>8, <2>2 DEF WorkBeside
    <3>2. CASE \E t \in Dispatched : a[t] = "error"
      <4>1. Cardinality(Dispatched) # 1
        BY <2>2, WaveOfOne
      <4>2. Return(Plain("failed"))
        BY <1>3, <3>2, <4>1
      <4>3. QED BY <1>1, <1>8, <4>2, ResultFields DEF Return, HaltInv, Hopeless
    <3>3. CASE ~ \E t \in Dispatched : a[t] = "error"
      <4>1. /\ DOMAIN wave' = Indices(Dispatched) /\ wave'[x.at] = "stop" /\ pc' = "results"
        BY <1>3, <1>5, <3>3
      <4>2. x.at \in Indices(Dispatched)
        BY <1>5 DEF Indices
      <4>3. \A t \in plan : t.at \in Indices(Dispatched) => t \in Dispatched
        BY <1>1 DEF Indices, Ready, TypeInv, Sound
      <4>4. QED BY <1>1, <1>8, <3>1, <4>1, <4>2, <4>3 DEF HaltInv, WorkAnswers
    <3>4. QED BY <3>2, <3>3
  <2>3. QED BY <2>1, <2>2
<1>9. QED BY <1>7, <1>8 DEF Halting

\* The answers beside a stop are of agents that cannot send the task on.
LEMMA HaltSeen ==
  ASSUME TypeInv, Ran, HaltInv, StopSeen \/ FailureSeen \/ PlanSeen \/ WorkSeen \/ CheckSeen \/ ActSeen
  PROVE  HaltInv'
<1>1. /\ pc = "results" /\ DOMAIN wave # {}
      /\ Seen \in DOMAIN wave /\ SeenStep \in plan /\ SeenStep.at = Seen
      /\ DOMAIN Unseen = DOMAIN wave \ {Seen}
      /\ \A i \in DOMAIN Unseen : Unseen[i] = wave[i]
  <2>1. pc = "results" /\ DOMAIN wave # {}
    BY DEF StopSeen, FailureSeen, PlanSeen, WorkSeen, CheckSeen, ActSeen, TypeInv
  <2>2. QED BY <2>1, SeenIn DEF Unseen
<1>2. CASE StopSeen
  BY <1>2, HaltStops DEF StopSeen
<1>3. CASE ~hist.halted /\ ~StopSeen
  <2>1. ~hist'.halted
    <3>1. CASE FailureSeen
      BY <1>3, <3>1, HistRest DEF FailureSeen, TypeInv
    <3>2. CASE PlanSeen
      BY <1>3, <3>2 DEF PlanSeen
    <3>3. CASE WorkSeen
      BY <1>3, <3>3 DEF WorkSeen, TypeInv, Hist
    <3>4. CASE CheckSeen
      BY <1>3, <3>4, HistRest DEF CheckSeen, Audit, Judge, TypeInv
    <3>5. CASE ActSeen
      BY <1>3, <3>5, DecidedRest DEF ActSeen, TypeInv
    <3>6. QED BY <1>3, <3>1, <3>2, <3>3, <3>4, <3>5
  <2>2. QED BY <2>1 DEF HaltInv
<1>4. CASE hist.halted /\ ~StopSeen
  <2>1. PICK i \in DOMAIN wave : wave[i] = "stop"
    BY <1>1, <1>4 DEF HaltInv
  <2>2. i # Seen
    BY <1>1, <1>4, <2>1 DEF FailureSeen, PlanSeen, WorkSeen, CheckSeen, ActSeen
  <2>3. task.dag /\ ~task.preflight /\ WorkAnswers
    BY <1>1, <1>4, <2>1, <2>2 DEF HaltInv, OneAnswer
  <2>4. SeenStep.role \in {"Do", "Check"}
    BY <1>1, <2>3 DEF WorkAnswers
  <2>5. CASE FailureSeen
    BY <2>3, <2>4, <2>5, ResultFields DEF FailureSeen, Return, HaltInv, Hopeless
  <2>6. CASE WorkSeen \/ CheckSeen
    <3>1. wave' = Unseen /\ pc' = Later /\ UNCHANGED <<task, plan>>
      BY <2>6 DEF WorkSeen, CheckSeen
    <3>2. i \in DOMAIN Unseen /\ Unseen[i] = "stop"
      BY <1>1, <2>1, <2>2
    <3>3. Later = "results"
      BY <1>1, <3>2, LaterIs
    <3>4. \A t \in plan : t.at \in DOMAIN Unseen => t.role \in {"Do", "Check"}
      BY <1>1, <2>3 DEF WorkAnswers
    <3>5. QED BY <2>3, <3>1, <3>2, <3>3, <3>4 DEF HaltInv, WorkAnswers
  <2>7. QED BY <1>4, <2>4, <2>5, <2>6 DEF PlanSeen, ActSeen, StopSeen, FailureSeen, WorkSeen, CheckSeen
<1>5. QED BY <1>2, <1>3, <1>4

\* Another audit stops the task or leaves whether it is stopped.
LEMMA HaltAudit ==
  ASSUME TypeInv, NEW class, NEW f, Judge(class, f)
  PROVE  hist'.halted <=> hist.halted
  BY HistRest DEF Judge, TypeInv

\* An audit asked for by the recovery loop is no exception.
LEMMA HaltReaudit ==
  ASSUME TypeInv, NEW rewrite, NEW count, Reaudit(rewrite, count)
  PROVE  Return(Plain("stop")) \/ (hist'.halted <=> hist.halted)
  BY ReauditMoves, HaltAudit

\* After the waves a stop is returned at once.
LEMMA HaltClosing ==
  ASSUME TypeInv, HaltInv,
         Deliver \/ Verify \/ Recheck \/ RefuseRepair \/ Repair \/ ReauditRepair \/ EndRepair
           \/ Mark \/ Decide \/ Gate
  PROVE  HaltInv'
<1>1. pc \notin {"results", "route", "stopped"}
  BY DEF Deliver, Verify, Recheck, RefuseRepair, Repair, ReauditRepair, EndRepair, Mark, Decide, Gate
<1>2. SUFFICES Return(Plain("stop")) \/ (hist'.halted => hist.halted)
  BY <1>1, HaltQuiet, HaltStops
<1>3. hist \in Hist
  BY DEF TypeInv
<1>4. CASE Deliver
  <2>1. CASE hist' \in {hist, Due(Implement(Due(hist))), Implement(Due(hist))}
    <3>1. Due(hist) \in Hist /\ (Due(hist).halted <=> hist.halted)
      BY <1>3, HistOps, HistRest, Zenon DEF TypeInv
    <3>2. Implement(Due(hist)) \in Hist
      BY <3>1, HistOps, Zenon DEF TypeInv
    <3>3. Implement(Due(hist)).halted <=> hist.halted
      BY <3>1, HistRest
    <3>4. QED BY <2>1, <3>1, <3>2, <3>3, HistRest
  <2>2. QED BY <1>4, <2>1 DEF Deliver, StoppedAgent, MissingRole
<1>5. CASE Verify
  <2>1. CASE \E class, f : Judge(class, f)
    BY <2>1, HaltAudit
  <2>2. CASE hist' \in {hist, Due(hist)}
    BY <1>3, <2>2, HistRest
  <2>3. CASE StoppedAgent
    BY <2>3 DEF StoppedAgent
  <2>4. QED BY <1>5, <2>1, <2>2, <2>3 DEF Verify, MissingRole, Audit
<1>6. CASE Recheck \/ ReauditRepair
  <2>1. (\E rewrite, count : Reaudit(rewrite, count)) \/ hist' \in {hist, Due(hist)}
    BY <1>6 DEF Recheck, ReauditRepair
  <2>2. QED BY <1>3, <2>1, HaltReaudit, HistRest
<1>7. CASE RefuseRepair
  BY <1>7 DEF RefuseRepair
<1>8. CASE Repair
  <2>1. Implement(hist) \in Hist /\ (Implement(hist).halted <=> hist.halted)
    BY <1>3, HistOps, HistRest, Zenon DEF TypeInv
  <2>2. hist' \in {hist, Due(Implement(hist)), Implement(hist)} \/ Return(Plain("stop"))
    BY <1>8 DEF Repair
  <2>3. QED BY <2>1, <2>2, HistRest
<1>9. CASE EndRepair \/ Mark
  <2>1. hist' \in {hist, Due(hist)}
    BY <1>9 DEF EndRepair, Mark
  <2>2. QED BY <1>3, <2>1, HistRest
<1>10. CASE Decide
  <2>1. hist' \in {hist, Due(hist)} \/ Return(Plain("stop"))
          \/ \E s, c : hist' = Decided(s, c)
    BY <1>10 DEF Decide
  <2>2. QED BY <1>3, <2>1, HistRest, DecidedRest
<1>11. CASE Gate
  <2>1. hist' \in {hist, Due(hist)}
    BY <1>11 DEF Gate
  <2>2. QED BY <1>3, <2>1, HistRest
<1>12. QED BY <1>4, <1>5, <1>6, <1>7, <1>8, <1>9, <1>10, <1>11

\* A stop, or a failure of a workflow that asks for a retry, ends the task.
LEMMA HaltRoute ==
  ASSUME TypeInv, HaltInv, Route
  PROVE  HaltInv'
<1>1. SUFFICES ASSUME hist'.halted PROVE pc' = "stopped"
  BY DEF HaltInv
<1>2. hist.halted /\ pc = "route"
  BY <1>1, RouteMoves, HistRest DEF TypeInv
<1>3. CASE last.status = "stop"
  BY <1>3, RouteMoves DEF NextCycle
<1>4. CASE Hopeless
  <2>1. ~NeedsExecution /\ task.dag /\ last.status = "failed"
    BY <1>4 DEF Hopeless, NeedsExecution
  <2>2. last.marker \in {"RetryDa", "RetryCa"} \/ ~(last.scope \/ last.status = "partial")
    BY <1>4 DEF Hopeless
  <2>3. QED BY <2>1, <2>2, RouteMoves
<1>5. QED BY <1>2, <1>3, <1>4 DEF HaltInv

\* Every step keeps a stop final.
LEMMA HaltStep == PlansStopCleanly /\ StopInv /\ [Next]_vars => StopInv'
<1>1. SUFFICES ASSUME PlansStopCleanly, StopInv, [Next]_vars PROVE StopInv'
  OBVIOUS
<1>2. TypeInv /\ Ran /\ Halting(plan) /\ OneAtATime(scoped) /\ HaltInv
  BY <1>1 DEF StopInv
<1>3. TypeInv' /\ Ran' /\ Halting(plan)' /\ OneAtATime(scoped)'
  BY <1>1, <1>2, TypeStep, RanStep, StopShapeStep
<1>4. HaltInv'
  <2>1. CASE UNCHANGED vars
    BY <1>2, <2>1 DEF vars, HaltInv, Hopeless, OneAnswer, WorkAnswers
  <2>2. CASE BeginCycle \/ TokensSpent \/ DeferWave \/ WavesDone
    <3>1. UNCHANGED hist /\ pc \in {"cycle", "wave"}
      BY <2>2 DEF BeginCycle, TokensSpent, DeferWave, WavesDone
    <3>2. QED BY <1>2, <3>1, HaltQuiet
  <2>3. CASE Next
    BY <1>2, <2>1, <2>2, <2>3, HaltDispatch, HaltSeen, HaltClosing, HaltRoute DEF Next, Done
  <2>4. QED BY <1>1, <2>1, <2>3
<1>5. QED BY <1>3, <1>4 DEF StopInv

\* A timeout or a block is final: once a result is one, no agent is dispatched
\* any more and the task is neither retried nor accepted, for any plans whose
\* agents run one at a time, or of a workflow in which only Do and check agents
\* run beside others (execute_plan's early returns, src/src/core/sa/execution.rs,
\* and the route of process_task_with_context, src/src/core/sa/process.rs).
THEOREM StopsAreFinal == ASSUME PlansStopCleanly PROVE Spec => []StopIsFinal
<1>1. Init => StopInv
  <2>1. SUFFICES ASSUME Init PROVE StopInv
    OBVIOUS
  <2>2. plan = {} /\ scoped = {} /\ past = {} /\ wave = <<>> /\ ~hist.halted
    BY <2>1 DEF Init
  <2>3. Ran
    <3>1. DOMAIN <<>> = {} OBVIOUS
    <3>2. QED BY <2>2, <3>1 DEF Ran, Closed
  <2>4. OneAtATime({})
    BY DEF OneAtATime, Ready
  <2>5. QED BY <2>1, <2>2, <2>3, <2>4, InitType DEF StopInv, Halting, HaltInv
<1>2. PlansStopCleanly /\ StopInv /\ [Next]_vars => StopInv'
  BY HaltStep
<1>3. StopInv => StopIsFinal
  BY DEF StopInv, HaltInv, StopIsFinal
<1>4. QED BY <1>1, <1>2, <1>3, PTL DEF Spec

(***************************************************************************)
(* An accepted result was earned.                                          *)
(***************************************************************************)
Seens == past \ DOMAIN wave
Waves == {"wave", "results"}
Closing == {"deliver", "verify", "repair", "reaudit", "mark", "decide", "gate"}
Dos(p) == Indices(OfRole(p, "Do"))
Shaped == Ordered(plan) /\ Ordered(scoped) /\ (task.dag \/ (OneAtATime(plan) /\ OneAtATime(scoped)))

\* Everything but the act agents is done; or no act agent has been dispatched
\* and the answers to come are of steps that are ready after the steps seen.
WorkDone == \A t \in plan : t.role # "Act" => t.at \in Seens
Front ==
  \/ WorkDone
  \/ /\ Closed(plan, Seens)
     /\ \A t \in plan : t.at \in DOMAIN wave => t \in Ready(plan, Seens)
     /\ \A t \in OfRole(plan, "Act") : t.at \notin Seens

\* The Do steps of the whole plan that have not answered, and a plan that has
\* them all.  The plan of a preflight's first cycle is not a part of it.
Base == IF task.preflight THEN task.fallback ELSE task.steps
Missing == Dos(Base) \ hist.done
Covers(p) == hist.waived \/ Missing \subseteq Dos(p)
InWork == ~(cycle = 0 /\ task.preflight)
Complete == InWork => hist.waived \/ Missing = {}

CycleInv == pc = "cycle" /\ scoped # {} => InWork /\ Covers(scoped)

WaveInv ==
  pc \in Waves =>
    /\ Front /\ ~redo
    /\ pc = "wave" => DOMAIN wave = {}
    /\ report.class = "none" => \A t \in OfRole(plan, "Check") : t.at \notin Seens
    /\ report.class # "none" => Dos(plan) \subseteq Seens
    /\ report.class = "pass" => hist.checked
    /\ \A t \in OfRole(plan, "Act") : t.at \in past =>
         \/ Rejects(report)
         \/ \E u \in OfRole(plan, "Act") : u.at \in DOMAIN wave
         \/ last.status = "success" => hist.decided
    /\ InWork => Covers(plan)
    /\ Dos(plan) \cap Seens \subseteq hist.done

\* Behind a Do agent that wrote the target only its verification can follow.
Unverified == pc = "verify" /\ ~Delivered
Judged ==
  /\ report.class = "none" => ~HasRole("Check")
  /\ report.class = "pass" => hist.checked \/ Unverified
  /\ pc = "reaudit" => redo /\ Rejects(report)
  /\ redo => report # NoReport \/ Unverified
  /\ ~redo /\ ~Rejects(report) /\ HasRole("Act") /\ last.status = "success" => hist.decided
  /\ pc \in {"decide", "gate"} /\ Rejects(report) => last.status # "success"
  /\ pc = "gate" /\ HasRole("Act") /\ last.status = "success" => hist.decided
ClosingInv == pc \in Closing => Judged /\ (InWork => Covers(plan)) /\ Dos(plan) \subseteq hist.done

Earned == /\ HasRole("Check") => hist.checked
          /\ HasRole("Act") => hist.decided
          /\ Delivered
\* What the route of an unfinished cycle goes back to.
GoesBack ==
  \/ last.status = "stop"
  \/ last.status = "failed" /\ last.marker = "ReplanPa" /\ last.scope
  \/ last.status = "failed" /\ task.dag
  \/ /\ last.status = "failed" /\ last.marker = "RetryDa"
     /\ \E t \in OfRole(plan, "Do") : t.at = last.failed
     /\ hist.waived \/ Missing \subseteq Dos(plan) \cap Descendants(plan, last.failed)
RouteInv ==
  pc = "route" => /\ last.status = "success" => Earned
                  /\ Complete \/ (InWork /\ GoesBack)
AcceptInv == pc = "accepted" => Earned /\ (hist.waived \/ Missing = {})
ConfirmInv == last.confirmed /\ cycle = 0 /\ task.preflight => hist.waived

EarnedInv ==
  /\ TypeInv /\ Ran /\ Shaped
  /\ CycleInv /\ WaveInv /\ ClosingInv /\ RouteInv /\ AcceptInv /\ ConfirmInv

\* A cut keeps the order of the roles, and the Do steps it has not cut.
LEMMA CutOrdered ==
  ASSUME NEW p, Sound(p), Ordered(p), NEW i
  PROVE  Ordered(Scoped(p, i))
<1> DEFINE cut == Scoped(p, i)
<1>1. SUFFICES ASSUME NEW P \in Fronts(cut), NEW u \in Ready(cut, P), NEW v \in cut,
                      \/ u.role = "Check" /\ v.role = "Do"
                      \/ u.role = "Act" /\ v.role # "Act"
               PROVE  v.at \in P
  BY DEF Ordered, OfRole, Indices
<1> DEFINE Q == P \union (Indices(p) \ Descendants(p, i))
<1>2. P \subseteq Indices(cut) /\ Closed(cut, P)
  BY DEF Fronts
<1>3. Q \subseteq Indices(p) /\ Closed(p, Q)
  BY <1>2, CutReady
<1>4. \E x \in Ready(p, Q) : u.at = x.at /\ u.role = x.role
  BY <1>2, CutReady
<1>5. /\ v.at \in Descendants(p, i)
      /\ \E y \in p : v.at = y.at /\ v.role = y.role
  BY CutMembers DEF Indices
<1> HIDE DEF Q, cut
<1>6. Q \in Fronts(p)
  BY <1>3 DEF Fronts
<1>7. PICK y \in p : v.at = y.at /\ v.role = y.role
  BY <1>5
<1>8. CASE u.role = "Check" /\ v.role = "Do"
  <2>1. OfRole(Ready(p, Q), "Check") # {} /\ y \in OfRole(p, "Do")
    BY <1>4, <1>7, <1>8 DEF OfRole
  <2>2. v.at \in Q
    BY <1>6, <1>7, <2>1 DEF Ordered, Indices
  <2>3. QED BY <1>5, <2>2 DEF Q
<1>9. CASE u.role = "Act" /\ v.role # "Act"
  <2>1. OfRole(Ready(p, Q), "Act") # {} /\ y \in p \ OfRole(p, "Act")
    BY <1>4, <1>7, <1>9 DEF OfRole
  <2>2. v.at \in Q
    BY <1>6, <1>7, <2>1 DEF Ordered, Indices
  <2>3. QED BY <1>5, <2>2 DEF Q
<1>10. QED BY <1>1, <1>8, <1>9

\* The plan of any retry is ordered as well.
LEMMA RetryOrdered ==
  ASSUME NEW p, Sound(p), Ordered(p), NEW d, NEW i
  PROVE  Ordered(RetryPlan(p, d, i))
<1>1. Ordered({})
  BY DEF Ordered, Ready, OfRole
<1>2. QED BY <1>1, CutOrdered DEF RetryPlan

\* The plans of a task keep their order.
LEMMA EarnShapeStep ==
  ASSUME PlansOrdered, TypeInv, Shaped, [Next]_vars
  PROVE  Shaped'
<1>1. Ordered({}) /\ OneAtATime({})
  BY DEF Ordered, Ready, OfRole, OneAtATime
<1>2. CASE BeginCycle
  <2>1. plan' \in {scoped, task.fallback, task.steps} /\ scoped' = {} /\ task' = task
    BY <1>2 DEF BeginCycle
  <2>2. \A s \in {task.steps, task.fallback} : Ordered(s) /\ (task.dag \/ OneAtATime(s))
    BY DEF PlansOrdered, TypeInv
  <2>3. QED BY <1>1, <2>1, <2>2 DEF Shaped
<1>3. CASE Route
  <2>1. UNCHANGED <<plan, task>>
    BY <1>3, RouteMoves
  <2>2. CASE \E d : ~task.dag /\ scoped' = RetryPlan(plan, d, last.failed)
    BY <2>1, <2>2, RetryOneAtATime, RetryOrdered DEF TypeInv, Shaped
  <2>3. CASE scoped' \in {scoped, {}}
    BY <1>1, <2>1, <2>3 DEF Shaped
  <2>4. QED BY <1>3, <2>2, <2>3, RouteMoves DEF NextCycle
<1>4. CASE UNCHANGED <<plan, scoped, task>>
  BY <1>4 DEF Shaped
<1>5. QED
  BY <1>2, <1>3, <1>4 DEF Next, vars, TokensSpent, DeferWave, DispatchWave, WavesDone, Deliver, Verify,
     Recheck, RefuseRepair, Repair, ReauditRepair, EndRepair, Mark, Decide, Gate, Done, Rigid, StopSeen,
     FailureSeen, PlanSeen, WorkSeen, CheckSeen, ActSeen

-----------------------------------------------------------------------------
\* An act agent that can run finds everything else done.
LEMMA ActFindsWorkDone ==
  ASSUME Ran, Ordered(plan), NEW t \in Runnable, t.role = "Act"
  PROVE  \A u \in plan : u.role # "Act" => u.at \in past
<1>1. past \in Fronts(plan) /\ t \in OfRole(Ready(plan, past), "Act")
  BY ReadyIsRunnable DEF Ran, Fronts, OfRole
<1>2. Indices(plan \ OfRole(plan, "Act")) \subseteq past
  BY <1>1 DEF Ordered
<1>3. QED BY <1>2 DEF Indices, OfRole

\* A wave is dispatched whole or deferred whole.
LEMMA WholeWave ==
  ASSUME Ran, Ordered(plan), Dispatched # {}
  PROVE  Dispatched = Runnable
<1>1. SUFFICES ASSUME NEW t \in Runnable, t \notin Dispatched PROVE FALSE
  BY DEF Dispatched
<1>2. t.role = "Act" /\ Rejects(report)
  BY <1>1 DEF Dispatched
<1>3. \A u \in plan : u.role # "Act" => u.at \in past
  BY <1>2, ActFindsWorkDone
<1>4. PICK u \in Dispatched : TRUE
  OBVIOUS
<1>5. u \in Runnable /\ u.role # "Act"
  BY <1>2, <1>4 DEF Dispatched
<1>6. QED BY <1>3, <1>5 DEF Runnable

\* When a wave is empty all that is past has been seen, and nothing can run
\* only when the whole plan is past.
LEMMA NothingLeft ==
  ASSUME TypeInv, Ran, Runnable = {}
  PROVE  past = Indices(plan)
<1> DEFINE S == Indices(plan) \ past
<1>1. SUFFICES ASSUME S # {} PROVE FALSE
  BY DEF Ran
<1>2. S \subseteq Nat
  BY DEF TypeInv, Sound, Indices, Step
<1>3. PICK m \in S : \A n \in S : m <= n
  <2> HIDE DEF S
  <2>1. QED BY <1>1, <1>2, LeastNumber, Zenon
<1>4. PICK t \in plan : t.at = m
  BY <1>3 DEF Indices
<1>5. \A d \in t.deps : d \in Indices(plan) /\ d < m /\ d \in Nat
  BY <1>4 DEF TypeInv, Sound, Step, Indices
<1>6. \A d \in t.deps : d \in past
  BY <1>2, <1>3, <1>5
<1>7. t \in Runnable
  BY <1>3, <1>4, <1>6 DEF Runnable
<1>8. QED BY <1>7

\* The step whose answer is looked at.
LEMMA SeenFacts ==
  ASSUME TypeInv, Ran, Ordered(plan), Front, DOMAIN wave # {}
  PROVE  /\ Seen \in DOMAIN wave /\ SeenStep \in plan /\ SeenStep.at = Seen /\ Seen \in past
         /\ \A t \in plan : t.at = Seen => t = SeenStep
         /\ SeenStep.role # "Act" =>
              /\ Closed(plan, Seens) /\ SeenStep \in Ready(plan, Seens)
              /\ \A t \in plan : t.at \in DOMAIN wave => t \in Ready(plan, Seens)
              /\ \A t \in OfRole(plan, "Act") : t.at \notin past
         /\ SeenStep.role = "Act" => WorkDone
         /\ SeenStep.role = "Check" => Dos(plan) \subseteq Seens
<1>1. /\ Seen \in DOMAIN wave /\ SeenStep \in plan /\ SeenStep.at = Seen /\ Seen \in past
      /\ \A t \in plan : t.at = Seen => t = SeenStep
  BY SeenIn DEF Ran, TypeInv, Sound
<1>2. Seen \notin Seens
  BY <1>1 DEF Seens
<1>3. SeenStep.role # "Act" => ~WorkDone
  BY <1>1, <1>2 DEF WorkDone
<1>4. ~WorkDone => /\ Closed(plan, Seens) /\ Seens \in Fronts(plan)
                   /\ \A t \in plan : t.at \in DOMAIN wave => t \in Ready(plan, Seens)
                   /\ \A t \in OfRole(plan, "Act") : t.at \notin Seens
  BY DEF Front, Fronts, Seens, Ran
<1>5. ~WorkDone => \A t \in plan : t.at \in DOMAIN wave => t.role # "Act"
  <2>1. SUFFICES ASSUME ~WorkDone, NEW t \in plan, t.at \in DOMAIN wave, t.role = "Act" PROVE FALSE
    OBVIOUS
  <2>2. t \in OfRole(Ready(plan, Seens), "Act")
    BY <1>4, <2>1 DEF OfRole
  <2>3. Indices(plan \ OfRole(plan, "Act")) \subseteq Seens
    BY <1>4, <2>1, <2>2 DEF Ordered
  <2>4. QED BY <2>1, <2>3 DEF WorkDone, Indices, OfRole
<1>6. ~WorkDone => \A t \in OfRole(plan, "Act") : t.at \notin past
  BY <1>4, <1>5 DEF OfRole, Seens
<1>7. SeenStep.role = "Act" => WorkDone
  BY <1>1, <1>5
<1>8. SeenStep.role = "Check" => Dos(plan) \subseteq Seens
  <2>1. SUFFICES ASSUME SeenStep.role = "Check" PROVE Dos(plan) \subseteq Seens
    OBVIOUS
  <2>2. SeenStep \in OfRole(Ready(plan, Seens), "Check")
    BY <1>1, <1>3, <1>4, <2>1 DEF OfRole
  <2>3. QED BY <1>3, <1>4, <2>1, <2>2 DEF Ordered, Dos
<1>9. QED BY <1>1, <1>3, <1>4, <1>6, <1>7, <1>8

\* An answer looked at.
LEMMA AnswerSeen ==
  ASSUME TypeInv, Ran, Ordered(plan), Front, DOMAIN wave # {}, SeenStep.role # "Act",
         wave' = Unseen, UNCHANGED <<plan, past>>
  PROVE  Seens' = Seens \union {Seen} /\ Front' /\ DOMAIN wave' = DOMAIN wave \ {Seen}
<1>1. /\ Seen \in DOMAIN wave /\ SeenStep \in plan /\ SeenStep.at = Seen /\ Seen \in past
      /\ \A t \in plan : t.at = Seen => t = SeenStep
      /\ Closed(plan, Seens) /\ SeenStep \in Ready(plan, Seens)
      /\ \A t \in plan : t.at \in DOMAIN wave => t \in Ready(plan, Seens)
      /\ \A t \in OfRole(plan, "Act") : t.at \notin past
  BY SeenFacts
<1>2. DOMAIN wave' = DOMAIN wave \ {Seen}
  BY SeenIn
<1>3. Seens' = Seens \union {Seen}
  BY <1>1, <1>2 DEF Seens
<1>4. Closed(plan', Seens')
  BY <1>1, <1>3 DEF Closed, Ready
<1>5. \A t \in plan' : t.at \in DOMAIN wave' => t \in Ready(plan', Seens')
  BY <1>1, <1>2, <1>3 DEF Ready
<1>6. \A t \in OfRole(plan', "Act") : t.at \notin Seens'
  BY <1>1, <1>3 DEF Seens
<1>7. QED BY <1>2, <1>3, <1>4, <1>5, <1>6 DEF Front

\* The parts of the invariant that depend on where the loops are.
Places == CycleInv /\ WaveInv /\ ClosingInv /\ RouteInv /\ AcceptInv

\* The Do steps still missing depend only on the task and on the history.
LEMMA MissingKept ==
  ASSUME UNCHANGED <<task, cycle>>, hist'.done = hist.done, hist.waived => hist'.waived
  PROVE  /\ Missing' = Missing /\ (InWork' <=> InWork) /\ (Complete => Complete')
         /\ plan' = plan => (Covers(plan) => Covers(plan)')
         /\ scoped' = scoped => (Covers(scoped) => Covers(scoped)')
  BY DEF Missing, Base, InWork, Complete, Covers

\* Once every Do step of the plan has answered the work is complete.
LEMMA CoveredDone ==
  ASSUME InWork => Covers(plan), Dos(plan) \subseteq hist.done
  PROVE  Complete
  BY DEF Complete, Covers, Missing

\* A cycle starts with a plan that has the missing Do steps; the waves end with
\* every step seen.
LEMMA EarnCycle ==
  ASSUME TypeInv, Ran, Shaped, Places, BeginCycle \/ TokensSpent \/ DeferWave \/ WavesDone
  PROVE  Places'
<1>1. CASE BeginCycle
  <2>1. /\ pc = "cycle" /\ pc' = "wave" /\ report' = NoReport /\ redo' = FALSE
        /\ past' = {} /\ wave' = <<>> /\ UNCHANGED <<task, cycle, hist>>
        /\ plan' = IF scoped # {} THEN scoped
                   ELSE IF cycle > 0 /\ task.preflight THEN task.fallback ELSE task.steps
    BY <1>1 DEF BeginCycle
  <2>2. DOMAIN wave' = {} /\ Seens' = {}
    <3>1. DOMAIN <<>> = {} OBVIOUS
    <3>2. QED BY <2>1, <3>1 DEF Seens
  <2>3. Front'
    BY <2>1, <2>2 DEF Front, Closed
  <2>4. InWork' => Covers(plan)'
    <3>1. SUFFICES ASSUME InWork' PROVE Covers(plan)'
      OBVIOUS
    <3>2. InWork
      BY <2>1, <3>1 DEF InWork
    <3>3. CASE scoped # {}
      <4>1. plan' = scoped /\ Covers(scoped)
        BY <2>1, <3>3 DEF Places, CycleInv
      <4>2. QED BY <2>1, <4>1 DEF Covers, Missing, Base
    <3>4. CASE scoped = {}
      <4>1. plan' = Base
        BY <2>1, <3>2, <3>4 DEF InWork, Base, TypeInv
      <4>2. QED BY <2>1, <4>1 DEF Covers, Missing, Base
    <3>5. QED BY <3>3, <3>4
  <2>5. report'.class = "none" BY <2>1 DEF NoReport
  <2>7. WaveInv'
    BY <2>1, <2>2, <2>3, <2>4, <2>5 DEF WaveInv, Rejects
  <2>8. QED BY <2>1, <2>7 DEF Places, CycleInv, ClosingInv, RouteInv, AcceptInv, Closing
<1>2. CASE TokensSpent
  BY <1>2 DEF TokensSpent, End, Places, CycleInv, WaveInv, ClosingInv, RouteInv, AcceptInv, Closing, Waves
<1>3. CASE DeferWave
  <2>1. /\ pc = "wave" /\ pc' = "wave" /\ Runnable # {} /\ Dispatched = {}
        /\ past' = past \union Indices(Runnable)
        /\ UNCHANGED <<task, plan, cycle, scoped, wave, report, redo, last, hist>>
    BY <1>3 DEF DeferWave
  <2>2. PICK t \in Runnable : t.role = "Act" /\ Rejects(report)
    BY <2>1 DEF Dispatched
  <2>3. \A u \in plan : u.role # "Act" => u.at \in past
    BY <2>2, ActFindsWorkDone DEF Shaped
  <2>4. DOMAIN wave = {} /\ WaveInv
    BY <2>1 DEF Places, WaveInv, Waves
  <2>5. Seens = past /\ Seens' = past' /\ past \subseteq past'
    BY <2>1, <2>4 DEF Seens
  <2>6. Front' /\ WorkDone /\ Dos(plan) \subseteq Seens
    BY <2>1, <2>3, <2>5 DEF Front, WorkDone, Dos, Indices, OfRole
  <2>7. report.class # "none"
    BY <2>2 DEF Rejects
  <2>8. WaveInv'
    <3>1. Missing' = Missing /\ (InWork' <=> InWork) /\ (Covers(plan) <=> Covers(plan)')
      BY <2>1 DEF Missing, Base, InWork, Covers
    <3>2. Dos(plan') = Dos(plan) /\ Dos(plan) \subseteq Seens' /\ Dos(plan) \subseteq hist.done
      BY <2>1, <2>4, <2>5, <2>6 DEF WaveInv, Waves
    <3>3. Rejects(report')
      BY <2>1, <2>2
    <3>4. QED BY <2>1, <2>2, <2>4, <2>5, <2>6, <2>7, <3>1, <3>2, <3>3 DEF WaveInv, Waves, Rejects
  <2>9. QED BY <2>1, <2>8 DEF Places, CycleInv, ClosingInv, RouteInv, AcceptInv, Closing
<1>4. CASE WavesDone
  <2>1. /\ pc = "wave" /\ pc' = "deliver" /\ Runnable = {}
        /\ UNCHANGED <<task, plan, cycle, scoped, past, wave, report, redo, last, hist>>
    BY <1>4 DEF WavesDone
  <2>2. DOMAIN wave = {} /\ WaveInv
    BY <2>1 DEF Places, WaveInv, Waves
  <2>3. past = Indices(plan) /\ Seens = Indices(plan)
    BY <2>1, <2>2, NothingLeft DEF Seens
  <2>4. \A t \in plan : t.at \in Seens /\ t.at \in past
    BY <2>3 DEF Indices
  <2>5. Dos(plan) \subseteq Seens
    BY <2>3 DEF Dos, Indices, OfRole
  <2>6. report.class = "none" => ~HasRole("Check")
    BY <2>1, <2>2, <2>4 DEF WaveInv, Waves, HasRole, OfRole
  <2>7. ~Rejects(report) /\ HasRole("Act") /\ last.status = "success" => hist.decided
    BY <2>1, <2>2, <2>4 DEF WaveInv, Waves, HasRole, OfRole
  <2>8. ClosingInv'
    <3>1. Missing' = Missing /\ (InWork' <=> InWork) /\ (Covers(plan) <=> Covers(plan)')
      BY <2>1 DEF Missing, Base, InWork, Covers
    <3>2. (HasRole("Check")' <=> HasRole("Check")) /\ (HasRole("Act")' <=> HasRole("Act"))
      BY <2>1 DEF HasRole
    <3>3. Dos(plan) \subseteq hist.done /\ ~redo /\ (report.class = "pass" => hist.checked)
          /\ (InWork => Covers(plan))
      BY <2>1, <2>2, <2>5 DEF WaveInv, Waves
    <3>4. QED BY <2>1, <2>6, <2>7, <3>1, <3>2, <3>3 DEF ClosingInv, Judged
  <2>9. QED BY <2>1, <2>8 DEF Places, CycleInv, WaveInv, RouteInv, AcceptInv, Waves
<1>5. QED BY <1>1, <1>2, <1>3, <1>4

\* A dispatched wave is a front of the plan.
LEMMA EarnDispatch ==
  ASSUME TypeInv, Ran, Shaped, Places, DispatchWave
  PROVE  Places'
<1>1. /\ pc = "wave" /\ Dispatched # {} /\ past' = past \union Indices(Runnable)
      /\ UNCHANGED <<task, plan, cycle, scoped, report, redo>>
  BY DEF DispatchWave
<1>2. Dispatched = Runnable
  BY <1>1, WholeWave DEF Shaped
<1>3. PICK a :
    /\ hist'.done = hist.done /\ (hist'.waived <=> hist.waived)
    /\ OfRole(Dispatched, "Do") = {} =>
         (hist'.checked <=> hist.checked) /\ (hist'.decided <=> hist.decided)
    /\ IF \E t \in Dispatched : a[t] = "error"
       THEN \/ Cardinality(Dispatched) = 1 /\ pc' = "error"
            \/ Cardinality(Dispatched) # 1 /\ Return(Plain("failed"))
       ELSE /\ DOMAIN wave' = Indices(Dispatched)
            /\ pc' = "results" /\ UNCHANGED last
  BY DispatchMoves
<1>4. DOMAIN wave = {} /\ WaveInv
  BY <1>1 DEF Places, WaveInv, Waves
<1>5. CASE pc' = "error"
  BY <1>5 DEF Places, CycleInv, WaveInv, ClosingInv, RouteInv, AcceptInv, Closing, Waves
<1>6. CASE Cardinality(Dispatched) # 1 /\ Return(Plain("failed"))
  <2>1. task.dag
    BY <1>1, <1>6, AloneDispatched DEF Shaped
  <2>2. last'.status = "failed" /\ pc' = "route"
    BY <1>6, ResultFields DEF Return
  <2>3. RouteInv'
    BY <1>1, <2>1, <2>2 DEF RouteInv, Complete, GoesBack
  <2>4. QED BY <2>2, <2>3 DEF Places, CycleInv, WaveInv, ClosingInv, AcceptInv, Closing, Waves
<1>7. CASE /\ DOMAIN wave' = Indices(Dispatched)
           /\ pc' = "results" /\ UNCHANGED last
  <2>1. Seens = past /\ Seens' = past
    BY <1>1, <1>2, <1>4, <1>7 DEF Seens, Runnable, Indices, TypeInv, Sound
  <2>2. \A t \in plan : t.at \in Indices(Runnable) => t \in Runnable
    BY DEF Indices, Runnable, TypeInv, Sound
  <2>3. Front'
    <3>1. CASE WorkDone
      BY <1>1, <2>1, <3>1 DEF WorkDone, Front
    <3>2. CASE ~WorkDone
      <4>1. \A t \in OfRole(plan', "Act") : t.at \notin Seens'
        BY <1>1, <1>4, <2>1, <3>2 DEF WaveInv, Waves, Front
      <4>2. Closed(plan', Seens')
        BY <1>1, <2>1 DEF Ran, Closed
      <4>3. \A t \in plan' : t.at \in DOMAIN wave' => t \in Ready(plan', Seens')
        BY <1>1, <1>2, <1>7, <2>1, <2>2, ReadyIsRunnable
      <4>4. QED BY <4>1, <4>2, <4>3 DEF Front
    <3>3. QED BY <3>1, <3>2
  <2>4. OfRole(Dispatched, "Do") # {} => report.class = "none"
    <3>1. SUFFICES ASSUME NEW t \in Dispatched, t.role = "Do", report.class # "none" PROVE FALSE
      BY DEF OfRole
    <3>2. t \in plan /\ t.at \notin past
      BY <1>2 DEF Runnable
    <3>3. t.at \in Dos(plan)
      BY <3>1, <3>2 DEF Dos, OfRole, Indices
    <3>4. QED BY <1>1, <1>4, <2>1, <3>1, <3>2, <3>3 DEF WaveInv, Waves
  <2>5. report.class = "pass" => hist'.checked
    BY <1>1, <1>3, <1>4, <2>4 DEF WaveInv, Waves
  <2>6. \A t \in OfRole(plan, "Act") : t.at \in past' =>
          \/ Rejects(report)
          \/ \E u \in OfRole(plan, "Act") : u.at \in DOMAIN wave'
          \/ last.status = "success" => hist'.decided
    <3>1. SUFFICES ASSUME NEW t \in OfRole(plan, "Act"), t.at \in past', ~Rejects(report),
                          ~ \E u \in OfRole(plan, "Act") : u.at \in DOMAIN wave',
                          last.status = "success"
                   PROVE  hist'.decided
      OBVIOUS
    <3>2. t.at \in past
      BY <1>1, <1>2, <1>7, <3>1
    <3>3. hist.decided
      BY <1>1, <1>4, <3>1, <3>2 DEF WaveInv, Waves
    <3>4. OfRole(Dispatched, "Do") = {}
      <4>1. WorkDone
        BY <1>1, <1>4, <2>1, <3>1, <3>2 DEF WaveInv, Waves, Front
      <4>2. QED BY <1>2, <2>1, <4>1 DEF WorkDone, OfRole, Runnable
    <3>5. QED BY <1>3, <3>3, <3>4
  <2>7. Missing' = Missing /\ (InWork' <=> InWork) /\ (Covers(plan) => Covers(plan)')
    BY <1>1, <1>3, MissingKept
  <2>8. WaveInv'
    <3>1. (InWork => Covers(plan)) /\ Dos(plan) \cap Seens' \subseteq hist'.done /\ ~redo
          /\ (report.class = "none" => \A t \in OfRole(plan, "Check") : t.at \notin Seens')
          /\ (report.class # "none" => Dos(plan) \subseteq Seens')
      BY <1>1, <1>3, <1>4, <2>1 DEF WaveInv, Waves
    <3>2. QED BY <1>1, <1>7, <2>3, <2>5, <2>6, <2>7, <3>1 DEF WaveInv
  <2>9. QED BY <1>7, <2>8 DEF Places, CycleInv, ClosingInv, RouteInv, AcceptInv, Closing
<1>8. QED BY <1>3, <1>5, <1>6, <1>7

\* What is not done when one step alone can run is behind that step.
LEMMA BehindOne ==
  ASSUME NEW p, Sound(p), OneAtATime(p), NEW P \in Fronts(p), NEW t \in Ready(p, P)
  PROVE  Indices(p) \ P \subseteq Descendants(p, t.at)
<1> DEFINE K == Descendants(p, t.at)
           S == Indices(p) \ (P \union K)
<1>1. t \in p /\ t.at \in Indices(p)
  BY DEF Ready, Indices
<1>2. /\ \A u \in p : u.deps \cap K # {} => u.at \in K
      /\ t.at \in K
  BY <1>1, CutMembers
<1> HIDE DEF K
<1>3. SUFFICES ASSUME S # {} PROVE FALSE
  BY DEF K
<1>4. S \subseteq Nat
  BY DEF Sound, Indices, Step
<1>5. PICK m \in S : \A n \in S : m <= n
  <2> HIDE DEF S
  <2>1. QED BY <1>3, <1>4, LeastNumber, Zenon
<1>6. PICK u \in p : u.at = m
  BY <1>5 DEF Indices
<1>7. \A d \in u.deps : d \in Indices(p) /\ d < m /\ d \in Nat
  BY <1>6 DEF Sound, Step, Indices
<1>8. \A d \in u.deps : d \in P \union K
  BY <1>4, <1>5, <1>7
<1>9. u.deps \subseteq P
  BY <1>2, <1>5, <1>6, <1>8
<1>10. u \in Ready(p, P)
  BY <1>5, <1>6, <1>9 DEF Ready
<1>11. u = t
  BY <1>10 DEF OneAtATime
<1>12. QED BY <1>2, <1>5, <1>6, <1>11

\* A Do agent that fails has the missing Do steps behind it, so the route of a
\* generated plan goes back to all of them.
LEMMA EarnFailure ==
  ASSUME TypeInv, Ran, Shaped, Places, FailureSeen
  PROVE  Places'
<1>1. /\ pc = "results" /\ pc' = "route" /\ last' = FailedStep(SeenStep)
      /\ hist' = IF SeenStep.role = "Check" THEN hist ELSE Due(hist)
      /\ UNCHANGED <<task, plan, cycle, scoped, past, report, redo, facts, target>>
  BY DEF FailureSeen, Return, KeepTarget
<1>2. WaveInv /\ DOMAIN wave # {} /\ Front
  BY <1>1 DEF Places, WaveInv, Waves, TypeInv
<1>3. /\ Seen \in DOMAIN wave /\ SeenStep \in plan /\ SeenStep.at = Seen
      /\ SeenStep.role # "Act" => Closed(plan, Seens) /\ SeenStep \in Ready(plan, Seens)
      /\ SeenStep.role = "Act" => WorkDone
      /\ SeenStep.role = "Check" => Dos(plan) \subseteq Seens
  BY <1>2, SeenFacts DEF Shaped
<1>4. hist'.done = hist.done /\ (hist'.waived <=> hist.waived)
  BY <1>1, HistRest DEF TypeInv
<1>5. /\ Missing' = Missing /\ (InWork' <=> InWork) /\ (Complete => Complete')
  BY <1>1, <1>4, MissingKept
<1>6. last'.status = "failed" /\ last'.failed = SeenStep.at
  BY <1>1, ResultFields
<1>7. (InWork => Covers(plan)) /\ Dos(plan) \cap Seens \subseteq hist.done
  BY <1>1, <1>2 DEF WaveInv, Waves
<1>8. Complete' \/ (InWork' /\ GoesBack')
  <2>1. CASE SeenStep.role \in {"Check", "Act"}
    <3>1. Dos(plan) \subseteq Seens
      BY <1>3, <2>1 DEF WorkDone, Dos, OfRole, Indices
    <3>2. Complete
      BY <1>7, <3>1, CoveredDone
    <3>3. QED BY <1>5, <3>2
  <2>2. CASE SeenStep.role = "Plan"
    <3>1. last'.marker = "ReplanPa" /\ last'.scope
      BY <1>1, <2>2 DEF FailedStep, Result
    <3>2. QED BY <1>5, <1>6, <3>1 DEF GoesBack, Complete
  <2>3. CASE task.dag
    BY <1>1, <1>5, <1>6, <2>3 DEF GoesBack, Complete
  <2>4. CASE SeenStep.role = "Do" /\ ~task.dag
    <3>1. OneAtATime(plan)
      BY <2>4 DEF Shaped
    <3>2. Seens \in Fronts(plan) /\ SeenStep \in Ready(plan, Seens)
      BY <1>3, <2>4 DEF Fronts, Seens, Ran
    <3>3. Indices(plan) \ Seens \subseteq Descendants(plan, SeenStep.at)
      BY <3>1, <3>2, BehindOne DEF TypeInv
    <3>4. Dos(plan) \subseteq Indices(plan)
      BY DEF Dos, OfRole, Indices
    <3>5. InWork => hist.waived \/ Missing \subseteq Dos(plan) \cap Descendants(plan, SeenStep.at)
      BY <1>7, <3>3, <3>4 DEF Covers, Missing
    <3>6. last'.marker = "RetryDa" /\ SeenStep \in OfRole(plan, "Do")
      BY <1>1, <1>3, <2>4, ResultFields DEF OfRole
    <3>7. InWork => GoesBack'
      BY <1>1, <1>4, <1>5, <1>6, <3>5, <3>6 DEF GoesBack
    <3>8. QED BY <1>5, <3>7 DEF Complete
  <2>5. SeenStep.role \in Roles
    BY <1>3 DEF TypeInv, Sound, Step
  <2>6. QED BY <2>1, <2>2, <2>3, <2>4, <2>5 DEF Roles
<1>9. RouteInv'
  BY <1>6, <1>8 DEF RouteInv
<1>10. QED BY <1>1, <1>9 DEF Places, CycleInv, WaveInv, ClosingInv, AcceptInv, Closing, Waves

\* The answers that leave the wave going.
LEMMA EarnAnswer ==
  ASSUME TypeInv, Ran, Shaped, Places, PlanSeen \/ WorkSeen \/ CheckSeen
  PROVE  Places'
<1>1. /\ pc = "results" /\ pc' = Later /\ wave' = Unseen /\ SeenStep.role # "Act"
      /\ UNCHANGED <<task, plan, cycle, scoped, past, redo>>
  BY DEF PlanSeen, WorkSeen, CheckSeen
<1>2. WaveInv /\ DOMAIN wave # {} /\ Front
  BY <1>1 DEF Places, WaveInv, Waves, TypeInv
<1>3. /\ Seen \in DOMAIN wave /\ SeenStep \in plan /\ SeenStep.at = Seen
      /\ \A t \in plan : t.at = Seen => t = SeenStep
      /\ \A t \in OfRole(plan, "Act") : t.at \notin past
      /\ SeenStep.role = "Check" => Dos(plan) \subseteq Seens
  BY <1>1, <1>2, SeenFacts DEF Shaped
<1>4. Seens' = Seens \union {Seen} /\ Front' /\ DOMAIN wave' = DOMAIN wave \ {Seen}
  BY <1>1, <1>2, AnswerSeen DEF Shaped
<1>5. pc' \in Waves /\ (pc' = "wave" => DOMAIN wave' = {})
  BY <1>1, <1>4, LaterIs DEF Waves
<1>6. /\ (InWork => Covers(plan)) /\ Dos(plan) \cap Seens \subseteq hist.done /\ ~redo
      /\ report.class = "none" => \A t \in OfRole(plan, "Check") : t.at \notin Seens
      /\ report.class # "none" => Dos(plan) \subseteq Seens
      /\ report.class = "pass" => hist.checked
  BY <1>1, <1>2 DEF WaveInv, Waves
<1>7. \A t \in OfRole(plan', "Act") : t.at \notin past'
  BY <1>1, <1>3
<1>8. /\ hist.done \subseteq hist'.done /\ (hist'.waived <=> hist.waived)
      /\ SeenStep.role = "Do" => Seen \in hist'.done
      /\ SeenStep.role # "Check" => UNCHANGED report /\ (hist'.checked <=> hist.checked)
      /\ SeenStep.role = "Check" => report'.class # "none" /\ (report'.class = "pass" => hist'.checked)
  <2>1. CASE PlanSeen
    BY <2>1 DEF PlanSeen
  <2>2. CASE WorkSeen
    BY <2>2 DEF WorkSeen, TypeInv, Hist
  <2>3. CASE CheckSeen
    <3>1. PICK f \in Findings : Judge(IF wave[Seen] = "crash" THEN "gap" ELSE wave[Seen], f)
      BY <2>3 DEF CheckSeen, Audit
    <3>2. wave[Seen] \in Answers("Check") \ {"error"}
      BY <1>3, <2>3 DEF CheckSeen, TypeInv
    <3>3. PICK class \in Audits : class = IF wave[Seen] = "crash" THEN "gap" ELSE wave[Seen]
      BY <2>3, <3>2, AuditAnswer DEF CheckSeen, Audits
    <3>4. Reported(class, f).class = class
      BY TrackedType DEF TypeInv
    <3>5. report' = Reported(class, f) /\ hist' = Audited(hist, Reported(class, f))
      BY <3>1, <3>3 DEF Judge
    <3>6. class # "none" BY DEF Audits
    <3>7. Rejects(Reported(class, f)) <=> class # "pass"
      BY <3>4, <3>6 DEF Rejects
    <3>8. QED BY <2>3, <3>4, <3>5, <3>6, <3>7, HistRest DEF TypeInv, CheckSeen
  <2>4. QED BY <2>1, <2>2, <2>3
<1>9. Dos(plan) \cap Seens' \subseteq hist'.done
  <2>1. Seen \in Dos(plan) => SeenStep.role = "Do"
    BY <1>3 DEF Dos, Indices, OfRole
  <2>2. QED BY <1>4, <1>6, <1>8, <2>1
<1>10. /\ report'.class = "none" => \A t \in OfRole(plan, "Check") : t.at \notin Seens'
       /\ report'.class # "none" => Dos(plan) \subseteq Seens'
       /\ report'.class = "pass" => hist'.checked
  <2>1. SeenStep.role # "Check" => \A t \in OfRole(plan, "Check") : t.at # Seen
    BY <1>3 DEF OfRole
  <2>2. QED BY <1>3, <1>4, <1>6, <1>8, <2>1
<1>11. InWork' => Covers(plan)'
  BY <1>1, <1>6, <1>8 DEF InWork, Covers, Missing, Base
<1>12. WaveInv'
  BY <1>1, <1>4, <1>5, <1>6, <1>7, <1>9, <1>10, <1>11 DEF WaveInv
<1>13. QED BY <1>5, <1>12 DEF Places, CycleInv, ClosingInv, RouteInv, AcceptInv, Closing, Waves

\* The decision ends the waves.
LEMMA EarnAct ==
  ASSUME TypeInv, Ran, Shaped, Places, ActSeen
  PROVE  Places'
<1>1. /\ pc = "results" /\ pc' = Later /\ wave' = Unseen /\ SeenStep.role = "Act"
      /\ past' = Indices(plan) /\ wave[Seen] \in {"success", "partial"}
      /\ UNCHANGED <<task, plan, cycle, scoped, redo, report>>
  BY DEF ActSeen
<1>2. WaveInv /\ DOMAIN wave # {} /\ Front
  BY <1>1 DEF Places, WaveInv, Waves, TypeInv
<1>3. Seen \in DOMAIN wave /\ SeenStep \in plan /\ SeenStep.at = Seen /\ WorkDone
      /\ \A t \in plan : t.at = Seen => t = SeenStep
  BY <1>1, <1>2, SeenFacts DEF Shaped
<1>4. PICK confirmed \in BOOLEAN : /\ last' = Decision(wave[Seen], confirmed)
                                   /\ hist' = Decided(wave[Seen], confirmed)
  BY DEF ActSeen
<1>5. DOMAIN wave' = DOMAIN wave \ {Seen}
  BY <1>1, <1>2, SeenIn
<1>6. pc' \in Waves /\ (pc' = "wave" => DOMAIN wave' = {})
  BY <1>1, <1>5, LaterIs DEF Waves
<1>7. WorkDone' /\ Dos(plan) \subseteq Seens
  BY <1>1, <1>3, <1>5 DEF WorkDone, Seens, Indices, Dos, OfRole
<1>8. Dos(plan) \subseteq Seens'
  BY <1>1, <1>7 DEF WorkDone, Dos, OfRole, Indices
<1>9. /\ (InWork => Covers(plan)) /\ Dos(plan) \subseteq hist.done /\ ~redo
      /\ report.class = "none" => \A t \in OfRole(plan, "Check") : t.at \notin Seens
      /\ report.class = "pass" => hist.checked
  BY <1>1, <1>2, <1>7 DEF WaveInv, Waves
<1>10. /\ hist'.done = hist.done /\ (hist.waived => hist'.waived) /\ (hist'.checked <=> hist.checked)
       /\ last'.status = "success" => hist'.decided
  BY <1>4, DecidedRest, ResultFields DEF TypeInv
<1>11. report.class = "none" => \A t \in OfRole(plan, "Check") : t.at \notin Seens'
  BY <1>3, <1>9 DEF WorkDone, OfRole
<1>12. InWork' => Covers(plan)'
  BY <1>1, <1>9, <1>10, MissingKept
<1>13. WaveInv'
  BY <1>1, <1>6, <1>7, <1>8, <1>9, <1>10, <1>11, <1>12 DEF WaveInv, Front
<1>14. QED BY <1>6, <1>13 DEF Places, CycleInv, ClosingInv, RouteInv, AcceptInv, Closing, Waves

\* Every answer of a wave.
LEMMA EarnSeen ==
  ASSUME TypeInv, Ran, Shaped, Places,
         StopSeen \/ FailureSeen \/ PlanSeen \/ WorkSeen \/ CheckSeen \/ ActSeen
  PROVE  Places'
<1>1. CASE StopSeen
  <2>1. pc' = "route" /\ last'.status = "stop"
    BY <1>1, ResultFields DEF StopSeen, Return
  <2>2. QED BY <2>1 DEF Places, CycleInv, WaveInv, ClosingInv, RouteInv, AcceptInv, Closing, Waves,
               GoesBack, Complete
<1>2. QED BY <1>1, EarnFailure, EarnAnswer, EarnAct

\* Steps that end the task with an error, or return a result that is no success.
LEMMA EarnEnds ==
  ASSUME Places, pc \in Closing, UNCHANGED <<task, cycle>>,
         hist'.done = hist.done, hist.waived => hist'.waived,
         pc' = "error" \/ (pc' = "route" /\ last'.status # "success")
  PROVE  Places'
<1>1. Complete
  BY CoveredDone DEF Places, ClosingInv
<1>2. Complete'
  BY <1>1, MissingKept
<1>3. RouteInv'
  BY <1>2 DEF RouteInv
<1>4. QED BY <1>3 DEF Places, CycleInv, WaveInv, ClosingInv, AcceptInv, Closing, Waves

\* Steps from one point of the end of execute_plan to another.
LEMMA EarnStays ==
  ASSUME Places, pc \in Closing, pc' \in Closing, UNCHANGED <<task, cycle, plan>>,
         hist'.done = hist.done, hist.waived => hist'.waived, Judged'
  PROVE  Places'
<1>1. (InWork => Covers(plan)) /\ Dos(plan) \subseteq hist.done
  BY DEF Places, ClosingInv
<1>2. ClosingInv'
  BY <1>1, MissingKept DEF ClosingInv
<1>3. QED BY <1>2 DEF Places, CycleInv, WaveInv, RouteInv, AcceptInv, Closing, Waves

\* An audit judges the work anew.
LEMMA EarnAudit ==
  ASSUME TypeInv, Places, pc \in Closing, pc' \in {"repair", "mark"}, UNCHANGED <<task, cycle, plan>>,
         redo', NEW class \in Audits, NEW f \in Findings, Judge(class, f)
  PROVE  Places'
<1>1. /\ report' = Reported(class, f) /\ report'.class = class
      /\ hist' = Audited(hist, Reported(class, f))
  BY TrackedType DEF TypeInv, Judge
<1>2. class # "none" BY DEF Audits
<1>3. report' # NoReport
  BY <1>1, <1>2 DEF NoReport
<1>4. Rejects(Reported(class, f)) <=> class # "pass"
  BY <1>1, <1>2 DEF Rejects
<1>5. hist'.done = hist.done /\ (hist'.waived <=> hist.waived) /\ (hist'.checked <=> class = "pass")
  BY <1>1, <1>4, HistRest DEF TypeInv
<1>6. Judged'
  BY <1>1, <1>2, <1>3, <1>5 DEF Judged
<1>7. pc' \in Closing
  BY DEF Closing
<1>8. QED BY <1>5, <1>6, <1>7, EarnStays

\* The reconciliation of the delivery has the last write verified.
LEMMA EarnDelivery ==
  ASSUME TypeInv, Places, Deliver \/ Verify
  PROVE  Places'
<1>1. UNCHANGED <<task, cycle, plan, target>> /\ pc \in {"deliver", "verify"} /\ pc \in Closing /\ Judged
  BY DEF Deliver, Verify, Rigid, KeepTarget, Places, ClosingInv, Closing
<1>2. hist \in Hist
  BY DEF TypeInv
<1>3. CASE Deliver
  <2>1. /\ Due(hist) \in Hist /\ Implement(Due(hist)) \in Hist
        /\ Implement(Due(hist)).done = hist.done /\ (Implement(Due(hist)).waived <=> hist.waived)
    <3>1. Due(hist) \in Hist /\ Due(hist).done = hist.done /\ (Due(hist).waived <=> hist.waived)
      BY <1>2, HistOps, HistRest, Zenon DEF TypeInv
    <3>2. Implement(Due(hist)) \in Hist
      BY <3>1, HistOps, Zenon DEF TypeInv
    <3>3. QED BY <3>1, <3>2, HistRest
  <2>2. ASSUME hist' \in {hist, Due(Implement(Due(hist))), Halt(Implement(Due(hist))), Implement(Due(hist))}
        PROVE  hist'.done = hist.done /\ (hist'.waived <=> hist.waived)
    BY <1>2, <2>1, <2>2, HistRest
  <2>3. CASE pc' = "error" /\ hist' \in {hist, Due(Implement(Due(hist)))}
    BY <1>1, <2>2, <2>3, EarnEnds
  <2>4. CASE Return(Plain("stop")) /\ hist' = Halt(Implement(Due(hist)))
    BY <1>1, <2>2, <2>4, EarnEnds, ResultFields DEF Return
  <2>5. CASE Return(Plain("failed")) /\ hist' = Due(Implement(Due(hist)))
    BY <1>1, <2>2, <2>5, EarnEnds, ResultFields DEF Return
  <2>6. CASE (target => facts.wrote) /\ pc' = "verify" /\ UNCHANGED <<facts, redo, last, hist>>
    <3>1. UNCHANGED report /\ pc = "deliver"
      BY <1>3 DEF Deliver
    <3>2. Judged'
      BY <1>1, <2>6, <3>1 DEF Judged, Unverified, HasRole
    <3>3. pc' \in Closing
      BY <2>6 DEF Closing
    <3>4. QED BY <1>1, <2>6, <3>2, <3>3, EarnStays
  <2>7. CASE /\ target /\ hist' = Implement(Due(hist)) /\ facts' = Written(facts, "write") /\ redo' = TRUE
             /\ pc' = "verify" /\ UNCHANGED last
    <3>1. UNCHANGED report /\ pc = "deliver"
      BY <1>3 DEF Deliver
    <3>2. ~facts'.read /\ target'
      BY <1>1, <2>7 DEF Written
    <3>3. Unverified'
      BY <2>7, <3>2 DEF Unverified, Delivered
    <3>4. Judged'
      BY <1>1, <2>7, <3>1, <3>3 DEF Judged, HasRole
    <3>5. pc' \in Closing
      BY <2>7 DEF Closing
    <3>6. QED BY <1>1, <2>2, <2>7, <3>4, <3>5, EarnStays
  <2>8. QED BY <1>3, <2>3, <2>4, <2>5, <2>6, <2>7 DEF Deliver, MissingRole, LostAgent, StoppedAgent, End
<1>4. CASE Verify
  <2>1. CASE Delivered /\ pc' = AfterDelivery /\ UNCHANGED <<facts, redo, last, hist, report, spent>>
    <3>1. pc' \in {"repair", "mark"} /\ pc' \in Closing
      BY <2>1 DEF AfterDelivery, Closing
    <3>2. ~Unverified
      BY <2>1 DEF Unverified
    <3>3. Judged'
      BY <1>1, <2>1, <3>1, <3>2 DEF Judged, HasRole
    <3>4. QED BY <1>1, <2>1, <3>1, <3>3, EarnStays
  <2>2. CASE pc' = "error" /\ hist' \in {hist, Due(hist)}
    BY <1>1, <1>2, <2>2, HistRest, EarnEnds
  <2>3. CASE Return(Plain("stop")) /\ hist' = Halt(hist)
    BY <1>1, <1>2, <2>3, HistRest, EarnEnds, ResultFields DEF Return
  <2>4. CASE /\ \E reads \in BOOLEAN, class \in Audits, f \in Findings :
                 /\ facts' = ReadBy(facts, reads)
                 /\ Audit(IF reads THEN class ELSE "gap", f)
             /\ redo' = TRUE /\ pc' = AfterDelivery
    <3>1. PICK class \in Audits, f \in Findings : Judge(class, f)
      BY <2>4 DEF Audits, Audit
    <3>2. pc' \in {"repair", "mark"} /\ redo'
      BY <2>4 DEF AfterDelivery
    <3>3. QED BY <1>1, <3>1, <3>2, EarnAudit
  <2>5. QED BY <1>4, <2>1, <2>2, <2>3, <2>4 DEF Verify, MissingRole, LostAgent, StoppedAgent, End
<1>5. QED BY <1>3, <1>4

\* Another audit makes the decision out of date.
LEMMA EarnReaudit ==
  ASSUME TypeInv, Places, pc \in Closing, UNCHANGED <<task, cycle, plan>>,
         NEW rewrite, NEW count, Reaudit(rewrite, count), redo'
  PROVE  Places'
<1>1. CASE Return(Plain("stop")) /\ hist' = Halt(hist)
  <2>1. hist'.done = hist.done /\ (hist'.waived <=> hist.waived)
    BY <1>1, HistRest DEF TypeInv
  <2>2. QED BY <1>1, <2>1, EarnEnds, ResultFields DEF Return
<1>2. CASE pc' = "repair" /\ \E class \in Audits, f \in Findings : Judge(class, f)
  BY <1>2, EarnAudit
<1>3. QED BY <1>1, <1>2, ReauditMoves

\* The typed recovery loop.
LEMMA EarnRepair ==
  ASSUME TypeInv, Places, Recheck \/ RefuseRepair \/ Repair \/ ReauditRepair \/ EndRepair
  PROVE  Places'
<1>1. UNCHANGED <<task, cycle, plan>> /\ pc \in {"repair", "reaudit"} /\ pc \in Closing /\ Judged
  BY DEF Recheck, RefuseRepair, Repair, ReauditRepair, EndRepair, Rigid, Places, ClosingInv, Closing
<1>2. hist \in Hist /\ ~Unverified
  BY <1>1 DEF TypeInv, Unverified
<1>3. HasRole("Check")' <=> HasRole("Check")
  BY <1>1 DEF HasRole
<1>4. ASSUME UNCHANGED report, Rejects(report), pc' \in {"repair", "reaudit", "deliver"},
             pc' = "reaudit" => redo', hist'.done = hist.done, hist'.waived <=> hist.waived
      PROVE  Places'
  <2>1. report.class \notin {"none", "pass"} /\ report # NoReport
    BY <1>4 DEF Rejects, NoReport
  <2>2. Judged'
    BY <1>4, <2>1 DEF Judged, Rejects
  <2>3. pc' \in Closing
    BY <1>4 DEF Closing
  <2>4. QED BY <1>1, <1>4, <2>2, <2>3, EarnStays
<1>5. Due(hist).done = hist.done /\ (Due(hist).waived <=> hist.waived)
  BY <1>2, HistRest
<1>6. CASE Recheck
  <2>1. Rejects(report) /\ redo'
    BY <1>6, DirectiveIs DEF Recheck
  <2>2. (\E rewrite, count : Reaudit(rewrite, count))
        \/ UNCHANGED <<pc, report, facts, last, hist>>
    BY <1>6 DEF Recheck
  <2>3. CASE \E rewrite, count : Reaudit(rewrite, count)
    BY <1>1, <2>1, <2>3, EarnReaudit
  <2>4. CASE UNCHANGED <<pc, report, facts, last, hist>>
    BY <1>1, <1>4, <2>1, <2>4
  <2>5. QED BY <2>2, <2>3, <2>4
<1>7. CASE RefuseRepair
  <2>1. /\ report' = [report EXCEPT !.class = "gap"] /\ hist' = hist
        /\ pc' = "repair" /\ report.class = "unclear" /\ pc = "repair"
    BY <1>7 DEF RefuseRepair
  <2>2. report \in Report
    BY <2>1 DEF TypeInv, NoReport
  <2>3. report'.class = "gap"
    BY <2>1, <2>2 DEF Report
  <2>4. report' # NoReport /\ Rejects(report')
    BY <2>3 DEF NoReport, Rejects
  <2>5. hist'.done = hist.done /\ (hist'.waived <=> hist.waived)
    BY <2>1
  <2>6. Judged'
    BY <2>1, <2>3, <2>4 DEF Judged, Rejects
  <2>7. pc' \in Closing
    BY <2>1 DEF Closing
  <2>8. QED BY <1>1, <2>5, <2>6, <2>7, EarnStays
<1>8. CASE Repair
  <2>1. Rejects(report) /\ UNCHANGED report /\ redo'
    BY <1>8, DirectiveIs DEF Repair
  <2>2. Implement(hist) \in Hist /\ Implement(hist).done = hist.done
        /\ (Implement(hist).waived <=> hist.waived)
    BY <1>2, HistOps, HistRest, Zenon DEF TypeInv
  <2>3. \/ pc' = "error" /\ hist' = hist
        \/ pc' = "deliver" /\ hist' = Due(Implement(hist))
        \/ Return(Plain("stop")) /\ hist' = Halt(Implement(hist))
        \/ pc' = "reaudit" /\ hist' = Implement(hist)
    BY <1>8 DEF Repair, End, LeaveRepair
  <2>4. hist'.done = hist.done /\ (hist'.waived <=> hist.waived)
    BY <2>2, <2>3, HistRest
  <2>5. CASE pc' = "error" \/ Return(Plain("stop"))
    BY <1>1, <2>4, <2>5, EarnEnds, ResultFields DEF Return
  <2>6. CASE pc' \in {"deliver", "reaudit"}
    BY <1>4, <2>1, <2>4, <2>6
  <2>7. QED BY <2>3, <2>5, <2>6
<1>9. CASE ReauditRepair
  <2>1. CASE hist' = Due(hist) /\ pc' = "deliver" /\ UNCHANGED report
    <3>1. Rejects(report)
      BY <1>1, <1>9 DEF ReauditRepair, Judged
    <3>2. QED BY <1>4, <1>5, <2>1, <3>1
  <2>2. CASE Reaudit(FALSE, spent)
    <3>1. CASE Return(Plain("stop")) /\ hist' = Halt(hist)
      <4>1. hist'.done = hist.done /\ (hist'.waived <=> hist.waived)
        BY <1>2, <3>1, HistRest
      <4>2. QED BY <1>1, <3>1, <4>1, EarnEnds, ResultFields DEF Return
    <3>2. CASE pc' = "repair" /\ \E class \in Audits, f \in Findings : Judge(class, f)
      <4>1. redo
        BY <1>1, <1>9 DEF ReauditRepair, Judged
      <4>2. QED BY <1>1, <1>9, <3>2, <4>1, EarnAudit DEF ReauditRepair
    <3>3. QED BY <2>2, <3>1, <3>2, ReauditMoves
  <2>3. QED BY <1>9, <2>1, <2>2 DEF ReauditRepair, LeaveRepair
<1>10. CASE EndRepair
  <2>1. pc = "repair" /\ pc' = "deliver" /\ UNCHANGED <<report, redo, last, hist>>
    BY <1>10 DEF EndRepair, LeaveRepair
  <2>2. Judged'
    BY <1>1, <1>2, <2>1 DEF Judged, HasRole
  <2>3. pc' \in Closing
    BY <2>1 DEF Closing
  <2>4. QED BY <1>1, <2>1, <2>2, <2>3, EarnStays
<1>11. QED BY <1>6, <1>7, <1>8, <1>9, <1>10

\* The end of a plan: a success has passed its audit, its decision and its gate.
LEMMA EarnEnd ==
  ASSUME TypeInv, Places, Mark \/ Decide \/ Gate
  PROVE  Places'
<1>1. UNCHANGED <<task, cycle, plan, report, redo>> /\ pc \in {"mark", "decide", "gate"}
      /\ pc \in Closing /\ Judged
  BY DEF Mark, Decide, Gate, Rigid, Places, ClosingInv, Closing
<1>2. hist \in Hist /\ ~Unverified
  BY <1>1 DEF TypeInv, Unverified
<1>3. CASE Mark
  <2>1. pc = "mark" /\ pc' = "decide" /\ hist' \in {hist, Due(hist)}
    BY <1>3 DEF Mark
  <2>7. /\ hist'.done = hist.done /\ (hist'.waived <=> hist.waived)
        /\ (hist'.checked <=> hist.checked) /\ (hist'.decided <=> hist.decided)
    BY <1>2, <2>1, HistRest
  <2>2. Rejects(report) => last'.status = "failed"
    BY <1>3, ResultFields DEF Mark
  <2>3. ~Rejects(report) => UNCHANGED last
    BY <1>3 DEF Mark
  <2>4. Judged'
    BY <1>1, <1>2, <2>1, <2>2, <2>3, <2>7 DEF Judged, HasRole, Rejects
  <2>5. pc' \in Closing
    BY <2>1 DEF Closing
  <2>6. QED BY <1>1, <2>4, <2>5, <2>7, EarnStays
<1>4. CASE Decide
  <2>1. pc = "decide" BY <1>4 DEF Decide
  <2>2. CASE /\ ~(redo /\ report # NoReport /\ ~Rejects(report) /\ HasRole("Act"))
             /\ pc' = "gate" /\ UNCHANGED <<last, hist>>
    <3>1. Judged'
      BY <1>1, <1>2, <2>1, <2>2 DEF Judged, HasRole, Rejects
    <3>2. pc' \in Closing
      BY <2>2 DEF Closing
    <3>3. QED BY <1>1, <2>2, <3>1, <3>2, EarnStays
  <2>3. CASE /\ pc' = "error" \/ Return(Plain("stop")) \/ \E t : Return(FailedStep(t))
             /\ hist' \in {Due(hist), Halt(hist)}
    <3>1. hist'.done = hist.done /\ (hist'.waived <=> hist.waived)
      BY <1>2, <2>3, HistRest
    <3>2. QED BY <1>1, <2>3, <3>1, EarnEnds, ResultFields DEF Return
  <2>4. CASE /\ ~Rejects(report) /\ report # NoReport /\ \E status \in {"success", "partial"}, confirmed \in BOOLEAN :
                /\ last' = Decision(status, confirmed) /\ hist' = Decided(status, confirmed)
                /\ pc' = "gate"
    <3>1. PICK status \in {"success", "partial"}, confirmed \in BOOLEAN :
                /\ last' = Decision(status, confirmed) /\ hist' = Decided(status, confirmed)
                /\ pc' = "gate"
      BY <2>4
    <3>2. /\ last'.status = status /\ (hist'.decided <=> status = "success")
          /\ hist'.done = hist.done /\ (hist.waived => hist'.waived) /\ (hist'.checked <=> hist.checked)
      BY <1>2, <3>1, DecidedRest, ResultFields
    <3>3. Judged'
      BY <1>1, <1>2, <2>4, <3>1, <3>2 DEF Judged, HasRole, Rejects
    <3>4. pc' \in Closing
      BY <3>1 DEF Closing
    <3>5. QED BY <1>1, <3>2, <3>3, <3>4, EarnStays
  <2>5. QED BY <1>4, <2>2, <2>3, <2>4 DEF Decide, End
<1>5. CASE Gate
  <2>1. pc = "gate" /\ pc' = "route" BY <1>5 DEF Gate, Return
  <2>2. CASE hist' = Due(hist) /\ last'.status # "success"
    <3>1. hist'.done = hist.done /\ (hist'.waived <=> hist.waived)
      BY <1>2, <2>2, HistRest
    <3>2. QED BY <1>1, <2>1, <2>2, <3>1, EarnEnds
  <2>3. CASE hist' = hist /\ last'.status # "success"
    BY <1>1, <2>1, <2>3, EarnEnds
  <2>4. CASE ~(target' /\ ~(facts'.wrote /\ facts'.read)) /\ UNCHANGED <<last, hist>>
    <3>1. Complete
      BY <1>1, CoveredDone DEF Places, ClosingInv
    <3>2. Complete'
      BY <1>1, <2>4, <3>1, MissingKept
    <3>3. ASSUME last.status = "success" PROVE Earned'
      <4>1. ~Rejects(report)
        BY <1>1, <2>1, <3>3 DEF Judged
      <4>2. report.class = "pass" => hist.checked
        BY <1>1, <1>2 DEF Judged
      <4>3. HasRole("Check") => hist.checked
        BY <1>1, <4>1, <4>2 DEF Judged, Rejects
      <4>4. HasRole("Act") => hist.decided
        BY <1>1, <2>1, <3>3 DEF Judged
      <4>5. Delivered'
        BY <2>4 DEF Delivered
      <4>6. QED BY <1>1, <2>4, <4>3, <4>4, <4>5 DEF Earned, HasRole
    <3>4. RouteInv'
      BY <2>4, <3>2, <3>3 DEF RouteInv
    <3>5. QED BY <2>1, <3>4 DEF Places, CycleInv, WaveInv, ClosingInv, AcceptInv, Closing, Waves
  <2>5. last \in Results
    BY DEF TypeInv
  <2>6. PICK new \in BOOLEAN :
          IF target' /\ ~(facts'.wrote /\ facts'.read)
          THEN /\ Return([last EXCEPT !.status = "failed", !.scope = FALSE, !.confirmed = FALSE])
               /\ hist' = Due(hist)
          ELSE \/ pc' = "route" /\ UNCHANGED <<last, hist>>
               \/ HasRole("Check") /\ Return(FailedStep(Last(OfRole(plan, "Check")))) /\ UNCHANGED hist
    BY <1>5 DEF Gate
  <2>7. CASE target' /\ ~(facts'.wrote /\ facts'.read)
    <3>1. last' = [last EXCEPT !.status = "failed", !.scope = FALSE, !.confirmed = FALSE] /\ hist' = Due(hist)
      BY <2>6, <2>7 DEF Return
    <3>2. last'.status = "failed"
      BY <2>5, <3>1 DEF Results
    <3>3. QED BY <2>2, <3>1, <3>2
  <2>8. CASE ~(target' /\ ~(facts'.wrote /\ facts'.read))
    <3>1. CASE Return(FailedStep(Last(OfRole(plan, "Check")))) /\ UNCHANGED hist
      BY <2>3, <3>1, ResultFields DEF Return
    <3>2. CASE UNCHANGED <<last, hist>>
      BY <2>4, <2>8, <3>2
    <3>3. QED BY <2>6, <2>8, <3>1, <3>2
  <2>9. QED BY <2>7, <2>8
<1>6. QED BY <1>3, <1>4, <1>5

\* A retry of the implementation starts at the Do step that failed.
LEMMA RetryFromFailed ==
  ASSUME NEW p, Sound(p), NEW t \in OfRole(p, "Do")
  PROVE  /\ RetryPlan(p, "RetryDa", t.at) = Scoped(p, t.at)
         /\ Indices(Scoped(p, t.at)) = Descendants(p, t.at)
<1> DEFINE nearest == {u \in OfRole(p, "Do") : {v \in p : v.at = t.at} # {} /\ u.at <= t.at}
<1>1. t \in p /\ t.at \in Nat
  BY DEF OfRole, Sound, Step
<1>2. t \in nearest
  BY <1>1
<1>3. \A u \in nearest : u \in p /\ u.at \in Nat /\ u.at <= t.at
  BY DEF OfRole, Sound, Step
<1>4. DoStart(p, t.at) = {Last(nearest)}
  <2>1. nearest # {} BY <1>2
  <2>2. QED BY <2>1 DEF DoStart
<1> HIDE DEF nearest
<1>5. \E m \in nearest : \A u \in nearest : u.at <= m.at
  BY <1>2, <1>3
<1>6. Last(nearest) \in nearest /\ \A u \in nearest : u.at <= Last(nearest).at
  BY <1>5 DEF Last
<1>7. Last(nearest).at = t.at
  BY <1>1, <1>2, <1>3, <1>6
<1>8. First({Last(nearest)}) = Last(nearest)
  BY <1>3, <1>6 DEF First
<1>10. RetryPlan(p, "RetryDa", t.at) = Scoped(p, t.at)
  BY <1>4, <1>7, <1>8 DEF RetryPlan
<1>11. QED BY <1>10, CutMembers

\* The route accepts what was earned, and a retry has the missing Do steps.
LEMMA EarnRoute ==
  ASSUME TypeInv, Places, ConfirmInv, Route
  PROVE  Places'
<1>1. /\ pc = "route" /\ UNCHANGED <<task, plan, past, wave, report, facts, target, redo, last>>
      /\ hist' \in {hist, Due(hist), Reopened(hist)} /\ pc' \in {"stopped", "accepted", "cycle"}
  BY RouteMoves DEF KeepTarget, NextCycle
<1>2. /\ hist'.done = hist.done
      /\ (hist'.checked <=> hist.checked) /\ (hist'.decided <=> hist.decided)
  BY <1>1, HistRest DEF TypeInv
<1>3. RouteInv
  BY DEF Places
<1>4. Missing' = Missing
  BY <1>1, <1>2 DEF Missing, Base
<1>5. ~InWork /\ ~NeedsExecution => hist.waived
  BY DEF ConfirmInv, InWork, NeedsExecution
<1>6. CASE pc' = "stopped"
  BY <1>6 DEF Places, CycleInv, WaveInv, ClosingInv, RouteInv, AcceptInv, Closing, Waves
<1>7. CASE pc' = "accepted"
  <2>1. last.status = "success" /\ ~NeedsExecution
    BY <1>7, RouteMoves
  <2>2. Earned /\ Complete
    BY <1>1, <1>3, <2>1 DEF RouteInv, GoesBack
  <2>3. Earned'
    BY <1>1, <1>2, <2>2 DEF Earned, HasRole, Delivered
  <2>7. hist' = hist
    BY <1>7, <2>1, RouteMoves
  <2>4. hist'.waived \/ Missing' = {}
    BY <1>4, <1>5, <2>1, <2>2, <2>7 DEF Complete
  <2>5. AcceptInv'
    BY <2>3, <2>4 DEF AcceptInv
  <2>6. QED BY <1>7, <2>5 DEF Places, CycleInv, WaveInv, ClosingInv, RouteInv, Closing, Waves
<1>8. CASE pc' = "cycle"
  <2>1. SUFFICES ASSUME scoped' # {} PROVE InWork' /\ Covers(scoped)'
    BY <1>8 DEF Places, CycleInv, WaveInv, ClosingInv, RouteInv, AcceptInv, Closing, Waves
  <2>2. PICK d : /\ d \in {"RetryDa", "RetryCa"} /\ (d = "RetryCa" => last.marker = "RetryCa")
                 /\ ~task.dag /\ ~NeedsExecution /\ last.status # "success"
                 /\ last.marker \in {"RetryCa", "RetryDa"} \/ ~last.scope
                 /\ NextCycle(RetryPlan(plan, d, last.failed))
    BY <1>8, <2>1, RouteMoves DEF NextCycle
  <2>3. scoped' = RetryPlan(plan, d, last.failed) /\ cycle' = cycle + 1
    BY <2>2 DEF NextCycle
  <2>4. InWork'
    BY <1>1, <2>3 DEF InWork, TypeInv
  <2>5. last.status # "stop" /\ hist' = hist
    BY <1>8, <2>2, RouteMoves
  <2>6. CASE Complete
    BY <1>4, <1>5, <2>2, <2>4, <2>5, <2>6 DEF Complete, Covers
  <2>7. CASE ~Complete /\ InWork /\ GoesBack
    <3>1. /\ last.marker = "RetryDa"
          /\ hist.waived \/ Missing \subseteq Dos(plan) \cap Descendants(plan, last.failed)
      BY <2>2, <2>5, <2>7 DEF GoesBack
    <3>2. PICK t \in OfRole(plan, "Do") : t.at = last.failed
      BY <2>2, <2>5, <2>7 DEF GoesBack
    <3>3. d = "RetryDa"
      BY <2>2, <3>1
    <3>4. /\ scoped' = Scoped(plan, t.at) /\ Indices(Scoped(plan, t.at)) = Descendants(plan, t.at)
      BY <2>3, <3>2, <3>3, RetryFromFailed DEF TypeInv
    <3>5. \A u \in Scoped(plan, t.at) : \E v \in plan : u.at = v.at /\ u.role = v.role
      BY CutMembers DEF TypeInv
    <3>6. ASSUME NEW i \in Dos(plan) \cap Descendants(plan, t.at) PROVE i \in Dos(scoped')
      <4>1. PICK v \in plan : v.at = i /\ v.role = "Do"
        BY DEF Dos, OfRole, Indices
      <4>2. PICK u \in scoped' : u.at = i
        BY <3>4 DEF Indices
      <4>3. PICK w \in plan : u.at = w.at /\ u.role = w.role
        BY <3>4, <3>5
      <4>4. w = v
        BY <4>1, <4>2, <4>3 DEF TypeInv, Sound
      <4>5. QED BY <4>1, <4>2, <4>3, <4>4 DEF Dos, OfRole, Indices
    <3>7. Covers(scoped)'
      BY <1>4, <2>5, <3>1, <3>2, <3>6 DEF Covers
    <3>8. QED BY <2>4, <3>7
  <2>8. QED BY <1>1, <1>3, <2>4, <2>6, <2>7 DEF RouteInv
<1>9. QED BY <1>1, <1>6, <1>7, <1>8

\* The results that do not confirm.
LEMMA Unconfirmed ==
  /\ \A s : ~Plain(s).confirmed
  /\ \A s, m, i : ~Result(s, m, i).confirmed
  /\ \A t : ~FailedStep(t).confirmed
  /\ \A s, b : Decision(s, b).confirmed = b
  BY DEF Plain, Result, FailedStep, Decision

\* A step whose result does not confirm anything new.
LEMMA ConfirmKept ==
  ASSUME ConfirmInv, UNCHANGED <<task, cycle>>, hist.waived => hist'.waived,
         UNCHANGED last \/ ~last'.confirmed
  PROVE  ConfirmInv'
  BY DEF ConfirmInv

\* Every step but those of the act agents and of the route.
LEMMA ConfirmWork ==
  ASSUME TypeInv, [Next]_vars, ~ActSeen, ~Decide, ~Route
  PROVE  /\ UNCHANGED <<task, cycle>>
         /\ hist.waived => hist'.waived
         /\ UNCHANGED last \/ ~last'.confirmed
<1>1. hist \in Hist /\ last \in Results
  BY DEF TypeInv
<1>2. CASE UNCHANGED <<task, cycle, hist, last>>
  BY <1>2
<1>3. ASSUME NEW class \in Audits, NEW f \in Findings, Judge(class, f)
      PROVE  (hist'.waived <=> hist.waived) /\ ~last'.confirmed
  BY <1>1, <1>3, HistRest, Unconfirmed DEF Judge
<1>4. CASE DispatchWave
  <2>1. UNCHANGED <<task, cycle>> /\ (UNCHANGED last \/ last' = Plain("failed"))
    BY <1>4 DEF DispatchWave, Return
  <2>2. hist'.waived <=> hist.waived
    BY <1>4, DispatchMoves
  <2>3. QED BY <2>1, <2>2, Unconfirmed
<1>5. CASE StopSeen
  BY <1>5, Unconfirmed DEF StopSeen, Return
<1>6. CASE FailureSeen
  BY <1>1, <1>6, HistRest, Unconfirmed DEF FailureSeen, Return
<1>7. CASE PlanSeen
  BY <1>7, Unconfirmed DEF PlanSeen
<1>8. CASE WorkSeen
  BY <1>1, <1>8, Unconfirmed DEF WorkSeen, Hist
<1>9. CASE CheckSeen
  BY <1>1, <1>9, HistRest, Unconfirmed DEF CheckSeen, Audit, Judge
<1>10. CASE Deliver
  <2>1. UNCHANGED <<task, cycle>>
    BY <1>10 DEF Deliver, Rigid
  <2>2. /\ Due(hist) \in Hist /\ (Due(hist).waived <=> hist.waived)
        /\ Implement(Due(hist)) \in Hist /\ (Implement(Due(hist)).waived <=> hist.waived)
    <3>1. Due(hist) \in Hist /\ (Due(hist).waived <=> hist.waived)
      BY <1>1, HistOps, HistRest, Zenon DEF TypeInv
    <3>2. QED BY <3>1, HistOps, HistRest, Zenon DEF TypeInv
  <2>3. \/ UNCHANGED <<last, hist>>
        \/ UNCHANGED last /\ hist' \in {Due(Implement(Due(hist))), Implement(Due(hist))}
        \/ last' = Plain("stop") /\ hist' = Halt(Implement(Due(hist)))
        \/ last' = Plain("failed") /\ hist' = Due(Implement(Due(hist)))
    BY <1>10 DEF Deliver, MissingRole, LostAgent, StoppedAgent, Return
  <2>4. QED BY <2>1, <2>2, <2>3, HistRest, Unconfirmed
<1>11. CASE Verify
  <2>1. UNCHANGED <<task, cycle>>
    BY <1>11 DEF Verify, Rigid
  <2>2. \/ UNCHANGED <<last, hist>>
        \/ UNCHANGED last /\ hist' = Due(hist)
        \/ last' = Plain("stop") /\ hist' = Halt(hist)
        \/ \E class \in Audits, f \in Findings : Judge(class, f)
    BY <1>11 DEF Verify, MissingRole, LostAgent, StoppedAgent, Return, Audits, Audit
  <2>3. QED BY <1>1, <1>3, <2>1, <2>2, HistRest, Unconfirmed
<1>12. ASSUME NEW rewrite, NEW count, Reaudit(rewrite, count)
       PROVE  (hist.waived => hist'.waived) /\ (UNCHANGED last \/ ~last'.confirmed)
  BY <1>1, <1>3, <1>12, ReauditMoves, HistRest, Unconfirmed DEF Return
<1>13. CASE Recheck
  <2>1. UNCHANGED <<task, cycle>>
    BY <1>13 DEF Recheck, Rigid
  <2>2. \/ \E rewrite, count : Reaudit(rewrite, count)
        \/ UNCHANGED <<last, hist>>
    BY <1>13 DEF Recheck
  <2>3. QED BY <1>1, <1>12, <2>1, <2>2, HistRest
<1>14. CASE RefuseRepair
  BY <1>14 DEF RefuseRepair, Rigid
<1>15. CASE Repair
  <2>1. UNCHANGED <<task, cycle>>
    BY <1>15 DEF Repair, Rigid
  <2>2. Implement(hist) \in Hist /\ (Implement(hist).waived <=> hist.waived)
    BY <1>1, HistOps, HistRest, Zenon DEF TypeInv
  <2>3. \/ hist' = hist /\ UNCHANGED last
        \/ hist' = Due(Implement(hist)) /\ UNCHANGED last
        \/ last' = Plain("stop") /\ hist' = Halt(Implement(hist))
        \/ hist' = Implement(hist) /\ UNCHANGED last
    BY <1>15 DEF Repair, Return
  <2>4. QED BY <2>1, <2>2, <2>3, HistRest, Unconfirmed
<1>16. CASE ReauditRepair
  <2>1. UNCHANGED <<task, cycle>>
    BY <1>16 DEF ReauditRepair, Rigid
  <2>2. \/ \E rewrite, count : Reaudit(rewrite, count)
        \/ hist' = Due(hist) /\ UNCHANGED last
    BY <1>16 DEF ReauditRepair
  <2>3. QED BY <1>1, <1>12, <2>1, <2>2, HistRest
<1>17. CASE Mark
  <2>1. hist' \in {hist, Due(hist)}
    BY <1>17 DEF Mark
  <2>2. QED BY <1>1, <1>17, <2>1, HistRest, Unconfirmed DEF Mark, Rigid
<1>18. CASE Gate
  <2>1. [last EXCEPT !.status = "failed", !.scope = FALSE, !.confirmed = FALSE].confirmed = FALSE
    BY <1>1 DEF Results
  <2>2. UNCHANGED <<task, cycle>>
    BY <1>18 DEF Gate, Rigid
  <2>3. hist' \in {hist, Due(hist)}
        /\ \/ UNCHANGED last
           \/ last' = [last EXCEPT !.status = "failed", !.scope = FALSE, !.confirmed = FALSE]
           \/ \E t : last' = FailedStep(t)
    BY <1>18 DEF Gate, Return
  <2>4. hist'.waived <=> hist.waived
    BY <1>1, <2>3, HistRest
  <2>5. UNCHANGED last \/ ~last'.confirmed
    <3>1. CASE UNCHANGED last BY <3>1
    <3>2. CASE last' = [last EXCEPT !.status = "failed", !.scope = FALSE, !.confirmed = FALSE]
      BY <2>1, <3>2
    <3>3. CASE \E t : last' = FailedStep(t)
      BY <3>3, Unconfirmed
    <3>4. QED BY <2>3, <3>1, <3>2, <3>3
  <2>6. QED BY <2>2, <2>4, <2>5
<1>19. CASE BeginCycle
  BY <1>19, Unconfirmed DEF BeginCycle
<1>20. CASE TokensSpent \/ DeferWave \/ WavesDone \/ EndRepair \/ Done \/ UNCHANGED vars
  BY <1>2, <1>20 DEF TokensSpent, DeferWave, WavesDone, EndRepair, Rigid, Done, vars
<1>21. QED
  BY <1>4, <1>5, <1>6, <1>7, <1>8, <1>9, <1>10, <1>11, <1>13, <1>14, <1>15, <1>16, <1>17,
     <1>18, <1>19, <1>20 DEF Next

\* Only a decision confirms anything, and it records what it waives.
LEMMA ConfirmStep ==
  ASSUME TypeInv, ConfirmInv, [Next]_vars
  PROVE  ConfirmInv'
<1>1. hist \in Hist
  BY DEF TypeInv
<1>2. ASSUME NEW status, NEW confirmed \in BOOLEAN, UNCHANGED <<task, cycle>>,
             last' = Decision(status, confirmed), hist' = Decided(status, confirmed)
      PROVE  ConfirmInv'
  BY <1>1, <1>2, DecidedRest, Unconfirmed DEF ConfirmInv
<1>3. CASE ActSeen
  <2>1. UNCHANGED <<task, cycle>>
    BY <1>3 DEF ActSeen
  <2>2. PICK confirmed \in BOOLEAN : last' = Decision(wave[Seen], confirmed)
                                     /\ hist' = Decided(wave[Seen], confirmed)
    BY <1>3 DEF ActSeen
  <2>3. QED BY <1>2, <2>1, <2>2
<1>4. CASE Decide
  <2>1. UNCHANGED <<task, cycle>>
    BY <1>4 DEF Decide, Rigid
  <2>2. \/ UNCHANGED <<last, hist>>
        \/ hist' = Due(hist) /\ UNCHANGED last
        \/ last' = Plain("stop") /\ hist' = Halt(hist)
        \/ hist' = Due(hist) /\ \E t : last' = FailedStep(t)
        \/ \E status \in {"success", "partial"}, confirmed \in BOOLEAN :
             last' = Decision(status, confirmed) /\ hist' = Decided(status, confirmed)
    BY <1>4 DEF Decide, Return
  <2>3. QED BY <1>1, <1>2, <2>1, <2>2, HistRest, Unconfirmed, ConfirmKept
<1>5. CASE Route
  <2>1. /\ UNCHANGED <<task, last>>
        /\ cycle' = cycle + 1 \/ (UNCHANGED cycle /\ pc' \in {"stopped", "accepted"})
    BY <1>5, RouteMoves DEF NextCycle
  <2>3. CASE UNCHANGED cycle /\ pc' \in {"stopped", "accepted"}
    <3>1. hist' \in {hist, Due(hist)}
      BY <1>5, <2>3, RouteMoves
    <3>2. hist'.waived <=> hist.waived
      BY <1>1, <3>1, HistRest
    <3>3. QED BY <2>1, <2>3, <3>2, ConfirmKept
  <2>4. CASE cycle' = cycle + 1
    <3>1. cycle' # 0
      BY <2>4 DEF TypeInv
    <3>2. QED BY <3>1 DEF ConfirmInv
  <2>5. QED BY <2>1, <2>3, <2>4
<1>6. QED BY <1>3, <1>4, <1>5, ConfirmWork, ConfirmKept

\* A step that changes nothing.
LEMMA EarnStutter ==
  ASSUME Places, UNCHANGED vars
  PROVE  Places'
<1>1. UNCHANGED <<task, plan, pc, cycle, scoped, past, wave, report, facts, target, redo, last, hist>>
  BY DEF vars
<1>2. /\ Missing' = Missing /\ (InWork' <=> InWork) /\ (Complete' <=> Complete)
      /\ (Covers(plan)' <=> Covers(plan)) /\ (Covers(scoped)' <=> Covers(scoped))
      /\ (Front' <=> Front) /\ Seens' = Seens
  BY <1>1 DEF Missing, Base, InWork, Complete, Covers, Front, WorkDone, Seens
<1>3. (Judged' <=> Judged) /\ (Earned' <=> Earned) /\ (GoesBack' <=> GoesBack)
  BY <1>1, <1>2 DEF Judged, Unverified, Delivered, HasRole, Earned, GoesBack
<1>4. CycleInv' /\ ClosingInv' /\ RouteInv' /\ AcceptInv'
  BY <1>1, <1>2, <1>3 DEF Places, CycleInv, ClosingInv, RouteInv, AcceptInv
<1>5. WaveInv'
  BY <1>1, <1>2 DEF Places, WaveInv
<1>6. QED BY <1>4, <1>5 DEF Places

\* Every step keeps acceptance earned.
LEMMA EarnStep == PlansOrdered /\ EarnedInv /\ [Next]_vars => EarnedInv'
<1>1. SUFFICES ASSUME PlansOrdered, EarnedInv, [Next]_vars PROVE EarnedInv'
  OBVIOUS
<1>2. TypeInv /\ Ran /\ Shaped /\ Places /\ ConfirmInv
  BY <1>1 DEF EarnedInv, Places
<1>3. TypeInv' /\ Ran' /\ Shaped' /\ ConfirmInv'
  BY <1>1, <1>2, TypeStep, RanStep, EarnShapeStep, ConfirmStep
<1>4. Places'
  BY <1>1, <1>2, EarnStutter, EarnCycle, EarnDispatch, EarnSeen, EarnDelivery, EarnRepair,
     EarnEnd, EarnRoute DEF Next, Done
<1>5. QED BY <1>3, <1>4 DEF EarnedInv, Places

\* An accepted task was earned: its latest audit passed after the last
\* implementation, the decision is on that audit, the delivery target has its
\* receipts, and every Do step of its plan has answered, for any plans whose
\* check agents come after the Do agents and whose act agents come last, the
\* generated ones one agent at a time (the gates at the end of execute_plan and
\* the plans a retry cuts, src/src/core/sa/execution.rs, src/src/core/recovery.rs).
THEOREM AcceptanceIsEarned == ASSUME PlansOrdered PROVE Spec => []AcceptanceEarned
<1>1. Init => EarnedInv
  <2>1. SUFFICES ASSUME Init PROVE EarnedInv
    OBVIOUS
  <2>2. plan = {} /\ scoped = {} /\ past = {} /\ wave = <<>> /\ pc = "cycle" /\ last = Plain("none")
    BY <2>1 DEF Init
  <2>3. Ran
    <3>1. DOMAIN <<>> = {} OBVIOUS
    <3>2. QED BY <2>2, <3>1 DEF Ran, Closed
  <2>4. Ordered({}) /\ OneAtATime({})
    BY DEF Ordered, OneAtATime, Ready, OfRole
  <2>5. Shaped
    BY <2>2, <2>4 DEF Shaped
  <2>6. CycleInv /\ WaveInv /\ ClosingInv /\ RouteInv /\ AcceptInv
    BY <2>2 DEF CycleInv, WaveInv, ClosingInv, RouteInv, AcceptInv, Waves, Closing
  <2>7. ConfirmInv
    BY <2>2, Unconfirmed DEF ConfirmInv
  <2>8. QED BY <2>1, <2>3, <2>5, <2>6, <2>7, InitType DEF EarnedInv
<1>2. PlansOrdered /\ EarnedInv /\ [Next]_vars => EarnedInv'
  BY EarnStep
<1>3. EarnedInv => AcceptanceEarned
  <2>1. SUFFICES ASSUME EarnedInv, pc = "accepted" PROVE AcceptedIsVerified /\ AcceptedIsComplete
    BY DEF AcceptanceEarned, AcceptedIsVerified, AcceptedIsComplete
  <2>2. Earned /\ (hist.waived \/ Missing = {})
    BY <2>1 DEF EarnedInv, AcceptInv
  <2>3. AcceptedIsVerified
    BY <2>2 DEF Earned, AcceptedIsVerified
  <2>4. AcceptedIsComplete
    BY <2>2 DEF Missing, Dos, Base, AcceptedIsComplete
  <2>5. QED BY <2>3, <2>4
<1>4. QED BY <1>1, <1>2, <1>3, PTL DEF Spec

=============================================================================
