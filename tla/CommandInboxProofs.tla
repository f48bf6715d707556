------------------------- MODULE CommandInboxProofs -------------------------
(***************************************************************************)
(* Guarantees of the command inbox, for any number of tasks, users and     *)
(* commands, any capacity, and any sequence of closings, reopenings and    *)
(* evicted tombstones: an accepted command is in exactly one place, never  *)
(* lost and never carried out twice; none waits behind a tombstone;        *)
(* success is not reported over a command whose user saw it accepted, and  *)
(* a delivery target is never overridden by one it supersedes.             *)
(***************************************************************************)
EXTENDS CommandInbox, FiniteSetTheorems, FunctionTheorems, TLAPS

(***************************************************************************)
(* The enumeration of a finite set of numbers and selection by place.      *)
(***************************************************************************)
\* The rank of a number in a finite set counts the set.
LEMMA Ranks ==
  ASSUME NEW S \in SUBSET Nat, IsFiniteSet(S),
         NEW r, r = [c \in S |-> Cardinality({d \in S : d <= c})]
  PROVE  r \in Bijection(S, 1 .. Cardinality(S))
<1>1. PICK n \in Nat : n = Cardinality(S)
  BY FS_CardinalityType
<1>2. ASSUME NEW c \in S
      PROVE  /\ IsFiniteSet({d \in S : d <= c})
             /\ Cardinality({d \in S : d <= c}) \in 1 .. n
  <2>1. {d \in S : d <= c} \in SUBSET S /\ c \in {d \in S : d <= c}
    OBVIOUS
  <2>2. IsFiniteSet({d \in S : d <= c}) /\ Cardinality({d \in S : d <= c}) <= n
    BY <1>1, <2>1, FS_Subset
  <2>3. Cardinality({d \in S : d <= c}) # 0
    BY <2>1, <2>2, FS_EmptySet
  <2>4. QED BY <2>2, <2>3, FS_CardinalityType
<1>3. ASSUME NEW c \in S, NEW e \in S, c < e PROVE r[c] < r[e]
  <2>1. /\ {d \in S : d <= c} \in SUBSET {d \in S : d <= e}
        /\ e \in {d \in S : d <= e} /\ e \notin {d \in S : d <= c}
    <3>1. c \in Nat /\ e \in Nat /\ \A d \in S : d \in Nat
      OBVIOUS
    <3>2. \A d \in S : d <= c => d <= e
      BY <1>3, <3>1
    <3>3. ~(e <= c)
      BY <1>3, <3>1
    <3>4. e <= e
      BY <3>1
    <3>5. QED BY <3>2, <3>3, <3>4, Zenon
  <2>2. Cardinality({d \in S : d <= c}) <= Cardinality({d \in S : d <= e})
    BY <1>2, <2>1, FS_Subset
  <2>3. Cardinality({d \in S : d <= c}) # Cardinality({d \in S : d <= e})
    BY <1>2, <2>1, FS_Subset
  <2>4. QED BY <1>2, <2>2, <2>3
<1>4. r \in [S -> 1 .. n]
  BY <1>2
<1>5. \A c, e \in S : r[c] = r[e] => c = e
  <2>1. SUFFICES ASSUME NEW c \in S, NEW e \in S, r[c] = r[e], c # e PROVE FALSE
    OBVIOUS
  <2>2. c < e \/ e < c
    BY <2>1
  <2>3. r[c] \in Nat /\ r[e] \in Nat
    BY <1>4
  <2>4. QED BY <1>3, <2>1, <2>2, <2>3
<1>6. r \in Injection(S, 1 .. n)
  BY <1>4, <1>5, Fun_IsInj
<1>7. IsFiniteSet(1 .. n) /\ Cardinality(1 .. n) = n
  BY FS_Interval
<1>8. r \in Surjection(S, 1 .. n)
  BY <1>1, <1>6, <1>7, FS_Injection
<1>9. QED BY <1>1, <1>6, <1>8 DEF Bijection

\* InOrder enumerates its set, in increasing order.
LEMMA Enumerates ==
  ASSUME NEW S \in SUBSET Nat, IsFiniteSet(S)
  PROVE  /\ Cardinality(S) \in Nat
         /\ InOrder(S) \in [1 .. Cardinality(S) -> S]
         /\ \A i, j \in 1 .. Cardinality(S) : InOrder(S)[i] = InOrder(S)[j] => i = j
         /\ \A c \in S : \E i \in 1 .. Cardinality(S) : InOrder(S)[i] = c
<1>1. PICK r : r = [c \in S |-> Cardinality({d \in S : d <= c})]
  OBVIOUS
<1>2. PICK n \in Nat : n = Cardinality(S)
  BY FS_CardinalityType
<1>3. r \in Bijection(S, 1 .. n)
  BY <1>1, <1>2, Ranks
<1>4. /\ r \in [S -> 1 .. n]
      /\ \A c, e \in S : r[c] = r[e] => c = e
      /\ \A i \in 1 .. n : \E c \in S : r[c] = i
  BY <1>3 DEF Bijection, Injection, Surjection, IsInjective
<1>5. PICK q : q = InOrder(S)
  OBVIOUS
<1>6. \A i \in 1 .. n : q[i] = CHOOSE c \in S : Cardinality({d \in S : d <= c}) = i
  BY <1>2, <1>5 DEF InOrder
<1>7. ASSUME NEW i \in 1 .. n PROVE q[i] \in S /\ r[q[i]] = i
  <2>1. \A c \in S : r[c] = Cardinality({d \in S : d <= c})
    BY <1>1
  <2>2. \E c \in S : Cardinality({d \in S : d <= c}) = i
    BY <1>4, <2>1
  <2>3. q[i] = CHOOSE c \in S : Cardinality({d \in S : d <= c}) = i
    BY <1>6
  <2>4. q[i] \in S /\ Cardinality({d \in S : d <= q[i]}) = i
    BY <2>2, <2>3, Zenon
  <2>5. QED BY <2>1, <2>4
<1>8. q \in [1 .. n -> S]
  BY <1>2, <1>5, <1>7 DEF InOrder
<1>9. \A i, j \in 1 .. n : q[i] = q[j] => i = j
  BY <1>7
<1>10. \A c \in S : q[r[c]] = c /\ r[c] \in 1 .. n
  BY <1>4, <1>7
<1>11. QED BY <1>2, <1>5, <1>8, <1>9, <1>10

\* Selection by place keeps the elements at those places, each as often.
LEMMA Selects ==
  ASSUME NEW D, NEW s \in Seq(D), NEW places \in SUBSET DOMAIN s
  PROVE  /\ At(s, places) \in Seq(D) /\ Len(At(s, places)) <= Len(s)
         /\ \A j \in DOMAIN At(s, places) : \E i \in places : At(s, places)[j] = s[i]
         /\ \A i \in places : \E j \in DOMAIN At(s, places) : At(s, places)[j] = s[i]
         /\ IsInjective(s) => IsInjective(At(s, places))
         /\ \A c : Occurrences(At(s, places), c) = Cardinality({i \in places : s[i] = c})
<1>1. /\ DOMAIN s = 1 .. Len(s) /\ Len(s) \in Nat
      /\ \A i \in 1 .. Len(s) : s[i] \in D
  OBVIOUS
<1>2. IsFiniteSet(1 .. Len(s)) /\ Cardinality(1 .. Len(s)) = Len(s)
  BY <1>1, FS_Interval
<1>3. /\ places \in SUBSET Nat /\ IsFiniteSet(places)
      /\ Cardinality(places) <= Len(s)
  BY <1>1, <1>2, FS_Subset
<1>4. PICK n \in Nat : n = Cardinality(places)
  BY <1>3, FS_CardinalityType
<1>5. PICK q : q = InOrder(places)
  OBVIOUS
<1>6. /\ q \in [1 .. n -> places]
      /\ \A i, j \in 1 .. n : q[i] = q[j] => i = j
      /\ \A c \in places : \E i \in 1 .. n : q[i] = c
  BY <1>3, <1>4, <1>5, Enumerates
<1>7. PICK w : w = At(s, places)
  OBVIOUS
<1>8. w = [j \in 1 .. n |-> s[q[j]]]
  BY <1>4, <1>5, <1>7 DEF At
<1>9. \A j \in 1 .. n : q[j] \in places /\ s[q[j]] \in D
  BY <1>1, <1>6
<1>10. w \in Seq(D) /\ Len(w) = n /\ DOMAIN w = 1 .. n
  BY <1>8, <1>9
<1>11. IsInjective(s) => IsInjective(w)
  <2>1. SUFFICES ASSUME IsInjective(s), NEW i \in 1 .. n, NEW j \in 1 .. n, w[i] = w[j]
                 PROVE  i = j
    BY <1>10 DEF IsInjective
  <2>2. s[q[i]] = s[q[j]] /\ q[i] \in DOMAIN s /\ q[j] \in DOMAIN s
    BY <1>8, <1>9, <2>1
  <2>3. q[i] = q[j]
    BY <2>1, <2>2 DEF IsInjective
  <2>4. QED BY <1>6, <2>3
<1>12. ASSUME NEW c PROVE Occurrences(w, c) = Cardinality({i \in places : s[i] = c})
  <2>1. PICK S : S = {j \in DOMAIN w : w[j] = c}
    OBVIOUS
  <2>2. PICK T : T = {i \in places : s[i] = c}
    OBVIOUS
  <2>3. PICK f : f = [j \in S |-> q[j]]
    OBVIOUS
  <2>4. \A j : j \in S <=> j \in 1 .. n /\ s[q[j]] = c
    BY <1>8, <1>10, <2>1
  <2>5. f \in [S -> T]
    BY <1>9, <2>2, <2>3, <2>4
  <2>6. \A i, j \in S : f[i] = f[j] => i = j
    BY <1>6, <2>3, <2>4
  <2>7. \A i \in T : \E j \in S : f[j] = i
    BY <1>6, <2>2, <2>3, <2>4
  <2>8. f \in Bijection(S, T)
    BY <2>5, <2>6, <2>7, Fun_IsBij
  <2>9. S \in SUBSET (1 .. n) /\ IsFiniteSet(1 .. n)
    BY <1>10, <2>1, FS_Interval
  <2>10. IsFiniteSet(S)
    BY <2>9, FS_Subset
  <2>11. Cardinality(S) = Cardinality(T)
    BY <2>8, <2>10, FS_Bijection DEF ExistsBijection
  <2>12. QED BY <2>1, <2>2, <2>11 DEF Occurrences
<1>13. \A j \in 1 .. n : \E i \in places : w[j] = s[i]
  BY <1>8, <1>9
<1>14. \A i \in places : \E j \in 1 .. n : w[j] = s[i]
  BY <1>6, <1>8
<1>15. QED BY <1>3, <1>4, <1>7, <1>10, <1>11, <1>12, <1>13, <1>14

\* Occurrences of c are counted, and none in a sequence of other things.
LEMMA Counts ==
  ASSUME NEW D, NEW s \in Seq(D), NEW c
  PROVE  /\ Occurrences(s, c) \in Nat
         /\ Occurrences(s, c) = 0 <=> \A i \in DOMAIN s : s[i] # c
         /\ c \notin D => Occurrences(s, c) = 0
<1>1. DOMAIN s = 1 .. Len(s) /\ Len(s) \in Nat /\ \A i \in 1 .. Len(s) : s[i] \in D
  OBVIOUS
<1>2. PICK S : S = {i \in DOMAIN s : s[i] = c}
  OBVIOUS
<1>3. S \in SUBSET (1 .. Len(s)) /\ IsFiniteSet(1 .. Len(s))
  BY <1>1, <1>2, FS_Interval
<1>4. IsFiniteSet(S)
  BY <1>3, FS_Subset
<1>5. Cardinality(S) \in Nat /\ (Cardinality(S) = 0 <=> S = {})
  BY <1>4, FS_CardinalityType, FS_EmptySet
<1>6. Occurrences(s, c) = Cardinality(S)
  BY <1>2 DEF Occurrences
<1>7. S = {} <=> \A i \in DOMAIN s : s[i] # c
  BY <1>2
<1>8. c \notin D => \A i \in DOMAIN s : s[i] # c
  BY <1>1
<1>9. QED BY <1>5, <1>6, <1>7, <1>8

\* Two sequences joined hold what each of them held.
LEMMA Joins ==
  ASSUME NEW D, NEW s \in Seq(D), NEW u \in Seq(D), NEW c
  PROVE  /\ s \o u \in Seq(D)
         /\ Occurrences(s \o u, c) = Occurrences(s, c) + Occurrences(u, c)
<1>1. /\ Len(s) \in Nat /\ Len(u) \in Nat /\ DOMAIN s = 1 .. Len(s) /\ DOMAIN u = 1 .. Len(u)
  OBVIOUS
<1>2. PICK w : w = s \o u
  OBVIOUS
<1>3. w \in Seq(D) /\ DOMAIN w = 1 .. Len(s) + Len(u)
  BY <1>2
<1>4. \A i \in 1 .. Len(s) + Len(u) :
        w[i] = IF i <= Len(s) THEN s[i] ELSE u[i - Len(s)]
  BY <1>2
<1>5. PICK S : S = {i \in DOMAIN s : s[i] = c}
  OBVIOUS
<1>6. PICK U : U = {i \in DOMAIN u : u[i] = c}
  OBVIOUS
<1>7. PICK V : V = {i \in DOMAIN w : w[i] = c /\ i > Len(s)}
  OBVIOUS
<1>8. PICK W : W = {i \in DOMAIN w : w[i] = c}
  OBVIOUS
<1>9. W = S \union V /\ S \intersect V = {}
  BY <1>1, <1>3, <1>4, <1>5, <1>7, <1>8
<1>10. /\ IsFiniteSet(1 .. Len(s)) /\ IsFiniteSet(1 .. Len(u))
       /\ IsFiniteSet(1 .. Len(s) + Len(u))
  BY <1>1, FS_Interval
<1>11. IsFiniteSet(S) /\ IsFiniteSet(U) /\ IsFiniteSet(V)
  <2>1. S \in SUBSET (1 .. Len(s)) /\ U \in SUBSET (1 .. Len(u))
        /\ V \in SUBSET (1 .. Len(s) + Len(u))
    BY <1>1, <1>3, <1>5, <1>6, <1>7
  <2>2. QED BY <1>10, <2>1, FS_Subset
<1>12. Cardinality(V) = Cardinality(U)
  <2>1. PICK f : f = [i \in U |-> i + Len(s)]
    OBVIOUS
  <2>2. f \in [U -> V]
    BY <1>1, <1>3, <1>4, <1>6, <1>7, <2>1
  <2>3. \A i, j \in U : f[i] = f[j] => i = j
    BY <1>1, <1>6, <2>1
  <2>4. \A i \in V : \E j \in U : f[j] = i
    <3>1. SUFFICES ASSUME NEW i \in V PROVE i - Len(s) \in U /\ (i - Len(s)) + Len(s) = i
      BY <2>1
    <3>2. QED BY <1>1, <1>3, <1>4, <1>6, <1>7
  <2>5. f \in Bijection(U, V)
    BY <2>2, <2>3, <2>4, Fun_IsBij
  <2>6. QED BY <1>11, <2>5, FS_Bijection DEF ExistsBijection
<1>13. Cardinality(W) = Cardinality(S) + Cardinality(V)
  <2>1. Cardinality(S \union V) = Cardinality(S) + Cardinality(V) - Cardinality(S \intersect V)
    BY <1>11, FS_Union
  <2>2. Cardinality(S \intersect V) = 0
    BY <1>9, FS_EmptySet
  <2>3. Cardinality(S) \in Nat /\ Cardinality(V) \in Nat
    BY <1>11, FS_CardinalityType
  <2>4. QED BY <1>9, <2>1, <2>2, <2>3
<1>14. /\ Occurrences(s, c) = Cardinality(S) /\ Occurrences(u, c) = Cardinality(U)
       /\ Occurrences(w, c) = Cardinality(W)
  BY <1>5, <1>6, <1>8 DEF Occurrences
<1>15. QED BY <1>2, <1>3, <1>12, <1>13, <1>14

\* A choice by kind keeps every occurrence of a command of these kinds.
LEMMA Chosen ==
  ASSUME NEW D, NEW s \in Seq(D), NEW kinds
  PROVE  /\ Of(s, kinds) \in Seq(D)
         /\ \A c : Occurrences(Of(s, kinds), c)
                   = IF commands[c].kind \in kinds THEN Occurrences(s, c) ELSE 0
<1>1. PICK places : places = {i \in DOMAIN s : commands[s[i]].kind \in kinds}
  OBVIOUS
<1>2. PICK w : w = At(s, places)
  OBVIOUS
<1>3. places \in SUBSET DOMAIN s
  BY <1>1
<1>4. w \in Seq(D) /\ \A c : Occurrences(w, c) = Cardinality({i \in places : s[i] = c})
  BY <1>2, <1>3, Selects
<1>5. ASSUME NEW c
      PROVE  Occurrences(w, c) = IF commands[c].kind \in kinds THEN Occurrences(s, c) ELSE 0
  <2>1. CASE commands[c].kind \in kinds
    <3>1. {i \in places : s[i] = c} = {i \in DOMAIN s : s[i] = c}
      BY <1>1, <2>1
    <3>2. QED BY <1>4, <2>1, <3>1 DEF Occurrences
  <2>2. CASE commands[c].kind \notin kinds
    <3>1. {i \in places : s[i] = c} = {}
      BY <1>1, <2>2
    <3>2. QED BY <1>4, <2>2, <3>1, FS_EmptySet
  <2>3. QED BY <2>1, <2>2
<1>6. w = Of(s, kinds)
  BY <1>1, <1>2 DEF Of
<1>7. QED BY <1>4, <1>5, <1>6

\* What is left of a list without one element.
LEMMA Leaves ==
  ASSUME NEW D, NEW s \in Seq(D), IsInjective(s), NEW e
  PROVE  /\ Without(s, e) \in Seq(D) /\ Len(Without(s, e)) <= Len(s)
         /\ IsInjective(Without(s, e)) /\ Range(Without(s, e)) = Range(s) \ {e}
<1>1. PICK places : places = {i \in DOMAIN s : s[i] # e}
  OBVIOUS
<1>2. PICK w : w = At(s, places)
  OBVIOUS
<1>3. places \in SUBSET DOMAIN s
  BY <1>1
<1>4. /\ w \in Seq(D) /\ Len(w) <= Len(s) /\ IsInjective(w)
      /\ \A j \in DOMAIN w : \E i \in places : w[j] = s[i]
      /\ \A i \in places : \E j \in DOMAIN w : w[j] = s[i]
  BY <1>2, <1>3, Selects
<1>5. Range(w) = Range(s) \ {e}
  BY <1>1, <1>4 DEF Range
<1>6. w = Without(s, e)
  BY <1>1, <1>2 DEF Without
<1>7. QED BY <1>4, <1>5, <1>6

\* What is claimed is the inbox's share of the task, each command once.
LEMMA Claims ==
  ASSUME NEW D \in SUBSET Nat, IsFiniteSet(D), inbox \subseteq D, NEW t
  PROVE  /\ Claimed(t) \in Seq(D)
         /\ \A c : Occurrences(Claimed(t), c) = IF c \in Queued(t) THEN 1 ELSE 0
<1>1. PICK S : S = Queued(t)
  OBVIOUS
<1>2. S \in SUBSET D /\ S \in SUBSET Nat
  BY <1>1 DEF Queued
<1>3. IsFiniteSet(S)
  BY <1>2, FS_Subset
<1>4. PICK n \in Nat : n = Cardinality(S)
  BY <1>3, FS_CardinalityType
<1>5. PICK q : q = InOrder(S)
  OBVIOUS
<1>6. /\ q \in [1 .. n -> S]
      /\ \A i, j \in 1 .. n : q[i] = q[j] => i = j
      /\ \A c \in S : \E i \in 1 .. n : q[i] = c
  BY <1>2, <1>3, <1>4, <1>5, Enumerates
<1>7. q \in Seq(D) /\ DOMAIN q = 1 .. n
  <2>1. q \in [1 .. n -> D]
    BY <1>2, <1>6
  <2>2. QED BY <2>1
<1>8. ASSUME NEW c PROVE Occurrences(q, c) = IF c \in S THEN 1 ELSE 0
  <2>1. CASE c \in S
    <3>1. PICK i \in 1 .. n : q[i] = c
      BY <1>6, <2>1
    <3>2. {j \in DOMAIN q : q[j] = c} = {i}
      BY <1>6, <1>7, <3>1
    <3>3. QED BY <2>1, <3>2, FS_Singleton DEF Occurrences
  <2>2. CASE c \notin S
    <3>1. {j \in DOMAIN q : q[j] = c} = {}
      BY <1>6, <1>7, <2>2
    <3>2. QED BY <2>2, <3>1, FS_EmptySet DEF Occurrences
  <2>3. QED BY <2>1, <2>2
<1>9. q = Claimed(t)
  BY <1>1, <1>5 DEF Claimed
<1>10. QED BY <1>1, <1>7, <1>8, <1>9

(***************************************************************************)
(* Tombstones and the report of success.                                   *)
(***************************************************************************)
\* The commands known to the bus.
CommandsOK ==
  /\ commands \in Seq(Command) /\ Len(commands) <= MaxCommands
  /\ drawn \in [Users -> {None} \union DOMAIN commands]
  /\ inbox \subseteq DOMAIN commands

\* Between the terminal gate and the report of success nothing waits in the
\* supervisor's routing queue: the gate carried it out.
PassedInv ==
  /\ DOMAIN sa = Tasks /\ DOMAIN pending = Tasks
  /\ \A t \in Tasks :
       /\ "pc" \in DOMAIN sa[t]
       /\ sa[t].pc = "passed" => pending[t] = <<>>

InboxInv == CommandsOK /\ ClosedInboxEmpty /\ PassedInv

LEMMA InitInbox == Init => InboxInv
<1> SUFFICES ASSUME Init PROVE InboxInv
  OBVIOUS
<1>1. CommandsOK
  BY CommandInboxAssumption DEF Init, CommandsOK, None
<1>2. ClosedInboxEmpty
  BY DEF Init, ClosedInboxEmpty
<1>3. PassedInv
  BY DEF Init, PassedInv
<1>4. QED BY <1>1, <1>2, <1>3 DEF InboxInv

(***************************************************************************)
(* The bus.                                                                *)
(***************************************************************************)
\* A further command leaves the others as they are.
LEMMA OneMore ==
  ASSUME NEW cs \in Seq(Command), NEW r \in Command
  PROVE  /\ Append(cs, r) \in Seq(Command)
         /\ Len(Append(cs, r)) = Len(cs) + 1
         /\ DOMAIN cs = 1 .. Len(cs) /\ DOMAIN Append(cs, r) = 1 .. Len(cs) + 1
         /\ Len(cs) \in Nat
         /\ \A c \in 1 .. Len(cs) : Append(cs, r)[c] = cs[c]
  OBVIOUS

\* An answer changes nothing but the answer.
LEMMA Answered ==
  ASSUME NEW cs \in Seq(Command), NEW c \in DOMAIN cs,
         NEW a \in {"accepted", "TaskClosed", "CapacityExceeded"},
         NEW ds, ds = [cs EXCEPT ![c].answer = a]
  PROVE  /\ ds \in Seq(Command) /\ Len(ds) = Len(cs) /\ DOMAIN ds = DOMAIN cs
         /\ \A d \in DOMAIN cs : ds[d].task = cs[d].task
         /\ ds[c].answer = a /\ \A d \in DOMAIN cs \ {c} : ds[d] = cs[d]
<1>1. DOMAIN cs = 1 .. Len(cs) /\ Len(cs) \in Nat /\ \A d \in 1 .. Len(cs) : cs[d] \in Command
  OBVIOUS
<1>2. PICK r \in Command : r = [cs[c] EXCEPT !.answer = a]
  BY <1>1 DEF Command
<1>3. r.task = cs[c].task /\ r.answer = a
  BY <1>1, <1>2 DEF Command
<1>4. ds = [cs EXCEPT ![c] = r]
  BY <1>2
<1>5. [cs EXCEPT ![c] = r] \in Seq(Command) /\ Len([cs EXCEPT ![c] = r]) = Len(cs)
  BY <1>1
<1>6. QED BY <1>1, <1>3, <1>4, <1>5

\* Drawing a number touches neither inbox nor tombstones.
LEMMA SubmitKeeps ==
  ASSUME InboxInv, NEW u \in Users, NEW t \in Tasks, NEW k \in Kinds, Submit(u, t, k)
  PROVE  InboxInv'
<1>1. PICK r : r = [task |-> t, kind |-> k, answer |-> "none",
                    after |-> {c \in DOMAIN commands : commands[c].answer # "none"}]
  OBVIOUS
<1>2. MaxCommands \in Nat
  BY CommandInboxAssumption
<1>3. DOMAIN commands = 1 .. Len(commands) /\ Len(commands) \in Nat
  BY DEF InboxInv, CommandsOK
<1>4. r \in Command
  BY <1>1, <1>2, <1>3 DEF Command, Ids, InboxInv, CommandsOK
<1>5. commands' = Append(commands, r) /\ Len(commands) < MaxCommands
  BY <1>1 DEF Submit
<1>6. /\ commands' \in Seq(Command) /\ Len(commands') = Len(commands) + 1
      /\ DOMAIN commands' = 1 .. Len(commands) + 1
      /\ \A c \in 1 .. Len(commands) : commands'[c] = commands[c]
  BY <1>4, <1>5, OneMore DEF InboxInv, CommandsOK
<1>7. drawn' = [drawn EXCEPT ![u] = Len(commands) + 1]
      /\ UNCHANGED <<inbox, closed, pending, sa>>
  BY DEF Submit, tombstones, queues
<1>8. CommandsOK'
  BY <1>2, <1>3, <1>5, <1>6, <1>7 DEF InboxInv, CommandsOK, None
<1>9. ClosedInboxEmpty'
  BY <1>3, <1>6, <1>7 DEF InboxInv, CommandsOK, ClosedInboxEmpty, Queued
<1>10. PassedInv'
  BY <1>7 DEF InboxInv, PassedInv
<1>11. QED BY <1>8, <1>9, <1>10 DEF InboxInv

\* Closed is checked in the critical section that enqueues.
LEMMA EnqueueKeeps ==
  ASSUME InboxInv, NEW u \in Users, Enqueue(u)
  PROVE  InboxInv'
<1>1. PICK c : c = drawn[u]
  OBVIOUS
<1>2. c \in DOMAIN commands
  BY <1>1 DEF Enqueue, InboxInv, CommandsOK
<1>3. PICK a : a = Answer(commands[c].task)
  OBVIOUS
<1>4. a \in {"accepted", "TaskClosed", "CapacityExceeded"}
      /\ (a = "accepted" => commands[c].task \notin closed)
  BY <1>3 DEF Answer
<1>5. /\ commands' = [commands EXCEPT ![c].answer = a]
      /\ inbox' = IF a = "accepted" THEN inbox \union {c} ELSE inbox
      /\ drawn' = [drawn EXCEPT ![u] = None]
      /\ UNCHANGED <<closed, pending, sa>>
  BY <1>1, <1>3 DEF Enqueue, tombstones, queues
<1>6. /\ commands' \in Seq(Command) /\ Len(commands') = Len(commands)
      /\ DOMAIN commands' = DOMAIN commands
      /\ \A d \in DOMAIN commands : commands'[d].task = commands[d].task
  <2>1. commands \in Seq(Command)
    BY DEF InboxInv, CommandsOK
  <2>2. PICK ds : ds = commands'
    OBVIOUS
  <2>3. ds = [commands EXCEPT ![c].answer = a]
    BY <1>5, <2>2
  <2>4. /\ ds \in Seq(Command) /\ Len(ds) = Len(commands) /\ DOMAIN ds = DOMAIN commands
        /\ \A d \in DOMAIN commands : ds[d].task = commands[d].task
    BY <1>2, <1>4, <2>1, <2>3, Answered
  <2>5. QED BY <2>2, <2>4
<1>7. CommandsOK'
  BY <1>2, <1>5, <1>6 DEF InboxInv, CommandsOK
<1>8. ClosedInboxEmpty'
  BY <1>2, <1>4, <1>5, <1>6 DEF InboxInv, CommandsOK, ClosedInboxEmpty, Queued
<1>9. PassedInv'
  BY <1>5 DEF InboxInv, PassedInv
<1>10. QED BY <1>7, <1>8, <1>9 DEF InboxInv

(***************************************************************************)
(* The supervisor.  It only takes commands out of the inbox, and closes a  *)
(* task only together with emptying it.                                    *)
(***************************************************************************)
Takes ==
  /\ UNCHANGED <<commands, drawn>>
  /\ inbox' \subseteq inbox
  /\ \A t \in closed' : t \in closed \/ \A c \in inbox' : commands[c].task # t

LEMMA CloseTakes ==
  ASSUME NEW t \in Tasks, CloseAndTake(t), UNCHANGED <<commands, drawn>>
  PROVE  Takes
  BY DEF CloseAndTake, Takes, Queued

LEMMA SuperviseTakes ==
  ASSUME NEW t \in Tasks, Supervise(t) \/ AgentTurn(t) \/ WriteWorkspace(t)
  PROVE  Takes
<1> USE DEF tombstones, bus, Takes
<1>1. CASE Begin(t) \/ StartCycle(t)
  BY <1>1 DEF Begin, StartCycle, Open
<1>2. CASE PlanReady(t)
  BY <1>2 DEF PlanReady
<1>3. CASE PlanningBlocked(t) \/ EndTask(t)
  BY <1>3, CloseTakes DEF PlanningBlocked, EndTask, CloseAndReport
<1>4. CASE CheckNode(t) \/ WaitPaused(t) \/ AfterDag(t) \/ BeforeAcceptance(t)
  BY <1>4 DEF CheckNode, WaitPaused, AfterDag, BeforeAcceptance, Check
<1>5. CASE NodeDone(t) \/ Reconcile(t) \/ PlanFails(t) \/ PlanErrs(t) \/ Recover(t)
  BY <1>5 DEF NodeDone, Reconcile, PlanFails, PlanErrs, Recover
<1>6. CASE TerminalGate(t) \/ Succeed(t)
  BY <1>6, CloseTakes DEF TerminalGate, Succeed
<1>7. CASE AgentTurn(t) \/ WriteWorkspace(t)
  BY <1>7 DEF AgentTurn, WriteWorkspace
<1>8. QED BY <1>1, <1>2, <1>3, <1>4, <1>5, <1>6, <1>7 DEF Supervise

\* Nothing the user of task t saw accepted waits for its supervisor.
Informed(t) == pending'[t] = <<>> /\ \A c \in inbox' : commands[c].task # t

\* What a step has to show of success.
SuccessChecked == PassedInv' /\ \A t \in Tasks : Succeeds(t) => Informed(t)

\* A step of one task's supervisor that leaves the other tasks alone does so,
\* if it reaches "passed" only with an empty routing queue and "success" only
\* with an empty inbox as well.
Supervised(t, r) ==
  /\ "pc" \in DOMAIN r
  /\ sa' = [sa EXCEPT ![t] = r]
  /\ DOMAIN pending' = Tasks
  /\ \A o \in Tasks \ {t} : pending'[o] = pending[o]
  /\ r.pc = "passed" => pending'[t] = <<>>
  /\ r.pc \in {"success"} \ {sa[t].pc} => Informed(t)

LEMMA SupervisedKeeps ==
  ASSUME PassedInv, NEW t \in Tasks, NEW r, Supervised(t, r)
  PROVE  SuccessChecked
<1>1. PassedInv'
  BY DEF PassedInv, Supervised
<1>2. ASSUME NEW o \in Tasks, Succeeds(o) PROVE Informed(o)
  <2>1. o = t
    BY <1>2 DEF PassedInv, Supervised, Succeeds
  <2>2. QED BY <1>2, <2>1 DEF PassedInv, Supervised, Succeeds
<1>3. QED BY <1>1, <1>2 DEF SuccessChecked

\* Going elsewhere with the routing queue as it is.
LEMMA Elsewhere ==
  ASSUME PassedInv, NEW t \in Tasks, NEW from, NEW pc, Goto(t, from, pc),
         pc \notin {"passed", "success"}, UNCHANGED pending
  PROVE  SuccessChecked
<1>1. Supervised(t, [sa[t] EXCEPT !.pc = pc])
  BY DEF Supervised, PassedInv, Goto
<1>2. QED BY <1>1, SupervisedKeeps

\* Processing the batch empties the routing queue.
LEMMA Advanced ==
  ASSUME PassedInv, NEW t \in Tasks, NEW pc, pc # "success", Process(t), Advance(t, pc)
  PROVE  SuccessChecked
<1>1. pending' = [pending EXCEPT ![t] = <<>>]
  BY DEF Process
<1>2. PICK r : r = [sa[t] EXCEPT !.pc = pc, !.contract = NewContract(t), !.phase = NewPhase(t)]
  OBVIOUS
<1>3. "pc" \in DOMAIN r /\ r.pc = pc
  BY <1>2 DEF PassedInv
<1>4. sa' = [sa EXCEPT ![t] = r]
  BY <1>2 DEF Advance
<1>5. Supervised(t, r)
  BY <1>1, <1>3, <1>4 DEF Supervised, PassedInv
<1>6. QED BY <1>5, SupervisedKeeps

LEMMA SupervisePassed ==
  ASSUME PassedInv, NEW t \in Tasks, Supervise(t) \/ AgentTurn(t) \/ WriteWorkspace(t)
  PROVE  SuccessChecked
<1> USE DEF queues
<1>1. CASE Begin(t)
  BY <1>1, Elsewhere DEF Begin
<1>2. CASE PlanningBlocked(t) \/ EndTask(t)
  BY <1>2, Elsewhere DEF PlanningBlocked, EndTask, CloseAndReport
<1>3. CASE NodeDone(t)
  BY <1>3, Elsewhere DEF NodeDone
<1>4. CASE PlanFails(t)
  BY <1>4, Elsewhere DEF PlanFails
<1>5. CASE PlanErrs(t)
  BY <1>5, Elsewhere DEF PlanErrs
<1>6. CASE Recover(t)
  BY <1>6, Elsewhere DEF Recover, AfterPlan
<1>7. CASE CheckNode(t) \/ WaitPaused(t) \/ AfterDag(t) \/ BeforeAcceptance(t)
  BY <1>7, Advanced DEF CheckNode, WaitPaused, AfterDag, BeforeAcceptance, Check
<1>8. CASE TerminalGate(t)
  BY <1>8, Advanced DEF TerminalGate
<1>9. CASE PlanReady(t)
  <2>1. Supervised(t, [sa[t] EXCEPT !.pc = "cycle"])
    BY <1>9 DEF PlanReady, Supervised, PassedInv, Goto
  <2>2. QED BY <2>1, SupervisedKeeps
<1>10. CASE Succeed(t)
  <2>1. CASE Queued(t) = {} /\ Goto(t, "passed", "success") /\ UNCHANGED pending
    <3>1. Informed(t)
      BY <1>10, <2>1 DEF Succeed, CloseAndTake, Queued, PassedInv, Goto, Informed
    <3>2. Supervised(t, [sa[t] EXCEPT !.pc = "success"])
      BY <2>1, <3>1 DEF Supervised, PassedInv, Goto
    <3>3. QED BY <3>2, SupervisedKeeps
  <2>2. CASE Queued(t) # {}
    <3>1. PICK pc \in {"cycle", "ending"} :
            Goto(t, "passed", pc) /\ pending' = [pending EXCEPT ![t] = Batch(t)]
      BY <1>10, <2>2 DEF Succeed
    <3>2. Supervised(t, [sa[t] EXCEPT !.pc = pc])
      BY <3>1 DEF Supervised, PassedInv, Goto
    <3>3. QED BY <3>2, SupervisedKeeps
  <2>3. QED BY <1>10, <2>1, <2>2 DEF Succeed
<1>11. CASE StartCycle(t)
  <2>1. CASE sa' = [sa EXCEPT ![t].pc = "ending"]
    <3>1. Supervised(t, [sa[t] EXCEPT !.pc = "ending"])
      BY <1>11, <2>1 DEF StartCycle, Supervised, PassedInv
    <3>2. QED BY <3>1, SupervisedKeeps
  <2>2. CASE sa' = [sa EXCEPT ![t].pc = "node", ![t].cycle = @ + 1,
                              ![t].phase = "running", ![t].delivered = {}]
    <3>1. PICK r : r = [sa[t] EXCEPT !.pc = "node", !.cycle = @ + 1,
                                     !.phase = "running", !.delivered = {}]
      OBVIOUS
    <3>2. "pc" \in DOMAIN r /\ r.pc = "node"
      BY <3>1 DEF PassedInv
    <3>3. sa' = [sa EXCEPT ![t] = r]
      BY <2>2, <3>1
    <3>4. Supervised(t, r)
      BY <1>11, <3>2, <3>3 DEF StartCycle, Supervised, PassedInv
    <3>5. QED BY <3>4, SupervisedKeeps
  <2>3. QED BY <1>11, <2>1, <2>2 DEF StartCycle
<1>12. CASE Reconcile(t)
  <2>1. PICK pc \in {"correct", "accept"} :
          pc = IF sa[t].pc = "deliver" THEN "correct" ELSE "accept"
    OBVIOUS
  <2>2. PICK r : r = [sa[t] EXCEPT !.pc = pc,
                                   !.delivered = @ \union ({sa[t].contract} \ {None})]
    OBVIOUS
  <2>3. "pc" \in DOMAIN r /\ r.pc = pc
    BY <2>2 DEF PassedInv
  <2>4. sa' = [sa EXCEPT ![t] = r]
    BY <1>12, <2>1, <2>2 DEF Reconcile
  <2>5. Supervised(t, r)
    BY <1>12, <2>3, <2>4 DEF Reconcile, Supervised, PassedInv
  <2>6. QED BY <2>5, SupervisedKeeps
<1>13. CASE AgentTurn(t)
  BY <1>13 DEF AgentTurn, PassedInv, SuccessChecked, Succeeds
<1>14. CASE WriteWorkspace(t)
  <2>1. PICK receipts : sa' = [sa EXCEPT ![t].delivered = receipts]
    BY <1>14 DEF WriteWorkspace
  <2>2. Supervised(t, [sa[t] EXCEPT !.delivered = receipts])
    BY <1>14, <2>1 DEF WriteWorkspace, Supervised, PassedInv
  <2>3. QED BY <2>2, SupervisedKeeps
<1>15. QED
  BY <1>1, <1>2, <1>3, <1>4, <1>5, <1>6, <1>7, <1>8, <1>9, <1>10, <1>11, <1>12, <1>13,
     <1>14 DEF Supervise

LEMMA TakesKeeps ==
  ASSUME CommandsOK, ClosedInboxEmpty, Takes
  PROVE  CommandsOK' /\ ClosedInboxEmpty'
  BY DEF CommandsOK, ClosedInboxEmpty, Takes, Queued

LEMMA StepInbox == InboxInv /\ [Next]_vars => InboxInv'
<1> SUFFICES ASSUME InboxInv, [Next]_vars PROVE InboxInv'
  OBVIOUS
<1>1. ASSUME NEW u \in Users, NEW t \in Tasks, NEW k \in Kinds, Submit(u, t, k)
      PROVE  InboxInv'
  BY <1>1, SubmitKeeps
<1>2. ASSUME NEW u \in Users, Enqueue(u) PROVE InboxInv'
  BY <1>2, EnqueueKeeps
<1>3. ASSUME NEW t \in Tasks, Supervise(t) \/ AgentTurn(t) \/ WriteWorkspace(t)
      PROVE  InboxInv'
  BY <1>3, SuperviseTakes, SupervisePassed, TakesKeeps DEF InboxInv, SuccessChecked
<1>4. CASE UNCHANGED vars
  BY <1>4 DEF vars, bus, queues, tombstones, InboxInv, CommandsOK, ClosedInboxEmpty,
              Queued, PassedInv
<1>5. QED BY <1>1, <1>2, <1>3, <1>4 DEF Next

LEMMA InboxInvariant == Spec => []InboxInv
  BY InitInbox, StepInbox, PTL DEF Spec

\* "A TUI/API command racing with terminal completion is therefore either
\* included here or receives `TaskClosed`": no command waits in the inbox of
\* a task that is closed.
THEOREM NothingBehindTombstone == Spec => []ClosedInboxEmpty
<1>1. InboxInv => ClosedInboxEmpty
  BY DEF InboxInv
<1>2. QED BY <1>1, InboxInvariant, PTL

\* When a task is reported successful, no command that its user saw accepted
\* still waits in the inbox or in the supervisor's routing queue.
THEOREM SuccessSeesEverything == Spec => SuccessIsInformed
<1>1. ASSUME InboxInv, [Next]_vars, NEW t \in Tasks, Succeeds(t),
             NEW c \in Accepted(t)
      PROVE  c \notin inbox' /\ Occurrences(pending'[t], c) = 0
  <2>1. PICK o \in Tasks : Supervise(o) \/ AgentTurn(o) \/ WriteWorkspace(o)
    BY <1>1 DEF Next, Succeeds, Submit, Enqueue, vars
  <2>2. Informed(t)
    BY <1>1, <2>1, SupervisePassed DEF InboxInv, SuccessChecked
  <2>3. c \notin inbox'
    BY <2>2 DEF Informed, Accepted
  <2>4. {i \in DOMAIN pending'[t] : pending'[t][i] = c} = {}
    BY <2>2 DEF Informed
  <2>5. QED BY <2>3, <2>4, FS_EmptySet DEF Occurrences
<1>2. InboxInv /\ [Next]_vars =>
        [\A t \in Tasks : Succeeds(t) =>
           \A c \in Accepted(t) : c \notin inbox' /\ Occurrences(pending'[t], c) = 0]_vars
  BY <1>1
<1>3. QED BY <1>2, InboxInvariant, PTL DEF Spec, SuccessIsInformed

(***************************************************************************)
(* Exactly once.                                                           *)
(***************************************************************************)
\* The queues behind the inbox, and what was made of the commands: a task's
\* queues hold only its own commands, and every accepted command has one place.
QueuesOK ==
  /\ pending \in [Tasks -> Seq(DOMAIN commands)] /\ store \in [Tasks -> Seq(DOMAIN commands)]
  /\ served \in [Ids -> Nat] /\ reported \subseteq DOMAIN commands
OwnOnly ==
  /\ \A t \in Tasks : \A c \in DOMAIN commands :
       commands[c].task # t => Occurrences(pending[t], c) = 0 /\ Occurrences(store[t], c) = 0
  /\ \A c \in Ids \ DOMAIN commands : served[c] = 0
Placed == QueuesOK /\ OwnOnly /\ ExactlyOnce

LEMMA Numbers ==
  ASSUME CommandsOK
  PROVE  /\ DOMAIN commands = 1 .. Len(commands) /\ Len(commands) \in Nat
         /\ DOMAIN commands \in SUBSET Nat /\ IsFiniteSet(DOMAIN commands)
         /\ DOMAIN commands \subseteq Ids /\ MaxCommands \in Nat
         /\ \A c \in DOMAIN commands : commands[c] \in Command
<1>1. MaxCommands \in Nat
  BY CommandInboxAssumption
<1>2. DOMAIN commands = 1 .. Len(commands) /\ Len(commands) \in Nat
  BY DEF CommandsOK
<1>3. IsFiniteSet(1 .. Len(commands))
  BY <1>2, FS_Interval
<1>4. QED BY <1>1, <1>2, <1>3 DEF CommandsOK, Ids

\* What the five places count is a number.
LEMMA Terms ==
  ASSUME CommandsOK, QueuesOK, NEW c \in DOMAIN commands
  PROVE  /\ commands[c].task \in Tasks /\ commands[c].kind \in AllKinds
         /\ served[c] \in Nat
         /\ \A t \in Tasks : /\ Occurrences(pending[t], c) \in Nat
                             /\ Occurrences(store[t], c) \in Nat
<1>1. commands[c] \in Command /\ c \in Ids
  BY Numbers
<1>2. commands[c].task \in Tasks /\ commands[c].kind \in AllKinds
  BY <1>1, CommandInboxAssumption DEF Command
<1>3. ASSUME NEW t \in Tasks
      PROVE  Occurrences(pending[t], c) \in Nat /\ Occurrences(store[t], c) \in Nat
  <2>1. pending[t] \in Seq(DOMAIN commands) /\ store[t] \in Seq(DOMAIN commands)
    BY DEF QueuesOK
  <2>2. QED BY <2>1, Counts
<1>4. QED BY <1>1, <1>2, <1>3 DEF QueuesOK

\* What is drained goes behind what is pending.
LEMMA Batched ==
  ASSUME CommandsOK, QueuesOK, OwnOnly, NEW t \in Tasks
  PROVE  /\ Batch(t) \in Seq(DOMAIN commands)
         /\ \A c \in DOMAIN commands :
              /\ commands[c].task = t =>
                   Occurrences(Batch(t), c) = Occurrences(pending[t], c)
                                              + (IF c \in inbox THEN 1 ELSE 0)
              /\ commands[c].task # t => Occurrences(Batch(t), c) = 0
<1>1. PICK D : D = DOMAIN commands
  OBVIOUS
<1>2. D \in SUBSET Nat /\ IsFiniteSet(D) /\ inbox \subseteq D
  BY <1>1, Numbers DEF CommandsOK
<1>3. /\ Claimed(t) \in Seq(D)
      /\ \A c : Occurrences(Claimed(t), c) = IF c \in Queued(t) THEN 1 ELSE 0
  BY <1>2, Claims
<1>4. pending[t] \in Seq(D)
  BY <1>1 DEF QueuesOK
<1>5. /\ Batch(t) \in Seq(D)
      /\ \A c : Occurrences(Batch(t), c) = Occurrences(pending[t], c) + Occurrences(Claimed(t), c)
  BY <1>3, <1>4, Joins DEF Batch
<1>6. ASSUME NEW c \in D, commands[c].task = t
      PROVE  Occurrences(Batch(t), c) = Occurrences(pending[t], c) + (IF c \in inbox THEN 1 ELSE 0)
  <2>1. c \in Queued(t) <=> c \in inbox
    BY <1>6 DEF Queued
  <2>2. QED BY <1>3, <1>5, <2>1
<1>7. ASSUME NEW c \in D, commands[c].task # t PROVE Occurrences(Batch(t), c) = 0
  <2>1. c \notin Queued(t)
    BY <1>7 DEF Queued
  <2>2. Occurrences(pending[t], c) = 0
    BY <1>1, <1>7 DEF OwnOnly
  <2>3. QED BY <1>3, <1>5, <2>1, <2>2
<1>8. QED BY <1>1, <1>5, <1>6, <1>7

\* Whatever a step of the supervisor of t does with the queues of t, if it
\* keeps the number of places of each of t's commands then Placed holds after it.
Rearranges(t) ==
  /\ UNCHANGED commands
  /\ \A o \in Tasks \ {t} : pending'[o] = pending[o] /\ store'[o] = store[o]
  /\ inbox' \subseteq inbox /\ inbox \ inbox' \subseteq Queued(t)
  /\ reported \subseteq reported' /\ reported' \ reported \subseteq Queued(t)
  /\ QueuesOK'
  /\ \A c \in Ids : c \notin DOMAIN commands \/ commands[c].task # t =>
       /\ served'[c] = served[c]
       /\ Occurrences(pending'[t], c) = 0 /\ Occurrences(store'[t], c) = 0
  /\ \A c \in DOMAIN commands : commands[c].task = t => Places(c)' = Places(c)

LEMMA Rearranged ==
  ASSUME CommandsOK, Placed, NEW t \in Tasks, Rearranges(t)
  PROVE  Placed'
<1>1. commands' = commands /\ DOMAIN commands \subseteq Ids
  BY Numbers DEF Rearranges
<1>2. OwnOnly'
  <2>1. ASSUME NEW o \in Tasks, NEW c \in DOMAIN commands, commands[c].task # o
        PROVE  Occurrences(pending'[o], c) = 0 /\ Occurrences(store'[o], c) = 0
    <3>1. CASE o = t
      BY <1>1, <2>1, <3>1 DEF Rearranges
    <3>2. CASE o # t
      BY <2>1, <3>2 DEF Rearranges, Placed, OwnOnly
    <3>3. QED BY <3>1, <3>2
  <2>2. \A c \in Ids \ DOMAIN commands : served'[c] = 0
    BY DEF Rearranges, Placed, OwnOnly
  <2>3. QED BY <1>1, <2>1, <2>2 DEF OwnOnly
<1>3. ASSUME NEW c \in DOMAIN commands, commands[c].task # t PROVE Places(c)' = Places(c)
  <2>1. commands[c].task \in Tasks
    BY Terms DEF Placed
  <2>2. c \notin Queued(t)
    BY <1>3 DEF Queued
  <2>3. (c \in inbox' <=> c \in inbox) /\ (c \in reported' <=> c \in reported)
    BY <2>2 DEF Rearranges
  <2>4. served'[c] = served[c]
    BY <1>1, <1>3 DEF Rearranges
  <2>5. PICK o \in Tasks : o = commands[c].task
    BY <2>1
  <2>6. pending'[o] = pending[o] /\ store'[o] = store[o]
    BY <1>3, <2>5 DEF Rearranges
  <2>7. Places(c)' = (IF c \in inbox' THEN 1 ELSE 0) + (IF c \in reported' THEN 1 ELSE 0)
                     + served'[c] + Occurrences(pending'[o], c) + Occurrences(store'[o], c)
    BY <1>1, <2>5 DEF Places
  <2>8. Places(c) = (IF c \in inbox THEN 1 ELSE 0) + (IF c \in reported THEN 1 ELSE 0)
                     + served[c] + Occurrences(pending[o], c) + Occurrences(store[o], c)
    BY <2>5 DEF Places
  <2>9. QED BY <2>3, <2>4, <2>6, <2>7, <2>8
<1>4. \A c \in DOMAIN commands : Places(c)' = Places(c)
  BY <1>3 DEF Rearranges
<1>5. ExactlyOnce'
  BY <1>1, <1>4 DEF Placed, ExactlyOnce, Accepted
<1>6. QED BY <1>2, <1>5 DEF Placed, Rearranges

\* Carrying out a batch: one part is done, the rest is stored for the agents.
LEMMA ProcessRearranges ==
  ASSUME CommandsOK, Placed, NEW t \in Tasks, Process(t),
         inbox' = inbox \ Queued(t), UNCHANGED <<commands, reported>>
  PROVE  Rearranges(t)
<1> DEFINE D == DOMAIN commands
           done == Of(Batch(t), {"pause", "resume", "signal"})
           kept == Of(Batch(t), {"target", "context"})
<1>1. /\ QueuesOK /\ OwnOnly /\ D \subseteq Ids
      /\ pending[t] \in Seq(D) /\ store[t] \in Seq(D)
  BY Numbers DEF Placed, QueuesOK
<1>2. /\ Batch(t) \in Seq(D)
      /\ \A c \in D : /\ commands[c].task = t =>
                           Occurrences(Batch(t), c) = Occurrences(pending[t], c)
                                                      + (IF c \in inbox THEN 1 ELSE 0)
                      /\ commands[c].task # t => Occurrences(Batch(t), c) = 0
  BY <1>1, Batched
<1>3. /\ done \in Seq(D) /\ kept \in Seq(D)
      /\ \A c : /\ Occurrences(done, c) = IF commands[c].kind \in {"pause", "resume", "signal"}
                                          THEN Occurrences(Batch(t), c) ELSE 0
                /\ Occurrences(kept, c) = IF commands[c].kind \in {"target", "context"}
                                          THEN Occurrences(Batch(t), c) ELSE 0
  BY <1>2, Chosen
<1>4. /\ store[t] \o kept \in Seq(D)
      /\ \A c : Occurrences(store[t] \o kept, c) = Occurrences(store[t], c) + Occurrences(kept, c)
  BY <1>1, <1>3, Joins
<1>5. \A c : Occurrences(done, c) \in Nat /\ (c \notin D => Occurrences(done, c) = 0)
  BY <1>3, Counts
<1>6. <<>> \in Seq(D) /\ \A c : Occurrences(<<>>, c) = 0
  <2>1. <<>> \in Seq(D) /\ DOMAIN <<>> = {}
    OBVIOUS
  <2>2. \A c : {i \in DOMAIN <<>> : <<>>[i] = c} = {}
    BY <2>1
  <2>3. QED BY <2>1, <2>2, FS_EmptySet DEF Occurrences
<1>7. PICK kp : kp = store[t] \o kept
  OBVIOUS
<1>8. PICK dn : dn = [c \in Ids |-> Occurrences(done, c)]
  OBVIOUS
<1>9. /\ pending' = [pending EXCEPT ![t] = <<>>] /\ store' = [store EXCEPT ![t] = kp]
      /\ served' = [c \in Ids |-> served[c] + dn[c]]
  <2>1. \A c \in Ids : dn[c] = Occurrences(done, c)
    BY <1>8
  <2>2. served' = [c \in Ids |-> served[c] + Occurrences(done, c)]
    BY DEF Process
  <2>3. QED BY <1>7, <2>1, <2>2 DEF Process
<1> HIDE DEF done, kept
<1>10. QueuesOK'
  <2>1. kp \in Seq(D) /\ \A c \in Ids : dn[c] \in Nat
    BY <1>4, <1>5, <1>7, <1>8
  <2>2. D' = D /\ inbox' \subseteq inbox
    BY <1>1
  <2>3. served' \in [Ids -> Nat]
    BY <1>1, <1>9, <2>1 DEF QueuesOK
  <2>4. pending' \in [Tasks -> Seq(D)]
    BY <1>1, <1>6, <1>9 DEF QueuesOK
  <2>5. store' \in [Tasks -> Seq(D)]
    BY <1>1, <1>9, <2>1 DEF QueuesOK
  <2>6. QED BY <1>1, <2>2, <2>3, <2>4, <2>5 DEF QueuesOK
<1>11. /\ pending'[t] = <<>> /\ store'[t] = kp
       /\ \A o \in Tasks \ {t} : pending'[o] = pending[o] /\ store'[o] = store[o]
       /\ \A c \in Ids : served'[c] = served[c] + dn[c]
  BY <1>1, <1>9 DEF QueuesOK
<1>12. ASSUME NEW c \in Ids, c \notin D \/ commands[c].task # t
       PROVE  /\ served'[c] = served[c]
              /\ Occurrences(pending'[t], c) = 0 /\ Occurrences(store'[t], c) = 0
  <2>1. Occurrences(Batch(t), c) = 0
    BY <1>2, <1>12, Counts
  <2>2. Occurrences(store[t], c) = 0
    BY <1>1, <1>12, Counts DEF OwnOnly
  <2>3. Occurrences(done, c) = 0 /\ Occurrences(kept, c) = 0
    BY <1>3, <2>1
  <2>4. dn[c] = 0 /\ served[c] \in Nat
    BY <1>1, <1>8, <2>3 DEF QueuesOK
  <2>5. QED BY <1>4, <1>6, <1>7, <1>11, <2>2, <2>3, <2>4
<1>13. ASSUME NEW c \in D, commands[c].task = t PROVE Places(c)' = Places(c)
  <2>1. c \in inbox <=> c \in Queued(t)
    BY <1>13 DEF Queued
  <2>2. c \notin inbox' /\ c \in Ids
    BY <1>1, <2>1
  <2>3. /\ served[c] \in Nat /\ commands[c].kind \in AllKinds
        /\ Occurrences(pending[t], c) \in Nat /\ Occurrences(store[t], c) \in Nat
    BY <1>1, Terms
  <2>4. Occurrences(Batch(t), c) = Occurrences(pending[t], c) + (IF c \in inbox THEN 1 ELSE 0)
    BY <1>2, <1>13
  <2>5. dn[c] + Occurrences(kept, c) = Occurrences(Batch(t), c)
        /\ dn[c] \in Nat /\ Occurrences(kept, c) \in Nat
    BY <1>3, <1>8, <2>2, <2>3, <2>4 DEF AllKinds
  <2>6. Occurrences(store'[t], c) = Occurrences(store[t], c) + Occurrences(kept, c)
    BY <1>4, <1>7, <1>11
  <2>7. Places(c)' = 0 + (IF c \in reported THEN 1 ELSE 0) + (served[c] + dn[c])
                     + 0 + (Occurrences(store[t], c) + Occurrences(kept, c))
    BY <1>6, <1>11, <1>13, <2>2, <2>6 DEF Places
  <2>8. Places(c) = (IF c \in inbox THEN 1 ELSE 0) + (IF c \in reported THEN 1 ELSE 0)
                     + served[c] + Occurrences(pending[t], c) + Occurrences(store[t], c)
    BY <1>13 DEF Places
  <2>9. QED BY <2>3, <2>4, <2>5, <2>7, <2>8
<1>14. QED BY <1>10, <1>11, <1>12, <1>13 DEF Rearranges, Queued

\* Draining into the routing queue.
LEMMA RouteRearranges ==
  ASSUME CommandsOK, Placed, NEW t \in Tasks, pending' = [pending EXCEPT ![t] = Batch(t)],
         inbox' = inbox \ Queued(t), UNCHANGED <<commands, store, served, reported>>
  PROVE  Rearranges(t)
<1> DEFINE D == DOMAIN commands
<1>1. QueuesOK /\ OwnOnly /\ D \subseteq Ids /\ store[t] \in Seq(D)
  BY Numbers DEF Placed, QueuesOK
<1>2. PICK b : b = Batch(t)
  OBVIOUS
<1>3. /\ b \in Seq(D)
      /\ \A c \in D : /\ commands[c].task = t =>
                           Occurrences(b, c) = Occurrences(pending[t], c)
                                               + (IF c \in inbox THEN 1 ELSE 0)
                      /\ commands[c].task # t => Occurrences(b, c) = 0
  BY <1>1, <1>2, Batched
<1>4. /\ pending' = [pending EXCEPT ![t] = b] /\ pending'[t] = b
      /\ \A o \in Tasks \ {t} : pending'[o] = pending[o]
  BY <1>1, <1>2 DEF QueuesOK
<1>5. QueuesOK'
  BY <1>1, <1>3, <1>4 DEF QueuesOK
<1>6. ASSUME NEW c \in Ids, c \notin D \/ commands[c].task # t
      PROVE  Occurrences(pending'[t], c) = 0 /\ Occurrences(store'[t], c) = 0
  BY <1>1, <1>3, <1>4, <1>6, Counts DEF OwnOnly
<1>7. ASSUME NEW c \in D, commands[c].task = t PROVE Places(c)' = Places(c)
  <2>1. c \in inbox <=> c \in Queued(t)
    BY <1>7 DEF Queued
  <2>2. c \notin inbox'
    BY <2>1
  <2>3. /\ served[c] \in Nat
        /\ Occurrences(pending[t], c) \in Nat /\ Occurrences(store[t], c) \in Nat
    BY <1>1, Terms
  <2>4. Places(c)' = 0 + (IF c \in reported THEN 1 ELSE 0) + served[c]
                     + Occurrences(b, c) + Occurrences(store[t], c)
    BY <1>4, <1>7, <2>2 DEF Places
  <2>5. Places(c) = (IF c \in inbox THEN 1 ELSE 0) + (IF c \in reported THEN 1 ELSE 0)
                     + served[c] + Occurrences(pending[t], c) + Occurrences(store[t], c)
    BY <1>7 DEF Places
  <2>6. Occurrences(b, c) = Occurrences(pending[t], c) + (IF c \in inbox THEN 1 ELSE 0)
    BY <1>3, <1>7
  <2>7. QED BY <2>3, <2>4, <2>5, <2>6
<1>8. QED BY <1>4, <1>5, <1>6, <1>7 DEF Rearranges, Queued

\* Reporting what is left in the inbox.
LEMMA ReportRearranges ==
  ASSUME CommandsOK, Placed, NEW t \in Tasks, reported' = reported \union Queued(t),
         inbox' = inbox \ Queued(t), UNCHANGED <<commands, pending, store, served>>
  PROVE  Rearranges(t)
<1> DEFINE D == DOMAIN commands
<1>1. QueuesOK /\ OwnOnly /\ D \subseteq Ids
      /\ pending[t] \in Seq(D) /\ store[t] \in Seq(D)
  BY Numbers DEF Placed, QueuesOK
<1>2. Queued(t) \subseteq D
  BY DEF CommandsOK, Queued
<1>3. QueuesOK'
  BY <1>1, <1>2 DEF QueuesOK
<1>4. ASSUME NEW c \in Ids, c \notin D \/ commands[c].task # t
      PROVE  Occurrences(pending'[t], c) = 0 /\ Occurrences(store'[t], c) = 0
  BY <1>1, <1>4, Counts DEF OwnOnly
<1>5. ASSUME NEW c \in D, commands[c].task = t PROVE Places(c)' = Places(c)
  <2>1. c \in inbox <=> c \in Queued(t)
    BY <1>5 DEF Queued
  <2>2. /\ served[c] \in Nat
        /\ Occurrences(pending[t], c) \in Nat /\ Occurrences(store[t], c) \in Nat
    BY <1>1, Terms
  <2>3. Places(c)' = 0 + (IF c \in reported \/ c \in inbox THEN 1 ELSE 0) + served[c]
                     + Occurrences(pending[t], c) + Occurrences(store[t], c)
    BY <1>5, <2>1 DEF Places
  <2>4. Places(c) = (IF c \in inbox THEN 1 ELSE 0) + (IF c \in reported THEN 1 ELSE 0)
                     + served[c] + Occurrences(pending[t], c) + Occurrences(store[t], c)
    BY <1>5 DEF Places
  <2>5. Places(c) \in {0, 1}
    BY DEF Placed, ExactlyOnce
  <2>6. ~(c \in inbox /\ c \in reported)
    BY <2>2, <2>4, <2>5
  <2>7. QED BY <2>2, <2>3, <2>4, <2>6
<1>6. QED BY <1>3, <1>4, <1>5 DEF Rearranges, Queued

\* The agents of a task take all that is stored for it.
LEMMA TurnRearranges ==
  ASSUME CommandsOK, Placed, NEW t \in Tasks, AgentTurn(t)
  PROVE  Rearranges(t)
<1> DEFINE D == DOMAIN commands
<1>1. QueuesOK /\ OwnOnly /\ D \subseteq Ids
      /\ pending[t] \in Seq(D) /\ store[t] \in Seq(D)
  BY Numbers DEF Placed, QueuesOK
<1>2. PICK dn : dn = [c \in Ids |-> Occurrences(store[t], c)]
  OBVIOUS
<1>3. /\ store' = [store EXCEPT ![t] = <<>>]
      /\ served' = [c \in Ids |-> served[c] + dn[c]]
      /\ UNCHANGED <<commands, inbox, pending, reported>>
  <2>1. \A c \in Ids : dn[c] = Occurrences(store[t], c)
    BY <1>2
  <2>2. served' = [c \in Ids |-> served[c] + Occurrences(store[t], c)]
    BY DEF AgentTurn
  <2>3. QED BY <2>1, <2>2 DEF AgentTurn, bus
<1>4. <<>> \in Seq(D) /\ \A c : Occurrences(<<>>, c) = 0
  <2>1. <<>> \in Seq(D) /\ DOMAIN <<>> = {}
    OBVIOUS
  <2>2. \A c : {i \in DOMAIN <<>> : <<>>[i] = c} = {}
    BY <2>1
  <2>3. QED BY <2>1, <2>2, FS_EmptySet DEF Occurrences
<1>5. \A c \in Ids : dn[c] \in Nat /\ (c \notin D => dn[c] = 0)
  BY <1>1, <1>2, Counts
<1>6. QueuesOK'
  <2>1. served' \in [Ids -> Nat]
    BY <1>1, <1>3, <1>5 DEF QueuesOK
  <2>2. QED BY <1>1, <1>3, <1>4, <2>1 DEF QueuesOK
<1>7. /\ store'[t] = <<>> /\ \A o \in Tasks \ {t} : store'[o] = store[o]
      /\ \A c \in Ids : served'[c] = served[c] + dn[c] /\ served[c] \in Nat
  BY <1>1, <1>3 DEF QueuesOK
<1>8. ASSUME NEW c \in Ids, c \notin D \/ commands[c].task # t
      PROVE  /\ served'[c] = served[c]
             /\ Occurrences(pending'[t], c) = 0 /\ Occurrences(store'[t], c) = 0
  <2>1. Occurrences(pending[t], c) = 0 /\ Occurrences(store[t], c) = 0
    BY <1>1, <1>8, Counts DEF OwnOnly
  <2>2. QED BY <1>2, <1>3, <1>4, <1>7, <2>1
<1>9. ASSUME NEW c \in D, commands[c].task = t PROVE Places(c)' = Places(c)
  <2>1. /\ served[c] \in Nat /\ c \in Ids
        /\ Occurrences(pending[t], c) \in Nat /\ Occurrences(store[t], c) \in Nat
    BY <1>1, Terms
  <2>2. Places(c)' = (IF c \in inbox THEN 1 ELSE 0) + (IF c \in reported THEN 1 ELSE 0)
                     + (served[c] + Occurrences(store[t], c))
                     + Occurrences(pending[t], c) + 0
    BY <1>2, <1>3, <1>4, <1>7, <1>9, <2>1 DEF Places
  <2>3. Places(c) = (IF c \in inbox THEN 1 ELSE 0) + (IF c \in reported THEN 1 ELSE 0)
                     + served[c] + Occurrences(pending[t], c) + Occurrences(store[t], c)
    BY <1>9 DEF Places
  <2>4. QED BY <2>1, <2>2, <2>3
<1>10. QED BY <1>3, <1>6, <1>7, <1>8, <1>9 DEF Rearranges

\* A step of the supervisor or its agents that leaves the queues alone.
LEMMA NothingRearranged ==
  ASSUME CommandsOK, Placed, NEW t \in Tasks,
         UNCHANGED <<commands, inbox, pending, store, served, reported>>
  PROVE  Rearranges(t)
<1>1. QueuesOK /\ OwnOnly /\ DOMAIN commands \subseteq Ids
      /\ pending[t] \in Seq(DOMAIN commands) /\ store[t] \in Seq(DOMAIN commands)
  BY Numbers DEF Placed, QueuesOK
<1>2. QueuesOK'
  BY <1>1 DEF QueuesOK
<1>3. ASSUME NEW c \in Ids, c \notin DOMAIN commands \/ commands[c].task # t
      PROVE  Occurrences(pending'[t], c) = 0 /\ Occurrences(store'[t], c) = 0
  BY <1>1, <1>3, Counts DEF OwnOnly
<1>4. \A c : Places(c)' = Places(c)
  BY DEF Places
<1>5. QED BY <1>2, <1>3, <1>4 DEF Rearranges

LEMMA SupervisedPlaced ==
  ASSUME CommandsOK, Placed, NEW t \in Tasks, Supervise(t) \/ AgentTurn(t) \/ WriteWorkspace(t)
  PROVE  Rearranges(t)
<1> USE DEF queues, bus
<1>1. CASE Begin(t) \/ StartCycle(t)
  BY <1>1, NothingRearranged DEF Begin, StartCycle
<1>2. CASE PlanReady(t)
  BY <1>2, RouteRearranges DEF PlanReady
<1>3. CASE PlanningBlocked(t) \/ EndTask(t)
  BY <1>3, ReportRearranges DEF PlanningBlocked, EndTask, CloseAndReport, CloseAndTake
<1>4. CASE CheckNode(t) \/ WaitPaused(t) \/ AfterDag(t) \/ BeforeAcceptance(t)
  <2>1. \E from, pc : Check(t, from, pc)
    BY <1>4 DEF CheckNode, WaitPaused, AfterDag, BeforeAcceptance
  <2>2. /\ Process(t) /\ inbox' = inbox \ Queued(t)
        /\ UNCHANGED <<commands, reported>>
    BY <2>1 DEF Check
  <2>3. QED BY <2>2, ProcessRearranges
<1>5. CASE NodeDone(t) \/ Reconcile(t) \/ PlanFails(t) \/ PlanErrs(t) \/ Recover(t)
  BY <1>5, NothingRearranged DEF NodeDone, Reconcile, PlanFails, PlanErrs, Recover
<1>6. CASE TerminalGate(t)
  BY <1>6, ProcessRearranges DEF TerminalGate, CloseAndTake
<1>7. CASE Succeed(t)
  <2>1. /\ inbox' = inbox \ Queued(t)
        /\ UNCHANGED <<commands, store, served, reported>>
    BY <1>7 DEF Succeed, CloseAndTake
  <2>2. CASE Queued(t) = {} /\ UNCHANGED pending
    BY <2>1, <2>2, NothingRearranged
  <2>3. CASE pending' = [pending EXCEPT ![t] = Batch(t)]
    BY <2>1, <2>3, RouteRearranges
  <2>4. QED BY <1>7, <2>2, <2>3 DEF Succeed
<1>8. CASE AgentTurn(t)
  BY <1>8, TurnRearranges
<1>9. CASE WriteWorkspace(t)
  BY <1>9, NothingRearranged DEF WriteWorkspace
<1>10. QED BY <1>1, <1>2, <1>3, <1>4, <1>5, <1>6, <1>7, <1>8, <1>9 DEF Supervise

\* A number is drawn once, and its command is not answered before the call
\* that drew it has the lock.
Unanswered ==
  /\ \A u \in Users : drawn[u] # None => commands[drawn[u]].answer = "none"
  /\ \A u, v \in Users : drawn[u] = drawn[v] => u = v \/ drawn[u] = None

\* A further command is nowhere yet.
LEMMA SubmitPlaced ==
  ASSUME CommandsOK, Placed, Unanswered,
         NEW u \in Users, NEW t \in Tasks, NEW k \in Kinds, Submit(u, t, k)
  PROVE  Placed' /\ Unanswered'
<1>1. PICK r : r = [task |-> t, kind |-> k, answer |-> "none",
                    after |-> {c \in DOMAIN commands : commands[c].answer # "none"}]
  OBVIOUS
<1>2. PICK n : n = Len(commands) + 1
  OBVIOUS
<1>3. /\ DOMAIN commands = 1 .. Len(commands) /\ Len(commands) \in Nat
      /\ DOMAIN commands \subseteq Ids /\ MaxCommands \in Nat
      /\ \A c \in DOMAIN commands : commands[c] \in Command
  BY Numbers
<1>4. commands' = Append(commands, r) /\ Len(commands) < MaxCommands
  BY <1>1 DEF Submit
<1>5. /\ DOMAIN commands' = DOMAIN commands \union {n} /\ n \in Ids /\ n \notin DOMAIN commands
      /\ commands'[n] = r /\ r.task = t /\ r.answer = "none"
      /\ \A c \in DOMAIN commands : commands'[c] = commands[c]
  <2>1. PICK cs : cs = commands'
    OBVIOUS
  <2>2. commands \in Seq(Command) /\ cs = Append(commands, r)
    BY <1>4, <2>1 DEF CommandsOK
  <2>3. /\ DOMAIN cs = 1 .. n /\ cs[n] = r
        /\ \A c \in 1 .. Len(commands) : cs[c] = commands[c]
    BY <1>2, <1>3, <2>2
  <2>4. n \in Ids /\ 1 .. n = (1 .. Len(commands)) \union {n} /\ n \notin 1 .. Len(commands)
    BY <1>2, <1>3, <1>4 DEF Ids
  <2>5. r.task = t /\ r.answer = "none"
    BY <1>1
  <2>6. QED BY <1>3, <2>1, <2>3, <2>4, <2>5
<1>6. drawn' = [drawn EXCEPT ![u] = n]
      /\ UNCHANGED <<inbox, pending, store, served, reported>>
  BY <1>2 DEF Submit, queues
<1>7. QueuesOK'
  <2>1. DOMAIN commands \subseteq DOMAIN commands'
    BY <1>5
  <2>2. ASSUME NEW f \in [Tasks -> Seq(DOMAIN commands)] PROVE f \in [Tasks -> Seq(DOMAIN commands')]
    <3>1. PICK D : D = DOMAIN commands'
      OBVIOUS
    <3>2. \A o \in Tasks : f[o] \in Seq(D)
      BY <2>1, <3>1
    <3>3. QED BY <3>1, <3>2
  <2>3. QED BY <1>6, <2>1, <2>2 DEF Placed, QueuesOK
<1>8. ASSUME NEW o \in Tasks
      PROVE  Occurrences(pending[o], n) = 0 /\ Occurrences(store[o], n) = 0
  <2>1. pending[o] \in Seq(DOMAIN commands) /\ store[o] \in Seq(DOMAIN commands)
    BY DEF Placed, QueuesOK
  <2>2. QED BY <1>5, <2>1, Counts
<1>9. OwnOnly'
  <2>1. ASSUME NEW o \in Tasks, NEW c \in DOMAIN commands', commands'[c].task # o
        PROVE  Occurrences(pending[o], c) = 0 /\ Occurrences(store[o], c) = 0
    <3>1. CASE c = n
      BY <1>8, <3>1
    <3>2. CASE c \in DOMAIN commands
      BY <1>5, <2>1, <3>2 DEF Placed, OwnOnly
    <3>3. QED BY <1>5, <3>1, <3>2
  <2>2. \A c \in Ids \ DOMAIN commands' : served[c] = 0
    BY <1>5 DEF Placed, OwnOnly
  <2>3. QED BY <1>6, <2>1, <2>2 DEF OwnOnly
<1>10. ExactlyOnce'
  <2>1. ASSUME NEW c \in DOMAIN commands PROVE Places(c)' = Places(c)
    BY <1>5, <1>6 DEF Places
  <2>2. Places(n)' = 0
    <3>1. n \notin inbox /\ n \notin reported /\ served[n] = 0
      BY <1>5 DEF CommandsOK, Placed, QueuesOK, OwnOnly
    <3>2. Occurrences(pending[t], n) = 0 /\ Occurrences(store[t], n) = 0
      BY <1>8
    <3>3. QED BY <1>5, <1>6, <3>1, <3>2 DEF Places
  <2>3. \A c \in DOMAIN commands :
          Places(c)' = IF commands'[c].answer = "accepted" THEN 1 ELSE 0
    BY <1>5, <2>1 DEF Placed, ExactlyOnce, Accepted
  <2>4. \A c \in DOMAIN commands' :
          Places(c)' = IF commands'[c].answer = "accepted" THEN 1 ELSE 0
    BY <1>5, <2>2, <2>3
  <2>5. QED BY <2>4 DEF ExactlyOnce, Accepted
<1>11. Unanswered'
  <2>1. \A v \in Users : v # u => drawn'[v] = drawn[v]
    BY <1>6 DEF CommandsOK
  <2>2. drawn'[u] = n
    BY <1>6 DEF CommandsOK
  <2>3. \A v \in Users : drawn[v] # n
    BY <1>3, <1>5, <1>2 DEF CommandsOK, None
  <2>4. \A v \in Users : drawn[v] # None => drawn[v] \in DOMAIN commands
    BY DEF CommandsOK
  <2>5. QED BY <1>5, <2>1, <2>2, <2>3, <2>4 DEF Unanswered
<1>12. QED BY <1>7, <1>9, <1>10, <1>11 DEF Placed

\* An accepted command was nowhere and is in the inbox; one that is not
\* accepted stays nowhere.
LEMMA EnqueuePlaced ==
  ASSUME CommandsOK, Placed, Unanswered, NEW u \in Users, Enqueue(u)
  PROVE  Placed' /\ Unanswered'
<1>1. PICK c : c = drawn[u]
  OBVIOUS
<1>2. c \in DOMAIN commands /\ c # None
  BY <1>1 DEF Enqueue, CommandsOK
<1>3. PICK a : a = Answer(commands[c].task)
  OBVIOUS
<1>4. a \in {"accepted", "TaskClosed", "CapacityExceeded"}
  BY <1>3 DEF Answer
<1>5. /\ commands' = [commands EXCEPT ![c].answer = a]
      /\ inbox' = IF a = "accepted" THEN inbox \union {c} ELSE inbox
      /\ drawn' = [drawn EXCEPT ![u] = None]
      /\ UNCHANGED <<pending, store, served, reported>>
  BY <1>1, <1>3 DEF Enqueue, queues
<1>6. /\ DOMAIN commands' = DOMAIN commands /\ commands'[c].answer = a
      /\ \A d \in DOMAIN commands : commands'[d].task = commands[d].task
      /\ \A d \in DOMAIN commands \ {c} : commands'[d] = commands[d]
  <2>1. PICK ds : ds = commands'
    OBVIOUS
  <2>2. commands \in Seq(Command) /\ ds = [commands EXCEPT ![c].answer = a]
    BY <1>5, <2>1 DEF CommandsOK
  <2>3. /\ DOMAIN ds = DOMAIN commands /\ ds[c].answer = a
        /\ \A d \in DOMAIN commands : ds[d].task = commands[d].task
        /\ \A d \in DOMAIN commands \ {c} : ds[d] = commands[d]
    BY <1>2, <1>4, <2>2, Answered
  <2>4. QED BY <2>1, <2>3
<1>7. commands[c].answer = "none"
  BY <1>1, <1>2 DEF Unanswered
<1>8. QueuesOK'
  BY <1>5, <1>6 DEF Placed, QueuesOK
<1>9. OwnOnly'
  BY <1>5, <1>6 DEF Placed, OwnOnly
<1>10. Unanswered'
  <2>1. drawn'[u] = None /\ \A v \in Users \ {u} : drawn'[v] = drawn[v]
    BY <1>5 DEF CommandsOK
  <2>2. \A v \in Users : drawn[v] # None => drawn[v] \in DOMAIN commands
    BY DEF CommandsOK
  <2>3. \A v \in Users \ {u} : drawn[v] # c
    BY <1>1, <1>2 DEF Unanswered
  <2>4. QED BY <1>6, <2>1, <2>2, <2>3 DEF Unanswered
<1>11. ExactlyOnce'
  <2>1. ASSUME NEW d \in DOMAIN commands, d # c PROVE Places(d)' = Places(d)
    BY <1>5, <1>6, <2>1 DEF Places
  <2>2. Places(c)' = IF a = "accepted" THEN 1 ELSE 0
    <3>1. PICK o \in Tasks : o = commands[c].task
      BY <1>2, Terms DEF Placed
    <3>2. Places(c) = 0
      BY <1>2, <1>7 DEF Placed, ExactlyOnce, Accepted
    <3>3. Places(c) = (IF c \in inbox THEN 1 ELSE 0) + (IF c \in reported THEN 1 ELSE 0)
                      + served[c] + Occurrences(pending[o], c) + Occurrences(store[o], c)
      BY <3>1 DEF Places
    <3>4. Places(c)' = (IF c \in inbox' THEN 1 ELSE 0) + (IF c \in reported THEN 1 ELSE 0)
                      + served[c] + Occurrences(pending[o], c) + Occurrences(store[o], c)
      BY <1>2, <1>5, <1>6, <3>1 DEF Places
    <3>5. /\ served[c] \in Nat
          /\ Occurrences(pending[o], c) \in Nat /\ Occurrences(store[o], c) \in Nat
      BY <1>2, Terms DEF Placed
    <3>6. c \notin inbox
      BY <3>2, <3>3, <3>5
    <3>7. c \in inbox' <=> a = "accepted"
      BY <1>5, <3>6
    <3>8. QED BY <3>2, <3>3, <3>4, <3>5, <3>6, <3>7
  <2>3. \A d \in DOMAIN commands :
          Places(d)' = IF commands'[d].answer = "accepted" THEN 1 ELSE 0
    BY <1>6, <2>1, <2>2 DEF Placed, ExactlyOnce, Accepted
  <2>4. QED BY <1>6, <2>3 DEF ExactlyOnce, Accepted
<1>12. QED BY <1>8, <1>9, <1>10, <1>11 DEF Placed

(***************************************************************************)
(* The tombstones and the capacity.                                        *)
(***************************************************************************)
Bounded ==
  /\ Cardinality(inbox) <= Capacity
  /\ order \in Seq(Tasks) /\ Len(order) <= TombstoneLimit /\ IsInjective(order)
  /\ closed = Range(order)

LEMMA Limits == Capacity \in Nat /\ TombstoneLimit \in Nat \ {0}
  BY CommandInboxAssumption DEF TombstoneLimit

LEMMA OpenKeepsTombstones ==
  ASSUME Bounded, NEW t \in Tasks, Open(t)
  PROVE  /\ order' \in Seq(Tasks) /\ Len(order') <= TombstoneLimit
         /\ IsInjective(order') /\ closed' = Range(order')
<1>1. /\ Without(order, t) \in Seq(Tasks) /\ Len(Without(order, t)) <= Len(order)
      /\ IsInjective(Without(order, t)) /\ Range(Without(order, t)) = Range(order) \ {t}
  BY Leaves DEF Bounded
<1>2. Len(order) \in Nat /\ Len(Without(order, t)) \in Nat /\ Len(order) <= TombstoneLimit
  BY <1>1 DEF Bounded
<1>3. Len(Without(order, t)) <= TombstoneLimit
  BY <1>1, <1>2, Limits
<1>4. QED BY <1>1, <1>3 DEF Open, Bounded

\* A list of different tasks, one more at its end or one less at its front.
LEMMA Grows ==
  ASSUME NEW s \in Seq(Tasks), IsInjective(s), NEW t \in Tasks, t \notin Range(s)
  PROVE  /\ Append(s, t) \in Seq(Tasks) /\ Len(Append(s, t)) = Len(s) + 1
         /\ IsInjective(Append(s, t)) /\ Range(Append(s, t)) = Range(s) \union {t}
<1>1. PICK w : w = Append(s, t)
  OBVIOUS
<1>2. /\ w \in Seq(Tasks) /\ Len(w) = Len(s) + 1 /\ Len(s) \in Nat
      /\ DOMAIN s = 1 .. Len(s) /\ DOMAIN w = 1 .. Len(s) + 1
      /\ w[Len(s) + 1] = t /\ \A i \in 1 .. Len(s) : w[i] = s[i]
  BY <1>1
<1>3. \A i \in 1 .. Len(s) : s[i] # t
  BY <1>2 DEF Range
<1>4. IsInjective(w)
  BY <1>2, <1>3 DEF IsInjective
<1>5. Range(w) = Range(s) \union {t}
  <2>1. 1 .. Len(s) + 1 = (1 .. Len(s)) \union {Len(s) + 1}
    BY <1>2
  <2>2. QED BY <1>2, <2>1 DEF Range
<1>6. QED BY <1>1, <1>2, <1>4, <1>5

LEMMA Shrinks ==
  ASSUME NEW s \in Seq(Tasks), IsInjective(s), s # <<>>
  PROVE  /\ Tail(s) \in Seq(Tasks) /\ Len(Tail(s)) = Len(s) - 1
         /\ IsInjective(Tail(s)) /\ Range(Tail(s)) = Range(s) \ {Head(s)}
<1>1. PICK w : w = Tail(s)
  OBVIOUS
<1>2. /\ w \in Seq(Tasks) /\ Len(w) = Len(s) - 1 /\ Len(s) \in Nat \ {0}
      /\ DOMAIN s = 1 .. Len(s) /\ DOMAIN w = 1 .. Len(s) - 1
      /\ Head(s) = s[1] /\ \A i \in 1 .. Len(s) - 1 : w[i] = s[i + 1]
  BY <1>1
<1>3. \A i, j \in 1 .. Len(s) : s[i] = s[j] => i = j
  BY <1>2 DEF IsInjective
<1>4. IsInjective(w)
  <2>1. SUFFICES ASSUME NEW i \in 1 .. Len(s) - 1, NEW j \in 1 .. Len(s) - 1, w[i] = w[j]
                 PROVE  i = j
    BY <1>2 DEF IsInjective
  <2>2. i + 1 \in 1 .. Len(s) /\ j + 1 \in 1 .. Len(s) /\ s[i + 1] = s[j + 1]
    BY <1>2, <2>1
  <2>3. i + 1 = j + 1
    BY <1>3, <2>2
  <2>4. QED BY <2>3
<1>5. \A x : x \in Range(w) <=> x \in Range(s) /\ x # s[1]
  <2>1. ASSUME NEW i \in 1 .. Len(s) - 1 PROVE w[i] \in Range(s) /\ w[i] # s[1]
    <3>1. i + 1 \in 1 .. Len(s) /\ 1 \in 1 .. Len(s) /\ i + 1 # 1
      BY <1>2
    <3>2. QED BY <1>2, <1>3, <3>1 DEF Range
  <2>2. ASSUME NEW i \in 1 .. Len(s), s[i] # s[1] PROVE s[i] \in Range(w)
    <3>1. i - 1 \in 1 .. Len(s) - 1 /\ (i - 1) + 1 = i
      BY <1>2, <2>2
    <3>2. w[i - 1] = s[i]
      BY <1>2, <3>1
    <3>3. QED BY <1>2, <3>1, <3>2 DEF Range
  <2>3. QED BY <1>2, <2>1, <2>2 DEF Range
<1>6. QED BY <1>1, <1>2, <1>4, <1>5

LEMMA CloseKeepsTombstones ==
  ASSUME Bounded, NEW t \in Tasks, CloseAndTake(t)
  PROVE  /\ order' \in Seq(Tasks) /\ Len(order') <= TombstoneLimit
         /\ IsInjective(order') /\ closed' = Range(order')
<1>1. PICK g : g = IF t \in closed THEN order ELSE Append(order, t)
  OBVIOUS
<1>2. order \in Seq(Tasks) /\ Len(order) \in Nat /\ Len(order) <= TombstoneLimit
      /\ IsInjective(order) /\ closed = Range(order)
  BY DEF Bounded
<1>3. g \in Seq(Tasks) /\ IsInjective(g) /\ Range(g) = closed \union {t}
      /\ Len(g) \in Nat /\ Len(g) <= TombstoneLimit + 1
  BY <1>1, <1>2, Grows, Limits
<1>4. CASE Len(g) > TombstoneLimit
  <2>1. order' = Tail(g) /\ closed' = (closed \union {t}) \ {Head(g)}
    BY <1>1, <1>4 DEF CloseAndTake
  <2>2. g # <<>>
    BY <1>3, <1>4, Limits
  <2>3. /\ Tail(g) \in Seq(Tasks) /\ Len(Tail(g)) = Len(g) - 1
        /\ IsInjective(Tail(g)) /\ Range(Tail(g)) = Range(g) \ {Head(g)}
    BY <1>3, <2>2, Shrinks
  <2>4. QED BY <1>3, <2>1, <2>3, Limits
<1>5. CASE ~(Len(g) > TombstoneLimit)
  <2>1. order' = g /\ closed' = closed \union {t}
    BY <1>1, <1>5 DEF CloseAndTake
  <2>2. QED BY <1>3, <1>5, <2>1, Limits
<1>6. QED BY <1>4, <1>5

(***************************************************************************)
(* The supervisors.  A supervisor enters its next cycle only while it has  *)
(* one left.                                                               *)
(***************************************************************************)
SupervisorOver(D) ==
  [pc : Points, cycle : 0 .. MaxCycles, phase : {"running", "paused"},
   contract : {None} \union D, delivered : SUBSET D]
CycleLeft(r) ==
  /\ r.pc \in {"idle", "planning"} => r.cycle = 0
  /\ r.pc = "cycle" => r.cycle < MaxCycles
SupervisorsOK ==
  /\ sa \in [Tasks -> SupervisorOver(DOMAIN commands)]
  /\ \A t \in Tasks : CycleLeft(sa[t])

LEMMA Supervises ==
  ASSUME SupervisorsOK, NEW t \in Tasks, NEW r \in SupervisorOver(DOMAIN commands),
         CycleLeft(r), sa' = [sa EXCEPT ![t] = r], UNCHANGED commands
  PROVE  SupervisorsOK'
<1>1. sa' \in [Tasks -> SupervisorOver(DOMAIN commands)]
  BY DEF SupervisorsOK
<1>2. sa'[t] = r /\ \A o \in Tasks \ {t} : sa'[o] = sa[o]
  BY DEF SupervisorsOK
<1>3. ASSUME NEW o \in Tasks PROVE CycleLeft(sa'[o])
  BY <1>2 DEF SupervisorsOK
<1>4. QED BY <1>1, <1>3 DEF SupervisorsOK, CycleLeft, SupervisorOver

\* Moving on to another point, other than to the next cycle.
LEMMA Moves ==
  ASSUME SupervisorsOK, NEW t \in Tasks, NEW pc \in Points,
         pc = "cycle" => sa[t].cycle < MaxCycles, pc # "idle",
         pc = "planning" => sa[t].cycle = 0,
         sa' = [sa EXCEPT ![t].pc = pc], UNCHANGED commands
  PROVE  SupervisorsOK'
<1>1. sa[t] \in SupervisorOver(DOMAIN commands) /\ MaxCycles \in Nat
  BY CommandInboxAssumption DEF SupervisorsOK
<1>2. PICK r : r = [sa[t] EXCEPT !.pc = pc]
  OBVIOUS
<1>3. r \in SupervisorOver(DOMAIN commands) /\ r.pc = pc /\ r.cycle = sa[t].cycle
  BY <1>1, <1>2 DEF SupervisorOver
<1>4. CycleLeft(r)
  BY <1>3 DEF CycleLeft
<1>5. sa' = [sa EXCEPT ![t] = r]
  BY <1>2
<1>6. QED BY <1>3, <1>4, <1>5, Supervises

\* What a batch makes of the contract and the phase.
LEMMA Orders ==
  ASSUME CommandsOK, QueuesOK, OwnOnly, SupervisorsOK, NEW t \in Tasks
  PROVE  /\ NewContract(t) \in {None} \union DOMAIN commands
         /\ NewPhase(t) \in {"running", "paused"}
<1> DEFINE D == DOMAIN commands
           targets == Of(Batch(t), {"target"})
<1>1. targets \in Seq(D)
  BY Batched, Chosen
<1>2. sa[t].contract \in {None} \union D /\ sa[t].phase \in {"running", "paused"}
  BY DEF SupervisorsOK, SupervisorOver
<1>3. NewContract(t) = IF targets = <<>> THEN sa[t].contract ELSE Last(targets)
  BY DEF NewContract
<1> HIDE DEF targets, D
<1>4. targets # <<>> => Last(targets) \in D
  BY <1>1 DEF Last
<1>5. NewContract(t) \in {None} \union D
  BY <1>2, <1>3, <1>4
<1>6. NewPhase(t) \in {"running", "paused"}
  BY <1>2 DEF NewPhase
<1>7. QED BY <1>5, <1>6 DEF D

LEMMA AdvanceSupervises ==
  ASSUME CommandsOK, Placed, SupervisorsOK, NEW t \in Tasks,
         NEW pc \in Points \ {"idle", "planning", "cycle"}, Advance(t, pc), UNCHANGED commands
  PROVE  SupervisorsOK'
<1>1. sa[t] \in SupervisorOver(DOMAIN commands)
  BY DEF SupervisorsOK
<1>2. PICK k : k = NewContract(t)
  OBVIOUS
<1>3. PICK f : f = NewPhase(t)
  OBVIOUS
<1>4. k \in {None} \union DOMAIN commands /\ f \in {"running", "paused"}
  BY <1>2, <1>3, Orders DEF Placed
<1>5. PICK r : r = [[[sa[t] EXCEPT !.pc = pc] EXCEPT !.contract = k] EXCEPT !.phase = f]
  OBVIOUS
<1>6. r \in SupervisorOver(DOMAIN commands) /\ r.pc = pc
  BY <1>1, <1>4, <1>5 DEF SupervisorOver
<1>7. sa' = [sa EXCEPT ![t] = r]
  <2>1. sa' = [sa EXCEPT ![t].pc = pc, ![t].contract = k, ![t].phase = f]
    BY <1>2, <1>3 DEF Advance
  <2>2. sa \in [Tasks -> SupervisorOver(DOMAIN commands)]
    BY DEF SupervisorsOK
  <2>3. QED BY <1>5, <2>1, <2>2
<1>8. CycleLeft(r)
  BY <1>6 DEF CycleLeft
<1>9. QED BY <1>6, <1>7, <1>8, Supervises

LEMMA AfterPlanPoints ==
  ASSUME SupervisorsOK, NEW t \in Tasks, NEW pc \in AfterPlan(t)
  PROVE  pc \in {"cycle", "ending"} /\ (pc = "cycle" => sa[t].cycle < MaxCycles)
  BY DEF AfterPlan

LEMMA SupervisedSupervises ==
  ASSUME CommandsOK, Placed, SupervisorsOK, NEW t \in Tasks,
         Supervise(t) \/ AgentTurn(t) \/ WriteWorkspace(t)
  PROVE  SupervisorsOK'
<1>1. /\ sa[t] \in SupervisorOver(DOMAIN commands) /\ CycleLeft(sa[t])
      /\ MaxCycles \in Nat \ {0} /\ sa \in [Tasks -> SupervisorOver(DOMAIN commands)]
  BY CommandInboxAssumption DEF SupervisorsOK
<1>2. commands' = commands
  <2>1. Rearranges(t)
    BY SupervisedPlaced
  <2>2. QED BY <2>1 DEF Rearranges
<1>3. ASSUME NEW from, NEW pc \in Points \ {"idle", "planning", "cycle"}, Goto(t, from, pc)
      PROVE  SupervisorsOK'
  BY <1>2, <1>3, Moves DEF Goto
<1> USE DEF Points, Executing, AgentsRun, Ended
<1>4. CASE Begin(t)
  <2>1. sa[t].pc = "idle" /\ sa' = [sa EXCEPT ![t].pc = "planning"]
    BY <1>4 DEF Begin, Goto
  <2>2. QED BY <1>1, <1>2, <2>1, Moves DEF CycleLeft
<1>5. CASE PlanReady(t)
  <2>1. sa[t].pc = "planning" /\ sa' = [sa EXCEPT ![t].pc = "cycle"]
    BY <1>5 DEF PlanReady, Goto
  <2>2. sa[t].cycle < MaxCycles
    BY <1>1, <2>1 DEF CycleLeft
  <2>3. QED BY <1>2, <2>1, <2>2, Moves
<1>6. CASE PlanningBlocked(t) \/ EndTask(t)
  BY <1>3, <1>6 DEF PlanningBlocked, EndTask, CloseAndReport
<1>7. CASE StartCycle(t)
  <2>1. CASE sa' = [sa EXCEPT ![t].pc = "ending"]
    BY <1>2, <2>1, Moves
  <2>2. CASE sa' = [sa EXCEPT ![t].pc = "node", ![t].cycle = @ + 1,
                              ![t].phase = "running", ![t].delivered = {}]
    <3>1. PICK n : n = sa[t].cycle + 1
      OBVIOUS
    <3>2. n \in 0 .. MaxCycles
      <4>1. sa[t].pc = "cycle"
        BY <1>7 DEF StartCycle
      <4>2. sa[t].cycle \in 0 .. MaxCycles
        BY <1>1 DEF SupervisorOver
      <4>3. QED BY <1>1, <3>1, <4>1, <4>2 DEF CycleLeft
    <3>3. PICK r : r = [[[[sa[t] EXCEPT !.pc = "node"] EXCEPT !.cycle = n]
                        EXCEPT !.phase = "running"] EXCEPT !.delivered = {}]
      OBVIOUS
    <3>4. r \in SupervisorOver(DOMAIN commands) /\ r.pc = "node"
      BY <1>1, <3>2, <3>3 DEF SupervisorOver
    <3>5. sa' = [sa EXCEPT ![t] = r]
      BY <1>1, <2>2, <3>1, <3>3 DEF SupervisorOver
    <3>6. CycleLeft(r)
      BY <3>4 DEF CycleLeft
    <3>7. QED BY <1>2, <3>4, <3>5, <3>6, Supervises
  <2>3. QED BY <1>7, <2>1, <2>2 DEF StartCycle
<1>8. CASE CheckNode(t) \/ WaitPaused(t) \/ AfterDag(t) \/ BeforeAcceptance(t)
  <2>1. \E pc \in {"paused", "agents", "deliver", "redeliver"} : Advance(t, pc)
    BY <1>8 DEF CheckNode, WaitPaused, AfterDag, BeforeAcceptance, Check
  <2>2. QED BY <1>2, <2>1, AdvanceSupervises
<1>9. CASE NodeDone(t) \/ PlanFails(t) \/ PlanErrs(t)
  BY <1>3, <1>9 DEF NodeDone, PlanFails, PlanErrs
<1>10. CASE Reconcile(t)
  <2>1. PICK pc : pc = IF sa[t].pc = "deliver" THEN "correct" ELSE "accept"
    OBVIOUS
  <2>2. PICK ds : ds = sa[t].delivered \union ({sa[t].contract} \ {None})
    OBVIOUS
  <2>3. ds \in SUBSET DOMAIN commands
    BY <1>1, <2>2 DEF SupervisorOver
  <2>4. PICK r : r = [[sa[t] EXCEPT !.pc = pc] EXCEPT !.delivered = ds]
    OBVIOUS
  <2>5. r \in SupervisorOver(DOMAIN commands) /\ r.pc \in {"correct", "accept"}
    BY <1>1, <2>1, <2>3, <2>4 DEF SupervisorOver
  <2>6. sa' = [sa EXCEPT ![t] = r]
    BY <1>1, <1>10, <2>1, <2>2, <2>4 DEF Reconcile, SupervisorOver
  <2>7. CycleLeft(r)
    BY <2>5 DEF CycleLeft
  <2>8. QED BY <1>2, <2>5, <2>6, <2>7, Supervises
<1>11. CASE TerminalGate(t)
  <2>1. \E pc \in {"passed", "failed"} : Advance(t, pc)
    BY <1>11 DEF TerminalGate
  <2>2. QED BY <1>2, <2>1, AdvanceSupervises
<1>12. CASE Succeed(t)
  <2>1. \E pc \in Points : /\ Goto(t, "passed", pc) /\ pc \in {"success", "cycle", "ending"}
                           /\ pc = "cycle" => sa[t].cycle < MaxCycles
    BY <1>12 DEF Succeed
  <2>2. QED BY <1>2, <2>1, Moves DEF Goto
<1>13. CASE Recover(t)
  <2>1. PICK from \in {"failed", "passed"}, pc \in AfterPlan(t) : Goto(t, from, pc)
    BY <1>13 DEF Recover
  <2>2. pc \in {"cycle", "ending"} /\ (pc = "cycle" => sa[t].cycle < MaxCycles)
    BY AfterPlanPoints
  <2>3. sa' = [sa EXCEPT ![t].pc = pc]
    BY <2>1 DEF Goto
  <2>4. QED BY <1>2, <2>2, <2>3, Moves
<1>14. CASE AgentTurn(t)
  <2>1. sa' = sa
    BY <1>14 DEF AgentTurn
  <2>2. QED BY <1>2, <2>1 DEF SupervisorsOK, CycleLeft
<1>15. CASE WriteWorkspace(t)
  <2>1. PICK ds \in {sa[t].delivered \union {sa[t].contract}, sa[t].delivered \ {sa[t].contract}} :
             sa' = [sa EXCEPT ![t].delivered = ds]
    BY <1>15 DEF WriteWorkspace
  <2>2. ds \in SUBSET DOMAIN commands
    BY <1>1, <1>15 DEF WriteWorkspace, SupervisorOver
  <2>3. PICK r : r = [sa[t] EXCEPT !.delivered = ds]
    OBVIOUS
  <2>4. r \in SupervisorOver(DOMAIN commands) /\ r.pc = sa[t].pc /\ r.cycle = sa[t].cycle
    BY <1>1, <2>2, <2>3 DEF SupervisorOver
  <2>5. CycleLeft(r)
    BY <1>1, <2>4 DEF CycleLeft
  <2>6. sa' = [sa EXCEPT ![t] = r]
    BY <2>1, <2>3
  <2>7. QED BY <1>2, <2>4, <2>5, <2>6, Supervises
<1>16. QED BY <1>4, <1>5, <1>6, <1>7, <1>8, <1>9, <1>10, <1>11, <1>12, <1>13, <1>14, <1>15
       DEF Supervise


DeliveryInv == Bounded /\ Placed /\ Unanswered /\ SupervisorsOK

LEMMA InitDelivery == Init => DeliveryInv
<1> SUFFICES ASSUME Init PROVE DeliveryInv
  OBVIOUS
<1>1. Cardinality({}) = 0
  BY FS_EmptySet
<1>2. commands = <<>> /\ DOMAIN commands = {} /\ <<>> \in Seq(Tasks) /\ Len(<<>>) = 0
  BY DEF Init
<1>3. Bounded
  <2>1. order = <<>> /\ closed = {} /\ inbox = {}
    BY DEF Init
  <2>2. IsInjective(<<>>) /\ Range(<<>>) = {}
    BY DEF IsInjective, Range
  <2>3. QED BY <1>1, <1>2, <2>1, <2>2, Limits DEF Bounded
<1>4. Placed
  <2>1. QueuesOK
    BY <1>2 DEF Init, QueuesOK
  <2>2. OwnOnly
    BY <1>2 DEF Init, OwnOnly
  <2>3. ExactlyOnce
    BY <1>2 DEF ExactlyOnce
  <2>4. QED BY <2>1, <2>2, <2>3 DEF Placed
<1>5. Unanswered
  BY DEF Init, Unanswered
<1>6. SupervisorsOK
  BY CommandInboxAssumption
     DEF Init, SupervisorsOK, SupervisorOver, CycleLeft, Points, None
<1>7. QED BY <1>3, <1>4, <1>5, <1>6 DEF DeliveryInv

\* Fewer commands in the inbox stay within the capacity.
LEMMA FewerFit ==
  ASSUME CommandsOK, Cardinality(inbox) <= Capacity, NEW S, S \subseteq inbox
  PROVE  Cardinality(S) <= Capacity
<1>1. IsFiniteSet(DOMAIN commands) /\ inbox \in SUBSET DOMAIN commands
  BY Numbers DEF CommandsOK
<1>2. IsFiniteSet(inbox)
  BY <1>1, FS_Subset
<1>3. /\ Cardinality(S) <= Cardinality(inbox)
      /\ Cardinality(S) \in Nat /\ Cardinality(inbox) \in Nat
  BY <1>2, FS_Subset, FS_CardinalityType
<1>4. QED BY <1>3, Limits

LEMMA SuperviseTombstones ==
  ASSUME Bounded, NEW t \in Tasks, Supervise(t) \/ AgentTurn(t) \/ WriteWorkspace(t)
  PROVE  Open(t) \/ CloseAndTake(t) \/ UNCHANGED tombstones
<1> USE DEF bus
<1>1. CASE Begin(t) \/ StartCycle(t)
  BY <1>1 DEF Begin, StartCycle
<1>2. CASE PlanningBlocked(t) \/ EndTask(t) \/ TerminalGate(t) \/ Succeed(t)
  BY <1>2 DEF PlanningBlocked, EndTask, CloseAndReport, TerminalGate, Succeed
<1>3. CASE PlanReady(t)
  BY <1>3 DEF PlanReady
<1>4. CASE CheckNode(t) \/ WaitPaused(t) \/ AfterDag(t) \/ BeforeAcceptance(t)
  BY <1>4 DEF CheckNode, WaitPaused, AfterDag, BeforeAcceptance, Check
<1>5. CASE NodeDone(t) \/ Reconcile(t) \/ PlanFails(t) \/ PlanErrs(t) \/ Recover(t)
  BY <1>5 DEF NodeDone, Reconcile, PlanFails, PlanErrs, Recover
<1>6. CASE AgentTurn(t) \/ WriteWorkspace(t)
  BY <1>6 DEF AgentTurn, WriteWorkspace
<1>7. QED BY <1>1, <1>2, <1>3, <1>4, <1>5, <1>6 DEF Supervise

LEMMA SuperviseDelivery ==
  ASSUME CommandsOK, DeliveryInv, NEW t \in Tasks,
         Supervise(t) \/ AgentTurn(t) \/ WriteWorkspace(t)
  PROVE  DeliveryInv'
<1>1. Bounded /\ Placed /\ Unanswered /\ SupervisorsOK
  BY DEF DeliveryInv
<1>2. Rearranges(t)
  BY <1>1, SupervisedPlaced
<1>3. Placed'
  BY <1>1, <1>2, Rearranged
<1>4. SupervisorsOK'
  BY <1>1, SupervisedSupervises
<1>5. UNCHANGED <<commands, drawn>>
  <2>1. Takes
    BY SuperviseTakes
  <2>2. QED BY <2>1 DEF Takes
<1>6. Unanswered'
  BY <1>1, <1>5 DEF Unanswered
<1>7. Bounded'
  <2>1. Cardinality(inbox') <= Capacity
    BY <1>1, <1>2, FewerFit DEF Bounded, Rearranges
  <2>2. /\ order' \in Seq(Tasks) /\ Len(order') <= TombstoneLimit
        /\ IsInjective(order') /\ closed' = Range(order')
    <3>1. CASE Open(t)
      BY <1>1, <3>1, OpenKeepsTombstones
    <3>2. CASE CloseAndTake(t)
      BY <1>1, <3>2, CloseKeepsTombstones
    <3>3. CASE UNCHANGED tombstones
      BY <1>1, <3>3 DEF Bounded, tombstones
    <3>4. QED BY <1>1, <3>1, <3>2, <3>3, SuperviseTombstones
  <2>3. QED BY <2>1, <2>2 DEF Bounded
<1>8. QED BY <1>3, <1>4, <1>6, <1>7 DEF DeliveryInv

LEMMA SubmitDelivery ==
  ASSUME CommandsOK, DeliveryInv,
         NEW u \in Users, NEW t \in Tasks, NEW k \in Kinds, Submit(u, t, k)
  PROVE  DeliveryInv'
<1>1. Bounded /\ Placed /\ Unanswered /\ SupervisorsOK
  BY DEF DeliveryInv
<1>2. Placed' /\ Unanswered'
  BY <1>1, SubmitPlaced
<1>3. UNCHANGED <<inbox, closed, order, sa>>
  BY DEF Submit, tombstones
<1>4. DOMAIN commands \subseteq DOMAIN commands'
  <2>1. PICK r : commands' = Append(commands, r)
    BY DEF Submit
  <2>2. DOMAIN commands = 1 .. Len(commands) /\ Len(commands) \in Nat
    BY Numbers
  <2>3. DOMAIN Append(commands, r) = 1 .. Len(commands) + 1
    BY DEF CommandsOK
  <2>4. QED BY <2>1, <2>2, <2>3
<1>5. SupervisorsOK'
  <2>1. ASSUME NEW o \in Tasks PROVE sa[o] \in SupervisorOver(DOMAIN commands')
    <3>1. sa[o] \in SupervisorOver(DOMAIN commands)
      BY <1>1 DEF SupervisorsOK
    <3>2. QED BY <1>4, <3>1 DEF SupervisorOver
  <2>2. sa \in [Tasks -> SupervisorOver(DOMAIN commands')]
    BY <1>1, <2>1 DEF SupervisorsOK
  <2>3. QED BY <1>1, <1>3, <2>2 DEF SupervisorsOK, SupervisorOver, CycleLeft
<1>6. Bounded'
  BY <1>1, <1>3 DEF Bounded, TombstoneLimit
<1>7. QED BY <1>2, <1>5, <1>6 DEF DeliveryInv

LEMMA EnqueueDelivery ==
  ASSUME CommandsOK, DeliveryInv, NEW u \in Users, Enqueue(u)
  PROVE  DeliveryInv'
<1>1. Bounded /\ Placed /\ Unanswered /\ SupervisorsOK
  BY DEF DeliveryInv
<1>2. Placed' /\ Unanswered'
  BY <1>1, EnqueuePlaced
<1>3. PICK c : c = drawn[u]
  OBVIOUS
<1>4. PICK a : a = Answer(commands[c].task)
  OBVIOUS
<1>5. /\ c \in DOMAIN commands
      /\ commands' = [commands EXCEPT ![c].answer = a]
      /\ inbox' = IF a = "accepted" THEN inbox \union {c} ELSE inbox
      /\ UNCHANGED <<closed, order, sa>>
  BY <1>3, <1>4 DEF Enqueue, tombstones, CommandsOK
<1>6. DOMAIN commands' = DOMAIN commands
  BY <1>5
<1>7. SupervisorsOK'
  BY <1>1, <1>5, <1>6 DEF SupervisorsOK, SupervisorOver, CycleLeft
<1>8. Cardinality(inbox') <= Capacity
  <2>1. CASE a = "accepted"
    <3>1. ~(Cardinality(inbox) >= Capacity)
      BY <1>4, <2>1 DEF Answer
    <3>2. IsFiniteSet(inbox)
      <4>1. IsFiniteSet(DOMAIN commands) /\ inbox \in SUBSET DOMAIN commands
        BY Numbers DEF CommandsOK
      <4>2. QED BY <4>1, FS_Subset
    <3>3. Cardinality(inbox \union {c}) <= Cardinality(inbox) + 1 /\ Cardinality(inbox) \in Nat
          /\ Cardinality(inbox \union {c}) \in Nat
      <4>1. IsFiniteSet(inbox \union {c}) /\ Cardinality(inbox) \in Nat
        BY <3>2, FS_AddElement, FS_CardinalityType
      <4>2. Cardinality(inbox \union {c})
              = IF c \in inbox THEN Cardinality(inbox) ELSE Cardinality(inbox) + 1
        BY <3>2, FS_AddElement
      <4>3. QED BY <4>1, <4>2
    <3>4. QED BY <1>5, <2>1, <3>1, <3>3, Limits
  <2>2. CASE a # "accepted"
    BY <1>1, <1>5, <2>2 DEF Bounded
  <2>3. QED BY <2>1, <2>2
<1>9. Bounded'
  BY <1>1, <1>5, <1>8 DEF Bounded, TombstoneLimit
<1>10. QED BY <1>2, <1>7, <1>9 DEF DeliveryInv

LEMMA StepDelivery == CommandsOK /\ DeliveryInv /\ [Next]_vars => DeliveryInv'
<1> SUFFICES ASSUME CommandsOK, DeliveryInv, [Next]_vars PROVE DeliveryInv'
  OBVIOUS
<1>1. ASSUME NEW u \in Users, NEW t \in Tasks, NEW k \in Kinds, Submit(u, t, k)
      PROVE  DeliveryInv'
  BY <1>1, SubmitDelivery
<1>2. ASSUME NEW u \in Users, Enqueue(u) PROVE DeliveryInv'
  BY <1>2, EnqueueDelivery
<1>3. ASSUME NEW t \in Tasks, Supervise(t) \/ AgentTurn(t) \/ WriteWorkspace(t)
      PROVE  DeliveryInv'
  BY <1>3, SuperviseDelivery
<1>4. CASE UNCHANGED vars
  <2>1. UNCHANGED <<commands, drawn, inbox, closed, order, pending, store, served, reported, sa>>
    BY <1>4 DEF vars, bus, tombstones, queues
  <2>2. Bounded'
    BY <2>1 DEF DeliveryInv, Bounded, TombstoneLimit
  <2>3. Unanswered' /\ SupervisorsOK'
    BY <2>1 DEF DeliveryInv, Unanswered, SupervisorsOK, SupervisorOver, CycleLeft
  <2>4. QueuesOK' /\ OwnOnly'
    BY <2>1 DEF DeliveryInv, Placed, QueuesOK, OwnOnly
  <2>5. ExactlyOnce'
    BY <2>1 DEF DeliveryInv, Placed, ExactlyOnce, Places, Accepted
  <2>6. QED BY <2>2, <2>3, <2>4, <2>5 DEF DeliveryInv, Placed
<1>5. QED BY <1>1, <1>2, <1>3, <1>4 DEF Next

LEMMA DeliveryInvariant == Spec => []DeliveryInv
<1>1. InboxInv => CommandsOK
  BY DEF InboxInv
<1>2. QED BY <1>1, InitDelivery, StepDelivery, InboxInvariant, PTL DEF Spec

\* Types, the capacity of the inbox and the limit on tombstones hold whatever
\* the number of tasks, users and commands.
THEOREM InboxTypes == Spec => []TypeOK
<1>1. InboxInv /\ DeliveryInv => TypeOK
  BY DEF InboxInv, DeliveryInv, CommandsOK, Bounded, Placed, QueuesOK, SupervisorsOK,
         SupervisorOver, TypeOK
<1>2. QED BY <1>1, InboxInvariant, DeliveryInvariant, PTL

\* No accepted command is lost or carried out twice, and a rejected one is
\* never carried out.
THEOREM AcceptedExactlyOnce == Spec => []ExactlyOnce
<1>1. DeliveryInv => ExactlyOnce
  BY DEF DeliveryInv, Placed
<1>2. QED BY <1>1, DeliveryInvariant, PTL

(***************************************************************************)
(* The order of commands.  c supersedes only what its user saw answered    *)
(* before submitting it: commands[c].after.                                *)
(***************************************************************************)
\* Taken from the inbox by the supervisor of t, and of these what it has
\* carried out or stored.
Drained(t) == Accepted(t) \ (inbox \union reported)
Handled(t) == Drained(t) \ Range(pending[t])
Sorted(s) == \A i, j \in DOMAIN s : i <= j => s[j] \notin commands[s[i]].after

AfterOK ==
  \A c \in DOMAIN commands : \A d \in commands[c].after :
    d \in DOMAIN commands /\ d < c /\ commands[d].answer # "none"
OrderFor(t) ==
  /\ \A x \in Drained(t), y \in Queued(t) : y \notin commands[x].after
  /\ Sorted(pending[t])
  /\ \A x \in Handled(t), y \in Range(pending[t]) : y \notin commands[x].after
  /\ \A x \in Handled(t) : commands[x].kind = "target" =>
       sa[t].contract # None /\ sa[t].contract \notin commands[x].after
  /\ sa[t].pc \notin {"blocked", "failure"} => \A c \in reported : commands[c].task # t
  /\ sa[t].pc \in {"passed", "success"} => sa[t].contract \in sa[t].delivered \union {None}
OrderInv == AfterOK /\ \A t \in Tasks : OrderFor(t)

\* InOrder is increasing.
LEMMA Increases ==
  ASSUME NEW S \in SUBSET Nat, IsFiniteSet(S),
         NEW i \in 1 .. Cardinality(S), NEW j \in 1 .. Cardinality(S), i < j
  PROVE  InOrder(S)[i] < InOrder(S)[j]
<1>1. PICK n \in Nat : n = Cardinality(S)
  BY FS_CardinalityType
<1>2. PICK r : r = [c \in S |-> Cardinality({d \in S : d <= c})]
  OBVIOUS
<1>3. r \in Bijection(S, 1 .. n)
  BY <1>1, <1>2, Ranks
<1>4. \A k \in 1 .. n : \E c \in S : r[c] = k
  BY <1>3 DEF Bijection, Surjection
<1>5. PICK q : q = InOrder(S)
  OBVIOUS
<1>6. ASSUME NEW k \in 1 .. n
      PROVE  q[k] \in S /\ Cardinality({d \in S : d <= q[k]}) = k
  <2>1. q[k] = CHOOSE c \in S : Cardinality({d \in S : d <= c}) = k
    BY <1>1, <1>5 DEF InOrder
  <2>2. \E c \in S : Cardinality({d \in S : d <= c}) = k
    BY <1>2, <1>4
  <2>3. QED BY <2>1, <2>2, Zenon
<1>7. PICK a \in S, b \in S : a = q[i] /\ b = q[j]
  BY <1>1, <1>6
<1>8. Cardinality({d \in S : d <= a}) = i /\ Cardinality({d \in S : d <= b}) = j
  BY <1>1, <1>6, <1>7
<1>9. ~(b <= a)
  <2>1. SUFFICES ASSUME b <= a PROVE FALSE
    OBVIOUS
  <2>2. a \in Nat /\ b \in Nat /\ \A d \in S : d \in Nat
    OBVIOUS
  <2>3. \A d \in S : d <= b => d <= a
    BY <2>1, <2>2
  <2>4. {d \in S : d <= b} \in SUBSET {d \in S : d <= a}
    BY <2>3, Zenon
  <2>5. IsFiniteSet({d \in S : d <= a})
    <3>1. {d \in S : d <= a} \in SUBSET S
      OBVIOUS
    <3>2. QED BY <3>1, FS_Subset
  <2>6. Cardinality({d \in S : d <= b}) <= Cardinality({d \in S : d <= a})
    BY <2>4, <2>5, FS_Subset
  <2>7. i \in Nat /\ j \in Nat
    BY <1>1
  <2>8. QED BY <1>8, <2>6, <2>7
<1>10. a < b
  BY <1>9
<1>11. QED BY <1>5, <1>7, <1>10

\* Selection keeps the order: the last element selected is at the last place.
LEMMA LastSelected ==
  ASSUME NEW D, NEW s \in Seq(D), NEW places \in SUBSET DOMAIN s, At(s, places) # <<>>
  PROVE  \E k \in places : Last(At(s, places)) = s[k] /\ \A i \in places : i <= k
<1>1. DOMAIN s = 1 .. Len(s) /\ Len(s) \in Nat
  OBVIOUS
<1>2. IsFiniteSet(1 .. Len(s)) /\ places \in SUBSET Nat /\ places \in SUBSET (1 .. Len(s))
  BY <1>1, FS_Interval
<1>3. IsFiniteSet(places)
  BY <1>2, FS_Subset
<1>4. PICK n \in Nat : n = Cardinality(places)
  BY <1>3, FS_CardinalityType
<1>5. PICK q : q = InOrder(places)
  OBVIOUS
<1>6. /\ q \in [1 .. n -> places]
      /\ \A c \in places : \E i \in 1 .. n : q[i] = c
  BY <1>2, <1>3, <1>4, <1>5, Enumerates
<1>7. \A i, j \in 1 .. n : i < j => q[i] < q[j]
  BY <1>2, <1>3, <1>4, <1>5, Increases
<1>8. PICK w : w = At(s, places)
  OBVIOUS
<1>9. w = [j \in 1 .. n |-> s[q[j]]] /\ w \in Seq(D)
  BY <1>4, <1>5, <1>8, Selects DEF At
<1>10. Len(w) = n /\ n # 0
  BY <1>8, <1>9
<1>11. Last(w) = s[q[n]] /\ q[n] \in places
  BY <1>6, <1>9, <1>10 DEF Last
<1>12. ASSUME NEW i \in places PROVE i <= q[n]
  <2>1. PICK j \in 1 .. n : q[j] = i
    BY <1>6
  <2>2. j = n \/ j < n
    OBVIOUS
  <2>3. q[n] \in Nat /\ i \in Nat
    BY <1>2, <1>11
  <2>4. n \in 1 .. n
    BY <1>10
  <2>5. QED BY <1>7, <2>1, <2>2, <2>3, <2>4
<1>13. QED BY <1>8, <1>11, <1>12

\* The places of a command exclude each other.
LEMMA OnePlace ==
  ASSUME CommandsOK, Placed, NEW c \in DOMAIN commands, NEW t \in Tasks
  PROVE  /\ c \in inbox => commands[c].answer = "accepted" /\ c \notin reported
                           /\ c \notin Range(pending[t])
         /\ c \in Range(pending[t]) => /\ commands[c].answer = "accepted" /\ commands[c].task = t
                                       /\ c \notin inbox /\ c \notin reported
<1>1. PICK o \in Tasks : o = commands[c].task
  BY Terms DEF Placed
<1>2. /\ served[c] \in Nat
      /\ Occurrences(pending[o], c) \in Nat /\ Occurrences(store[o], c) \in Nat
  BY Terms DEF Placed
<1>3. Places(c) = (IF c \in inbox THEN 1 ELSE 0) + (IF c \in reported THEN 1 ELSE 0)
                  + served[c] + Occurrences(pending[o], c) + Occurrences(store[o], c)
  BY <1>1 DEF Places
<1>4. Places(c) = IF commands[c].answer = "accepted" THEN 1 ELSE 0
  BY DEF Placed, ExactlyOnce, Accepted
<1>5. pending[t] \in Seq(DOMAIN commands)
  BY DEF Placed, QueuesOK
<1>6. c \in Range(pending[t]) <=> Occurrences(pending[t], c) # 0
  BY <1>5, Counts DEF Range
<1>7. c \in Range(pending[t]) => o = t
  BY <1>1, <1>6 DEF Placed, OwnOnly
<1>8. ASSUME c \in inbox
      PROVE  commands[c].answer = "accepted" /\ c \notin reported /\ Occurrences(pending[o], c) = 0
  BY <1>2, <1>3, <1>4, <1>8
<1>9. ASSUME Occurrences(pending[o], c) # 0
      PROVE  commands[c].answer = "accepted" /\ c \notin reported /\ c \notin inbox
  BY <1>2, <1>3, <1>4, <1>9
<1>10. QED BY <1>1, <1>6, <1>7, <1>8, <1>9

\* Draining keeps the order: what is claimed is claimed in the order of the
\* numbers, and nothing pending supersedes it.
LEMMA SortedBatch ==
  ASSUME CommandsOK, Placed, AfterOK, NEW t \in Tasks, OrderFor(t)
  PROVE  /\ Batch(t) \in Seq(DOMAIN commands) /\ Sorted(Batch(t))
         /\ Range(Batch(t)) = Range(pending[t]) \union Queued(t)
<1>1. PICK D : D = DOMAIN commands
  OBVIOUS
<1>2. D \in SUBSET Nat /\ IsFiniteSet(D) /\ inbox \subseteq D
  BY <1>1, Numbers DEF CommandsOK
<1>3. PICK S : S = Queued(t)
  OBVIOUS
<1>4. S \in SUBSET D /\ S \in SUBSET Nat /\ S \subseteq inbox
  BY <1>2, <1>3 DEF Queued
<1>5. IsFiniteSet(S)
  BY <1>2, <1>4, FS_Subset
<1>6. PICK n \in Nat : n = Cardinality(S)
  BY <1>5, FS_CardinalityType
<1>7. PICK q : q = Claimed(t)
  OBVIOUS
<1>8. /\ q \in [1 .. n -> S]
      /\ \A c \in S : \E i \in 1 .. n : q[i] = c
  BY <1>3, <1>4, <1>5, <1>6, <1>7, Enumerates DEF Claimed
<1>9. \A i, j \in 1 .. n : i < j => q[i] < q[j]
  BY <1>3, <1>4, <1>5, <1>6, <1>7, Increases DEF Claimed
<1>10. q \in Seq(D) /\ DOMAIN q = 1 .. n /\ Len(q) = n
  <2>1. q \in [1 .. n -> D]
    BY <1>4, <1>8
  <2>2. QED BY <2>1
<1>11. PICK p : p = pending[t]
  OBVIOUS
<1>12. p \in Seq(D)
  BY <1>1, <1>11 DEF Placed, QueuesOK
<1>13. PICK m \in Nat : m = Len(p)
  BY <1>12
<1>14. PICK b : b = Batch(t)
  OBVIOUS
<1>15. /\ b \in Seq(D) /\ DOMAIN b = 1 .. m + n /\ DOMAIN p = 1 .. m
       /\ \A i \in 1 .. m : b[i] = p[i]
       /\ \A i \in m + 1 .. m + n : b[i] = q[i - m]
  <2>1. b = p \o q
    BY <1>7, <1>11, <1>14 DEF Batch
  <2>2. b \in Seq(D) /\ Len(b) = Len(p) + Len(q) /\ DOMAIN b = 1 .. Len(b)
    <3>1. p \in Seq(D) /\ q \in Seq(D)
      BY <1>10, <1>12
    <3>2. Len(p \o q) = Len(p) + Len(q) /\ p \o q \in Seq(D)
      BY <3>1
    <3>3. QED BY <2>1, <3>2
  <2>3. ASSUME NEW i \in 1 .. m PROVE b[i] = p[i]
    BY <1>10, <1>12, <1>13, <2>1, <2>3
  <2>4. ASSUME NEW i \in m + 1 .. m + n PROVE b[i] = q[i - m]
    BY <1>10, <1>12, <1>13, <2>1, <2>4
  <2>5. QED BY <1>10, <1>12, <1>13, <2>2, <2>3, <2>4
<1>16. \A c \in D : \A d \in D : c <= d => d \notin commands[c].after
  BY <1>1, <1>2 DEF AfterOK
<1>17. \A i \in 1 .. m : p[i] \in Drained(t)
  <2>1. SUFFICES ASSUME NEW i \in 1 .. m PROVE p[i] \in Drained(t)
    OBVIOUS
  <2>2. p[i] \in D /\ p[i] \in Range(pending[t])
    BY <1>11, <1>12, <1>15 DEF Range
  <2>3. QED BY <1>1, <2>2, OnePlace DEF Drained, Accepted
<1>18. ASSUME NEW i \in 1 .. m + n, NEW j \in 1 .. m + n, i <= j
       PROVE  b[j] \notin commands[b[i]].after
  <2>1. CASE j <= m
    <3>1. i \in 1 .. m /\ j \in 1 .. m
      BY <1>18, <2>1
    <3>2. QED BY <1>11, <1>15, <1>18, <3>1 DEF OrderFor, Sorted
  <2>2. CASE i <= m /\ m < j
    <3>1. i \in 1 .. m /\ j - m \in 1 .. n /\ j \in m + 1 .. m + n
      BY <1>18, <2>2
    <3>2. b[i] = p[i] /\ b[j] = q[j - m] /\ q[j - m] \in S
      BY <1>8, <1>15, <3>1
    <3>3. QED BY <1>3, <1>17, <3>1, <3>2 DEF OrderFor
  <2>3. CASE m < i
    <3>1. i - m \in 1 .. n /\ j - m \in 1 .. n /\ i \in m + 1 .. m + n /\ j \in m + 1 .. m + n
      BY <1>18, <2>3
    <3>2. b[i] = q[i - m] /\ b[j] = q[j - m] /\ b[i] \in D /\ b[j] \in D
      BY <1>15, <3>1
    <3>3. i - m = j - m \/ i - m < j - m
      BY <1>18, <3>1
    <3>4. b[i] <= b[j]
      <4>1. b[i] \in Nat /\ b[j] \in Nat
        BY <1>2, <3>2
      <4>2. CASE i - m = j - m
        BY <3>2, <4>1, <4>2
      <4>3. CASE i - m < j - m
        BY <1>9, <3>1, <3>2, <4>1, <4>3
      <4>4. QED BY <3>3, <4>2, <4>3
    <3>5. QED BY <1>16, <3>2, <3>4
  <2>4. QED BY <1>18, <2>1, <2>2, <2>3
<1>19. Sorted(b)
  BY <1>15, <1>18 DEF Sorted
<1>20. \A c : c \in Range(b) <=> c \in Range(p) \union S
  <2>1. ASSUME NEW i \in 1 .. m + n PROVE b[i] \in Range(p) \union S
    <3>1. CASE i <= m
      BY <1>15, <2>1, <3>1 DEF Range
    <3>2. CASE m < i
      <4>1. i - m \in 1 .. n /\ i \in m + 1 .. m + n
        BY <2>1, <3>2
      <4>2. QED BY <1>8, <1>15, <4>1
    <3>3. QED BY <3>1, <3>2
  <2>2. ASSUME NEW i \in 1 .. m PROVE p[i] \in Range(b)
    BY <1>15, <2>2 DEF Range
  <2>3. ASSUME NEW c \in S PROVE c \in Range(b)
    <3>1. PICK i \in 1 .. n : q[i] = c
      BY <1>8
    <3>2. i + m \in 1 .. m + n /\ i + m \in m + 1 .. m + n /\ (i + m) - m = i
      BY <3>1
    <3>3. b[i + m] = c
      BY <1>15, <3>1, <3>2
    <3>4. QED BY <1>15, <3>2, <3>3 DEF Range
  <2>4. QED BY <1>15, <2>1, <2>2, <2>3 DEF Range
<1>21. QED BY <1>1, <1>3, <1>11, <1>14, <1>15, <1>19, <1>20

\* The contract that a batch leaves is its last target, which no target of
\* the batch supersedes.
LEMMA LastTarget ==
  ASSUME CommandsOK, Placed, AfterOK, NEW t \in Tasks, OrderFor(t)
  PROVE  /\ \A x \in Range(Batch(t)) : commands[x].kind = "target" =>
              NewContract(t) # None /\ NewContract(t) \notin commands[x].after
         /\ NewContract(t) \in Range(Batch(t)) \union {sa[t].contract}
<1>1. PICK b : b = Batch(t)
  OBVIOUS
<1>2. b \in Seq(DOMAIN commands) /\ Sorted(b)
  BY <1>1, SortedBatch
<1>3. PICK places : places = {i \in DOMAIN b : commands[b[i]].kind = "target"}
  OBVIOUS
<1>4. PICK w : w = At(b, places)
  OBVIOUS
<1>5. Of(b, {"target"}) = w
  <2>1. places = {i \in DOMAIN b : commands[b[i]].kind \in {"target"}}
    BY <1>3
  <2>2. QED BY <1>4, <2>1 DEF Of
<1>6. NewContract(t) = IF w = <<>> THEN sa[t].contract ELSE Last(w)
  BY <1>1, <1>5 DEF NewContract
<1>7. places \in SUBSET DOMAIN b
  BY <1>3
<1>8. CASE w = <<>>
  <2>1. \A i \in places : FALSE
    <3>1. \A i \in places : \E j \in DOMAIN w : w[j] = b[i]
      BY <1>2, <1>4, <1>7, Selects
    <3>2. DOMAIN w = {}
      BY <1>8
    <3>3. QED BY <3>1, <3>2
  <2>2. \A x \in Range(b) : commands[x].kind # "target"
    BY <1>3, <2>1 DEF Range
  <2>3. QED BY <1>1, <1>6, <1>8, <2>2
<1>9. CASE w # <<>>
  <2>1. PICK k \in places : Last(w) = b[k] /\ \A i \in places : i <= k
    BY <1>2, <1>4, <1>7, <1>9, LastSelected
  <2>2. k \in DOMAIN b /\ b[k] \in DOMAIN commands
    BY <1>2, <1>7, <2>1
  <2>3. b[k] # None
    <3>1. DOMAIN commands = 1 .. Len(commands) /\ Len(commands) \in Nat
      BY Numbers
    <3>2. QED BY <2>2, <3>1 DEF None
  <2>4. ASSUME NEW x \in Range(b), commands[x].kind = "target" PROVE b[k] \notin commands[x].after
    <3>1. PICK i \in DOMAIN b : x = b[i]
      BY DEF Range
    <3>2. i \in places
      BY <1>3, <2>4, <3>1
    <3>3. QED BY <1>2, <2>1, <2>2, <3>1, <3>2 DEF Sorted
  <2>5. b[k] \in Range(b)
    BY <2>2 DEF Range
  <2>6. QED BY <1>1, <1>6, <1>9, <2>1, <2>3, <2>4, <2>5
<1>10. QED BY <1>8, <1>9

(***************************************************************************)
(* What a step of the supervisor of t does with the order of commands.     *)
(***************************************************************************)
Only(t) ==
  /\ UNCHANGED commands
  /\ \A o \in Tasks \ {t} : sa'[o] = sa[o] /\ pending'[o] = pending[o]
  /\ sa[t].pc \notin {"blocked", "failure"}
  /\ sa'[t].pc \in {"passed", "success"} => sa'[t].contract \in sa'[t].delivered \union {None}
Same(t) == sa'[t].contract = sa[t].contract
Idles(t) == UNCHANGED <<inbox, pending, reported>> /\ Same(t)
Carries(t) ==
  /\ inbox' = inbox \ Queued(t) /\ pending'[t] = <<>> /\ reported' = reported
  /\ sa'[t].contract = NewContract(t)
Routes(t) ==
  /\ inbox' = inbox \ Queued(t) /\ pending'[t] = Batch(t) /\ reported' = reported
  /\ Same(t)
Reports(t) ==
  /\ inbox' = inbox \ Queued(t) /\ pending' = pending /\ reported' = reported \union Queued(t)
  /\ Same(t) /\ sa'[t].pc \in {"blocked", "failure"}
Affects(t) == Only(t) /\ (Idles(t) \/ Carries(t) \/ Routes(t) \/ Reports(t))

LEMMA GoneTo ==
  ASSUME SupervisorsOK, NEW t \in Tasks, NEW from, NEW pc, Goto(t, from, pc)
  PROVE  /\ sa[t].pc = from /\ sa'[t].pc = pc /\ Same(t)
         /\ sa'[t].delivered = sa[t].delivered
         /\ \A o \in Tasks \ {t} : sa'[o] = sa[o]
<1>1. sa \in [Tasks -> SupervisorOver(DOMAIN commands)]
  BY DEF SupervisorsOK
<1>2. sa[t] \in SupervisorOver(DOMAIN commands)
  BY <1>1
<1>3. PICK r : r = [sa[t] EXCEPT !.pc = pc]
  OBVIOUS
<1>4. r.pc = pc /\ r.contract = sa[t].contract /\ r.delivered = sa[t].delivered
  BY <1>2, <1>3 DEF SupervisorOver
<1>5. sa' = [sa EXCEPT ![t] = r]
  BY <1>3 DEF Goto
<1>6. sa'[t] = r /\ \A o \in Tasks \ {t} : sa'[o] = sa[o]
  BY <1>1, <1>5
<1>7. QED BY <1>4, <1>6 DEF Goto, Same

LEMMA AdvancedTo ==
  ASSUME SupervisorsOK, NEW t \in Tasks, NEW pc, Advance(t, pc)
  PROVE  /\ sa'[t].pc = pc /\ sa'[t].contract = NewContract(t)
         /\ sa'[t].delivered = sa[t].delivered
         /\ \A o \in Tasks \ {t} : sa'[o] = sa[o]
<1>1. sa \in [Tasks -> SupervisorOver(DOMAIN commands)]
  BY DEF SupervisorsOK
<1>2. sa[t] \in SupervisorOver(DOMAIN commands)
  BY <1>1
<1>3. PICK k : k = NewContract(t)
  OBVIOUS
<1>4. PICK f : f = NewPhase(t)
  OBVIOUS
<1>5. PICK r : r = [[[sa[t] EXCEPT !.pc = pc] EXCEPT !.contract = k] EXCEPT !.phase = f]
  OBVIOUS
<1>6. r.pc = pc /\ r.contract = k /\ r.delivered = sa[t].delivered
  BY <1>2, <1>5 DEF SupervisorOver
<1>7. sa' = [sa EXCEPT ![t].pc = pc, ![t].contract = k, ![t].phase = f]
  BY <1>3, <1>4 DEF Advance
<1>8. sa'[t] = r /\ \A o \in Tasks \ {t} : sa'[o] = sa[o]
  BY <1>1, <1>5, <1>7
<1>9. QED BY <1>3, <1>6, <1>8

LEMMA GotoAffects ==
  ASSUME CommandsOK, DeliveryInv, NEW t \in Tasks, NEW from, NEW pc, Goto(t, from, pc),
         from \notin {"blocked", "failure"}, pc \notin {"passed", "success"},
         UNCHANGED <<commands, inbox, pending, reported>>
  PROVE  Affects(t)
<1>1. SupervisorsOK
  BY DEF DeliveryInv
<1>2. QED BY <1>1, GoneTo DEF Affects, Only, Idles

LEMMA ReportAffects ==
  ASSUME CommandsOK, DeliveryInv, NEW t \in Tasks, NEW from, NEW pc, CloseAndReport(t, from, pc),
         from \notin {"blocked", "failure"}, pc \in {"blocked", "failure"}
  PROVE  Affects(t)
<1>1. SupervisorsOK /\ Goto(t, from, pc)
  BY DEF DeliveryInv, CloseAndReport
<1>2. /\ inbox' = inbox \ Queued(t) /\ reported' = reported \union Queued(t)
      /\ UNCHANGED <<commands, pending>>
  BY DEF CloseAndReport, CloseAndTake, queues
<1>3. QED BY <1>1, <1>2, GoneTo DEF Affects, Only, Reports

LEMMA CheckAffects ==
  ASSUME CommandsOK, DeliveryInv, NEW t \in Tasks, NEW pc, Advance(t, pc), Process(t),
         sa[t].pc \notin {"blocked", "failure"}, inbox' = inbox \ Queued(t),
         UNCHANGED <<commands, reported>>,
         pc \in {"passed", "success"} => NewContract(t) \in sa[t].delivered \union {None}
  PROVE  Affects(t)
<1>1. SupervisorsOK /\ DOMAIN pending = Tasks
  BY DEF DeliveryInv, Placed, QueuesOK
<1>2. pending'[t] = <<>> /\ \A o \in Tasks \ {t} : pending'[o] = pending[o]
  BY <1>1 DEF Process
<1>3. /\ sa'[t].pc = pc /\ sa'[t].contract = NewContract(t)
      /\ sa'[t].delivered = sa[t].delivered
      /\ \A o \in Tasks \ {t} : sa'[o] = sa[o]
  BY <1>1, AdvancedTo
<1>4. QED BY <1>2, <1>3 DEF Affects, Only, Carries

LEMMA RouteAffects ==
  ASSUME CommandsOK, DeliveryInv, NEW t \in Tasks, NEW from, NEW pc, Goto(t, from, pc),
         from \notin {"blocked", "failure"}, pc \notin {"passed", "success"},
         inbox' = inbox \ Queued(t), pending' = [pending EXCEPT ![t] = Batch(t)],
         UNCHANGED <<commands, reported>>
  PROVE  Affects(t)
<1>1. SupervisorsOK /\ DOMAIN pending = Tasks
  BY DEF DeliveryInv, Placed, QueuesOK
<1>2. pending'[t] = Batch(t) /\ \A o \in Tasks \ {t} : pending'[o] = pending[o]
  BY <1>1
<1>3. QED BY <1>1, <1>2, GoneTo DEF Affects, Only, Routes

LEMMA SuperviseAffects ==
  ASSUME CommandsOK, DeliveryInv, NEW t \in Tasks, OrderFor(t),
         Supervise(t) \/ AgentTurn(t) \/ WriteWorkspace(t)
  PROVE  Affects(t)
<1>1. /\ sa \in [Tasks -> SupervisorOver(DOMAIN commands)]
      /\ sa[t] \in SupervisorOver(DOMAIN commands) /\ SupervisorsOK
  BY DEF DeliveryInv, SupervisorsOK
<1> USE DEF bus, queues
<1>2. CASE Begin(t)
  BY <1>2, GotoAffects DEF Begin
<1>3. CASE PlanReady(t)
  BY <1>3, RouteAffects DEF PlanReady
<1>4. CASE PlanningBlocked(t) \/ EndTask(t)
  BY <1>4, ReportAffects DEF PlanningBlocked, EndTask
<1>5. CASE StartCycle(t)
  <2>1. sa[t].pc = "cycle" /\ UNCHANGED <<commands, inbox, pending, reported>>
    BY <1>5 DEF StartCycle
  <2>2. CASE sa' = [sa EXCEPT ![t].pc = "ending"]
    <3>1. Goto(t, "cycle", "ending")
      BY <2>1, <2>2 DEF Goto
    <3>2. QED BY <2>1, <3>1, GotoAffects
  <2>3. CASE sa' = [sa EXCEPT ![t].pc = "node", ![t].cycle = @ + 1,
                              ![t].phase = "running", ![t].delivered = {}]
    <3>1. PICK n : n = sa[t].cycle + 1
      OBVIOUS
    <3>2. PICK r : r = [[[[sa[t] EXCEPT !.pc = "node"] EXCEPT !.cycle = n]
                        EXCEPT !.phase = "running"] EXCEPT !.delivered = {}]
      OBVIOUS
    <3>3. r.pc = "node" /\ r.contract = sa[t].contract
      BY <1>1, <3>2 DEF SupervisorOver
    <3>4. sa' = [sa EXCEPT ![t] = r]
      BY <1>1, <2>3, <3>1, <3>2 DEF SupervisorOver
    <3>5. sa'[t] = r /\ \A o \in Tasks \ {t} : sa'[o] = sa[o]
      BY <1>1, <3>4
    <3>6. QED BY <2>1, <3>3, <3>5 DEF Affects, Only, Idles, Same
  <2>4. QED BY <1>5, <2>2, <2>3 DEF StartCycle
<1>6. CASE CheckNode(t) \/ WaitPaused(t) \/ AfterDag(t) \/ BeforeAcceptance(t)
  <2>1. \E from \in {"node", "paused", "afterDag", "correct"},
           pc \in {"paused", "agents", "deliver", "redeliver"} : Check(t, from, pc)
    BY <1>6 DEF CheckNode, WaitPaused, AfterDag, BeforeAcceptance
  <2>2. QED BY <2>1, CheckAffects DEF Check
<1>7. CASE NodeDone(t)
  BY <1>7, GotoAffects DEF NodeDone
<1>8. CASE PlanFails(t) \/ PlanErrs(t)
  BY <1>8, GotoAffects DEF PlanFails, PlanErrs, Executing, AgentsRun
<1>9. CASE Reconcile(t)
  <2>1. PICK pc : pc = IF sa[t].pc = "deliver" THEN "correct" ELSE "accept"
    OBVIOUS
  <2>2. PICK ds : ds = sa[t].delivered \union ({sa[t].contract} \ {None})
    OBVIOUS
  <2>3. PICK r : r = [[sa[t] EXCEPT !.pc = pc] EXCEPT !.delivered = ds]
    OBVIOUS
  <2>4. r.pc \in {"correct", "accept"} /\ r.contract = sa[t].contract
    BY <1>1, <2>1, <2>3 DEF SupervisorOver
  <2>5. sa' = [sa EXCEPT ![t] = r]
    BY <1>1, <1>9, <2>1, <2>2, <2>3 DEF Reconcile, SupervisorOver
  <2>6. sa'[t] = r /\ \A o \in Tasks \ {t} : sa'[o] = sa[o]
    BY <1>1, <2>5
  <2>7. sa[t].pc \in {"deliver", "redeliver"} /\ UNCHANGED <<commands, inbox, pending, reported>>
    BY <1>9 DEF Reconcile
  <2>8. QED BY <2>4, <2>6, <2>7 DEF Affects, Only, Idles, Same
<1>10. CASE TerminalGate(t)
  <2>1. /\ sa[t].pc = "accept" /\ inbox' = inbox \ Queued(t) /\ Process(t)
        /\ UNCHANGED <<commands, reported>>
    BY <1>10 DEF TerminalGate, CloseAndTake
  <2>2. CASE NewContract(t) \in sa[t].delivered \union {None} /\ Advance(t, "passed")
    BY <2>1, <2>2, CheckAffects
  <2>3. CASE Advance(t, "failed")
    BY <2>1, <2>3, CheckAffects
  <2>4. QED BY <1>10, <2>2, <2>3 DEF TerminalGate
<1>11. CASE Succeed(t)
  <2>1. /\ sa[t].pc = "passed" /\ inbox' = inbox \ Queued(t) /\ UNCHANGED <<commands, reported>>
    BY <1>11 DEF Succeed, CloseAndTake
  <2>2. CASE Queued(t) = {} /\ Goto(t, "passed", "success") /\ UNCHANGED pending
    <3>1. inbox' = inbox
      BY <2>1, <2>2
    <3>2. sa[t].contract \in sa[t].delivered \union {None}
      BY <2>1 DEF OrderFor
    <3>3. /\ Same(t) /\ sa'[t].delivered = sa[t].delivered
          /\ \A o \in Tasks \ {t} : sa'[o] = sa[o]
      BY <1>1, <2>2, GoneTo
    <3>4. QED BY <2>1, <2>2, <3>1, <3>2, <3>3 DEF Affects, Only, Idles, Same
  <2>3. CASE /\ pending' = [pending EXCEPT ![t] = Batch(t)]
             /\ Goto(t, "passed", IF sa[t].cycle < MaxCycles THEN "cycle" ELSE "ending")
    <3>1. PICK pc \in {"cycle", "ending"} : Goto(t, "passed", pc)
      BY <2>3
    <3>2. QED BY <2>1, <2>3, <3>1, RouteAffects
  <2>4. QED BY <1>11, <2>2, <2>3 DEF Succeed
<1>12. CASE Recover(t)
  <2>1. PICK from \in {"failed", "passed"}, pc \in AfterPlan(t) : Goto(t, from, pc)
    BY <1>12 DEF Recover
  <2>2. pc \in {"cycle", "ending"}
    BY DEF AfterPlan
  <2>3. QED BY <1>12, <2>1, <2>2, GotoAffects DEF Recover
<1>13. CASE AgentTurn(t)
  <2>1. sa[t].pc \in AgentsRun /\ UNCHANGED <<commands, inbox, pending, reported, sa>>
    BY <1>13 DEF AgentTurn
  <2>2. QED BY <2>1 DEF Affects, Only, Idles, Same, AgentsRun
<1>14. CASE WriteWorkspace(t)
  <2>1. PICK ds : sa' = [sa EXCEPT ![t].delivered = ds]
    BY <1>14 DEF WriteWorkspace
  <2>2. PICK r : r = [sa[t] EXCEPT !.delivered = ds]
    OBVIOUS
  <2>3. r.pc = sa[t].pc /\ r.contract = sa[t].contract
    BY <1>1, <2>2 DEF SupervisorOver
  <2>4. sa' = [sa EXCEPT ![t] = r]
    BY <2>1, <2>2
  <2>5. sa'[t] = r /\ \A o \in Tasks \ {t} : sa'[o] = sa[o]
    BY <1>1, <2>4
  <2>6. sa[t].pc \in {"agents", "correct"} /\ UNCHANGED <<commands, inbox, pending, reported>>
    BY <1>14 DEF WriteWorkspace
  <2>7. QED BY <2>3, <2>5, <2>6 DEF Affects, Only, Idles, Same
<1>15. QED BY <1>2, <1>3, <1>4, <1>5, <1>6, <1>7, <1>8, <1>9, <1>10, <1>11, <1>12, <1>13, <1>14
       DEF Supervise

\* The commands of another task are where they were.
LEMMA OthersOrder ==
  ASSUME NEW t \in Tasks, NEW o \in Tasks, o # t, OrderFor(o), Affects(t)
  PROVE  OrderFor(o)'
<1>1. /\ commands' = commands /\ sa'[o] = sa[o] /\ pending'[o] = pending[o]
  BY DEF Affects, Only
<1>2. \A c : c \notin Queued(t) => (c \in inbox' <=> c \in inbox) /\ (c \in reported' <=> c \in reported)
  BY DEF Affects, Idles, Carries, Routes, Reports
<1>3. \A c : c \in Queued(o)' <=> c \in Queued(o)
  BY <1>1, <1>2 DEF Affects, Idles, Carries, Routes, Reports, Queued
<1>4. \A c : c \in Accepted(o) => c \notin Queued(t)
  BY DEF Accepted, Queued
<1>5. \A c : c \in Accepted(o)' <=> c \in Accepted(o)
  BY <1>1 DEF Accepted
<1>6. \A c : c \in Drained(o)' <=> c \in Drained(o)
  BY <1>2, <1>4, <1>5 DEF Drained
<1>7. \A c : c \in Handled(o)' <=> c \in Handled(o)
  BY <1>1, <1>6 DEF Handled
<1>8. \A c : c \in reported' /\ commands[c].task = o => c \in reported
  BY <1>2 DEF Queued
<1>9. Sorted(pending[o])'
  BY <1>1 DEF OrderFor, Sorted
<1>10. \A x \in Drained(o)', y \in Queued(o)' : y \notin commands'[x].after
  BY <1>1, <1>3, <1>6 DEF OrderFor
<1>11. \A x \in Handled(o)', y \in Range(pending'[o]) : y \notin commands'[x].after
  BY <1>1, <1>7 DEF OrderFor
<1>12. \A x \in Handled(o)' : commands'[x].kind = "target" =>
          sa'[o].contract # None /\ sa'[o].contract \notin commands'[x].after
  BY <1>1, <1>7 DEF OrderFor
<1>13. /\ sa'[o].pc \notin {"blocked", "failure"} => \A c \in reported' : commands'[c].task # o
       /\ sa'[o].pc \in {"passed", "success"} => sa'[o].contract \in sa'[o].delivered \union {None}
  BY <1>1, <1>8 DEF OrderFor
<1>14. QED BY <1>9, <1>10, <1>11, <1>12, <1>13 DEF OrderFor

\* The task's own commands.
LEMMA OwnOrder ==
  ASSUME CommandsOK, Placed, AfterOK, NEW t \in Tasks, OrderFor(t), Affects(t)
  PROVE  OrderFor(t)'
<1>1. /\ commands' = commands /\ sa[t].pc \notin {"blocked", "failure"}
      /\ sa'[t].pc \in {"passed", "success"} => sa'[t].contract \in sa'[t].delivered \union {None}
  BY DEF Affects, Only
<1>2. \A c \in reported : commands[c].task # t
  BY <1>1 DEF OrderFor
<1>3. \A c : c \in Accepted(t)' <=> c \in Accepted(t)
  BY <1>1 DEF Accepted
<1>4. CASE Idles(t)
  <2>1. /\ pending' = pending /\ reported' = reported /\ sa'[t].contract = sa[t].contract
        /\ \A c : c \in Queued(t)' <=> c \in Queued(t)
        /\ \A c : c \in Drained(t)' <=> c \in Drained(t)
        /\ \A c : c \in Handled(t)' <=> c \in Handled(t)
    BY <1>1, <1>3, <1>4 DEF Idles, Same, Queued, Drained, Handled
  <2>2. Sorted(pending[t])'
    BY <1>1, <2>1 DEF OrderFor, Sorted
  <2>3. QED BY <1>1, <1>2, <2>1, <2>2 DEF OrderFor
<1>5. CASE inbox' = inbox \ Queued(t)
  <2>1. \A c : c \notin Queued(t)'
    BY <1>1, <1>5 DEF Queued
  <2>2. \A c \in Accepted(t) : c \in inbox => c \in Queued(t)
    BY DEF Accepted, Queued
  <2>3. \A c : c \in Drained(t)' => c \in Drained(t) \union Queued(t) /\ c \notin reported'
    <3>1. reported \subseteq reported'
      BY <1>4 DEF Affects, Idles, Carries, Routes, Reports
    <3>2. QED BY <1>3, <2>2, <3>1 DEF Drained
  <2>4. Range(Batch(t)) = Range(pending[t]) \union Queued(t) /\ Sorted(Batch(t))
    BY SortedBatch
  <2>5. \A x \in Handled(t), y \in Range(Batch(t)) : y \notin commands[x].after
    BY <2>4 DEF OrderFor, Handled
  <2>6. CASE Carries(t)
    <3>1. pending'[t] = <<>> /\ reported' = reported /\ sa'[t].contract = NewContract(t)
      BY <2>6 DEF Carries
    <3>2. \A c : c \in Handled(t)' => c \in Handled(t) \union Range(Batch(t))
      BY <2>3, <2>4, <3>1 DEF Handled
    <3>3. /\ \A x \in Range(Batch(t)) : commands[x].kind = "target" =>
               NewContract(t) # None /\ NewContract(t) \notin commands[x].after
          /\ NewContract(t) \in Range(Batch(t)) \union {sa[t].contract}
      BY LastTarget
    <3>4. None \notin Range(Batch(t))
      <4>1. Batch(t) \in Seq(DOMAIN commands)
        BY SortedBatch
      <4>2. DOMAIN commands = 1 .. Len(commands) /\ Len(commands) \in Nat
        BY Numbers
      <4>3. \A i \in DOMAIN Batch(t) : Batch(t)[i] \in DOMAIN commands
        BY <4>1
      <4>4. None \notin DOMAIN commands
        BY <4>2 DEF None
      <4>5. QED BY <4>3, <4>4 DEF Range
    <3>5. \A x \in Handled(t)' : commands[x].kind = "target" =>
             NewContract(t) # None /\ NewContract(t) \notin commands[x].after
      <4>1. ASSUME NEW x \in Handled(t), commands[x].kind = "target"
            PROVE  NewContract(t) # None /\ NewContract(t) \notin commands[x].after
        <5>1. CASE NewContract(t) \in Range(Batch(t))
          BY <2>5, <3>4, <4>1, <5>1
        <5>2. CASE NewContract(t) = sa[t].contract
          BY <4>1, <5>2 DEF OrderFor
        <5>3. QED BY <3>3, <5>1, <5>2
      <4>2. QED BY <3>2, <3>3, <4>1
    <3>6. DOMAIN pending'[t] = {}
      BY <3>1
    <3>7. Sorted(pending[t])' /\ \A y : y \notin Range(pending'[t])
      BY <3>6 DEF Sorted, Range
    <3>8. QED BY <1>1, <1>2, <2>1, <3>1, <3>5, <3>7 DEF OrderFor
  <2>7. CASE Routes(t)
    <3>1. pending'[t] = Batch(t) /\ reported' = reported /\ sa'[t].contract = sa[t].contract
      BY <2>7 DEF Routes, Same
    <3>2. \A c : c \in Handled(t)' => c \in Handled(t)
      BY <2>3, <2>4, <3>1 DEF Handled
    <3>3. Sorted(pending[t])'
      BY <1>1, <2>4, <3>1 DEF Sorted
    <3>4. \A x \in Handled(t)', y \in Range(pending'[t]) : y \notin commands[x].after
      BY <2>5, <3>1, <3>2
    <3>5. \A x \in Handled(t)' : commands[x].kind = "target" =>
            sa'[t].contract # None /\ sa'[t].contract \notin commands[x].after
      BY <3>1, <3>2 DEF OrderFor
    <3>6. QED BY <1>1, <1>2, <2>1, <3>1, <3>3, <3>4, <3>5 DEF OrderFor
  <2>8. CASE Reports(t)
    <3>1. /\ pending' = pending /\ reported' = reported \union Queued(t)
          /\ sa'[t].contract = sa[t].contract /\ sa'[t].pc \in {"blocked", "failure"}
      BY <2>8 DEF Reports, Same
    <3>2. \A c : c \in Drained(t)' => c \in Drained(t)
      BY <2>3, <3>1
    <3>3. \A c : c \in Handled(t)' => c \in Handled(t)
      BY <3>1, <3>2 DEF Handled
    <3>4. Sorted(pending[t])'
      BY <1>1, <3>1 DEF OrderFor, Sorted
    <3>5. \A x \in Handled(t)', y \in Range(pending'[t]) : y \notin commands[x].after
      BY <3>1, <3>3 DEF OrderFor
    <3>6. \A x \in Handled(t)' : commands[x].kind = "target" =>
            sa'[t].contract # None /\ sa'[t].contract \notin commands[x].after
      BY <3>1, <3>3 DEF OrderFor
    <3>7. QED BY <1>1, <2>1, <3>1, <3>4, <3>5, <3>6 DEF OrderFor
  <2>9. QED BY <1>4, <2>6, <2>7, <2>8 DEF Affects
<1>6. QED BY <1>4, <1>5 DEF Affects, Carries, Routes, Reports

LEMMA SuperviseOrder ==
  ASSUME CommandsOK, DeliveryInv, OrderInv, NEW t \in Tasks,
         Supervise(t) \/ AgentTurn(t) \/ WriteWorkspace(t)
  PROVE  OrderInv'
<1>1. Affects(t)
  BY SuperviseAffects DEF OrderInv
<1>2. AfterOK'
  BY <1>1 DEF OrderInv, AfterOK, Affects, Only
<1>3. ASSUME NEW o \in Tasks PROVE OrderFor(o)'
  <2>1. CASE o = t
    <3>1. OrderFor(t)'
      BY <1>1, OwnOrder DEF OrderInv, DeliveryInv
    <3>2. QED BY <2>1, <3>1
  <2>2. CASE o # t
    BY <1>1, <2>2, OthersOrder DEF OrderInv
  <2>3. QED BY <2>1, <2>2
<1>4. QED BY <1>2, <1>3 DEF OrderInv

\* A further command has been taken by nobody; it supersedes what was answered.
LEMMA SubmitOrder ==
  ASSUME CommandsOK, DeliveryInv, OrderInv,
         NEW u \in Users, NEW t \in Tasks, NEW k \in Kinds, Submit(u, t, k)
  PROVE  OrderInv'
<1>1. PICK r : r = [task |-> t, kind |-> k, answer |-> "none",
                    after |-> {c \in DOMAIN commands : commands[c].answer # "none"}]
  OBVIOUS
<1>2. PICK n : n = Len(commands) + 1
  OBVIOUS
<1>3. /\ DOMAIN commands = 1 .. Len(commands) /\ Len(commands) \in Nat
  BY Numbers
<1>4. /\ DOMAIN commands' = DOMAIN commands \union {n} /\ n \notin DOMAIN commands
      /\ commands'[n] = r
      /\ \A c \in DOMAIN commands : commands'[c] = commands[c] /\ c < n
  <2>1. PICK cs : cs = commands'
    OBVIOUS
  <2>2. commands \in Seq(Command) /\ cs = Append(commands, r)
    BY <1>1, <2>1 DEF CommandsOK, Submit
  <2>3. /\ DOMAIN cs = 1 .. n /\ cs[n] = r
        /\ \A c \in 1 .. Len(commands) : cs[c] = commands[c]
    BY <1>2, <1>3, <2>2
  <2>4. 1 .. n = (1 .. Len(commands)) \union {n} /\ n \notin 1 .. Len(commands)
        /\ \A c \in 1 .. Len(commands) : c < n
    BY <1>2, <1>3
  <2>5. QED BY <1>3, <2>1, <2>3, <2>4
<1>5. UNCHANGED <<inbox, pending, reported, sa>>
  BY DEF Submit, queues
<1>6. AfterOK'
  <2>1. ASSUME NEW d \in r.after PROVE d \in DOMAIN commands /\ commands[d].answer # "none"
    BY <1>1
  <2>2. QED BY <1>4, <2>1 DEF OrderInv, AfterOK
<1>7. ASSUME NEW o \in Tasks PROVE OrderFor(o)'
  <2>1. /\ inbox \subseteq DOMAIN commands /\ reported \subseteq DOMAIN commands
        /\ \A y \in Range(pending[o]) : y \in DOMAIN commands
    <3>1. pending[o] \in Seq(DOMAIN commands) /\ reported \subseteq DOMAIN commands
      BY DEF DeliveryInv, Placed, QueuesOK
    <3>2. \A i \in DOMAIN pending[o] : pending[o][i] \in DOMAIN commands
      BY <3>1
    <3>3. QED BY <3>1, <3>2 DEF CommandsOK, Range
  <2>2. \A c : c \in Queued(o)' <=> c \in Queued(o)
    BY <1>4, <1>5, <2>1 DEF Queued
  <2>3. \A c : c \in Accepted(o)' <=> c \in Accepted(o)
    BY <1>1, <1>4 DEF Accepted
  <2>4. \A c : c \in Accepted(o) => c \in DOMAIN commands
    BY DEF Accepted
  <2>5. /\ \A c : c \in Drained(o)' <=> c \in Drained(o)
        /\ \A c : c \in Handled(o)' <=> c \in Handled(o)
        /\ \A c \in Drained(o) : commands'[c] = commands[c]
    BY <1>4, <1>5, <2>3, <2>4 DEF Drained, Handled
  <2>6. \A x \in Handled(o) : commands'[x] = commands[x]
    BY <2>5 DEF Handled
  <2>7. Sorted(pending[o])'
    BY <1>4, <1>5, <2>1 DEF OrderInv, OrderFor, Sorted, Range
  <2>8. \A c \in reported : commands'[c] = commands[c]
    BY <1>4, <2>1
  <2>9. QED BY <1>5, <2>2, <2>5, <2>6, <2>7, <2>8 DEF OrderInv, OrderFor
<1>8. QED BY <1>6, <1>7 DEF OrderInv

\* An answered command supersedes none that was submitted before.
LEMMA EnqueueOrder ==
  ASSUME CommandsOK, DeliveryInv, OrderInv, NEW u \in Users, Enqueue(u)
  PROVE  OrderInv'
<1>1. PICK c : c = drawn[u]
  OBVIOUS
<1>2. c \in DOMAIN commands /\ c # None
  BY <1>1 DEF Enqueue, CommandsOK
<1>3. PICK a : a = Answer(commands[c].task)
  OBVIOUS
<1>4. a \in {"accepted", "TaskClosed", "CapacityExceeded"}
  BY <1>3 DEF Answer
<1>5. /\ commands' = [commands EXCEPT ![c].answer = a]
      /\ inbox' = IF a = "accepted" THEN inbox \union {c} ELSE inbox
      /\ UNCHANGED <<pending, reported, sa>>
  BY <1>1, <1>3 DEF Enqueue, queues
<1>6. commands[c].answer = "none"
  BY <1>1, <1>2 DEF DeliveryInv, Unanswered
<1>7. /\ DOMAIN commands' = DOMAIN commands /\ commands'[c].answer = a
      /\ \A d \in DOMAIN commands \ {c} : commands'[d] = commands[d]
      /\ \A d \in DOMAIN commands : /\ commands'[d].task = commands[d].task
                                    /\ commands'[d].kind = commands[d].kind
                                    /\ commands'[d].after = commands[d].after
  <2>1. commands[c] \in Command
    BY <1>2, Numbers
  <2>2. PICK r : r = [commands[c] EXCEPT !.answer = a]
    OBVIOUS
  <2>3. /\ r.task = commands[c].task /\ r.kind = commands[c].kind
        /\ r.after = commands[c].after /\ r.answer = a
    BY <2>1, <2>2 DEF Command
  <2>4. commands' = [commands EXCEPT ![c] = r]
    BY <1>5, <2>2
  <2>5. QED BY <1>2, <2>3, <2>4
<1>8. AfterOK'
  <2>1. ASSUME NEW d \in DOMAIN commands, commands[d].answer # "none"
        PROVE  commands'[d].answer # "none"
    BY <1>4, <1>7, <2>1
  <2>2. QED BY <1>7, <2>1 DEF OrderInv, AfterOK
<1>9. ASSUME NEW o \in Tasks PROVE OrderFor(o)'
  <2>1. /\ inbox \subseteq DOMAIN commands /\ reported \subseteq DOMAIN commands
        /\ \A y \in Range(pending[o]) : y \in DOMAIN commands
    <3>1. pending[o] \in Seq(DOMAIN commands) /\ reported \subseteq DOMAIN commands
      BY DEF DeliveryInv, Placed, QueuesOK
    <3>2. \A i \in DOMAIN pending[o] : pending[o][i] \in DOMAIN commands
      BY <3>1
    <3>3. QED BY <3>1, <3>2 DEF CommandsOK, Range
  <2>2. \A d \in DOMAIN commands : c \notin commands[d].after
    BY <1>6 DEF OrderInv, AfterOK
  <2>3. \A d : d \in Queued(o)' => d \in Queued(o) \union {c}
    BY <1>5, <1>7, <2>1 DEF Queued
  <2>4. \A d : d \in Accepted(o)' => d \in Accepted(o) \/ (d = c /\ a = "accepted")
    BY <1>7 DEF Accepted
  <2>5. \A d : d \in Drained(o)' => d \in Drained(o)
    BY <1>5, <2>4 DEF Drained
  <2>6. \A d : d \in Handled(o)' => d \in Handled(o)
    BY <1>5, <2>5 DEF Handled
  <2>7. \A x \in Drained(o) : x \in DOMAIN commands
    BY DEF Drained, Accepted
  <2>8. \A x \in Handled(o) : x \in DOMAIN commands
    BY <2>7 DEF Handled
  <2>9. \A x \in Drained(o)', y \in Queued(o)' : y \notin commands'[x].after
    BY <1>7, <2>2, <2>3, <2>5, <2>7 DEF OrderInv, OrderFor
  <2>10. Sorted(pending[o])'
    BY <1>5, <1>7, <2>1 DEF OrderInv, OrderFor, Sorted, Range
  <2>11. \A x \in Handled(o)', y \in Range(pending'[o]) : y \notin commands'[x].after
    BY <1>5, <1>7, <2>6, <2>8 DEF OrderInv, OrderFor
  <2>12. \A x \in Handled(o)' : commands'[x].kind = "target" =>
            sa'[o].contract # None /\ sa'[o].contract \notin commands'[x].after
    BY <1>5, <1>7, <2>6, <2>8 DEF OrderInv, OrderFor
  <2>13. \A d \in reported : commands'[d].task = commands[d].task
    BY <1>7, <2>1
  <2>14. QED BY <1>5, <2>9, <2>10, <2>11, <2>12, <2>13 DEF OrderInv, OrderFor
<1>10. QED BY <1>8, <1>9 DEF OrderInv

LEMMA InitOrder == Init => OrderInv
<1> SUFFICES ASSUME Init PROVE OrderInv
  OBVIOUS
<1>1. AfterOK
  BY DEF Init, AfterOK
<1>2. ASSUME NEW t \in Tasks PROVE OrderFor(t)
  <2>1. /\ pending[t] = <<>> /\ sa[t].pc = "idle" /\ reported = {}
        /\ \A c : c \notin Drained(t)
    BY <1>2 DEF Init, Drained, Accepted
  <2>2. DOMAIN pending[t] = {}
    BY <2>1
  <2>3. Sorted(pending[t])
    BY <2>2 DEF Sorted
  <2>4. QED BY <2>1, <2>3 DEF OrderFor, Handled
<1>3. QED BY <1>1, <1>2 DEF OrderInv

LEMMA StepOrder == CommandsOK /\ DeliveryInv /\ OrderInv /\ [Next]_vars => OrderInv'
<1> SUFFICES ASSUME CommandsOK, DeliveryInv, OrderInv, [Next]_vars PROVE OrderInv'
  OBVIOUS
<1>1. ASSUME NEW u \in Users, NEW t \in Tasks, NEW k \in Kinds, Submit(u, t, k)
      PROVE  OrderInv'
  BY <1>1, SubmitOrder
<1>2. ASSUME NEW u \in Users, Enqueue(u) PROVE OrderInv'
  BY <1>2, EnqueueOrder
<1>3. ASSUME NEW t \in Tasks, Supervise(t) \/ AgentTurn(t) \/ WriteWorkspace(t)
      PROVE  OrderInv'
  BY <1>3, SuperviseOrder
<1>4. CASE UNCHANGED vars
  <2>1. UNCHANGED <<commands, inbox, pending, reported, sa>>
    BY <1>4 DEF vars, bus, queues
  <2>2. AfterOK'
    BY <2>1 DEF OrderInv, AfterOK
  <2>3. ASSUME NEW t \in Tasks PROVE OrderFor(t)'
    <3>1. Sorted(pending[t])'
      BY <2>1 DEF OrderInv, OrderFor, Sorted
    <3>2. QED BY <2>1, <3>1 DEF OrderInv, OrderFor, Drained, Handled, Queued, Accepted
  <2>4. QED BY <2>2, <2>3 DEF OrderInv
<1>5. QED BY <1>1, <1>2, <1>3, <1>4 DEF Next

LEMMA OrderInvariant == Spec => []OrderInv
<1>1. InboxInv => CommandsOK
  BY DEF InboxInv
<1>2. QED BY <1>1, InitOrder, StepOrder, InboxInvariant, DeliveryInvariant, PTL DEF Spec

\* Success is reported by Succeed, and only over an empty inbox.
LEMMA SucceedsEmpty ==
  ASSUME SupervisorsOK, NEW t \in Tasks, Succeeds(t),
         Supervise(t) \/ AgentTurn(t) \/ WriteWorkspace(t)
  PROVE  sa[t].pc = "passed" /\ Queued(t) = {}
<1>1. /\ sa \in [Tasks -> SupervisorOver(DOMAIN commands)]
      /\ sa[t] \in SupervisorOver(DOMAIN commands)
  BY DEF SupervisorsOK
<1>2. ASSUME NEW from, NEW pc, pc # "success", Goto(t, from, pc) PROVE FALSE
  BY <1>2, GoneTo DEF Succeeds
<1>3. ASSUME NEW pc, pc # "success", Advance(t, pc) PROVE FALSE
  BY <1>3, AdvancedTo DEF Succeeds
<1>4. CASE Begin(t) \/ PlanReady(t)
  BY <1>2, <1>4 DEF Begin, PlanReady
<1>5. CASE PlanningBlocked(t) \/ EndTask(t)
  BY <1>2, <1>5 DEF PlanningBlocked, EndTask, CloseAndReport
<1>6. CASE StartCycle(t)
  <2>1. sa'[t].pc \in {"ending", "node"}
    BY <1>1, <1>6 DEF StartCycle, SupervisorOver
  <2>2. QED BY <2>1 DEF Succeeds
<1>7. CASE CheckNode(t) \/ WaitPaused(t) \/ AfterDag(t) \/ BeforeAcceptance(t)
  <2>1. \E pc \in {"paused", "agents", "deliver", "redeliver"} : Advance(t, pc)
    BY <1>7 DEF CheckNode, WaitPaused, AfterDag, BeforeAcceptance, Check
  <2>2. QED BY <1>3, <2>1
<1>8. CASE NodeDone(t) \/ PlanFails(t) \/ PlanErrs(t)
  BY <1>2, <1>8 DEF NodeDone, PlanFails, PlanErrs
<1>9. CASE Reconcile(t)
  <2>1. PICK pc \in {"correct", "accept"} :
               \E ds : sa' = [sa EXCEPT ![t].pc = pc, ![t].delivered = ds]
    BY <1>9 DEF Reconcile
  <2>2. sa'[t].pc = pc
    BY <1>1, <2>1 DEF SupervisorOver
  <2>3. QED BY <2>2 DEF Succeeds
<1>10. CASE TerminalGate(t)
  BY <1>3, <1>10 DEF TerminalGate
<1>11. CASE Succeed(t)
  <2>1. CASE Queued(t) = {} /\ Goto(t, "passed", "success")
    BY <2>1 DEF Goto
  <2>2. CASE Goto(t, "passed", IF sa[t].cycle < MaxCycles THEN "cycle" ELSE "ending")
    BY <1>2, <2>2
  <2>3. QED BY <1>11, <2>1, <2>2 DEF Succeed
<1>12. CASE Recover(t)
  <2>1. \E from, pc : pc \in {"cycle", "ending"} /\ Goto(t, from, pc)
    BY <1>12 DEF Recover, AfterPlan
  <2>2. QED BY <1>2, <2>1
<1>13. CASE AgentTurn(t)
  BY <1>13 DEF AgentTurn, Succeeds
<1>14. CASE WriteWorkspace(t)
  <2>1. PICK ds : sa' = [sa EXCEPT ![t].delivered = ds]
    BY <1>14 DEF WriteWorkspace
  <2>2. sa'[t].pc = sa[t].pc
    BY <1>1, <2>1 DEF SupervisorOver
  <2>3. QED BY <2>2 DEF Succeeds
<1>15. QED BY <1>4, <1>5, <1>6, <1>7, <1>8, <1>9, <1>10, <1>11, <1>12, <1>13, <1>14
       DEF Supervise

\* A successful task has written and verified the delivery target of an
\* accepted command that no later accepted command has superseded.
THEOREM NewestTargetDelivered == Spec => LatestTargetDelivered
<1>1. ASSUME InboxInv, DeliveryInv, OrderInv, [Next]_vars,
             NEW t \in Tasks, Succeeds(t), Targets(t) # {}
      PROVE  /\ sa[t].contract \in sa[t].delivered
             /\ \A c \in Targets(t) : sa[t].contract \notin commands[c].after
  <2>1. PICK o \in Tasks : Supervise(o) \/ AgentTurn(o) \/ WriteWorkspace(o)
    BY <1>1 DEF Next, Succeeds, Submit, Enqueue, vars
  <2>2. CommandsOK /\ SupervisorsOK /\ OrderFor(o) /\ OrderFor(t)
    BY <1>1 DEF InboxInv, DeliveryInv, OrderInv
  <2>3. Affects(o)
    BY <1>1, <2>1, <2>2, SuperviseAffects
  <2>4. o = t
    BY <1>1, <2>3 DEF Affects, Only, Succeeds
  <2>5. sa[t].pc = "passed" /\ Queued(t) = {}
    BY <1>1, <2>1, <2>2, <2>4, SucceedsEmpty
  <2>6. pending[t] = <<>>
    BY <1>1, <2>5 DEF InboxInv, PassedInv
  <2>7. \A c : c \notin Range(pending[t])
    <3>1. DOMAIN pending[t] = {}
      BY <2>6
    <3>2. QED BY <3>1 DEF Range
  <2>8. \A c \in Accepted(t) : c \in Handled(t)
    BY <2>2, <2>5, <2>7 DEF OrderFor, Handled, Drained, Accepted, Queued
  <2>9. \A c \in Targets(t) : c \in Handled(t) /\ commands[c].kind = "target"
    BY <2>8 DEF Targets
  <2>10. \A c \in Targets(t) : sa[t].contract # None /\ sa[t].contract \notin commands[c].after
    BY <2>2, <2>9 DEF OrderFor
  <2>11. sa[t].contract \in sa[t].delivered \union {None}
    BY <2>2, <2>5 DEF OrderFor
  <2>12. QED BY <1>1, <2>10, <2>11
<1>2. InboxInv /\ DeliveryInv /\ OrderInv /\ [Next]_vars
        => [\A t \in Tasks : Succeeds(t) /\ Targets(t) # {} =>
              /\ sa[t].contract \in sa[t].delivered
              /\ \A c \in Targets(t) : sa[t].contract \notin commands[c].after]_vars
  BY <1>1
<1>3. QED BY <1>2, InboxInvariant, DeliveryInvariant, OrderInvariant, PTL
          DEF Spec, LatestTargetDelivered
=============================================================================
