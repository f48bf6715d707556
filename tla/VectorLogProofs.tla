-------------------------- MODULE VectorLogProofs ---------------------------
(***************************************************************************)
(* What the log and the snapshots keep, for any number of documents,       *)
(* mutations, checkpoints, failed calls, deaths and decayed files.         *)
(***************************************************************************)
EXTENDS VectorLog, TLAPS, FiniteSetTheorems, SequenceTheorems

Record ==
  [iri : Iris, delete : BOOLEAN, clock : 1..MaxAttempts, attempt : 1..MaxAttempts,
   whole : BOOLEAN]
LEMMA SegmentsAreRecords == SegmentType = Seq(Record)
  BY DEF SegmentType, Record

-----------------------------------------------------------------------------
(* Numbers, sequences.                                                     *)

\* A set of numbers that is not empty has a least element.
LEMMA LeastNumber ==
  ASSUME NEW S, S \subseteq Nat, S # {}
  PROVE  \E m \in S : \A n \in S : m <= n
<1>1. PICK m \in S : \A n \in S : ~ (<<n, m>> \in OpToRel(<, Nat))
  BY NatLessThanWellFounded, WFMin, Zenon
<1>2. \A n \in S : ~ (n < m)
  BY <1>1 DEF OpToRel
<1>3. QED BY <1>2

\* A set of numbers that holds 0, and with a number below a bound the next one,
\* holds every number up to the bound.
LEMMA ReachesBound ==
  ASSUME NEW P, NEW top \in Nat, 0 \in P, \A n \in 0..top : n \in P /\ n < top => n + 1 \in P
  PROVE  \A n \in 0..top : n \in P
<1> DEFINE Out == {n \in 0..top : n \notin P}
<1>1. SUFFICES ASSUME Out # {} PROVE FALSE
  OBVIOUS
<1>2. Out \subseteq Nat
  OBVIOUS
<1>3. PICK m \in Out : \A n \in Out : m <= n
  <2> HIDE DEF Out
  <2>1. QED BY <1>1, <1>2, LeastNumber
<1>4. m \in 1..top
  BY <1>3
<1>5. m - 1 \in 0..top /\ m - 1 < top /\ m - 1 \notin Out
  BY <1>3, <1>4
<1>6. m - 1 + 1 \in P
  BY <1>5
<1>7. QED BY <1>3, <1>4, <1>6

LEMMA MinIsLeast ==
  ASSUME NEW S, S \subseteq Nat, S # {}
  PROVE  Min(S) \in S /\ \A n \in S : Min(S) <= n
<1>1. PICK m \in S : \A n \in S : m <= n
  BY LeastNumber
<1>2. QED BY <1>1 DEF Min

\* A bounded set of numbers has a greatest element.
LEMMA MaxIsGreatest ==
  ASSUME NEW S, NEW top \in Nat, S \subseteq 0..top, S # {}
  PROVE  Max(S) \in S /\ \A n \in S : n <= Max(S)
<1> DEFINE Bounds == {m \in 0..top : \A n \in S : n <= m}
<1>1. top \in Bounds /\ Bounds \subseteq Nat
  OBVIOUS
<1>2. PICK m \in Bounds : \A n \in Bounds : m <= n
  <2> HIDE DEF Bounds
  <2>1. QED BY <1>1, LeastNumber
<1>3. m \in S
  <2>1. SUFFICES ASSUME m \notin S PROVE FALSE
    OBVIOUS
  <2>2. PICK n \in S : TRUE
    OBVIOUS
  <2>3. n < m /\ n \in 0..top
    BY <1>2, <2>1
  <2>4. m - 1 \in Bounds
    BY <1>2, <2>1, <2>3
  <2>5. QED BY <1>2, <2>4
<1>4. QED BY <1>2, <1>3 DEF Max

LEMMA RangeOfAppend ==
  ASSUME NEW S, NEW s \in Seq(S), NEW e \in S
  PROVE  Range(Append(s, e)) = Range(s) \union {e}
<1> DEFINE a == Append(s, e)
<1>1. /\ a \in Seq(S) /\ DOMAIN a = 1..Len(s) + 1 /\ DOMAIN s = 1..Len(s) /\ Len(s) \in Nat
      /\ a[Len(s) + 1] = e
      /\ \A k \in 1..Len(s) : a[k] = s[k]
  OBVIOUS
<1>2. \A x : x \in Range(a) <=> x \in Range(s) \union {e}
  <2> HIDE DEF a
  <2>1. ASSUME NEW x, x \in Range(a) PROVE x \in Range(s) \union {e}
    <3>1. PICK k \in DOMAIN a : x = a[k]
      BY <2>1 DEF Range
    <3>2. QED BY <1>1, <3>1 DEF Range
  <2>2. ASSUME NEW x \in Range(s) PROVE x \in Range(a)
    <3>1. PICK k \in DOMAIN s : x = s[k]
      BY DEF Range
    <3>2. k \in DOMAIN a /\ a[k] = x
      BY <1>1, <3>1
    <3>3. QED BY <3>2 DEF Range
  <2>3. e \in Range(a)
    <3>1. Len(s) + 1 \in DOMAIN a
      BY <1>1
    <3>2. QED BY <1>1, <3>1 DEF Range
  <2>4. QED BY <2>1, <2>2, <2>3
<1>3. QED BY <1>2

-----------------------------------------------------------------------------
(* Healing a segment: its longest prefix of whole records.                 *)

WholeTo(segment, n) ==
  /\ n \in 0..Len(segment)
  /\ \A k \in 1..n : segment[k].whole
  /\ n < Len(segment) => ~segment[n + 1].whole

LEMMA HealedIs ==
  ASSUME NEW segment \in SegmentType, NEW n, WholeTo(segment, n)
  PROVE  Healed(segment) = SubSeq(segment, 1, n)
<1> DEFINE torn == {k \in DOMAIN segment : ~segment[k].whole}
<1>1. segment \in Seq(Record) /\ Len(segment) \in Nat /\ DOMAIN segment = 1..Len(segment)
  BY SegmentsAreRecords
<1>2. CASE n = Len(segment)
  <2>1. torn = {}
    BY <1>1, <1>2 DEF WholeTo
  <2>2. Healed(segment) = segment
    BY <2>1 DEF Healed
  <2>3. QED BY <1>1, <1>2, <2>2, SubSeqFull
<1>3. CASE n < Len(segment)
  <2>1. n + 1 \in torn /\ \A k \in torn : n + 1 <= k
    BY <1>1, <1>3 DEF WholeTo
  <2>2. torn \subseteq Nat
    BY <1>1
  <2>3. Min(torn) \in torn /\ \A k \in torn : Min(torn) <= k
    <3> HIDE DEF torn
    <3>1. QED BY <2>1, <2>2, MinIsLeast
  <2>4. Min(torn) = n + 1
    <3> HIDE DEF torn
    <3>1. n + 1 \in Nat /\ Min(torn) \in Nat
      BY <2>1, <2>2, <2>3
    <3>2. QED BY <2>1, <2>3, <3>1
  <2>5. Healed(segment) = SubSeq(segment, 1, Min(torn) - 1)
    <3>1. torn # {}
      BY <2>1
    <3>2. QED BY <3>1 DEF Healed
  <2>6. n \in Nat
    BY <1>1 DEF WholeTo
  <2>7. Min(torn) - 1 = n
    <3> HIDE DEF torn
    <3>1. QED BY <2>4, <2>6
  <2>8. QED BY <2>5, <2>7
<1>4. n \in 0..Len(segment) /\ Len(segment) \in Nat
  BY <1>1 DEF WholeTo
<1>5. n = Len(segment) \/ n < Len(segment)
  BY <1>4
<1>6. QED BY <1>2, <1>3, <1>5

LEMMA HasWholePrefix ==
  ASSUME NEW segment \in SegmentType
  PROVE  \E n : WholeTo(segment, n)
<1> DEFINE torn == {k \in DOMAIN segment : ~segment[k].whole}
<1>1. segment \in Seq(Record) /\ Len(segment) \in Nat /\ DOMAIN segment = 1..Len(segment)
  BY SegmentsAreRecords
<1>2. CASE torn = {}
  BY <1>1, <1>2 DEF WholeTo
<1>3. CASE torn # {}
  <2>1. torn \subseteq Nat
    BY <1>1
  <2>2. PICK k \in torn : \A l \in torn : k <= l
    <3> HIDE DEF torn
    <3>1. QED BY <1>3, <2>1, LeastNumber
  <2>3. k - 1 \in 0..Len(segment) /\ k - 1 + 1 = k /\ k \in 1..Len(segment)
    BY <1>1, <2>2
  <2>4. \A l \in 1..(k - 1) : segment[l].whole
    BY <1>1, <2>2, <2>3
  <2>5. WholeTo(segment, k - 1)
    BY <2>2, <2>3, <2>4 DEF WholeTo
  <2>6. QED BY <2>5
<1>4. QED BY <1>2, <1>3

\* A healed segment is a segment, a prefix of the other, and has no torn record.
LEMMA HealedPrefix ==
  ASSUME NEW segment \in SegmentType
  PROVE  \E n : /\ WholeTo(segment, n)
                /\ Healed(segment) \in SegmentType
                /\ DOMAIN Healed(segment) = 1..n /\ Len(Healed(segment)) = n
                /\ \A k \in 1..n : Healed(segment)[k] = segment[k]
<1>1. segment \in Seq(Record) /\ Len(segment) \in Nat /\ DOMAIN segment = 1..Len(segment)
  BY SegmentsAreRecords
<1>2. PICK n : WholeTo(segment, n)
  BY HasWholePrefix
<1>3. n \in 0..Len(segment)
  BY <1>2 DEF WholeTo
<1>4. Healed(segment) = SubSeq(segment, 1, n)
  BY <1>2, HealedIs
<1>5. /\ SubSeq(segment, 1, n) \in Seq(Record) /\ DOMAIN SubSeq(segment, 1, n) = 1..n
      /\ Len(SubSeq(segment, 1, n)) = n
      /\ \A k \in 1..n : SubSeq(segment, 1, n)[k] = segment[k]
  BY <1>1, <1>3
<1>6. QED BY <1>2, <1>4, <1>5, SegmentsAreRecords

LEMMA HealedRange ==
  ASSUME NEW segment \in SegmentType
  PROVE  /\ Range(Healed(segment)) \subseteq Range(segment)
         /\ \A r \in Range(Healed(segment)) : r.whole
<1>1. DOMAIN segment = 1..Len(segment) /\ Len(segment) \in Nat
  BY SegmentsAreRecords
<1>2. PICK n : /\ WholeTo(segment, n) /\ DOMAIN Healed(segment) = 1..n
               /\ \A k \in 1..n : Healed(segment)[k] = segment[k]
  BY HealedPrefix
<1>3. ASSUME NEW r \in Range(Healed(segment)) PROVE r \in Range(segment) /\ r.whole
  <2>1. PICK k \in 1..n : r = segment[k]
    BY <1>2 DEF Range
  <2>2. k \in DOMAIN segment /\ segment[k].whole
    BY <1>1, <1>2, <2>1 DEF WholeTo
  <2>3. QED BY <2>1, <2>2 DEF Range
<1>4. QED BY <1>3

LEMMA HealedTwice ==
  ASSUME NEW segment \in SegmentType
  PROVE  Healed(Healed(segment)) = Healed(segment)
<1> DEFINE h == Healed(segment)
<1>1. PICK n : /\ WholeTo(segment, n) /\ h \in SegmentType
               /\ DOMAIN h = 1..n /\ Len(h) = n
               /\ \A k \in 1..n : h[k] = segment[k]
  BY HealedPrefix
<1>2. WholeTo(h, n)
  <2>1. n \in Nat
    BY <1>1, SegmentsAreRecords DEF WholeTo
  <2>2. QED BY <1>1, <2>1 DEF WholeTo
<1>3. Healed(h) = SubSeq(h, 1, Len(h))
  BY <1>1, <1>2, HealedIs
<1>4. QED BY <1>1, <1>3, SubSeqFull, SegmentsAreRecords

LEMMA EmptyHeals == <<>> \in SegmentType /\ Healed(<<>>) = <<>> /\ Range(<<>>) = {}
  BY SegmentsAreRecords DEF Healed, Range

\* A record appended to a segment is read again if it is whole and nothing before it
\* is torn.
LEMMA HealedAppend ==
  ASSUME NEW segment \in SegmentType, NEW r \in Record
  PROVE  /\ Append(segment, r) \in SegmentType
         /\ r.whole /\ ~Torn(segment) =>
              Range(Healed(Append(segment, r))) = Range(Healed(segment)) \union {r}
         /\ ~r.whole \/ Torn(segment) =>
              Range(Healed(Append(segment, r))) = Range(Healed(segment))
<1> DEFINE a == Append(segment, r)
<1>1. /\ segment \in Seq(Record) /\ Len(segment) \in Nat /\ DOMAIN segment = 1..Len(segment)
      /\ a \in Seq(Record) /\ Len(a) = Len(segment) + 1 /\ a[Len(segment) + 1] = r
      /\ \A k \in 1..Len(segment) : a[k] = segment[k]
  BY SegmentsAreRecords
<1>2. a \in SegmentType
  BY <1>1, SegmentsAreRecords
<1>3. PICK n : WholeTo(segment, n)
  BY HasWholePrefix
<1>4. n \in 0..Len(segment) /\ Healed(segment) = SubSeq(segment, 1, n)
  BY <1>3, HealedIs DEF WholeTo
<1>5. CASE r.whole /\ ~Torn(segment)
  <2>1. Healed(segment) = segment
    BY <1>5 DEF Torn, Healed
  <2>2. \A k \in DOMAIN a : a[k].whole
    BY <1>1, <1>5 DEF Torn
  <2>3. Healed(a) = a
    <3> HIDE DEF a
    <3>1. QED BY <2>2 DEF Healed
  <2>4. QED BY <1>1, <1>2, <1>5, <2>1, <2>3, RangeOfAppend
<1>6. CASE ~r.whole \/ Torn(segment)
  <2>1. WholeTo(a, n)
    <3>1. \A k \in 1..n : a[k].whole
      BY <1>1, <1>3 DEF WholeTo
    <3>2. n = Len(segment) => ~r.whole
      <4>1. n = Len(segment) => ~Torn(segment)
        BY <1>1, <1>3 DEF WholeTo, Torn
      <4>2. QED BY <1>6, <4>1
    <3>3. n < Len(a) /\ ~a[n + 1].whole
      <4>1. CASE n = Len(segment)
        BY <1>1, <3>2, <4>1
      <4>2. CASE n < Len(segment)
        <5>1. n + 1 \in 1..Len(segment) /\ ~segment[n + 1].whole
          BY <1>1, <1>3, <1>4, <4>2 DEF WholeTo
        <5>2. QED BY <1>1, <1>4, <5>1
      <4>3. n = Len(segment) \/ n < Len(segment)
        BY <1>1, <1>4
      <4>4. QED BY <4>1, <4>2, <4>3
    <3>4. QED BY <1>1, <1>4, <3>1, <3>3 DEF WholeTo
  <2>2. Healed(a) = SubSeq(a, 1, n)
    BY <1>2, <2>1, HealedIs
  <2>3. SubSeq(a, 1, n) = SubSeq(segment, 1, n)
    BY <1>1, <1>4
  <2>4. QED BY <1>2, <1>4, <1>6, <2>2, <2>3
<1>7. QED BY <1>5, <1>6

\* What a power loss leaves of a segment is read as before up to where it was cut.
LEMMA HealedCut ==
  ASSUME NEW segment \in SegmentType, NEW kept \in 0..Len(segment)
  PROVE  /\ SubSeq(segment, 1, kept) \in SegmentType
         /\ Len(SubSeq(segment, 1, kept)) = kept
         /\ \A k \in 1..kept : SubSeq(segment, 1, kept)[k] = segment[k]
         /\ Range(Healed(SubSeq(segment, 1, kept))) \subseteq Range(Healed(segment))
         /\ \A k \in DOMAIN Healed(segment) :
              k <= kept => Healed(segment)[k] \in Range(Healed(SubSeq(segment, 1, kept)))
<1> DEFINE cut == SubSeq(segment, 1, kept)
<1>1. /\ segment \in Seq(Record) /\ Len(segment) \in Nat /\ DOMAIN segment = 1..Len(segment)
      /\ cut \in Seq(Record) /\ Len(cut) = kept /\ DOMAIN cut = 1..kept
      /\ \A k \in 1..kept : cut[k] = segment[k]
  BY SegmentsAreRecords
<1>2. cut \in SegmentType
  BY <1>1, SegmentsAreRecords
<1> HIDE DEF cut
<1>3. PICK n : /\ WholeTo(segment, n) /\ DOMAIN Healed(segment) = 1..n
               /\ \A k \in 1..n : Healed(segment)[k] = segment[k]
  BY HealedPrefix
<1>4. PICK m : /\ WholeTo(cut, m) /\ DOMAIN Healed(cut) = 1..m
               /\ \A k \in 1..m : Healed(cut)[k] = cut[k]
  BY <1>2, HealedPrefix
<1>5. n \in 0..Len(segment) /\ m \in 0..kept
  BY <1>1, <1>3, <1>4 DEF WholeTo
<1>6. m <= n
  <2>1. SUFFICES ASSUME n < m PROVE FALSE
    BY <1>1, <1>5
  <2>2. n + 1 \in 1..m /\ n + 1 \in 1..kept /\ n < Len(segment)
    BY <1>1, <1>5, <2>1
  <2>3. ~segment[n + 1].whole
    BY <1>3, <2>2 DEF WholeTo
  <2>4. cut[n + 1].whole
    BY <1>4, <2>2 DEF WholeTo
  <2>5. QED BY <1>1, <2>2, <2>3, <2>4
<1>7. Range(Healed(cut)) \subseteq Range(Healed(segment))
  <2>1. ASSUME NEW r \in Range(Healed(cut)) PROVE r \in Range(Healed(segment))
    <3>1. PICK k \in 1..m : r = cut[k]
      BY <1>4 DEF Range
    <3>2. k \in 1..n /\ k \in 1..kept
      BY <1>5, <1>6, <3>1
    <3>3. k \in DOMAIN Healed(segment) /\ r = Healed(segment)[k]
      BY <1>1, <1>3, <3>1, <3>2
    <3>4. QED BY <3>3 DEF Range
  <2>2. QED BY <2>1
<1>8. ASSUME NEW k \in DOMAIN Healed(segment), k <= kept
      PROVE  Healed(segment)[k] \in Range(Healed(cut))
  <2>1. k \in 1..n /\ k \in 1..kept
    BY <1>1, <1>3, <1>5, <1>8
  <2>2. k <= m
    <3>1. SUFFICES ASSUME m < k PROVE FALSE
      BY <1>5, <2>1
    <3>2. m < kept /\ m + 1 \in 1..n /\ m + 1 \in 1..kept
      BY <1>5, <2>1, <3>1
    <3>3. ~cut[m + 1].whole
      BY <1>1, <1>4, <3>2 DEF WholeTo
    <3>4. segment[m + 1].whole
      BY <1>3, <3>2 DEF WholeTo
    <3>5. QED BY <1>1, <3>2, <3>3, <3>4
  <2>3. k \in DOMAIN Healed(cut) /\ Healed(cut)[k] = Healed(segment)[k]
    BY <1>1, <1>3, <1>4, <1>5, <2>1, <2>2
  <2>4. QED BY <2>3 DEF Range
<1>9. QED BY <1>1, <1>2, <1>7, <1>8 DEF cut

-----------------------------------------------------------------------------
(* The recursive functions take the values their equations name.           *)

\* Replayed applies the records one after the other.
LEMMA ReplayedRuns ==
  ASSUME NEW base, NEW s, Len(s) \in Nat
  PROVE  \E g : /\ g[0] = base
                /\ \A n \in 1..Len(s) : g[n] = Replay(g[n - 1], s[n])
                /\ Replayed(base, s) = g[Len(s)]
<1> DEFINE Run(f, m) ==
             f = [n \in 0..m |-> IF n = 0 THEN base ELSE Replay(f[n - 1], s[n])]
           P == {m \in Nat : \E f : Run(f, m)}
<1>1. 0 \in P
  <2>1. Run([n \in 0..0 |-> base], 0)
    OBVIOUS
  <2>2. QED BY <2>1
<1>2. ASSUME NEW m \in 0..Len(s), m \in P, m < Len(s) PROVE m + 1 \in P
  <2>1. PICK f : Run(f, m)
    BY <1>2
  <2>2. PICK e : e = Replay(f[m], s[m + 1])
    OBVIOUS
  <2>3. PICK h : h = [n \in 0..(m + 1) |-> IF n = m + 1 THEN e ELSE f[n]]
    OBVIOUS
  <2>4. DOMAIN h = 0..(m + 1) /\ h[m + 1] = e /\ \A n \in 0..m : h[n] = f[n]
    BY <2>3
  <2>5. h[0] = base /\ f[m] = h[m]
    BY <2>1, <2>4
  <2>6. \A n \in 0..(m + 1) : n # 0 => h[n] = Replay(h[n - 1], s[n])
    <3>1. SUFFICES ASSUME NEW n \in 0..(m + 1), n # 0 PROVE h[n] = Replay(h[n - 1], s[n])
      OBVIOUS
    <3>2. CASE n = m + 1
      <4>1. n - 1 = m
        BY <3>2
      <4>2. QED BY <2>2, <2>4, <2>5, <3>2, <4>1
    <3>3. CASE n # m + 1
      <4>1. n \in 0..m /\ n - 1 \in 0..m
        BY <3>1, <3>3
      <4>2. f[n] = Replay(f[n - 1], s[n])
        BY <2>1, <3>1, <4>1
      <4>3. h[n] = f[n] /\ h[n - 1] = f[n - 1]
        BY <2>4, <4>1
      <4>4. QED BY <4>2, <4>3
    <3>4. QED BY <3>2, <3>3
  <2>7. h = [n \in 0..(m + 1) |-> h[n]]
    BY <2>3
  <2>8. [n \in 0..(m + 1) |-> h[n]]
          = [n \in 0..(m + 1) |-> IF n = 0 THEN base ELSE Replay(h[n - 1], s[n])]
    BY <2>5, <2>6
  <2>9. Run(h, m + 1)
    BY <2>7, <2>8
  <2>10. QED BY <2>9
<1>3. Len(s) \in P
  <2> HIDE DEF P
  <2>1. \A n \in 0..Len(s) : n \in P
    BY <1>1, <1>2, ReachesBound
  <2>2. QED BY <2>1
<1>4. \E f : Run(f, Len(s))
  BY <1>3
<1>5. PICK g : Run(g, Len(s)) /\ Replayed(base, s) = g[Len(s)]
  BY <1>4, Zenon DEF Replayed
<1>6. \A n \in 0..Len(s) :
        g[n] = IF n = 0 THEN base ELSE Replay(g[n - 1], s[n])
  BY <1>5
<1>7. g[0] = base /\ \A n \in 1..Len(s) : g[n] = Replay(g[n - 1], s[n])
  BY <1>6
<1>8. QED BY <1>5, <1>7

\* ReplayedAll replays the segments one after the other.
LEMMA ReplayedAllRuns ==
  ASSUME NEW base, NEW s, Len(s) \in Nat
  PROVE  \E g : /\ g[0] = base
                /\ \A n \in 1..Len(s) : g[n] = Replayed(g[n - 1], Healed(s[n]))
                /\ ReplayedAll(base, s) = g[Len(s)]
<1> DEFINE Run(f, m) ==
             f = [n \in 0..m |-> IF n = 0 THEN base ELSE Replayed(f[n - 1], Healed(s[n]))]
           P == {m \in Nat : \E f : Run(f, m)}
<1>1. 0 \in P
  <2>1. Run([n \in 0..0 |-> base], 0)
    OBVIOUS
  <2>2. QED BY <2>1
<1>2. ASSUME NEW m \in 0..Len(s), m \in P, m < Len(s) PROVE m + 1 \in P
  <2>1. PICK f : Run(f, m)
    BY <1>2
  <2>2. PICK e : e = Replayed(f[m], Healed(s[m + 1]))
    OBVIOUS
  <2>3. PICK h : h = [n \in 0..(m + 1) |-> IF n = m + 1 THEN e ELSE f[n]]
    OBVIOUS
  <2>4. DOMAIN h = 0..(m + 1) /\ h[m + 1] = e /\ \A n \in 0..m : h[n] = f[n]
    BY <2>3
  <2>5. h[0] = base /\ f[m] = h[m]
    BY <2>1, <2>4
  <2>6. \A n \in 0..(m + 1) : n # 0 => h[n] = Replayed(h[n - 1], Healed(s[n]))
    <3>1. SUFFICES ASSUME NEW n \in 0..(m + 1), n # 0 PROVE h[n] = Replayed(h[n - 1], Healed(s[n]))
      OBVIOUS
    <3>2. CASE n = m + 1
      <4>1. n - 1 = m
        BY <3>2
      <4>2. QED BY <2>2, <2>4, <2>5, <3>2, <4>1
    <3>3. CASE n # m + 1
      <4>1. n \in 0..m /\ n - 1 \in 0..m
        BY <3>1, <3>3
      <4>2. f[n] = Replayed(f[n - 1], Healed(s[n]))
        BY <2>1, <3>1, <4>1
      <4>3. h[n] = f[n] /\ h[n - 1] = f[n - 1]
        BY <2>4, <4>1
      <4>4. QED BY <4>2, <4>3
    <3>4. QED BY <3>2, <3>3
  <2>7. h = [n \in 0..(m + 1) |-> h[n]]
    BY <2>3
  <2>8. [n \in 0..(m + 1) |-> h[n]]
          = [n \in 0..(m + 1) |-> IF n = 0 THEN base ELSE Replayed(h[n - 1], Healed(s[n]))]
    BY <2>5, <2>6
  <2>9. Run(h, m + 1)
    BY <2>7, <2>8
  <2>10. QED BY <2>9
<1>3. Len(s) \in P
  <2> HIDE DEF P
  <2>1. \A n \in 0..Len(s) : n \in P
    BY <1>1, <1>2, ReachesBound
  <2>2. QED BY <2>1
<1>4. \E f : Run(f, Len(s))
  BY <1>3
<1>5. PICK g : Run(g, Len(s)) /\ ReplayedAll(base, s) = g[Len(s)]
  BY <1>4, Zenon DEF ReplayedAll
<1>6. \A n \in 0..Len(s) :
        g[n] = IF n = 0 THEN base ELSE Replayed(g[n - 1], Healed(s[n]))
  BY <1>5
<1>7. g[0] = base /\ \A n \in 1..Len(s) : g[n] = Replayed(g[n - 1], Healed(s[n]))
  BY <1>6
<1>8. QED BY <1>5, <1>7

CleanedBy(kept, segment, clock) ==
  IF Removable(segment, clock) THEN kept ELSE Append(kept, Healed(segment))

\* Cleaned looks at the segments one after the other.
LEMMA CleanedRuns ==
  ASSUME NEW clock, NEW s, Len(s) \in Nat
  PROVE  \E g : /\ g[0] = <<>>
                /\ \A n \in 1..Len(s) : g[n] = CleanedBy(g[n - 1], s[n], clock)
                /\ Cleaned(s, clock) = g[Len(s)]
<1> DEFINE Run(f, m) ==
             f = [n \in 0..m |-> IF n = 0 THEN <<>> ELSE CleanedBy(f[n - 1], s[n], clock)]
           P == {m \in Nat : \E f : Run(f, m)}
<1>1. 0 \in P
  <2>1. Run([n \in 0..0 |-> <<>>], 0)
    OBVIOUS
  <2>2. QED BY <2>1
<1>2. ASSUME NEW m \in 0..Len(s), m \in P, m < Len(s) PROVE m + 1 \in P
  <2>1. PICK f : Run(f, m)
    BY <1>2
  <2>2. PICK e : e = CleanedBy(f[m], s[m + 1], clock)
    OBVIOUS
  <2>3. PICK h : h = [n \in 0..(m + 1) |-> IF n = m + 1 THEN e ELSE f[n]]
    OBVIOUS
  <2>4. DOMAIN h = 0..(m + 1) /\ h[m + 1] = e /\ \A n \in 0..m : h[n] = f[n]
    BY <2>3
  <2>5. h[0] = <<>> /\ f[m] = h[m]
    BY <2>1, <2>4
  <2>6. \A n \in 0..(m + 1) : n # 0 => h[n] = CleanedBy(h[n - 1], s[n], clock)
    <3>1. SUFFICES ASSUME NEW n \in 0..(m + 1), n # 0 PROVE h[n] = CleanedBy(h[n - 1], s[n], clock)
      OBVIOUS
    <3>2. CASE n = m + 1
      <4>1. n - 1 = m
        BY <3>2
      <4>2. QED BY <2>2, <2>4, <2>5, <3>2, <4>1
    <3>3. CASE n # m + 1
      <4>1. n \in 0..m /\ n - 1 \in 0..m
        BY <3>1, <3>3
      <4>2. f[n] = CleanedBy(f[n - 1], s[n], clock)
        BY <2>1, <3>1, <4>1
      <4>3. h[n] = f[n] /\ h[n - 1] = f[n - 1]
        BY <2>4, <4>1
      <4>4. QED BY <4>2, <4>3
    <3>4. QED BY <3>2, <3>3
  <2>7. h = [n \in 0..(m + 1) |-> h[n]]
    BY <2>3
  <2>8. [n \in 0..(m + 1) |-> h[n]]
          = [n \in 0..(m + 1) |-> IF n = 0 THEN <<>> ELSE CleanedBy(h[n - 1], s[n], clock)]
    BY <2>5, <2>6
  <2>9. Run(h, m + 1)
    BY <2>7, <2>8
  <2>10. QED BY <2>9
<1>3. Len(s) \in P
  <2> HIDE DEF P
  <2>1. \A n \in 0..Len(s) : n \in P
    BY <1>1, <1>2, ReachesBound
  <2>2. QED BY <2>1
<1>4. \E f : Run(f, Len(s))
  BY <1>3
<1>5. PICK g : Run(g, Len(s)) /\ Cleaned(s, clock) = g[Len(s)]
  BY <1>4, Zenon DEF Cleaned, CleanedBy
<1>6. \A n \in 0..Len(s) :
        g[n] = IF n = 0 THEN <<>> ELSE CleanedBy(g[n - 1], s[n], clock)
  BY <1>5
<1>7. g[0] = <<>> /\ \A n \in 1..Len(s) : g[n] = CleanedBy(g[n - 1], s[n], clock)
  BY <1>6
<1>8. QED BY <1>5, <1>7

-----------------------------------------------------------------------------
(* What a replay makes of an image: of each IRI the newest record that the  *)
(* image does not cover, and else what the image says.                      *)

Before(r, s) == r.clock < s.clock /\ r.attempt < s.attempt
Ordered(segment) == \A k, l \in DOMAIN segment : k < l => Before(segment[k], segment[l])
Chained(segments) ==
  /\ \A k \in DOMAIN segments : Ordered(segments[k])
  /\ \A k, l \in DOMAIN segments : k < l =>
       \A r \in Range(segments[k]), s \in Range(segments[l]) : Before(r, s)
Written(segments) == UNION {Range(segments[k]) : k \in DOMAIN segments}
Readable(segments) == UNION {Range(Healed(segments[k])) : k \in DOMAIN segments}

Value(r) == IF r.delete THEN 0 ELSE r.attempt
AppliedOn(i, base, R, image) ==
  \/ image.docs[i] = base.docs[i] /\ \A r \in R : r.iri = i => r.clock <= base.clock
  \/ \E r \in R : /\ r.iri = i /\ r.clock > base.clock /\ image.docs[i] = Value(r)
                  /\ \A q \in R : q.iri = i => q.clock <= r.clock
Applied(base, R, image) ==
  /\ image \in ImageType
  /\ image.clock >= base.clock /\ \A r \in R : r.clock <= image.clock
  /\ image.clock = base.clock \/ \E r \in R : r.clock = image.clock
  /\ \A i \in Iris : AppliedOn(i, base, R, image)

LEMMA NothingApplies ==
  ASSUME NEW base \in ImageType
  PROVE  Applied(base, {}, base)
  BY VectorLogAssumption DEF Applied, AppliedOn, ImageType

LEMMA ReplayApplies ==
  ASSUME NEW base \in ImageType, NEW r \in Record
  PROVE  Applied(base, {r}, Replay(base, r))
<1>1. /\ base.clock \in 0..MaxAttempts /\ base.docs \in [Iris -> 0..MaxAttempts]
      /\ base.known \subseteq Iris /\ MaxAttempts \in Nat
      /\ r.iri \in Iris /\ r.clock \in 1..MaxAttempts /\ r.attempt \in 1..MaxAttempts
      /\ r.delete \in BOOLEAN
  BY VectorLogAssumption DEF ImageType, Record
<1>2. CASE r.clock <= base.clock
  <2>1. Replay(base, r) = base
    BY <1>2 DEF Replay
  <2>2. \A i \in Iris : AppliedOn(i, base, {r}, base)
    BY <1>2 DEF AppliedOn
  <2>3. QED BY <1>1, <1>2, <2>1, <2>2 DEF Applied
<1>3. CASE ~(r.clock <= base.clock)
  <2> DEFINE after == Put(base.docs, base.known, r)
             image == [clock |-> r.clock, docs |-> after.docs, known |-> after.known]
  <2>1. Replay(base, r) = image
    BY <1>3 DEF Replay
  <2>2. /\ after.docs = [base.docs EXCEPT ![r.iri] = Value(r)]
        /\ after.known \subseteq Iris
    BY <1>1 DEF Put, Value
  <2>3. Value(r) \in 0..MaxAttempts
    BY <1>1 DEF Value
  <2>4. /\ image.clock = r.clock /\ image.docs = after.docs
        /\ image.docs \in [Iris -> 0..MaxAttempts] /\ image.docs[r.iri] = Value(r)
        /\ \A i \in Iris : i # r.iri => image.docs[i] = base.docs[i]
    BY <1>1, <2>2, <2>3
  <2>5. image \in ImageType
    <3>1. r.clock \in 0..MaxAttempts
      BY <1>1
    <3>2. QED BY <2>2, <2>4, <3>1 DEF ImageType
  <2> HIDE DEF image
  <2>6. ASSUME NEW i \in Iris PROVE AppliedOn(i, base, {r}, image)
    <3>1. CASE i = r.iri
      BY <1>1, <1>3, <2>4, <3>1 DEF AppliedOn
    <3>2. CASE i # r.iri
      BY <2>4, <3>2 DEF AppliedOn
    <3>3. QED BY <3>1, <3>2
  <2>7. image.clock >= base.clock /\ \A q \in {r} : q.clock <= image.clock
    BY <1>1, <1>3, <2>4
  <2>8. QED BY <2>1, <2>4, <2>5, <2>6, <2>7 DEF Applied
<1>4. QED BY <1>2, <1>3

\* Two replays, the second of later records, are one.
LEMMA AppliedThen ==
  ASSUME NEW base \in ImageType, NEW R \in SUBSET Record, NEW T \in SUBSET Record,
         NEW middle, NEW image, Applied(base, R, middle), Applied(middle, T, image),
         \A r \in R, t \in T : r.clock < t.clock
  PROVE  Applied(base, R \union T, image)
<1>1. /\ base.clock \in Nat /\ middle.clock \in Nat /\ image.clock \in Nat
      /\ \A r \in R \union T : r.clock \in Nat
  BY VectorLogAssumption DEF ImageType, Record, Applied
<1>2. ASSUME NEW i \in Iris PROVE AppliedOn(i, base, R \union T, image)
  <2>1. AppliedOn(i, base, R, middle) /\ AppliedOn(i, middle, T, image)
    BY DEF Applied
  <2>2. CASE \E t \in T : /\ t.iri = i /\ t.clock > middle.clock /\ image.docs[i] = Value(t)
                          /\ \A q \in T : q.iri = i => q.clock <= t.clock
    <3>1. PICK t \in T : /\ t.iri = i /\ t.clock > middle.clock /\ image.docs[i] = Value(t)
                         /\ \A q \in T : q.iri = i => q.clock <= t.clock
      BY <2>2
    <3>2. t.clock > base.clock
      BY <1>1, <3>1 DEF Applied
    <3>3. \A q \in R \union T : q.iri = i => q.clock <= t.clock
      BY <1>1, <3>1
    <3>4. QED BY <3>1, <3>2, <3>3 DEF AppliedOn
  <2>3. CASE /\ image.docs[i] = middle.docs[i]
             /\ \A t \in T : t.iri = i => t.clock <= middle.clock
    <3>1. ASSUME NEW t \in T, t.iri = i PROVE middle.clock = base.clock
      <4>1. SUFFICES ASSUME NEW r \in R, r.clock = middle.clock PROVE FALSE
        BY DEF Applied
      <4>2. r.clock < t.clock /\ t.clock <= middle.clock
        BY <2>3, <3>1
      <4>3. QED BY <1>1, <4>1, <4>2
    <3>2. CASE /\ middle.docs[i] = base.docs[i]
               /\ \A r \in R : r.iri = i => r.clock <= base.clock
      <4>1. \A t \in T : t.iri = i => t.clock <= base.clock
        BY <2>3, <3>1
      <4>2. QED BY <2>3, <3>2, <4>1 DEF AppliedOn
    <3>3. CASE \E r \in R : /\ r.iri = i /\ r.clock > base.clock /\ middle.docs[i] = Value(r)
                            /\ \A q \in R : q.iri = i => q.clock <= r.clock
      <4>1. PICK r \in R : /\ r.iri = i /\ r.clock > base.clock /\ middle.docs[i] = Value(r)
                           /\ \A q \in R : q.iri = i => q.clock <= r.clock
        BY <3>3
      <4>2. r.clock <= middle.clock
        BY DEF Applied
      <4>3. \A t \in T : t.iri # i
        BY <1>1, <3>1, <4>1, <4>2
      <4>4. QED BY <2>3, <4>1, <4>3 DEF AppliedOn
    <3>4. QED BY <2>1, <3>2, <3>3 DEF AppliedOn
  <2>4. QED BY <2>1, <2>2, <2>3 DEF AppliedOn
<1>3. image.clock >= base.clock
  BY <1>1 DEF Applied
<1>4. \A r \in R \union T : r.clock <= image.clock
  <2>1. \A r \in R : r.clock <= middle.clock
    BY DEF Applied
  <2>2. middle.clock <= image.clock
    BY <1>1 DEF Applied
  <2>3. QED BY <1>1, <2>1, <2>2 DEF Applied
<1>5. image.clock = base.clock \/ \E r \in R \union T : r.clock = image.clock
  <2>1. CASE image.clock = middle.clock
    BY <2>1 DEF Applied
  <2>2. CASE \E t \in T : t.clock = image.clock
    BY <2>2
  <2>3. QED BY <2>1, <2>2 DEF Applied
<1>6. image \in ImageType
  BY DEF Applied
<1>7. QED BY <1>2, <1>3, <1>4, <1>5, <1>6 DEF Applied

\* Records in the order of their clocks are applied all.
LEMMA ReplayedApplies ==
  ASSUME NEW base \in ImageType, NEW s \in Seq(Record), Ordered(s)
  PROVE  Applied(base, Range(s), Replayed(base, s))
<1>1. Len(s) \in Nat /\ DOMAIN s = 1..Len(s) /\ \A k \in 1..Len(s) : s[k] \in Record
  OBVIOUS
<1>2. PICK g : /\ g[0] = base
               /\ \A n \in 1..Len(s) : g[n] = Replay(g[n - 1], s[n])
               /\ Replayed(base, s) = g[Len(s)]
  BY <1>1, ReplayedRuns
<1> DEFINE Upto(n) == {s[k] : k \in 1..n}
           P == {n \in 0..Len(s) : Applied(base, Upto(n), g[n])}
<1>3. 0 \in P
  <2>1. Upto(0) = {}
    OBVIOUS
  <2>2. Applied(base, Upto(0), g[0])
    BY <1>2, <2>1, NothingApplies
  <2> HIDE DEF Upto
  <2>3. QED BY <1>1, <2>2
<1>4. ASSUME NEW n \in 0..Len(s), n \in P, n < Len(s) PROVE n + 1 \in P
  <2>1. n + 1 \in 1..Len(s) /\ n + 1 - 1 = n /\ n \in Nat
    BY <1>1, <1>4
  <2>2. g[n + 1] = Replay(g[n], s[n + 1])
    BY <1>2, <2>1
  <2>3. PICK e \in Record : e = s[n + 1]
    BY <1>1, <2>1
  <2>4. Applied(base, Upto(n), g[n]) /\ g[n] \in ImageType
    BY <1>4 DEF Applied
  <2>5. Applied(g[n], {e}, g[n + 1])
    BY <2>2, <2>3, <2>4, ReplayApplies
  <2>6. Upto(n) \subseteq Record
    BY <1>1, <2>1
  <2>7. \A r \in Upto(n), t \in {e} : r.clock < t.clock
    <3>1. ASSUME NEW k \in 1..n PROVE s[k].clock < s[n + 1].clock
      <4>1. k \in DOMAIN s /\ n + 1 \in DOMAIN s /\ k < n + 1
        BY <1>1, <2>1
      <4>2. QED BY <4>1 DEF Ordered, Before
    <3>2. QED BY <2>3, <3>1
  <2>8. Upto(n) \union {e} = Upto(n + 1)
    <3>1. 1..(n + 1) = 1..n \union {n + 1}
      BY <2>1
    <3>2. QED BY <2>3, <3>1
  <2> HIDE DEF Upto
  <2>9. Applied(base, Upto(n) \union {e}, g[n + 1])
    BY <2>4, <2>5, <2>6, <2>7, AppliedThen
  <2>10. n + 1 \in 0..Len(s)
    BY <1>1, <2>1
  <2>11. QED BY <2>8, <2>9, <2>10
<1>5. Len(s) \in P
  <2> HIDE DEF P
  <2>1. \A n \in 0..Len(s) : n \in P
    BY <1>1, <1>3, <1>4, ReachesBound
  <2>2. QED BY <1>1, <2>1
<1>6. Upto(Len(s)) = Range(s)
  BY <1>1 DEF Range
<1>7. QED
  <2> HIDE DEF Upto
  <2>1. QED BY <1>2, <1>5, <1>6

LEMMA HealedOrdered ==
  ASSUME NEW segment \in SegmentType, Ordered(segment)
  PROVE  Healed(segment) \in SegmentType /\ Ordered(Healed(segment))
<1>1. PICK n : /\ WholeTo(segment, n) /\ Healed(segment) \in SegmentType
               /\ DOMAIN Healed(segment) = 1..n
               /\ \A k \in 1..n : Healed(segment)[k] = segment[k]
  BY HealedPrefix
<1>2. n \in 0..Len(segment) /\ DOMAIN segment = 1..Len(segment) /\ Len(segment) \in Nat
  BY <1>1, SegmentsAreRecords DEF WholeTo
<1>3. \A k \in 1..n : k \in DOMAIN segment
  BY <1>2
<1>4. QED BY <1>1, <1>3 DEF Ordered

\* Segments in the order of their records are applied all, as far as they can be read.
LEMMA ReplayedAllApplies ==
  ASSUME NEW base \in ImageType, NEW s \in Seq(SegmentType), Chained(s)
  PROVE  Applied(base, Readable(s), ReplayedAll(base, s))
<1>1. Len(s) \in Nat /\ DOMAIN s = 1..Len(s) /\ \A k \in 1..Len(s) : s[k] \in SegmentType
  OBVIOUS
<1>2. PICK g : /\ g[0] = base
               /\ \A n \in 1..Len(s) : g[n] = Replayed(g[n - 1], Healed(s[n]))
               /\ ReplayedAll(base, s) = g[Len(s)]
  BY <1>1, ReplayedAllRuns
<1> DEFINE Upto(n) == UNION {Range(Healed(s[k])) : k \in 1..n}
           P == {n \in 0..Len(s) : Applied(base, Upto(n), g[n])}
<1>3. 0 \in P
  <2>1. Upto(0) = {}
    OBVIOUS
  <2>2. Applied(base, Upto(0), g[0])
    BY <1>2, <2>1, NothingApplies
  <2> HIDE DEF Upto
  <2>3. QED BY <1>1, <2>2
<1>4. ASSUME NEW n \in 0..Len(s), n \in P, n < Len(s) PROVE n + 1 \in P
  <2>1. n + 1 \in 1..Len(s) /\ n + 1 - 1 = n /\ n \in Nat
    BY <1>1, <1>4
  <2>2. PICK e \in SegmentType : e = s[n + 1]
    BY <1>1, <2>1
  <2>3. g[n + 1] = Replayed(g[n], Healed(e))
    BY <1>2, <2>1, <2>2
  <2>4. Applied(base, Upto(n), g[n]) /\ g[n] \in ImageType
    BY <1>4 DEF Applied
  <2>5. Applied(g[n], Range(Healed(e)), g[n + 1])
    <3>1. Ordered(e)
      BY <1>1, <2>1, <2>2 DEF Chained
    <3>2. Healed(e) \in Seq(Record) /\ Ordered(Healed(e))
      BY <3>1, HealedOrdered, SegmentsAreRecords
    <3>3. QED BY <2>3, <2>4, <3>2, ReplayedApplies
  <2>6. ASSUME NEW k \in 1..(n + 1)
        PROVE  Range(Healed(s[k])) \subseteq Record /\ Range(Healed(s[k])) \subseteq Range(s[k])
    <3>1. s[k] \in SegmentType
      BY <1>1, <2>1
    <3>2. Healed(s[k]) \in Seq(Record)
      BY <3>1, HealedPrefix, SegmentsAreRecords
    <3>3. QED BY <3>1, <3>2, HealedRange, RangeOfSeq
  <2>7. Upto(n) \subseteq Record /\ Range(Healed(e)) \subseteq Record
    BY <2>1, <2>2, <2>6
  <2>8. \A r \in Upto(n), t \in Range(Healed(e)) : r.clock < t.clock
    <3>1. ASSUME NEW k \in 1..n, NEW r \in Range(Healed(s[k])), NEW t \in Range(Healed(e))
          PROVE  r.clock < t.clock
      <4>1. k \in DOMAIN s /\ n + 1 \in DOMAIN s /\ k < n + 1 /\ k \in 1..(n + 1)
        BY <1>1, <2>1
      <4>2. r \in Range(s[k]) /\ t \in Range(s[n + 1])
        BY <2>1, <2>2, <2>6, <4>1
      <4>3. QED BY <4>1, <4>2 DEF Chained, Before
    <3>2. QED BY <3>1
  <2>9. Upto(n) \union Range(Healed(e)) = Upto(n + 1)
    <3>1. 1..(n + 1) = 1..n \union {n + 1}
      BY <2>1
    <3>2. QED BY <2>2, <3>1
  <2> HIDE DEF Upto
  <2>10. Applied(base, Upto(n) \union Range(Healed(e)), g[n + 1])
    BY <2>4, <2>5, <2>7, <2>8, AppliedThen
  <2>11. n + 1 \in 0..Len(s)
    BY <1>1, <2>1
  <2>12. QED BY <2>9, <2>10, <2>11
<1>5. Len(s) \in P
  <2> HIDE DEF P
  <2>1. \A n \in 0..Len(s) : n \in P
    BY <1>1, <1>3, <1>4, ReachesBound
  <2>2. QED BY <1>1, <2>1
<1>6. Upto(Len(s)) = Readable(s)
  BY <1>1 DEF Readable
<1>7. QED
  <2> HIDE DEF Upto
  <2>1. QED BY <1>2, <1>5, <1>6

-----------------------------------------------------------------------------
(* The log as segments are appended, healed, cut and removed.              *)

LEMMA OrderedAppend ==
  ASSUME NEW s \in SegmentType, NEW r \in Record, Ordered(s), \A q \in Range(s) : Before(q, r)
  PROVE  Ordered(Append(s, r))
<1>1. /\ s \in Seq(Record) /\ Len(s) \in Nat /\ DOMAIN s = 1..Len(s)
      /\ DOMAIN Append(s, r) = 1..(Len(s) + 1) /\ Append(s, r)[Len(s) + 1] = r
      /\ \A k \in 1..Len(s) : Append(s, r)[k] = s[k]
  BY SegmentsAreRecords
<1>2. PICK a : a = Append(s, r)
  OBVIOUS
<1>3. ASSUME NEW k \in DOMAIN a, NEW l \in DOMAIN a, k < l PROVE Before(a[k], a[l])
  <2>1. k \in DOMAIN s /\ a[k] = s[k]
    BY <1>1, <1>2, <1>3
  <2>2. CASE l \in DOMAIN s
    BY <1>1, <1>2, <1>3, <2>1, <2>2 DEF Ordered
  <2>3. CASE l = Len(s) + 1
    <3>1. s[k] \in Range(s)
      BY <2>1 DEF Range
    <3>2. QED BY <1>1, <1>2, <2>1, <2>3, <3>1
  <2>4. QED BY <1>1, <1>2, <2>2, <2>3
<1>4. QED BY <1>2, <1>3 DEF Ordered

LEMMA SegmentsAppend ==
  ASSUME NEW f \in Seq(SegmentType), NEW a \in SegmentType
  PROVE  /\ Append(f, a) \in Seq(SegmentType)
         /\ DOMAIN f = 1..Len(f) /\ Len(f) \in Nat /\ DOMAIN Append(f, a) = 1..(Len(f) + 1)
         /\ Append(f, a)[Len(f) + 1] = a
         /\ \A k \in 1..Len(f) : Append(f, a)[k] = f[k]
  OBVIOUS

LEMMA WrittenAppend ==
  ASSUME NEW f \in Seq(SegmentType), NEW a \in SegmentType
  PROVE  Written(Append(f, a)) = Written(f) \union Range(a)
<1> DEFINE g == Append(f, a)
<1>1. /\ DOMAIN f = 1..Len(f) /\ Len(f) \in Nat /\ DOMAIN g = 1..(Len(f) + 1)
      /\ g[Len(f) + 1] = a /\ \A k \in 1..Len(f) : g[k] = f[k]
  BY SegmentsAppend
<1> HIDE DEF g
<1>2. 1..(Len(f) + 1) = 1..Len(f) \union {Len(f) + 1}
  BY <1>1
<1>3. {Range(g[k]) : k \in DOMAIN g} = {Range(f[k]) : k \in DOMAIN f} \union {Range(a)}
  BY <1>1, <1>2
<1>4. QED BY <1>1, <1>3 DEF Written, g

LEMMA ReadableAppend ==
  ASSUME NEW f \in Seq(SegmentType), NEW a \in SegmentType
  PROVE  Readable(Append(f, a)) = Readable(f) \union Range(Healed(a))
<1> DEFINE g == Append(f, a)
<1>1. /\ DOMAIN f = 1..Len(f) /\ Len(f) \in Nat /\ DOMAIN g = 1..(Len(f) + 1)
      /\ g[Len(f) + 1] = a /\ \A k \in 1..Len(f) : g[k] = f[k]
  BY SegmentsAppend
<1> HIDE DEF g
<1>2. 1..(Len(f) + 1) = 1..Len(f) \union {Len(f) + 1}
  BY <1>1
<1>3. {Range(Healed(g[k])) : k \in DOMAIN g}
        = {Range(Healed(f[k])) : k \in DOMAIN f} \union {Range(Healed(a))}
  BY <1>1, <1>2
<1>4. QED BY <1>1, <1>3 DEF Readable, g

LEMMA ChainedAppend ==
  ASSUME NEW f \in Seq(SegmentType), NEW a \in SegmentType
  PROVE  Chained(Append(f, a)) <=>
           /\ Chained(f) /\ Ordered(a)
           /\ \A r \in Written(f), s \in Range(a) : Before(r, s)
<1> DEFINE g == Append(f, a)
<1>1. /\ DOMAIN f = 1..Len(f) /\ Len(f) \in Nat /\ DOMAIN g = 1..(Len(f) + 1)
      /\ g[Len(f) + 1] = a /\ \A k \in 1..Len(f) : g[k] = f[k]
  BY SegmentsAppend
<1> HIDE DEF g
<1>2. ASSUME Chained(g)
      PROVE  /\ Chained(f) /\ Ordered(a)
             /\ \A r \in Written(f), s \in Range(a) : Before(r, s)
  <2>1. \A k \in DOMAIN f : k \in DOMAIN g /\ k < Len(f) + 1 /\ f[k] = g[k]
    BY <1>1
  <2>2. Len(f) + 1 \in DOMAIN g /\ a = g[Len(f) + 1]
    BY <1>1
  <2>3. Chained(f) /\ Ordered(a)
    BY <1>2, <2>1, <2>2 DEF Chained
  <2>4. ASSUME NEW r \in Written(f), NEW s \in Range(a) PROVE Before(r, s)
    <3>1. PICK k \in DOMAIN f : r \in Range(f[k])
      BY DEF Written
    <3>2. QED BY <1>2, <2>1, <2>2, <3>1 DEF Chained
  <2>5. QED BY <2>3, <2>4
<1>3. ASSUME Chained(f), Ordered(a), \A r \in Written(f), s \in Range(a) : Before(r, s)
      PROVE  Chained(g)
  <2>1. ASSUME NEW k \in DOMAIN g PROVE Ordered(g[k])
    <3>1. k \in DOMAIN f \/ k = Len(f) + 1
      BY <1>1
    <3>2. QED BY <1>1, <1>3, <3>1 DEF Chained
  <2>2. ASSUME NEW k \in DOMAIN g, NEW l \in DOMAIN g, k < l,
               NEW r \in Range(g[k]), NEW s \in Range(g[l])
        PROVE  Before(r, s)
    <3>1. k \in DOMAIN f /\ g[k] = f[k]
      BY <1>1, <2>2
    <3>2. CASE l \in DOMAIN f
      <4>1. g[l] = f[l]
        BY <1>1, <3>2
      <4>2. QED BY <1>3, <2>2, <3>1, <3>2, <4>1 DEF Chained
    <3>3. CASE l = Len(f) + 1
      <4>1. r \in Written(f)
        BY <3>1, <2>2 DEF Written
      <4>2. QED BY <1>1, <1>3, <2>2, <3>3, <4>1
    <3>4. QED BY <1>1, <3>2, <3>3
  <2>3. QED BY <2>1, <2>2 DEF Chained
<1>4. QED BY <1>2, <1>3 DEF g

LEMMA SegmentFacts ==
  ASSUME NEW f \in Seq(SegmentType)
  PROVE  /\ Written(f) \subseteq Record /\ Readable(f) \subseteq Written(f)
         /\ \A r \in Readable(f) : r.whole
<1>1. ASSUME NEW k \in DOMAIN f
      PROVE  /\ Range(f[k]) \subseteq Record /\ Range(Healed(f[k])) \subseteq Range(f[k])
             /\ \A r \in Range(Healed(f[k])) : r.whole
  <2>1. f[k] \in SegmentType /\ f[k] \in Seq(Record)
    BY SegmentsAreRecords
  <2>2. QED BY <2>1, RangeOfSeq, HealedRange
<1>2. QED BY <1>1 DEF Written, Readable

\* Parts of the segments, in their order, are chained.
LEMMA SubChain ==
  ASSUME NEW s, NEW t, NEW m, Chained(s),
         \A k \in DOMAIN t : /\ m[k] \in DOMAIN s
                             /\ Ordered(t[k]) /\ Range(t[k]) \subseteq Range(s[m[k]]),
         \A k, l \in DOMAIN t : k < l => m[k] < m[l]
  PROVE  Chained(t) /\ Written(t) \subseteq Written(s)
<1>1. ASSUME NEW k \in DOMAIN t, NEW l \in DOMAIN t, k < l,
             NEW r \in Range(t[k]), NEW q \in Range(t[l])
      PROVE  Before(r, q)
  <2>1. m[k] \in DOMAIN s /\ m[l] \in DOMAIN s /\ m[k] < m[l]
    BY <1>1
  <2>2. r \in Range(s[m[k]]) /\ q \in Range(s[m[l]])
    BY <1>1
  <2>3. QED BY <2>1, <2>2 DEF Chained
<1>2. ASSUME NEW r \in Written(t) PROVE r \in Written(s)
  <2>1. PICK k \in DOMAIN t : r \in Range(t[k])
    BY DEF Written
  <2>2. QED BY <2>1 DEF Written
<1>3. QED BY <1>1, <1>2 DEF Chained

\* A segment is removable only if the clock covers what can be read of it.
LEMMA RemovableCovered ==
  ASSUME NEW a \in SegmentType, NEW clock \in Nat, Removable(a, clock)
  PROVE  clock > 0 /\ \A r \in Range(Healed(a)) : r.clock <= clock
<1> DEFINE h == Healed(a)
           clocks == {0} \union {h[k].clock : k \in DOMAIN h}
<1>1. /\ h \in Seq(Record) /\ \A k \in DOMAIN h : h[k] \in Record
  BY HealedPrefix, SegmentsAreRecords
<1>2. clocks \subseteq 0..MaxAttempts /\ MaxAttempts \in Nat /\ clocks # {}
  BY <1>1, VectorLogAssumption DEF Record
<1>3. MaxClock(a) = Max(clocks)
  BY DEF MaxClock
<1>4. Max(clocks) \in clocks /\ \A n \in clocks : n <= Max(clocks)
  <2> HIDE DEF clocks
  <2>1. QED BY <1>2, MaxIsGreatest
<1>5. Max(clocks) \in Nat /\ clocks \subseteq Nat
  BY <1>2, <1>4
<1>6. 0 < Max(clocks) /\ Max(clocks) <= clock
  BY <1>3 DEF Removable
<1>7. ASSUME NEW r \in Range(h) PROVE r.clock <= clock
  <2>1. r.clock \in clocks
    BY DEF Range
  <2> HIDE DEF clocks
  <2>2. r.clock <= Max(clocks) /\ r.clock \in Nat
    BY <1>4, <1>5, <2>1
  <2>3. QED BY <1>5, <1>6, <2>2
<1>8. QED BY <1>5, <1>6, <1>7

\* Pruning keeps the order, and every record of a clock beyond the one it is given.
LEMMA CleanedKeeps ==
  ASSUME NEW s \in Seq(SegmentType), NEW clock \in Nat, Chained(s)
  PROVE  LET t == Cleaned(s, clock) IN
         /\ t \in Seq(SegmentType) /\ Chained(t)
         /\ Written(t) \subseteq Written(s) /\ Readable(t) \subseteq Readable(s)
         /\ \A r \in Readable(s) : r.clock > clock => r \in Readable(t)
<1>1. Len(s) \in Nat /\ DOMAIN s = 1..Len(s) /\ \A k \in 1..Len(s) : s[k] \in SegmentType
  OBVIOUS
<1>2. PICK g : /\ g[0] = <<>>
               /\ \A n \in 1..Len(s) : g[n] = CleanedBy(g[n - 1], s[n], clock)
               /\ Cleaned(s, clock) = g[Len(s)]
  BY <1>1, CleanedRuns
<1> DEFINE Read(n) == UNION {Range(Healed(s[k])) : k \in 1..n}
           Has(n) == UNION {Range(s[k]) : k \in 1..n}
           Good(n) == /\ g[n] \in Seq(SegmentType) /\ Chained(g[n])
                      /\ Written(g[n]) \subseteq Has(n) /\ Readable(g[n]) \subseteq Read(n)
                      /\ \A r \in Read(n) : r.clock > clock => r \in Readable(g[n])
           P == {n \in 0..Len(s) : Good(n)}
<1>3. 0 \in P
  <2>1. g[0] \in Seq(SegmentType) /\ DOMAIN g[0] = {}
    BY <1>2
  <2>2. Chained(g[0]) /\ Written(g[0]) = {} /\ Readable(g[0]) = {} /\ Read(0) = {}
    BY <2>1 DEF Chained, Written, Readable
  <2>3. Good(0)
    BY <2>1, <2>2
  <2> HIDE DEF Good
  <2>4. QED BY <1>1, <2>3
<1>4. ASSUME NEW n \in 0..Len(s), n \in P, n < Len(s) PROVE n + 1 \in P
  <2>1. n + 1 \in 1..Len(s) /\ n + 1 - 1 = n /\ n \in Nat
    BY <1>1, <1>4
  <2>2. PICK e \in SegmentType : e = s[n + 1]
    BY <1>1, <2>1
  <2>3. PICK h \in SegmentType : h = Healed(e)
    BY HealedPrefix
  <2>4. g[n + 1] = IF Removable(e, clock) THEN g[n] ELSE Append(g[n], h)
    BY <1>2, <2>1, <2>2, <2>3 DEF CleanedBy
  <2>5. /\ g[n] \in Seq(SegmentType) /\ Chained(g[n])
        /\ Written(g[n]) \subseteq Has(n) /\ Readable(g[n]) \subseteq Read(n)
        /\ \A r \in Read(n) : r.clock > clock => r \in Readable(g[n])
    BY <1>4
  <2>6. 1..(n + 1) = 1..n \union {n + 1}
    BY <2>1
  <2>7. Read(n + 1) = Read(n) \union Range(h) /\ Has(n + 1) = Has(n) \union Range(e)
    BY <2>2, <2>3, <2>6
  <2>8. Range(h) \subseteq Range(e) /\ Healed(h) = h
    BY <2>3, HealedRange, HealedTwice
  <2>9. \A r \in Has(n), q \in Range(h) : Before(r, q)
    <3>1. ASSUME NEW k \in 1..n, NEW r \in Range(s[k]), NEW q \in Range(e)
          PROVE  Before(r, q)
      <4>1. k \in DOMAIN s /\ n + 1 \in DOMAIN s /\ k < n + 1
        BY <1>1, <2>1
      <4>2. QED BY <2>2, <3>1, <4>1 DEF Chained
    <3>2. QED BY <2>8, <3>1
  <2>10. Ordered(h)
    <3>1. Ordered(e)
      BY <1>1, <2>1, <2>2 DEF Chained
    <3>2. QED BY <2>3, <3>1, HealedOrdered
  <2>11. Good(n + 1)
    <3> HIDE DEF Read, Has
    <3>1. CASE Removable(e, clock)
      <4>1. \A r \in Range(h) : r.clock <= clock
        BY <2>3, <3>1, RemovableCovered
      <4>2. Range(h) \subseteq Record
        BY <2>3, SegmentsAreRecords, RangeOfSeq
      <4>3. \A r \in Range(h) : ~(r.clock > clock)
        BY <4>1, <4>2 DEF Record
      <4>4. g[n + 1] = g[n]
        BY <2>4, <3>1
      <4>5. QED BY <2>5, <2>7, <4>3, <4>4
    <3>2. CASE ~Removable(e, clock)
      <4>1. g[n + 1] = Append(g[n], h)
        BY <2>4, <3>2
      <4>2. g[n + 1] \in Seq(SegmentType)
        BY <2>5, <4>1
      <4>3. Chained(g[n + 1])
        BY <2>5, <2>9, <2>10, <4>1, ChainedAppend
      <4>4. Written(g[n + 1]) = Written(g[n]) \union Range(h)
        BY <2>5, <4>1, WrittenAppend
      <4>5. Readable(g[n + 1]) = Readable(g[n]) \union Range(h)
        BY <2>5, <2>8, <4>1, ReadableAppend
      <4>6. QED BY <2>5, <2>7, <2>8, <4>2, <4>3, <4>4, <4>5
    <3>3. QED BY <3>1, <3>2
  <2> HIDE DEF Good
  <2>12. n + 1 \in 0..Len(s)
    BY <1>1, <2>1
  <2>13. QED BY <2>11, <2>12
<1>5. Len(s) \in P
  <2> HIDE DEF P
  <2>1. \A n \in 0..Len(s) : n \in P
    BY <1>1, <1>3, <1>4, ReachesBound
  <2>2. QED BY <1>1, <2>1
<1>6. Read(Len(s)) = Readable(s) /\ Has(Len(s)) = Written(s)
  BY <1>1 DEF Readable, Written
<1>7. Good(Len(s))
  BY <1>5
<1>8. QED
  <2> HIDE DEF Read, Has
  <2>1. QED BY <1>2, <1>6, <1>7

LEMMA LogAppend ==
  ASSUME NEW f \in Seq(SegmentType), NEW a \in SegmentType, NEW r \in Record,
         Chained(Append(f, a)), \A q \in Written(Append(f, a)) : Before(q, r)
  PROVE  LET g == Append(f, Append(a, r)) IN
         /\ Append(a, r) \in SegmentType /\ Chained(g)
         /\ Written(g) = Written(Append(f, a)) \union {r}
         /\ r.whole /\ ~Torn(a) => Readable(g) = Readable(Append(f, a)) \union {r}
         /\ ~r.whole \/ Torn(a) => Readable(g) = Readable(Append(f, a))
<1>1. PICK b \in SegmentType : b = Append(a, r)
  BY HealedAppend
<1>2. /\ Chained(f) /\ Ordered(a) /\ \A q \in Written(f), s \in Range(a) : Before(q, s)
  BY ChainedAppend
<1>3. Written(Append(f, a)) = Written(f) \union Range(a)
  BY WrittenAppend
<1>4. Range(b) = Range(a) \union {r}
  BY <1>1, RangeOfAppend, SegmentsAreRecords
<1>5. Ordered(b)
  BY <1>1, <1>2, <1>3, OrderedAppend
<1>6. \A q \in Written(f), s \in Range(b) : Before(q, s)
  BY <1>2, <1>3, <1>4
<1>7. Chained(Append(f, b))
  BY <1>2, <1>5, <1>6, ChainedAppend
<1>8. Written(Append(f, b)) = Written(f) \union Range(b)
  BY WrittenAppend
<1>9. /\ Readable(Append(f, b)) = Readable(f) \union Range(Healed(b))
      /\ Readable(Append(f, a)) = Readable(f) \union Range(Healed(a))
  BY ReadableAppend
<1>10. /\ r.whole /\ ~Torn(a) => Range(Healed(b)) = Range(Healed(a)) \union {r}
       /\ ~r.whole \/ Torn(a) => Range(Healed(b)) = Range(Healed(a))
  BY <1>1, HealedAppend
<1>11. Written(Append(f, b)) = Written(Append(f, a)) \union {r}
  BY <1>3, <1>4, <1>8
<1>12. r.whole /\ ~Torn(a) => Readable(Append(f, b)) = Readable(Append(f, a)) \union {r}
  BY <1>9, <1>10
<1>13. ~r.whole \/ Torn(a) => Readable(Append(f, b)) = Readable(Append(f, a))
  BY <1>9, <1>10
<1>14. QED BY <1>1, <1>7, <1>11, <1>12, <1>13

LEMMA LogRotate ==
  ASSUME NEW f \in Seq(SegmentType), Chained(f)
  PROVE  /\ <<>> \in SegmentType /\ Chained(Append(f, <<>>))
         /\ Written(Append(f, <<>>)) = Written(f) /\ Readable(Append(f, <<>>)) = Readable(f)
         /\ ~Torn(<<>>)
<1>1. PICK e \in SegmentType : e = <<>> /\ Range(e) = {} /\ Healed(e) = e
  BY EmptyHeals
<1>2. Ordered(e) /\ ~Torn(e)
  <2>1. DOMAIN e = {}
    BY <1>1
  <2>2. QED BY <2>1 DEF Ordered, Torn
<1>3. Chained(Append(f, e))
  BY <1>1, <1>2, ChainedAppend
<1>4. Written(Append(f, e)) = Written(f) /\ Readable(Append(f, e)) = Readable(f)
  <2>1. /\ Written(Append(f, e)) = Written(f) \union Range(e)
        /\ Readable(Append(f, e)) = Readable(f) \union Range(Healed(e))
    BY WrittenAppend, ReadableAppend
  <2>2. Range(e) = {} /\ Range(Healed(e)) = {}
    BY <1>1
  <2>3. QED BY <2>1, <2>2
<1>5. QED BY <1>1, <1>2, <1>3, <1>4

CutOff(a, b) == {a[k] : k \in DOMAIN a \ DOMAIN b}
LEMMA LogCut ==
  ASSUME NEW f \in Seq(SegmentType), NEW a \in SegmentType, Chained(Append(f, a)),
         NEW kept \in 0..Len(a), NEW b, b = SubSeq(a, 1, kept)
  PROVE  /\ b \in SegmentType /\ Len(b) = kept /\ Chained(Append(f, b))
         /\ Written(Append(f, b)) \subseteq Written(Append(f, a))
         /\ Readable(Append(f, b)) \subseteq Readable(Append(f, a))
         /\ \A k \in DOMAIN b : k \in DOMAIN a /\ b[k] = a[k]
         /\ Readable(Append(f, a)) \subseteq Readable(Append(f, b)) \union CutOff(a, b)
<1>1. /\ b \in SegmentType /\ Len(b) = kept
      /\ \A k \in 1..kept : b[k] = a[k]
      /\ Range(Healed(b)) \subseteq Range(Healed(a))
      /\ \A k \in DOMAIN Healed(a) : k <= kept => Healed(a)[k] \in Range(Healed(b))
  BY HealedCut
<1>2. DOMAIN a = 1..Len(a) /\ DOMAIN b = 1..kept /\ Len(a) \in Nat
  BY <1>1, SegmentsAreRecords
<1>3. /\ Chained(f) /\ Ordered(a) /\ \A q \in Written(f), s \in Range(a) : Before(q, s)
  BY ChainedAppend
<1>4. \A k \in DOMAIN b : k \in DOMAIN a /\ b[k] = a[k]
  BY <1>1, <1>2
<1>5. Ordered(b) /\ Range(b) \subseteq Range(a)
  BY <1>3, <1>4 DEF Ordered, Range
<1>6. Chained(Append(f, b))
  BY <1>1, <1>3, <1>5, ChainedAppend
<1>7. /\ Written(Append(f, b)) = Written(f) \union Range(b)
      /\ Written(Append(f, a)) = Written(f) \union Range(a)
      /\ Readable(Append(f, b)) = Readable(f) \union Range(Healed(b))
      /\ Readable(Append(f, a)) = Readable(f) \union Range(Healed(a))
  BY <1>1, WrittenAppend, ReadableAppend
<1>8. ASSUME NEW r \in Range(Healed(a)), ~ \E k \in DOMAIN a : k \notin DOMAIN b /\ a[k] = r
      PROVE  r \in Range(Healed(b))
  <2>1. PICK n : /\ WholeTo(a, n) /\ DOMAIN Healed(a) = 1..n
                 /\ \A k \in 1..n : Healed(a)[k] = a[k]
    BY HealedPrefix
  <2>2. PICK k \in 1..n : r = Healed(a)[k]
    BY <2>1 DEF Range
  <2>3. n \in 0..Len(a)
    BY <2>1 DEF WholeTo
  <2>4. k \in DOMAIN a /\ a[k] = r
    BY <1>2, <2>1, <2>2, <2>3
  <2>5. k <= kept
    BY <1>2, <1>8, <2>4
  <2>6. QED BY <1>1, <2>1, <2>2, <2>5
<1>9. \A r \in Range(Healed(a)) : r \in Range(Healed(b)) \/ r \in CutOff(a, b)
  BY <1>8 DEF CutOff
<1>10. Readable(Append(f, a)) \subseteq Readable(Append(f, b)) \union CutOff(a, b)
  BY <1>7, <1>9
<1>11. QED BY <1>1, <1>4, <1>5, <1>6, <1>7, <1>10

LEMMA LogHeal ==
  ASSUME NEW f \in Seq(SegmentType), NEW a \in SegmentType, Chained(Append(f, a))
  PROVE  LET h == [k \in DOMAIN f |-> Healed(f[k])]
             b == Healed(a)
             g == Append(h, b)
         IN  /\ h \in Seq(SegmentType) /\ b \in SegmentType /\ Chained(g)
             /\ Written(g) \subseteq Readable(Append(f, a))
             /\ Readable(g) = Readable(Append(f, a))
             /\ \A k \in DOMAIN b : k \in DOMAIN a /\ b[k] = a[k]
<1>1. DOMAIN f = 1..Len(f) /\ Len(f) \in Nat /\ \A k \in 1..Len(f) : f[k] \in SegmentType
  OBVIOUS
<1>2. PICK h : h = [k \in DOMAIN f |-> Healed(f[k])]
  OBVIOUS
<1>3. /\ DOMAIN h = DOMAIN f
      /\ \A k \in DOMAIN f : h[k] = Healed(f[k]) /\ h[k] \in SegmentType
  BY <1>1, <1>2, HealedPrefix
<1>4. h \in Seq(SegmentType)
  BY <1>1, <1>2, <1>3
<1>5. PICK b \in SegmentType : b = Healed(a)
  BY HealedPrefix
<1>6. /\ Chained(f) /\ Ordered(a) /\ \A q \in Written(f), s \in Range(a) : Before(q, s)
  BY ChainedAppend
<1>7. /\ \A k \in DOMAIN f : /\ Range(h[k]) \subseteq Range(f[k]) /\ Healed(h[k]) = h[k]
                             /\ Ordered(h[k])
      /\ Range(b) \subseteq Range(a) /\ Healed(b) = b /\ Ordered(b)
  <2>1. \A s \in SegmentType : Range(Healed(s)) \subseteq Range(s) /\ Healed(Healed(s)) = Healed(s)
    BY HealedRange, HealedTwice
  <2>2. \A k \in DOMAIN f : Ordered(f[k])
    BY <1>6 DEF Chained
  <2>3. \A k \in DOMAIN f : f[k] \in SegmentType
    BY <1>1
  <2>4. \A k \in DOMAIN f : Ordered(h[k])
    BY <1>3, <2>2, <2>3, HealedOrdered
  <2>5. Ordered(b)
    BY <1>5, <1>6, HealedOrdered
  <2>6. QED BY <1>3, <1>5, <2>1, <2>3, <2>4, <2>5
<1>8. Chained(h) /\ Written(h) \subseteq Written(f)
  <2>1. PICK m : m = [k \in DOMAIN f |-> k]
    OBVIOUS
  <2>2. \A k \in DOMAIN h : /\ m[k] \in DOMAIN f
                            /\ Ordered(h[k]) /\ Range(h[k]) \subseteq Range(f[m[k]])
    BY <1>3, <1>7, <2>1
  <2>3. \A k, l \in DOMAIN h : k < l => m[k] < m[l]
    BY <1>3, <2>1
  <2>4. QED BY <1>6, <2>2, <2>3, SubChain
<1>9. Chained(Append(h, b))
  <2>1. \A q \in Written(h), s \in Range(b) : Before(q, s)
    BY <1>6, <1>7, <1>8
  <2>2. QED BY <1>4, <1>7, <1>8, <2>1, ChainedAppend
<1>10. {Range(h[k]) : k \in DOMAIN h} = {Range(Healed(f[k])) : k \in DOMAIN f}
  BY <1>3
<1>11. {Range(Healed(h[k])) : k \in DOMAIN h} = {Range(Healed(f[k])) : k \in DOMAIN f}
  BY <1>3, <1>7
<1>12. Written(h) = Readable(f) /\ Readable(h) = Readable(f)
  BY <1>10, <1>11 DEF Written, Readable
<1>13. /\ Written(Append(h, b)) = Written(h) \union Range(b)
       /\ Readable(Append(h, b)) = Readable(h) \union Range(Healed(b))
       /\ Readable(Append(f, a)) = Readable(f) \union Range(Healed(a))
  BY <1>4, WrittenAppend, ReadableAppend
<1>14. \A k \in DOMAIN b : k \in DOMAIN a /\ b[k] = a[k]
  <2>1. PICK n : /\ WholeTo(a, n) /\ DOMAIN b = 1..n /\ \A k \in 1..n : b[k] = a[k]
    BY <1>5, HealedPrefix
  <2>2. n \in 0..Len(a) /\ DOMAIN a = 1..Len(a) /\ Len(a) \in Nat
    BY <2>1, SegmentsAreRecords DEF WholeTo
  <2>3. QED BY <2>1, <2>2
<1>15. QED BY <1>2, <1>4, <1>5, <1>7, <1>9, <1>12, <1>13, <1>14

LEMMA LogPrune ==
  ASSUME NEW f \in Seq(SegmentType), NEW a \in SegmentType, Chained(Append(f, a)),
         NEW clock \in Nat,
         NEW g, \/ g = Cleaned(f, clock)
                \/ f # <<>> /\ Removable(Head(f), clock) /\ g = Tail(f)
  PROVE  /\ g \in Seq(SegmentType) /\ Chained(Append(g, a))
         /\ Written(Append(g, a)) \subseteq Written(Append(f, a))
         /\ Readable(Append(g, a)) \subseteq Readable(Append(f, a))
         /\ \A r \in Readable(Append(f, a)) :
              clock = 0 \/ r.clock > clock => r \in Readable(Append(g, a))
<1>1. /\ Chained(f) /\ Ordered(a) /\ \A q \in Written(f), s \in Range(a) : Before(q, s)
  BY ChainedAppend
<1>2. /\ g \in Seq(SegmentType) /\ Chained(g)
      /\ Written(g) \subseteq Written(f) /\ Readable(g) \subseteq Readable(f)
      /\ \A r \in Readable(f) : r.clock > clock => r \in Readable(g)
  <2>1. CASE g = Cleaned(f, clock)
    BY <1>1, <2>1, CleanedKeeps
  <2>2. CASE f # <<>> /\ Removable(Head(f), clock) /\ g = Tail(f)
    <3>1. /\ DOMAIN f = 1..Len(f) /\ Len(f) \in Nat /\ g \in Seq(SegmentType)
          /\ DOMAIN g = 1..(Len(f) - 1) /\ Head(f) = f[1] /\ 1 \in DOMAIN f
          /\ \A k \in DOMAIN g : k + 1 \in DOMAIN f /\ g[k] = f[k + 1]
      BY <2>2
    <3>2. PICK m : m = [k \in DOMAIN g |-> k + 1]
      OBVIOUS
    <3>3. \A k \in DOMAIN g : /\ m[k] \in DOMAIN f
                              /\ Ordered(g[k]) /\ Range(g[k]) \subseteq Range(f[m[k]])
      BY <1>1, <3>1, <3>2 DEF Chained
    <3>4. \A k, l \in DOMAIN g : k < l => m[k] < m[l]
      BY <3>1, <3>2
    <3>5. Chained(g) /\ Written(g) \subseteq Written(f)
      BY <1>1, <3>3, <3>4, SubChain
    <3>6. Readable(g) \subseteq Readable(f)
      BY <3>1 DEF Readable
    <3>7. ASSUME NEW r \in Readable(f), r.clock > clock PROVE r \in Readable(g)
      <4>1. PICK k \in DOMAIN f : r \in Range(Healed(f[k]))
        BY DEF Readable
      <4>2. k # 1
        <5>1. SUFFICES ASSUME k = 1 PROVE FALSE
          OBVIOUS
        <5>2. f[1] \in SegmentType
          BY <3>1
        <5>3. r.clock <= clock
          BY <2>2, <3>1, <4>1, <5>1, <5>2, RemovableCovered
        <5>4. r \in Record
          BY SegmentFacts
        <5>5. QED BY <3>7, <5>3, <5>4 DEF Record
      <4>3. k - 1 \in DOMAIN g /\ k - 1 + 1 = k
        BY <3>1, <4>1, <4>2
      <4>4. g[k - 1] = f[k]
        BY <3>1, <4>3
      <4>5. QED BY <4>1, <4>3, <4>4 DEF Readable
    <3>8. QED BY <3>1, <3>5, <3>6, <3>7
  <2>3. QED BY <2>1, <2>2
<1>3. \A r \in Readable(f) : clock = 0 => r.clock > clock
  <2>1. Readable(f) \subseteq Record
    BY SegmentFacts
  <2>2. QED BY <2>1 DEF Record
<1>4. Chained(Append(g, a))
  <2>1. \A q \in Written(g), s \in Range(a) : Before(q, s)
    BY <1>1, <1>2
  <2>2. QED BY <1>1, <1>2, <2>1, ChainedAppend
<1>5. /\ Written(Append(g, a)) = Written(g) \union Range(a)
      /\ Written(Append(f, a)) = Written(f) \union Range(a)
      /\ Readable(Append(g, a)) = Readable(g) \union Range(Healed(a))
      /\ Readable(Append(f, a)) = Readable(f) \union Range(Healed(a))
  BY <1>2, WrittenAppend, ReadableAppend
<1>6. QED BY <1>2, <1>3, <1>4, <1>5

-----------------------------------------------------------------------------
(* The clocks of the log and of the files.                                 *)

Segs == Append(frozen, active)
Logged == Readable(Segs)
AttemptsOn(i) == {n \in DOMAIN attempts : attempts[n].iri = i}
Recorded(r) ==
  /\ r.attempt \in DOMAIN attempts
  /\ attempts[r.attempt] = [iri |-> r.iri, delete |-> r.delete]

\* The records stand in the order in which they were drawn, and no clock of a record
\* is ahead of the engine.
LogInv ==
  /\ Chained(Segs)
  /\ \A r \in Written(Segs) :
       /\ Recorded(r) /\ r.clock <= Len(attempts)
       /\ up => r.clock <= state.clock

\* Neither is a file.
ClockInv ==
  /\ Len(attempts) <= MaxAttempts
  /\ up => state.clock <= Len(attempts)
  /\ \A file \in {current, previous} : Valid(file) =>
       file.clock <= Len(attempts) /\ (up => file.clock <= state.clock)
  /\ Valid(current) /\ Valid(previous) => previous.clock <= current.clock
  /\ damages \in Nat /\ (damages = 0 => current # Damaged /\ previous # Damaged)
  /\ staged # Damaged

\* A checkpoint runs in an open engine; until it publishes, the image it has staged is
\* that of the engine.
StepInv ==
  \A c \in Checkpointers :
    /\ pc[c] # "idle" => up
    /\ pc[c] = "idle" => covered[c] = 0
    /\ pc[c] \in {"staged", "moved"} => staged = state
    /\ covered[c] <= state.clock

BasicInv == TypeOK /\ LogInv /\ ClockInv /\ StepInv

LEMMA ValidImage ==
  ASSUME NEW file \in FileType
  PROVE  Valid(file) <=> file \in ImageType
  BY VectorLogAssumption DEF Valid, FileType

LEMMA EmptyImage == Empty \in ImageType /\ Empty.clock = 0 /\ Valid(Empty)
<1>1. 0 \in 0..MaxAttempts
  BY VectorLogAssumption
<1>2. Empty \in ImageType
  BY <1>1 DEF Empty, ImageType
<1>3. QED BY <1>2, ValidImage DEF Empty, FileType

LEMMA InitBasic == Init => BasicInv
<1> SUFFICES ASSUME Init PROVE BasicInv
  OBVIOUS
<1>1. /\ MaxAttempts \in Nat /\ 0 \in 0..MaxAttempts /\ 0 \in 0..MaxIoErrors
  BY VectorLogAssumption
<1>2. active \in SegmentType /\ frozen \in Seq(SegmentType) /\ Len(active) = 0
  BY SegmentsAreRecords DEF Init
<1>3. Chained(frozen) /\ Written(frozen) = {}
  <2>1. DOMAIN frozen = {}
    BY DEF Init
  <2>2. QED BY <2>1 DEF Chained, Written
<1>4. Chained(Segs) /\ Written(Segs) = {}
  BY <1>2, <1>3, LogRotate DEF Segs, Init
<1>5. LogInv
  BY <1>4 DEF LogInv
<1>6. Len(attempts) = 0 /\ attempts \in Seq([iri : Iris, delete : BOOLEAN])
  BY DEF Init
<1>7. ClockInv
  BY <1>1, <1>6, EmptyImage, VectorLogAssumption DEF ClockInv, Init, Valid
<1>8. StepInv
  BY EmptyImage DEF StepInv, Init
<1>9. TypeOK
  <2>1. state \in ImageType
    BY EmptyImage DEF Init
  <2>2. pc \in [Checkpointers -> Steps] /\ covered \in [Checkpointers -> 0..MaxAttempts]
    BY <1>1 DEF Init, Steps
  <2>3. current \in FileType /\ previous \in FileType /\ staged \in FileType
    BY DEF Init, FileType
  <2>4. \A c, d \in Checkpointers :
          pc[c] \notin {"idle", "read"} /\ pc[d] \notin {"idle", "read"} => c = d
    BY DEF Init
  <2>5. synced \in 0..Len(active) /\ up \in BOOLEAN /\ errors \in 0..MaxIoErrors
    BY <1>1, <1>2 DEF Init
  <2>6. sure \subseteq acked /\ acked \subseteq DOMAIN attempts /\ shadowed \subseteq DOMAIN attempts
       /\ opened \in 0..Len(attempts)
    BY <1>6 DEF Init
  <2>7. QED BY <1>2, <1>6, <2>1, <2>2, <2>3, <2>4, <2>5, <2>6 DEF TypeOK
<1>10. QED BY <1>5, <1>7, <1>8, <1>9 DEF BasicInv

\* A mutation draws the next clock and the next number.
LEMMA Begins ==
  ASSUME TypeOK, ClockInv, NEW i \in Iris, NEW delete \in BOOLEAN, Begin(i, delete)
  PROVE  /\ up /\ ~Locked /\ Len(attempts) \in Nat /\ Len(attempts) < MaxAttempts
         /\ Len(attempts') = Len(attempts) + 1 /\ DOMAIN attempts' = DOMAIN attempts \union {Len(attempts) + 1}
         /\ attempts' \in Seq([iri : Iris, delete : BOOLEAN])
         /\ Len(attempts) + 1 \notin DOMAIN attempts /\ DOMAIN attempts = 1..Len(attempts)
         /\ \A n \in DOMAIN attempts : attempts'[n] = attempts[n]
         /\ attempts'[Len(attempts) + 1] = [iri |-> i, delete |-> delete]
         /\ state \in ImageType /\ state.clock \in 0..Len(attempts)
         /\ Attempt(i, delete) \in Record
         /\ [Attempt(i, delete) EXCEPT !.whole = FALSE] \in Record
         /\ Drawn(i, delete) \in ImageType /\ Drawn(i, delete).clock = state.clock + 1
         /\ Drawn(i, delete).docs = state.docs
<1>1. /\ up /\ ~Locked /\ Len(attempts) < MaxAttempts
      /\ attempts' = Append(attempts, [iri |-> i, delete |-> delete])
      /\ attempts \in Seq([iri : Iris, delete : BOOLEAN])
      /\ state \in ImageType /\ state.clock <= Len(attempts)
  BY DEF Begin, TypeOK, ClockInv
<1>2. PICK e \in [iri : Iris, delete : BOOLEAN] : e = [iri |-> i, delete |-> delete]
  OBVIOUS
<1>3. /\ Len(attempts) \in Nat /\ DOMAIN attempts = 1..Len(attempts)
      /\ attempts' \in Seq([iri : Iris, delete : BOOLEAN])
      /\ Len(attempts') = Len(attempts) + 1 /\ DOMAIN attempts' = 1..(Len(attempts) + 1)
      /\ \A n \in 1..Len(attempts) : attempts'[n] = attempts[n]
      /\ attempts'[Len(attempts) + 1] = e
  <2>1. attempts' = Append(attempts, e)
    BY <1>1, <1>2
  <2>2. QED BY <1>1, <2>1
<1>4. /\ DOMAIN attempts' = DOMAIN attempts \union {Len(attempts) + 1}
      /\ Len(attempts) + 1 \notin DOMAIN attempts
  BY <1>3
<1>5. /\ state.clock \in 0..MaxAttempts /\ state.docs \in [Iris -> 0..MaxAttempts]
      /\ state.known \subseteq Iris /\ MaxAttempts \in Nat
  BY <1>1, VectorLogAssumption DEF ImageType
<1>6. state.clock \in 0..Len(attempts)
  BY <1>1, <1>3, <1>5
<1>7. state.clock + 1 \in 1..MaxAttempts /\ Len(attempts) + 1 \in 1..MaxAttempts
  BY <1>1, <1>3, <1>5, <1>6
<1>8. /\ Attempt(i, delete) \in Record
      /\ [Attempt(i, delete) EXCEPT !.whole = FALSE] \in Record
  BY <1>7 DEF Attempt, Record
<1>9. /\ Drawn(i, delete) \in ImageType /\ Drawn(i, delete).clock = state.clock + 1
      /\ Drawn(i, delete).docs = state.docs
  <2>1. state.clock + 1 \in 0..MaxAttempts
    BY <1>7
  <2>2. (IF delete THEN state.known ELSE state.known \union {i}) \subseteq Iris
    BY <1>5
  <2>3. QED BY <1>1, <1>5, <2>1, <2>2 DEF Drawn, ImageType
<1>10. QED BY <1>1, <1>2, <1>3, <1>4, <1>6, <1>8, <1>9

LEMMA BeginsRecorded ==
  ASSUME TypeOK, ClockInv, NEW i \in Iris, NEW delete \in BOOLEAN, Begin(i, delete)
  PROVE  /\ \A r : Recorded(r) => Recorded(r)'
         /\ \A r : r.attempt = Len(attempts) + 1 /\ r.iri = i /\ r.delete = delete
                   => Recorded(r)'
<1>1. /\ DOMAIN attempts' = DOMAIN attempts \union {Len(attempts) + 1}
      /\ \A n \in DOMAIN attempts : attempts'[n] = attempts[n]
      /\ attempts'[Len(attempts) + 1] = [iri |-> i, delete |-> delete]
  BY Begins
<1>2. QED BY <1>1 DEF Recorded

\* What a mutation that reaches the file makes of the log.
Appends(i, delete, rotate, r) ==
  /\ Begin(i, delete)
  /\ r \in {Attempt(i, delete), [Attempt(i, delete) EXCEPT !.whole = FALSE]}
  /\ frozen' = Segments(rotate).old /\ active' = Append(Segments(rotate).new, r)
  /\ state' \in ImageType /\ state'.clock = state.clock + 1

LEMMA AppendsLog ==
  ASSUME BasicInv, NEW i \in Iris, NEW delete \in BOOLEAN, NEW rotate \in BOOLEAN, NEW r,
         Appends(i, delete, rotate, r)
  PROVE  /\ r \in Record /\ r.clock = state.clock + 1 /\ r.attempt = Len(attempts) + 1
         /\ r.iri = i /\ r.delete = delete
         /\ Segments(rotate).old \in Seq(SegmentType) /\ Segments(rotate).new \in SegmentType
         /\ frozen' \in Seq(SegmentType) /\ active' \in SegmentType
         /\ Len(active') = Len(Segments(rotate).new) + 1
         /\ Written(Segs)' = Written(Segs) \union {r}
         /\ r.whole /\ ~Torn(Segments(rotate).new) => Logged' = Logged \union {r}
         /\ ~r.whole \/ Torn(Segments(rotate).new) => Logged' = Logged
         /\ LogInv'
<1>1. /\ Begin(i, delete) /\ TypeOK /\ ClockInv /\ LogInv /\ state'.clock = state.clock + 1
  BY DEF BasicInv, Appends
<1>2. /\ r \in Record /\ r.clock = state.clock + 1 /\ r.attempt = Len(attempts) + 1
      /\ r.iri = i /\ r.delete = delete
  <2>1. Attempt(i, delete) \in Record /\ [Attempt(i, delete) EXCEPT !.whole = FALSE] \in Record
    BY <1>1, Begins
  <2>2. r = Attempt(i, delete) \/ r = [Attempt(i, delete) EXCEPT !.whole = FALSE]
    BY DEF Appends
  <2>3. r \in Record
    BY <2>1, <2>2
  <2>4. QED BY <2>2, <2>3 DEF Attempt
<1>3. /\ state.clock \in Nat /\ state.clock <= Len(attempts) /\ Len(attempts) \in Nat
      /\ Len(attempts') = Len(attempts) + 1 /\ DOMAIN attempts = 1..Len(attempts) /\ up
  <2>1. /\ state.clock \in 0..Len(attempts) /\ Len(attempts) \in Nat
        /\ Len(attempts') = Len(attempts) + 1 /\ DOMAIN attempts = 1..Len(attempts) /\ up
    BY <1>1, Begins
  <2>2. QED BY <2>1
<1>4. PICK f, a : f = Segments(rotate).old /\ a = Segments(rotate).new
  OBVIOUS
<1>5. frozen \in Seq(SegmentType) /\ active \in SegmentType /\ Chained(Segs)
  BY <1>1 DEF TypeOK, LogInv
<1>6. /\ f \in Seq(SegmentType) /\ a \in SegmentType /\ Chained(Append(f, a))
      /\ Written(Append(f, a)) = Written(Segs) /\ Readable(Append(f, a)) = Logged
  <2>1. CASE rotate
    <3>1. PICK g \in Seq(SegmentType) : g = Append(frozen, active)
      BY <1>5, SegmentsAppend
    <3>2. f = g /\ a = <<>>
      BY <1>4, <2>1, <3>1 DEF Segments
    <3>3. QED BY <1>5, <3>1, <3>2, LogRotate DEF Segs, Logged
  <2>2. CASE ~rotate
    BY <1>4, <1>5, <2>2 DEF Segments, Segs, Logged
  <2>3. QED BY <2>1, <2>2
<1>7. \A q \in Written(Segs) : Recorded(q) /\ q.clock <= state.clock
  BY <1>1, <1>3 DEF LogInv
<1>8. ASSUME NEW q \in Written(Segs) PROVE Before(q, r)
  <2>1. q.attempt \in DOMAIN attempts /\ q.clock <= state.clock /\ q \in Record
    BY <1>5, <1>6, <1>7, <1>8, SegmentFacts, SegmentsAppend DEF Recorded, Segs
  <2>2. q.attempt \in 1..Len(attempts) /\ q.clock \in Nat /\ state.clock \in Nat
        /\ Len(attempts) \in Nat
    BY <1>3, <2>1 DEF Record
  <2>3. QED BY <1>2, <2>1, <2>2 DEF Before
<1>9. \A q \in Written(Append(f, a)) : Before(q, r)
  BY <1>6, <1>8
<1>10. LET g == Append(f, Append(a, r)) IN
      /\ Append(a, r) \in SegmentType /\ Chained(g)
      /\ Written(g) = Written(Append(f, a)) \union {r}
      /\ r.whole /\ ~Torn(a) => Readable(g) = Readable(Append(f, a)) \union {r}
      /\ ~r.whole \/ Torn(a) => Readable(g) = Readable(Append(f, a))
  BY <1>2, <1>6, <1>9, LogAppend
<1>11. frozen' = f /\ active' = Append(a, r) /\ Segs' = Append(f, Append(a, r))
  BY <1>4 DEF Appends, Segs
<1>12. /\ Written(Segs)' = Written(Segs) \union {r} /\ Chained(Segs)'
       /\ r.whole /\ ~Torn(a) => Logged' = Logged \union {r}
       /\ ~r.whole \/ Torn(a) => Logged' = Logged
  BY <1>6, <1>10, <1>11 DEF Logged
<1>13. Len(active') = Len(a) + 1
  BY <1>2, <1>6, <1>11, SegmentsAreRecords
<1>14. LogInv'
  <2>1. ASSUME NEW q \in Written(Segs)'
        PROVE  Recorded(q)' /\ q.clock <= Len(attempts') /\ q.clock <= state'.clock
    <3>2. CASE q = r
      BY <1>1, <1>2, <1>3, <3>2, BeginsRecorded
    <3>3. CASE q \in Written(Segs)
      <4>1. Recorded(q) /\ q.clock <= state.clock
        BY <1>7, <3>3
      <4>2. q \in Record
        BY <1>6, <3>3, SegmentFacts, SegmentsAppend
      <4>3. q.clock \in Nat
        BY <4>2 DEF Record
      <4>4. Recorded(q)'
        BY <1>1, <4>1, BeginsRecorded
      <4>5. QED BY <1>1, <1>3, <4>1, <4>3, <4>4
    <3>4. QED BY <1>12, <3>2, <3>3
  <2>2. QED BY <1>12, <2>1 DEF LogInv
<1>15. QED BY <1>2, <1>4, <1>6, <1>10, <1>11, <1>12, <1>13, <1>14

LEMMA LogInvMoves ==
  ASSUME LogInv, Chained(Segs)', Written(Segs)' \subseteq Written(Segs), UNCHANGED attempts,
         up' => up /\ state' = state
  PROVE  LogInv'
<1>1. ASSUME NEW r \in Written(Segs)'
      PROVE  Recorded(r)' /\ r.clock <= Len(attempts') /\ (up' => r.clock <= state'.clock)
  <2>1. Recorded(r) /\ r.clock <= Len(attempts) /\ (up => r.clock <= state.clock)
    BY <1>1 DEF LogInv
  <2>2. QED BY <2>1 DEF Recorded
<1>2. QED BY <1>1 DEF LogInv

LEMMA LogInvSame ==
  ASSUME LogInv, UNCHANGED <<frozen, active, attempts>>, up' => up /\ state' = state
  PROVE  LogInv' /\ Logged' = Logged /\ Segs' = Segs
<1>1. Segs' = Segs
  BY DEF Segs
<1>2. Chained(Segs)' /\ Written(Segs)' = Written(Segs)
  BY <1>1 DEF LogInv
<1>3. QED BY <1>1, <1>2, LogInvMoves DEF Logged

\* ClockInv and StepInv over a mutation: the files and the checkpoints stand still.
LEMMA MutationClocks ==
  ASSUME BasicInv, NEW i \in Iris, NEW delete \in BOOLEAN, Begin(i, delete),
         state'.clock = state.clock + 1
  PROVE  ClockInv' /\ StepInv'
<1>1. /\ TypeOK /\ ClockInv /\ StepInv
      /\ UNCHANGED <<up, current, previous, staged, pc, covered, damages>>
  BY DEF BasicInv, Begin, files
<1>2. /\ state.clock \in 0..Len(attempts) /\ Len(attempts) \in Nat /\ up /\ ~Locked
      /\ Len(attempts') = Len(attempts) + 1 /\ Len(attempts) < MaxAttempts
  BY <1>1, Begins
<1>3. /\ state.clock \in Nat /\ state'.clock = state.clock + 1 /\ MaxAttempts \in Nat
      /\ state.clock <= Len(attempts)
  BY <1>2, VectorLogAssumption
<1>4. ASSUME NEW file \in {current, previous}, Valid(file)
      PROVE  file.clock <= Len(attempts') /\ file.clock <= state'.clock
  <2>1. file \in ImageType
    BY <1>1, <1>4, ValidImage DEF TypeOK
  <2>2. file.clock \in Nat /\ file.clock <= state.clock
    BY <1>1, <1>2, <1>4, <2>1 DEF ClockInv, ImageType
  <2>3. QED BY <1>2, <1>3, <2>2
<1>5. ClockInv'
  <2>1. Len(attempts') <= MaxAttempts /\ state'.clock <= Len(attempts')
    BY <1>2, <1>3
  <2>2. /\ Valid(current) /\ Valid(previous) => previous.clock <= current.clock
        /\ damages \in Nat /\ (damages = 0 => current # Damaged /\ previous # Damaged)
        /\ staged # Damaged
    BY <1>1 DEF ClockInv
  <2>3. QED BY <1>1, <1>4, <2>1, <2>2 DEF ClockInv, Valid
<1>6. StepInv'
  <2>1. ASSUME NEW c \in Checkpointers
        PROVE  /\ pc[c] # "idle" => up
               /\ pc[c] = "idle" => covered[c] = 0
               /\ pc[c] \notin {"staged", "moved"} /\ covered[c] <= state'.clock
    <3>1. covered[c] \in Nat /\ covered[c] <= state.clock
      BY <1>1 DEF StepInv, TypeOK
    <3>2. pc[c] \notin {"staged", "moved"}
      BY <1>2 DEF Locked
    <3>3. QED BY <1>1, <1>2, <1>3, <3>1, <3>2 DEF StepInv
  <2>2. ASSUME NEW c \in Checkpointers PROVE pc[c] = "idle" => covered[c] = 0
    BY <1>1 DEF StepInv
  <2>3. QED BY <1>1, <1>2, <2>1, <2>2 DEF StepInv
<1>7. QED BY <1>5, <1>6

LEMMA MutationTypes ==
  ASSUME BasicInv, NEW i \in Iris, NEW delete \in BOOLEAN, Begin(i, delete),
         state' \in ImageType, errors' \in 0..MaxIoErrors,
         active' \in SegmentType, frozen' \in Seq(SegmentType), synced' \in 0..Len(active'),
         sure' \subseteq acked', acked' \subseteq DOMAIN attempts',
         shadowed' \subseteq DOMAIN attempts'
  PROVE  TypeOK'
<1>1. TypeOK /\ ClockInv /\ UNCHANGED <<up, current, previous, staged, pc, covered, opened>>
  BY DEF BasicInv, Begin, files
<1>2. opened' \in 0..Len(attempts') /\ attempts' \in Seq([iri : Iris, delete : BOOLEAN])
  <2>1. Len(attempts) \in Nat /\ Len(attempts') = Len(attempts) + 1
        /\ attempts' \in Seq([iri : Iris, delete : BOOLEAN])
    BY <1>1, Begins
  <2>2. opened \in 0..Len(attempts) /\ opened' = opened
    BY <1>1 DEF TypeOK
  <2>3. QED BY <2>1, <2>2
<1>3. QED BY <1>1, <1>2 DEF TypeOK

LEMMA WriteBasic ==
  ASSUME BasicInv, NEW i \in Iris, NEW delete \in BOOLEAN, NEW rotate \in BOOLEAN,
         NEW sync \in BOOLEAN, Write(i, delete, rotate, sync)
  PROVE  BasicInv' /\ Appends(i, delete, rotate, Attempt(i, delete))
<1>1. TypeOK /\ ClockInv /\ Begin(i, delete)
  BY DEF BasicInv, Write
<1> DEFINE n == Len(attempts) + 1
           r == Attempt(i, delete)
<1>2. /\ Drawn(i, delete) \in ImageType /\ Drawn(i, delete).clock = state.clock + 1
      /\ Len(attempts) \in Nat /\ Len(attempts) < MaxAttempts
      /\ DOMAIN attempts' = DOMAIN attempts \union {n}
  BY <1>1, Begins
<1>3. r.attempt = n
  BY DEF Attempt
<1>4. state' = [Drawn(i, delete) EXCEPT !.docs[i] = IF delete THEN 0 ELSE n]
  BY <1>3 DEF Write
<1>5. state' \in ImageType /\ state'.clock = state.clock + 1
  <2>1. (IF delete THEN 0 ELSE n) \in 0..MaxAttempts
    BY <1>2, VectorLogAssumption
  <2>2. PICK d \in ImageType : d = Drawn(i, delete)
    BY <1>2
  <2>3. QED BY <1>2, <1>4, <2>1, <2>2 DEF ImageType
<1>6. Appends(i, delete, rotate, r)
  BY <1>1, <1>5 DEF Appends, Write
<1>7. /\ Segments(rotate).new \in SegmentType /\ LogInv'
      /\ frozen' \in Seq(SegmentType) /\ active' \in SegmentType
      /\ Len(active') = Len(Segments(rotate).new) + 1
  BY <1>6, AppendsLog
<1>8. synced' \in 0..Len(active')
  <2>1. Len(Segments(rotate).new) \in Nat
    BY <1>7, SegmentsAreRecords
  <2>2. synced \in 0..Len(active)
    BY <1>1 DEF TypeOK
  <2>3. SyncedBefore(rotate) \in 0..Len(Segments(rotate).new)
    BY <2>1, <2>2 DEF SyncedBefore, Segments
  <2>4. synced' = IF sync THEN Len(Segments(rotate).new) + 1 ELSE SyncedBefore(rotate)
    BY DEF Write
  <2>5. QED BY <1>7, <2>1, <2>3, <2>4
<1>9. /\ sure' \subseteq acked' /\ acked' \subseteq DOMAIN attempts'
      /\ shadowed' \subseteq DOMAIN attempts'
  <2>1. /\ acked' = acked \union {n}
        /\ sure' = IF sync THEN acked \union {n} ELSE SureBefore(rotate)
        /\ shadowed' = IF Torn(Segments(rotate).new) THEN shadowed \union {n} ELSE shadowed
    BY <1>3 DEF Write
  <2>2. sure \subseteq acked /\ acked \subseteq DOMAIN attempts /\ shadowed \subseteq DOMAIN attempts
    BY <1>1 DEF TypeOK
  <2>3. QED BY <1>2, <2>1, <2>2 DEF SureBefore
<1>10. errors' \in 0..MaxIoErrors
  BY VectorLogAssumption DEF Write
<1>11. TypeOK'
  BY <1>1, <1>5, <1>7, <1>8, <1>9, <1>10, MutationTypes
<1>12. ClockInv' /\ StepInv'
  BY <1>1, <1>5, MutationClocks
<1>13. QED BY <1>6, <1>7, <1>11, <1>12 DEF BasicInv

LEMMA FailedWriteBasic ==
  ASSUME BasicInv, NEW i \in Iris, NEW delete \in BOOLEAN, NEW rotate \in BOOLEAN,
         WriteTorn(i, delete, rotate) \/ WriteUnsynced(i, delete, rotate)
  PROVE  /\ BasicInv'
         /\ Appends(i, delete, rotate, [Attempt(i, delete) EXCEPT !.whole = FALSE])
            \/ Appends(i, delete, rotate, Attempt(i, delete))
<1>1. /\ TypeOK /\ ClockInv /\ Begin(i, delete) /\ errors < MaxIoErrors
      /\ synced' = SyncedBefore(rotate) /\ sure' = SureBefore(rotate)
      /\ state' = Drawn(i, delete) /\ errors' \in {errors, errors + 1}
      /\ UNCHANGED <<acked, shadowed>>
  BY DEF BasicInv, WriteTorn, WriteUnsynced
<1>2. /\ Drawn(i, delete) \in ImageType /\ Drawn(i, delete).clock = state.clock + 1
      /\ DOMAIN attempts' = DOMAIN attempts \union {Len(attempts) + 1}
  BY <1>1, Begins
<1>3. PICK r : Appends(i, delete, rotate, r)
               /\ r \in {Attempt(i, delete), [Attempt(i, delete) EXCEPT !.whole = FALSE]}
  <2>1. CASE WriteTorn(i, delete, rotate)
    BY <1>1, <1>2, <2>1 DEF Appends, WriteTorn
  <2>2. CASE WriteUnsynced(i, delete, rotate)
    BY <1>1, <1>2, <2>2 DEF Appends, WriteUnsynced
  <2>3. QED BY <2>1, <2>2
<1>4. /\ Segments(rotate).new \in SegmentType /\ LogInv'
      /\ frozen' \in Seq(SegmentType) /\ active' \in SegmentType
      /\ Len(active') = Len(Segments(rotate).new) + 1
  BY <1>3, AppendsLog
<1>5. synced' \in 0..Len(active')
  <2>1. Len(Segments(rotate).new) \in Nat
    BY <1>4, SegmentsAreRecords
  <2>2. synced \in 0..Len(active)
    BY <1>1 DEF TypeOK
  <2>3. SyncedBefore(rotate) \in 0..Len(Segments(rotate).new)
    BY <2>1, <2>2 DEF SyncedBefore, Segments
  <2>4. QED BY <1>1, <1>4, <2>1, <2>3
<1>6. /\ sure' \subseteq acked' /\ acked' \subseteq DOMAIN attempts'
      /\ shadowed' \subseteq DOMAIN attempts'
  <2>1. sure \subseteq acked /\ acked \subseteq DOMAIN attempts /\ shadowed \subseteq DOMAIN attempts
    BY <1>1 DEF TypeOK
  <2>2. QED BY <1>1, <1>2, <2>1 DEF SureBefore
<1>7. errors' \in 0..MaxIoErrors
  <2>1. errors \in 0..MaxIoErrors
    BY <1>1 DEF TypeOK
  <2>2. QED BY <1>1, <2>1, VectorLogAssumption
<1>8. TypeOK'
  BY <1>1, <1>2, <1>4, <1>5, <1>6, <1>7, MutationTypes
<1>9. ClockInv' /\ StepInv'
  BY <1>1, <1>2, MutationClocks
<1>10. QED BY <1>3, <1>4, <1>8, <1>9 DEF BasicInv

LEMMA RefusedBasic ==
  ASSUME BasicInv, NEW i \in Iris, NEW delete \in BOOLEAN, WriteRefused(i, delete)
  PROVE  BasicInv' /\ Segs' = Segs
<1>1. /\ TypeOK /\ ClockInv /\ LogInv /\ Begin(i, delete)
      /\ state' = Drawn(i, delete)
      /\ UNCHANGED <<errors, active, synced, frozen, acked, sure, shadowed>>
  BY DEF BasicInv, WriteRefused, log
<1>2. /\ Drawn(i, delete) \in ImageType /\ Drawn(i, delete).clock = state.clock + 1
      /\ DOMAIN attempts' = DOMAIN attempts \union {Len(attempts) + 1}
      /\ state.clock \in 0..Len(attempts) /\ Len(attempts) \in Nat
      /\ Len(attempts') = Len(attempts) + 1 /\ up
  BY <1>1, Begins
<1>3. Segs' = Segs
  BY <1>1 DEF Segs
<1>4. LogInv'
  <2>1. ASSUME NEW r \in Written(Segs)
        PROVE  Recorded(r)' /\ r.clock <= Len(attempts') /\ r.clock <= state'.clock
    <3>1. Recorded(r) /\ r.clock <= state.clock
      BY <1>1, <1>2 DEF LogInv
    <3>2. r \in Record
      BY <1>1, <2>1, SegmentFacts, SegmentsAppend DEF TypeOK, Segs
    <3>3. r.clock \in Nat /\ state.clock \in Nat /\ state.clock <= Len(attempts)
      BY <1>2, <3>2 DEF Record
    <3>4. Recorded(r)'
      BY <1>1, <3>1, BeginsRecorded
    <3>5. r.clock <= Len(attempts') /\ r.clock <= state'.clock
      BY <1>1, <1>2, <3>1, <3>3
    <3>6. QED BY <3>4, <3>5
  <2>2. Chained(Segs)' /\ Written(Segs)' = Written(Segs)
    BY <1>1, <1>3 DEF LogInv
  <2>3. QED BY <2>1, <2>2 DEF LogInv
<1>5. TypeOK'
  <2>1. /\ sure' \subseteq acked' /\ acked' \subseteq DOMAIN attempts'
        /\ shadowed' \subseteq DOMAIN attempts' /\ errors' \in 0..MaxIoErrors
        /\ active' \in SegmentType /\ frozen' \in Seq(SegmentType) /\ synced' \in 0..Len(active')
    BY <1>1, <1>2 DEF TypeOK
  <2>2. QED BY <1>1, <1>2, <2>1, MutationTypes
<1>6. ClockInv' /\ StepInv'
  BY <1>1, <1>2, MutationClocks
<1>7. QED BY <1>3, <1>4, <1>5, <1>6 DEF BasicInv

\* The steps of a checkpoint.  Those that leave the log alone.
LEMMA CheckpointSteps ==
  ASSUME BasicInv, NEW c \in Checkpointers, NEW step \in Steps,
         pc' = [pc EXCEPT ![c] = step],
         covered' \in {covered, [covered EXCEPT ![c] = 0]},
         pc[c] # "idle" \/ up, up' = up, state' = state,
         step = "idle" => covered'[c] = 0,
         step \in {"staged", "moved"} => staged' = state,
         \A d \in Checkpointers : d # c /\ pc[d] \in {"staged", "moved"} => staged' = staged
  PROVE  /\ pc' \in [Checkpointers -> Steps] /\ covered' \in [Checkpointers -> 0..MaxAttempts]
         /\ StepInv'
<1>1. /\ pc \in [Checkpointers -> Steps] /\ covered \in [Checkpointers -> 0..MaxAttempts]
      /\ StepInv
  BY DEF BasicInv, TypeOK
<1>2. /\ pc' \in [Checkpointers -> Steps] /\ covered' \in [Checkpointers -> 0..MaxAttempts]
  BY <1>1, VectorLogAssumption
<1>3. ASSUME NEW d \in Checkpointers
      PROVE  /\ pc'[d] # "idle" => up
             /\ pc'[d] = "idle" => covered'[d] = 0
             /\ pc'[d] \in {"staged", "moved"} => staged' = state
             /\ covered'[d] <= state.clock
  <2>1. /\ pc[d] # "idle" => up
        /\ pc[d] = "idle" => covered[d] = 0
        /\ pc[d] \in {"staged", "moved"} => staged = state
        /\ covered[d] <= state.clock
    BY <1>1 DEF StepInv
  <2>2. covered'[d] <= state.clock
    <3>1. covered'[d] \in {covered[d], 0}
      BY <1>1
    <3>2. 0 <= state.clock
      <4>1. state \in ImageType
        BY DEF BasicInv, TypeOK
      <4>2. QED BY <4>1 DEF ImageType
    <3>3. QED BY <2>1, <3>1, <3>2
  <2>3. CASE d = c
    <3>1. pc'[d] = step
      BY <1>1, <2>3
    <3>2. up
      BY <1>1, <2>3 DEF StepInv
    <3>3. QED BY <2>2, <2>3, <3>1, <3>2
  <2>4. CASE d # c
    <3>1. pc'[d] = pc[d] /\ covered'[d] = covered[d]
      BY <1>1, <2>4
    <3>2. QED BY <2>1, <2>2, <2>4, <3>1
  <2>5. QED BY <2>3, <2>4
<1>4. QED BY <1>2, <1>3 DEF StepInv

LEMMA ReadCoveredBasic ==
  ASSUME BasicInv, NEW c \in Checkpointers, ReadCovered(c)
  PROVE  BasicInv' /\ Segs' = Segs
<1>1. /\ TypeOK /\ LogInv /\ ClockInv /\ StepInv /\ up /\ pc[c] = "idle"
      /\ UNCHANGED <<up, state, errors, active, synced, frozen, current, previous, staged, damages,
                     attempts, acked, sure, shadowed, opened>>
      /\ covered' = [covered EXCEPT ![c] = IF Valid(current) THEN current.clock ELSE 0]
      /\ pc' = [pc EXCEPT ![c] = "read"]
  BY DEF BasicInv, ReadCovered, log, files, history
<1>2. PICK n : n = IF Valid(current) THEN current.clock ELSE 0
  OBVIOUS
<1>3. n \in 0..MaxAttempts /\ n <= state.clock
  <2>1. current \in FileType /\ state \in ImageType
    BY <1>1 DEF TypeOK
  <2>2. state.clock \in 0..MaxAttempts /\ 0 \in 0..MaxAttempts
    BY <2>1, VectorLogAssumption DEF ImageType
  <2>3. CASE Valid(current)
    <3>1. current \in ImageType
      BY <2>1, <2>3, ValidImage
    <3>2. QED BY <1>1, <1>2, <2>3, <3>1 DEF ImageType, ClockInv
  <2>4. CASE ~Valid(current)
    BY <1>2, <2>2, <2>4
  <2>5. QED BY <2>3, <2>4
<1>4. LogInv' /\ Segs' = Segs
  BY <1>1, LogInvSame
<1>5. ClockInv'
  BY <1>1 DEF ClockInv, Valid
<1>6. /\ pc \in [Checkpointers -> Steps] /\ covered \in [Checkpointers -> 0..MaxAttempts]
      /\ covered' = [covered EXCEPT ![c] = n]
  BY <1>1, <1>2 DEF TypeOK
<1>7. /\ pc' \in [Checkpointers -> Steps] /\ covered' \in [Checkpointers -> 0..MaxAttempts]
  BY <1>1, <1>3, <1>6 DEF Steps
<1>8. StepInv'
  <2>1. ASSUME NEW d \in Checkpointers
        PROVE  /\ pc'[d] # "idle" => up
               /\ pc'[d] = "idle" => covered'[d] = 0
               /\ pc'[d] \in {"staged", "moved"} => staged = state
               /\ covered'[d] <= state.clock
    <3>1. CASE d = c
      <4>1. pc'[d] = "read" /\ covered'[d] = n
        BY <1>1, <1>6, <3>1
      <4>2. QED BY <1>1, <1>3, <4>1
    <3>2. CASE d # c
      <4>1. pc'[d] = pc[d] /\ covered'[d] = covered[d]
        BY <1>1, <1>6, <3>2
      <4>2. QED BY <1>1, <4>1 DEF StepInv
    <3>3. QED BY <3>1, <3>2
  <2>2. QED BY <1>1, <2>1 DEF StepInv
<1>9. \A d, e \in Checkpointers :
        pc'[d] \notin {"idle", "read"} /\ pc'[e] \notin {"idle", "read"} => d = e
  <2>1. \A d \in Checkpointers : pc'[d] \notin {"idle", "read"} => pc'[d] = pc[d]
    BY <1>1, <1>6
  <2>2. QED BY <1>1, <2>1 DEF TypeOK
<1>10. TypeOK'
  BY <1>1, <1>7, <1>9 DEF TypeOK
<1>11. QED BY <1>4, <1>5, <1>8, <1>10 DEF BasicInv

LEMMA StageBasic ==
  ASSUME BasicInv, NEW c \in Checkpointers, Stage(c)
  PROVE  BasicInv' /\ Segs' = Segs
<1>1. /\ TypeOK /\ LogInv /\ ClockInv /\ StepInv /\ pc[c] = "read" /\ ~Locked
      /\ UNCHANGED <<up, state, errors, active, frozen, current, previous, covered, damages,
                     attempts, acked, shadowed, opened>>
      /\ synced' = Len(active) /\ sure' = acked /\ staged' = state
      /\ pc' = [pc EXCEPT ![c] = "staged"]
  BY DEF BasicInv, Stage, bounds
<1>2. \A d \in Checkpointers : pc[d] \in {"idle", "read"}
  BY <1>1 DEF Locked
<1>3. /\ pc' \in [Checkpointers -> Steps] /\ covered' \in [Checkpointers -> 0..MaxAttempts]
      /\ StepInv'
  <2>1. "staged" \in Steps /\ pc[c] # "idle" /\ covered' \in {covered, [covered EXCEPT ![c] = 0]}
    BY <1>1 DEF Steps
  <2>2. \A d \in Checkpointers : d # c /\ pc[d] \in {"staged", "moved"} => staged' = staged
    BY <1>2
  <2>3. "staged" # "idle"
    OBVIOUS
  <2>4. QED BY <1>1, <2>1, <2>2, <2>3, CheckpointSteps
<1>4. LogInv' /\ Segs' = Segs
  BY <1>1, LogInvSame
<1>5. state \in ImageType /\ state \in FileType /\ state # Damaged
  BY <1>1, VectorLogAssumption DEF TypeOK, FileType
<1>6. ClockInv'
  BY <1>1, <1>5 DEF ClockInv, Valid
<1>7. \A d, e \in Checkpointers :
        pc'[d] \notin {"idle", "read"} /\ pc'[e] \notin {"idle", "read"} => d = e
  <2>1. pc \in [Checkpointers -> Steps]
    BY <1>1 DEF TypeOK
  <2>2. \A d \in Checkpointers : pc'[d] \notin {"idle", "read"} => d = c
    BY <1>1, <1>2, <2>1
  <2>3. QED BY <2>2
<1>8. synced' \in 0..Len(active)
  BY <1>1, SegmentsAreRecords DEF TypeOK
<1>9. TypeOK'
  BY <1>1, <1>3, <1>5, <1>7, <1>8 DEF TypeOK
<1>10. QED BY <1>3, <1>4, <1>6, <1>9 DEF BasicInv

\* A checkpoint that holds the barrier keeps it, or gives it up.
LEMMA BarrierKept ==
  ASSUME TypeOK, NEW c \in Checkpointers, NEW step \in Steps,
         pc' = [pc EXCEPT ![c] = step], pc[c] \notin {"idle", "read"} \/ step \in {"idle", "read"}
  PROVE  \A d, e \in Checkpointers :
           pc'[d] \notin {"idle", "read"} /\ pc'[e] \notin {"idle", "read"} => d = e
<1>1. \A d \in Checkpointers : pc'[d] \notin {"idle", "read"} => pc[d] \notin {"idle", "read"}
  BY DEF TypeOK
<1>2. QED BY <1>1 DEF TypeOK

LEMMA KeepPreviousBasic ==
  ASSUME BasicInv, NEW c \in Checkpointers, KeepPrevious(c)
  PROVE  BasicInv' /\ Segs' = Segs
<1>1. /\ TypeOK /\ LogInv /\ ClockInv /\ StepInv /\ pc[c] = "staged" /\ current # Absent
      /\ UNCHANGED <<up, state, errors, active, synced, frozen, staged, covered, damages,
                     attempts, acked, sure, shadowed, opened>>
      /\ previous' = current /\ current' = Absent
      /\ pc' = [pc EXCEPT ![c] = "moved"]
  BY DEF BasicInv, KeepPrevious, bounds, log, history
<1>2. staged = state
  BY <1>1 DEF StepInv
<1>3. /\ pc' \in [Checkpointers -> Steps] /\ covered' \in [Checkpointers -> 0..MaxAttempts]
      /\ StepInv'
  <2>1. "moved" \in Steps /\ pc[c] # "idle" /\ covered' \in {covered, [covered EXCEPT ![c] = 0]}
    BY <1>1 DEF Steps
  <2>2. "moved" # "idle" /\ staged' = state
    BY <1>1, <1>2
  <2>3. QED BY <1>1, <2>1, <2>2, CheckpointSteps
<1>4. LogInv' /\ Segs' = Segs
  BY <1>1, LogInvSame
<1>5. ClockInv'
  BY <1>1, VectorLogAssumption DEF ClockInv, Valid
<1>6. \A d, e \in Checkpointers :
        pc'[d] \notin {"idle", "read"} /\ pc'[e] \notin {"idle", "read"} => d = e
  BY <1>1, BarrierKept DEF Steps
<1>7. TypeOK'
  <2>1. current' \in FileType /\ previous' \in FileType
    BY <1>1 DEF TypeOK, FileType
  <2>2. QED BY <1>1, <1>3, <1>6, <2>1 DEF TypeOK
<1>8. QED BY <1>3, <1>4, <1>5, <1>7 DEF BasicInv

LEMMA PublishBasic ==
  ASSUME BasicInv, NEW c \in Checkpointers, Publish(c)
  PROVE  BasicInv' /\ Segs' = Segs /\ current' = state
<1>1. /\ TypeOK /\ LogInv /\ ClockInv /\ StepInv /\ pc[c] \in {"staged", "moved"}
      /\ UNCHANGED <<up, state, errors, active, synced, frozen, previous, covered, damages,
                     attempts, acked, sure, shadowed, opened>>
      /\ current' = staged /\ staged' = Absent
      /\ pc' = [pc EXCEPT ![c] = "saved"]
  BY DEF BasicInv, Publish, bounds, log, history
<1>2. staged = state /\ up
  BY <1>1 DEF StepInv
<1>3. /\ pc' \in [Checkpointers -> Steps] /\ covered' \in [Checkpointers -> 0..MaxAttempts]
      /\ StepInv'
  <2>1. \A d \in Checkpointers : d # c => pc[d] \notin {"staged", "moved"}
    BY <1>1 DEF TypeOK
  <2>2. "saved" \in Steps /\ pc[c] # "idle" /\ covered' \in {covered, [covered EXCEPT ![c] = 0]}
    BY <1>1 DEF Steps
  <2>3. "saved" # "idle" /\ "saved" \notin {"staged", "moved"}
    OBVIOUS
  <2>4. QED BY <1>1, <2>1, <2>2, <2>3, CheckpointSteps
<1>4. LogInv' /\ Segs' = Segs
  BY <1>1, LogInvSame
<1>5. state \in ImageType /\ state \in FileType /\ Valid(state)
  BY <1>1, VectorLogAssumption DEF TypeOK, FileType, Valid
<1>6. ClockInv'
  <2>1. state.clock \in Nat /\ state.clock <= Len(attempts)
    BY <1>1, <1>2, <1>5 DEF ClockInv, ImageType
  <2>2. /\ Valid(previous) => previous.clock <= Len(attempts) /\ previous.clock <= state.clock
        /\ Len(attempts) <= MaxAttempts /\ damages \in Nat
        /\ damages = 0 => previous # Damaged
    BY <1>1, <1>2 DEF ClockInv
  <2>3. state # Damaged /\ Absent # Damaged
    BY <1>5, VectorLogAssumption DEF Valid
  <2>4. \A file \in {current', previous'} : Valid(file) =>
          file.clock <= Len(attempts') /\ (up' => file.clock <= state'.clock)
    BY <1>1, <1>2, <2>1, <2>2
  <2>5. Valid(current') /\ Valid(previous') => previous'.clock <= current'.clock
    BY <1>1, <1>2, <2>2
  <2>6. QED BY <1>1, <1>2, <2>1, <2>2, <2>3, <2>4, <2>5 DEF ClockInv, Valid
<1>7. \A d, e \in Checkpointers :
        pc'[d] \notin {"idle", "read"} /\ pc'[e] \notin {"idle", "read"} => d = e
  BY <1>1, BarrierKept DEF Steps
<1>8. TypeOK'
  <2>1. current' \in FileType /\ previous' \in FileType /\ staged' \in FileType
    BY <1>1, <1>2, <1>5 DEF TypeOK, FileType
  <2>2. QED BY <1>1, <1>3, <1>7, <2>1 DEF TypeOK
<1>9. QED BY <1>1, <1>2, <1>3, <1>4, <1>6, <1>8 DEF BasicInv

\* Rotation and pruning.
LEMMA LogShape ==
  ASSUME TypeOK, LogInv
  PROVE  /\ frozen \in Seq(SegmentType) /\ active \in SegmentType /\ Chained(Append(frozen, active))
         /\ Segs \in Seq(SegmentType) /\ Segs = Append(frozen, active)
         /\ Len(active) \in Nat /\ DOMAIN active = 1..Len(active)
         /\ Written(Segs) \subseteq Record /\ Logged \subseteq Written(Segs)
<1>1. frozen \in Seq(SegmentType) /\ active \in SegmentType
  BY DEF TypeOK
<1>2. Segs \in Seq(SegmentType)
  BY <1>1, SegmentsAppend DEF Segs
<1>3. Len(active) \in Nat /\ DOMAIN active = 1..Len(active)
  BY <1>1, SegmentsAreRecords
<1>4. Written(Segs) \subseteq Record /\ Logged \subseteq Written(Segs)
  BY <1>2, SegmentFacts DEF Logged
<1>5. QED BY <1>1, <1>2, <1>3, <1>4 DEF Segs, LogInv

LEMMA RotateBasic ==
  ASSUME BasicInv, NEW c \in Checkpointers, Rotate(c)
  PROVE  BasicInv' /\ Logged' = Logged
<1>1. /\ TypeOK /\ LogInv /\ ClockInv /\ StepInv /\ pc[c] = "saved"
      /\ UNCHANGED <<up, state, errors, current, previous, staged, covered, damages,
                     attempts, acked, sure, shadowed, opened>>
      /\ frozen' = Append(frozen, active) /\ active' = <<>> /\ synced' = 0
      /\ pc' = [pc EXCEPT ![c] = "rotated"]
  BY DEF BasicInv, Rotate, bounds, files, history
<1>2. /\ pc' \in [Checkpointers -> Steps] /\ covered' \in [Checkpointers -> 0..MaxAttempts]
      /\ StepInv'
  <2>1. "rotated" \in Steps /\ pc[c] # "idle" /\ covered' \in {covered, [covered EXCEPT ![c] = 0]}
    BY <1>1 DEF Steps
  <2>2. "rotated" # "idle" /\ "rotated" \notin {"staged", "moved"}
    OBVIOUS
  <2>3. QED BY <1>1, <2>1, <2>2, CheckpointSteps
<1>3. Segs \in Seq(SegmentType) /\ Chained(Segs) /\ Segs = Append(frozen, active)
  BY <1>1, LogShape
<1>4. Segs' = Append(Segs, <<>>)
  BY <1>1, <1>3 DEF Segs
<1>5. /\ <<>> \in SegmentType /\ Chained(Segs)'
      /\ Written(Segs)' = Written(Segs) /\ Logged' = Logged
  BY <1>3, <1>4, LogRotate DEF Logged
<1>6. LogInv'
  BY <1>1, <1>5, LogInvMoves
<1>7. ClockInv'
  BY <1>1 DEF ClockInv, Valid
<1>8. \A d, e \in Checkpointers :
        pc'[d] \notin {"idle", "read"} /\ pc'[e] \notin {"idle", "read"} => d = e
  BY <1>1, BarrierKept DEF Steps
<1>9. TypeOK'
  <2>1. frozen' \in Seq(SegmentType) /\ active' \in SegmentType /\ synced' \in 0..Len(active')
    BY <1>1, <1>3, <1>5
  <2>2. QED BY <1>1, <1>2, <1>8, <2>1 DEF TypeOK
<1>10. QED BY <1>2, <1>5, <1>6, <1>7, <1>9 DEF BasicInv

LEMMA PruneBasic ==
  ASSUME BasicInv, NEW c \in Checkpointers, Cleanup(c) \/ CheckpointFails(c)
  PROVE  /\ BasicInv' /\ Logged' \subseteq Logged
         /\ \A r \in Logged : covered[c] = 0 \/ r.clock > covered[c] => r \in Logged'
         /\ pc[c] # "rotated" => Logged' = Logged
<1>1. /\ TypeOK /\ LogInv /\ ClockInv /\ StepInv /\ pc[c] # "idle"
      /\ UNCHANGED <<up, state, errors, active, synced, current, previous, staged, damages,
                     attempts, acked, sure, shadowed, opened>>
      /\ pc' = [pc EXCEPT ![c] = "idle"] /\ covered' = [covered EXCEPT ![c] = 0]
  BY DEF BasicInv, Cleanup, CheckpointFails, bounds, files, history
<1>2. \/ frozen' = frozen
      \/ /\ pc[c] = "rotated"
         /\ \/ frozen' = Cleaned(frozen, covered[c])
            \/ frozen # <<>> /\ Removable(Head(frozen), covered[c]) /\ frozen' = Tail(frozen)
  BY DEF Cleanup, CheckpointFails
<1>3. covered[c] \in Nat
  BY <1>1 DEF TypeOK
<1>4. frozen \in Seq(SegmentType) /\ active \in SegmentType /\ Chained(Append(frozen, active))
  BY <1>1, LogShape
<1>5. Segs' = Append(frozen', active)
  BY <1>1 DEF Segs
<1>6. /\ frozen' \in Seq(SegmentType) /\ Chained(Segs)'
      /\ Written(Segs)' \subseteq Written(Segs) /\ Logged' \subseteq Logged
      /\ \A r \in Logged : covered[c] = 0 \/ r.clock > covered[c] => r \in Logged'
      /\ pc[c] # "rotated" => Logged' = Logged
  <2>1. CASE frozen' = frozen
    BY <1>4, <1>5, <2>1 DEF Segs, Logged
  <2>2. CASE /\ pc[c] = "rotated"
             /\ \/ frozen' = Cleaned(frozen, covered[c])
                \/ frozen # <<>> /\ Removable(Head(frozen), covered[c]) /\ frozen' = Tail(frozen)
    <3>1. PICK g : g = frozen'
      OBVIOUS
    <3>2. /\ g \in Seq(SegmentType) /\ Chained(Append(g, active))
          /\ Written(Append(g, active)) \subseteq Written(Append(frozen, active))
          /\ Readable(Append(g, active)) \subseteq Readable(Append(frozen, active))
          /\ \A r \in Readable(Append(frozen, active)) :
               covered[c] = 0 \/ r.clock > covered[c] => r \in Readable(Append(g, active))
      <4>1. \/ g = Cleaned(frozen, covered[c])
            \/ frozen # <<>> /\ Removable(Head(frozen), covered[c]) /\ g = Tail(frozen)
        BY <2>2, <3>1
      <4>2. QED BY <1>3, <1>4, <4>1, LogPrune
    <3>3. QED BY <1>5, <2>2, <3>1, <3>2 DEF Segs, Logged
  <2>3. QED BY <1>2, <2>1, <2>2
<1>7. LogInv'
  BY <1>1, <1>6, LogInvMoves
<1>8. /\ pc' \in [Checkpointers -> Steps] /\ covered' \in [Checkpointers -> 0..MaxAttempts]
      /\ StepInv'
  <2>1. "idle" \in Steps /\ covered' \in {covered, [covered EXCEPT ![c] = 0]}
    BY <1>1 DEF Steps
  <2>2. covered'[c] = 0 /\ "idle" \notin {"staged", "moved"}
    BY <1>1 DEF TypeOK
  <2>3. QED BY <1>1, <2>1, <2>2, CheckpointSteps
<1>9. ClockInv'
  BY <1>1 DEF ClockInv, Valid
<1>10. \A d, e \in Checkpointers :
         pc'[d] \notin {"idle", "read"} /\ pc'[e] \notin {"idle", "read"} => d = e
  BY <1>1, BarrierKept DEF Steps
<1>11. TypeOK'
  BY <1>1, <1>6, <1>8, <1>10 DEF TypeOK
<1>12. QED BY <1>6, <1>7, <1>8, <1>9, <1>11 DEF BasicInv

-----------------------------------------------------------------------------
(* Death, decay and recovery.                                              *)

LEMMA Stopped ==
  ASSUME BasicInv, Stop
  PROVE  /\ up' = FALSE /\ ClockInv' /\ StepInv'
         /\ UNCHANGED <<frozen, current, previous, staged, damages, attempts, shadowed, opened>>
         /\ up' \in BOOLEAN /\ state' \in ImageType /\ errors' \in 0..MaxIoErrors
         /\ pc' \in [Checkpointers -> Steps] /\ covered' \in [Checkpointers -> 0..MaxAttempts]
         /\ \A d, e \in Checkpointers :
              pc'[d] \notin {"idle", "read"} /\ pc'[e] \notin {"idle", "read"} => d = e
<1>1. /\ TypeOK /\ ClockInv /\ up' = FALSE /\ state' = Empty /\ errors' = 0
      /\ pc' = [c \in Checkpointers |-> "idle"] /\ covered' = [c \in Checkpointers |-> 0]
      /\ UNCHANGED <<frozen, current, previous, staged, damages, attempts, shadowed, opened>>
  BY DEF BasicInv, Stop, files
<1>2. 0 \in 0..MaxAttempts /\ 0 \in 0..MaxIoErrors
  BY VectorLogAssumption
<1>3. /\ pc' \in [Checkpointers -> Steps] /\ covered' \in [Checkpointers -> 0..MaxAttempts]
  BY <1>1, <1>2 DEF Steps
<1>4. ClockInv'
  BY <1>1 DEF ClockInv, Valid
<1>5. StepInv'
  BY <1>1, EmptyImage DEF StepInv
<1>6. QED BY <1>1, <1>2, <1>3, <1>4, <1>5, EmptyImage

LEMMA CrashBasic ==
  ASSUME BasicInv, Crash
  PROVE  BasicInv' /\ Segs' = Segs
<1>1. Stop /\ UNCHANGED <<active, synced, acked, sure>> /\ TypeOK /\ LogInv
  BY DEF BasicInv, Crash
<1>2. /\ up' = FALSE /\ ClockInv' /\ StepInv'
      /\ UNCHANGED <<frozen, current, previous, staged, damages, attempts, shadowed, opened>>
      /\ up' \in BOOLEAN /\ state' \in ImageType /\ errors' \in 0..MaxIoErrors
      /\ pc' \in [Checkpointers -> Steps] /\ covered' \in [Checkpointers -> 0..MaxAttempts]
      /\ \A d, e \in Checkpointers :
           pc'[d] \notin {"idle", "read"} /\ pc'[e] \notin {"idle", "read"} => d = e
  BY <1>1, Stopped
<1>3. LogInv' /\ Segs' = Segs
  BY <1>1, <1>2, LogInvSame
<1>4. TypeOK'
  BY <1>1, <1>2 DEF TypeOK
<1>5. QED BY <1>2, <1>3, <1>4 DEF BasicInv

LEMMA PowerLossBasic ==
  ASSUME BasicInv, PowerLoss
  PROVE  /\ BasicInv' /\ Logged' \subseteq Logged /\ acked' = sure /\ sure' = sure
         /\ \A k \in DOMAIN active' : k \in DOMAIN active /\ active'[k] = active[k]
         /\ \A r \in Logged : \/ r \in Logged'
                              \/ \E k \in DOMAIN active : k > synced /\ active[k] = r
<1>1. Stop /\ TypeOK /\ LogInv /\ acked' = sure /\ UNCHANGED <<synced, sure>>
  BY DEF BasicInv, PowerLoss
<1>2. PICK kept \in synced..Len(active) : active' = SubSeq(active, 1, kept)
  BY DEF PowerLoss
<1>3. /\ up' = FALSE /\ ClockInv' /\ StepInv'
      /\ UNCHANGED <<frozen, current, previous, staged, damages, attempts, shadowed, opened>>
      /\ up' \in BOOLEAN /\ state' \in ImageType /\ errors' \in 0..MaxIoErrors
      /\ pc' \in [Checkpointers -> Steps] /\ covered' \in [Checkpointers -> 0..MaxAttempts]
      /\ \A d, e \in Checkpointers :
           pc'[d] \notin {"idle", "read"} /\ pc'[e] \notin {"idle", "read"} => d = e
  BY <1>1, Stopped
<1>4. /\ frozen \in Seq(SegmentType) /\ active \in SegmentType /\ Chained(Append(frozen, active))
      /\ Len(active) \in Nat /\ DOMAIN active = 1..Len(active)
  BY <1>1, LogShape
<1>5. synced \in 0..Len(active) /\ kept \in 0..Len(active) /\ synced <= kept
  BY <1>1, <1>2, <1>4 DEF TypeOK
<1>6. PICK b : b = SubSeq(active, 1, kept)
  OBVIOUS
<1>7. /\ b \in SegmentType /\ Len(b) = kept /\ Chained(Append(frozen, b))
      /\ Written(Append(frozen, b)) \subseteq Written(Append(frozen, active))
      /\ Readable(Append(frozen, b)) \subseteq Readable(Append(frozen, active))
      /\ \A k \in DOMAIN b : k \in DOMAIN active /\ b[k] = active[k]
      /\ Readable(Append(frozen, active)) \subseteq Readable(Append(frozen, b)) \union CutOff(active, b)
  <2>1. /\ b \in SegmentType /\ Len(b) = kept /\ Chained(Append(frozen, b))
        /\ Written(Append(frozen, b)) \subseteq Written(Append(frozen, active))
        /\ Readable(Append(frozen, b)) \subseteq Readable(Append(frozen, active))
    BY <1>6, <1>4, <1>5, LogCut
  <2>2. \A k \in DOMAIN b : k \in DOMAIN active /\ b[k] = active[k]
    BY <1>6, <1>4, <1>5, LogCut
  <2>3. Readable(Append(frozen, active)) \subseteq Readable(Append(frozen, b)) \union CutOff(active, b)
    BY <1>6, <1>4, <1>5, LogCut
  <2>4. QED BY <2>1, <2>2, <2>3
<1>8. active' = b /\ Segs' = Append(frozen, b)
  BY <1>6, <1>2, <1>3 DEF Segs
<1>9. Segs = Append(frozen, active)
  BY DEF Segs
<1>10. LogInv'
  BY <1>1, <1>3, <1>7, <1>8, <1>9, LogInvMoves
<1>11. TypeOK'
  <2>1. synced' \in 0..Len(active') /\ active' \in SegmentType
    BY <1>1, <1>5, <1>7, <1>8
  <2>2. /\ sure' \subseteq acked' /\ acked' \subseteq DOMAIN attempts'
        /\ shadowed' \subseteq DOMAIN attempts'
        /\ attempts' \in Seq([iri : Iris, delete : BOOLEAN]) /\ opened' \in 0..Len(attempts')
    BY <1>1, <1>3 DEF TypeOK
  <2>3. /\ frozen' \in Seq(SegmentType) /\ current' \in FileType /\ previous' \in FileType
        /\ staged' \in FileType
    BY <1>1, <1>3 DEF TypeOK
  <2>4. QED BY <1>3, <2>1, <2>2, <2>3 DEF TypeOK
<1>12. \A r \in CutOff(active, b) : \E k \in DOMAIN active : k > synced /\ active[k] = r
  <2>1. DOMAIN b = 1..kept
    BY <1>7, SegmentsAreRecords
  <2>2. \A k \in DOMAIN active \ DOMAIN b : k > synced
    BY <1>4, <1>5, <2>1
  <2>3. QED BY <2>2 DEF CutOff
<1>13. QED BY <1>1, <1>3, <1>7, <1>8, <1>9, <1>10, <1>11, <1>12 DEF BasicInv, Logged

LEMMA DamageBasic ==
  ASSUME BasicInv, Damage
  PROVE  BasicInv' /\ Segs' = Segs
<1>1. /\ TypeOK /\ LogInv /\ ClockInv /\ StepInv /\ damages' = damages + 1 /\ staged' = staged
      /\ \/ Valid(current) /\ current' = Damaged /\ previous' = previous
         \/ Valid(previous) /\ previous' = Damaged /\ current' = current
      /\ UNCHANGED <<up, state, errors, active, synced, frozen, pc, covered, attempts,
                     acked, sure, shadowed, opened>>
  BY DEF BasicInv, Damage, log, history
<1>2. LogInv' /\ Segs' = Segs
  BY <1>1, LogInvSame
<1>3. ~Valid(Damaged)
  BY DEF Valid
<1>4. damages = 0 => damages' # 0
  BY <1>1
<1>5. ClockInv'
  BY <1>1, <1>3 DEF ClockInv, Valid
<1>6. StepInv'
  BY <1>1 DEF StepInv
<1>7. TypeOK'
  BY <1>1 DEF TypeOK, FileType
<1>8. QED BY <1>2, <1>5, <1>6, <1>7 DEF BasicInv

LEMMA NewestImage ==
  ASSUME TypeOK, ClockInv
  PROVE  LET file == Newest(current, previous) IN
         /\ file \in ImageType /\ file.clock \in Nat /\ file.clock <= Len(attempts)
         /\ \/ Valid(current) /\ file = current
            \/ ~Valid(current) /\ Valid(previous) /\ file = previous
            \/ ~Valid(current) /\ ~Valid(previous) /\ file = Empty
<1>1. PICK file : file = Newest(current, previous)
  OBVIOUS
<1>2. \/ Valid(current) /\ file = current
      \/ ~Valid(current) /\ Valid(previous) /\ file = previous
      \/ ~Valid(current) /\ ~Valid(previous) /\ file = Empty
  BY <1>1 DEF Newest
<1>3. file \in ImageType
  BY <1>2, ValidImage, EmptyImage DEF TypeOK
<1>4. file.clock \in Nat
  BY <1>3 DEF ImageType
<1>5. file.clock <= Len(attempts)
  <2>1. 0 <= Len(attempts)
    BY DEF TypeOK
  <2>2. QED BY <1>2, <2>1, EmptyImage DEF ClockInv
<1>6. QED BY <1>1, <1>2, <1>3, <1>4, <1>5

\* The image a restart makes of the files.
LEMMA Recovers ==
  ASSUME TypeOK, LogInv, NEW base \in ImageType
  PROVE  Applied(base, Logged, Recover(base, frozen, active))
<1>1. Segs \in Seq(SegmentType) /\ Chained(Segs)
  BY LogShape DEF LogInv
<1>2. Recover(base, frozen, active) = ReplayedAll(base, Segs)
  BY DEF Recover, Segs
<1>3. QED BY <1>1, <1>2, ReplayedAllApplies DEF Logged

LEMMA OpenBasic ==
  ASSUME BasicInv, Open
  PROVE  /\ BasicInv' /\ Logged' = Logged
         /\ Applied(Newest(current, previous), Logged, state')
         /\ \A k \in DOMAIN active' : k \in DOMAIN active /\ active'[k] = active[k]
<1>1. /\ TypeOK /\ LogInv /\ ClockInv /\ StepInv /\ ~up /\ up' = TRUE
      /\ UNCHANGED <<staged, errors, pc, covered, damages, attempts, shadowed>>
      /\ state' = Recover(Newest(current, previous), frozen, active)
      /\ current' = IF Valid(current) THEN current ELSE Absent
      /\ previous' = IF Valid(current) \/ Valid(previous) THEN previous ELSE Absent
      /\ frozen' = [k \in DOMAIN frozen |-> Healed(frozen[k])]
      /\ active' = Healed(active) /\ synced' = Min({synced, Len(Healed(active))})
  BY DEF BasicInv, Open, bounds
<1>2. PICK file \in ImageType :
        /\ file = Newest(current, previous) /\ file.clock \in Nat /\ file.clock <= Len(attempts)
        /\ \/ Valid(current) /\ file = current
           \/ ~Valid(current) /\ Valid(previous) /\ file = previous
           \/ ~Valid(current) /\ ~Valid(previous) /\ file = Empty
  BY <1>1, NewestImage
<1>3. Applied(file, Logged, state')
  BY <1>1, <1>2, Recovers
<1>4. PICK h, b : h = frozen' /\ b = active'
  OBVIOUS
<1>5. /\ frozen \in Seq(SegmentType) /\ active \in SegmentType /\ Chained(Append(frozen, active))
      /\ Segs = Append(frozen, active) /\ Written(Segs) \subseteq Record
      /\ Logged \subseteq Written(Segs)
  BY <1>1, LogShape
<1>6. /\ h \in Seq(SegmentType) /\ b \in SegmentType /\ Chained(Append(h, b))
      /\ Written(Append(h, b)) \subseteq Logged /\ Readable(Append(h, b)) = Logged
  BY <1>1, <1>4, <1>5, LogHeal DEF Logged
<1>7. \A k \in DOMAIN b : k \in DOMAIN active /\ b[k] = active[k]
  BY <1>1, <1>4, <1>5, LogHeal
<1>8. Segs' = Append(h, b) /\ Logged' = Logged
  BY <1>4, <1>6 DEF Segs, Logged
<1>9. /\ state' \in ImageType /\ state'.clock \in Nat /\ state'.clock >= file.clock
      /\ \A r \in Logged : r.clock <= state'.clock
      /\ state'.clock = file.clock \/ \E r \in Logged : r.clock = state'.clock
  BY <1>3 DEF Applied, ImageType
<1>10. \A r \in Logged : Recorded(r) /\ r.clock <= Len(attempts)
  BY <1>1, <1>5 DEF LogInv
<1>11. state'.clock <= Len(attempts)
  BY <1>2, <1>9, <1>10
<1>12. LogInv'
  <2>1. \A r \in Written(Segs)' : /\ Recorded(r)' /\ r.clock <= Len(attempts')
                                  /\ r.clock <= state'.clock
    BY <1>1, <1>6, <1>8, <1>9, <1>10 DEF Recorded
  <2>2. QED BY <1>6, <1>8, <2>1 DEF LogInv
<1>13. ClockInv'
  <2>1. current' = Absent \/ (Valid(current) /\ current' = current)
    BY <1>1
  <2>2. previous' = Absent \/ (previous' = previous /\ (Valid(current) \/ Valid(previous)))
    BY <1>1
  <2>3. ~Valid(Absent) /\ Absent # Damaged
    BY VectorLogAssumption DEF Valid
  <2>4. ASSUME Valid(current')
        PROVE  current'.clock <= Len(attempts) /\ current'.clock <= state'.clock
    BY <1>2, <1>9, <2>1, <2>3, <2>4
  <2>5. ASSUME Valid(previous')
        PROVE  previous'.clock <= Len(attempts) /\ previous'.clock <= state'.clock
    <3>1. previous' = previous /\ Valid(previous) /\ previous.clock <= Len(attempts)
      BY <1>1, <2>2, <2>3, <2>5 DEF ClockInv
    <3>2. previous.clock <= file.clock
      <4>1. previous \in ImageType
        BY <1>1, <3>1, ValidImage DEF TypeOK
      <4>2. previous.clock \in Nat
        BY <4>1 DEF ImageType
      <4>3. CASE Valid(current)
        BY <1>1, <1>2, <3>1, <4>3 DEF ClockInv
      <4>4. CASE ~Valid(current)
        BY <1>2, <3>1, <4>2, <4>4
      <4>5. QED BY <4>3, <4>4
    <3>3. previous.clock \in Nat
      <4>1. previous \in ImageType
        BY <1>1, <3>1, ValidImage DEF TypeOK
      <4>2. QED BY <4>1 DEF ImageType
    <3>4. QED BY <1>2, <1>9, <3>1, <3>2, <3>3
  <2>6. Valid(current') /\ Valid(previous') => previous'.clock <= current'.clock
    BY <1>1, <2>1, <2>2, <2>3 DEF ClockInv
  <2>7. damages = 0 => current' # Damaged /\ previous' # Damaged
    BY <1>1, <2>1, <2>2, <2>3 DEF ClockInv
  <2>8. /\ Len(attempts) <= MaxAttempts /\ damages \in Nat /\ staged # Damaged
    BY <1>1 DEF ClockInv
  <2>9. QED BY <1>1, <1>11, <2>4, <2>5, <2>6, <2>7, <2>8 DEF ClockInv, Valid
<1>14. StepInv'
  <2>1. \A c \in Checkpointers : pc[c] = "idle" /\ covered[c] = 0
    BY <1>1 DEF StepInv
  <2>2. QED BY <1>1, <1>9, <2>1 DEF StepInv
<1>15. TypeOK'
  <2>1. current' \in FileType /\ previous' \in FileType
    BY <1>1 DEF TypeOK, FileType
  <2>2. synced' \in 0..Len(active')
    <3>1. Len(b) \in Nat /\ synced \in Nat
      BY <1>1, <1>6, SegmentsAreRecords DEF TypeOK
    <3>2. Min({synced, Len(b)}) \in {synced, Len(b)} /\ Min({synced, Len(b)}) <= Len(b)
      BY <3>1, MinIsLeast
    <3>3. synced' = Min({synced, Len(b)}) /\ active' = b
      BY <1>1, <1>4
    <3>4. QED BY <3>1, <3>2, <3>3
  <2>3. sure' \subseteq acked' /\ acked' \subseteq DOMAIN attempts'
    <3>1. sure \subseteq acked /\ acked \subseteq DOMAIN attempts
      BY <1>1 DEF TypeOK
    <3>2. \/ acked' = {} /\ sure' = {}
          \/ acked' = acked /\ sure' = sure
      BY DEF Open
    <3>3. QED BY <1>1, <3>1, <3>2
  <2>4. up' \in BOOLEAN /\ state' \in ImageType
    BY <1>1, <1>9
  <2>5. active' \in SegmentType /\ frozen' \in Seq(SegmentType)
    BY <1>4, <1>6
  <2>6. /\ errors' \in 0..MaxIoErrors /\ staged' \in FileType
        /\ pc' \in [Checkpointers -> Steps] /\ covered' \in [Checkpointers -> 0..MaxAttempts]
        /\ \A c, d \in Checkpointers :
             pc'[c] \notin {"idle", "read"} /\ pc'[d] \notin {"idle", "read"} => c = d
        /\ attempts' \in Seq([iri : Iris, delete : BOOLEAN])
        /\ shadowed' \subseteq DOMAIN attempts'
    BY <1>1 DEF TypeOK
  <2>7. opened' \in 0..Len(attempts')
    <3>1. opened' = Len(attempts) /\ Len(attempts) \in Nat
      BY <1>1 DEF Open, TypeOK
    <3>2. QED BY <1>1, <3>1
  <2>8. QED BY <2>1, <2>2, <2>3, <2>4, <2>5, <2>6, <2>7 DEF TypeOK
<1>16. QED BY <1>1, <1>2, <1>3, <1>4, <1>7, <1>8, <1>12, <1>13, <1>14, <1>15 DEF BasicInv

LEMMA StepBasic == BasicInv /\ [Next]_vars => BasicInv'
<1> SUFFICES ASSUME BasicInv, [Next]_vars PROVE BasicInv'
  OBVIOUS
<1>1. ASSUME NEW i \in Iris, Mutate(i) PROVE BasicInv'
  BY <1>1, WriteBasic, FailedWriteBasic, RefusedBasic DEF Mutate
<1>2. ASSUME NEW c \in Checkpointers, Checkpoint(c) PROVE BasicInv'
  BY <1>2, ReadCoveredBasic, StageBasic, KeepPreviousBasic, PublishBasic, RotateBasic, PruneBasic
     DEF Checkpoint
<1>3. CASE Crash \/ PowerLoss \/ Damage \/ Open
  BY <1>3, CrashBasic, PowerLossBasic, DamageBasic, OpenBasic
<1>4. CASE UNCHANGED vars
  <2>1. UNCHANGED <<up, state, errors, active, synced, frozen, current, previous, staged, pc,
                    covered, damages, attempts, acked, sure, shadowed, opened>>
    BY <1>4 DEF vars, log, files, bounds, history
  <2>2. TypeOK' /\ StepInv' /\ LogInv'
    BY <2>1, LogInvSame DEF BasicInv, TypeOK, StepInv
  <2>3. ClockInv'
    BY <2>1 DEF BasicInv, ClockInv, Valid
  <2>4. QED BY <2>2, <2>3 DEF BasicInv
<1>5. QED BY <1>1, <1>2, <1>3, <1>4 DEF Next

LEMMA BasicInvariant == Spec => []BasicInv
BY InitBasic, StepBasic, PTL DEF Spec

\* Every variable keeps its type, and one checkpoint at a time holds the write barrier
\* (HyperspaceEngineImpl::checkpoint).
THEOREM VectorTypes == Spec => []TypeOK
<1>1. BasicInv => TypeOK
  BY DEF BasicInv
<1>2. QED BY <1>1, BasicInvariant, PTL

-----------------------------------------------------------------------------
(* What an image and the log keep of the attempts that are owed.           *)

KeptOn(i) == {m \in Kept : attempts[m].iri = i}

\* The documents show for i an attempt on i that is not before m.
ShowsOn(docs, i, m) == \E n \in AttemptsOn(i) : n >= m /\ docs[i] = Outcome(n)
SoundOn(docs, i) == docs[i] = 0 \/ \E n \in AttemptsOn(i) : docs[i] = Outcome(n)
Shows(docs) ==
  \A i \in Iris : SoundOn(docs, i) /\ \A m \in KeptOn(i) : ShowsOn(docs, i, m)

\* Of a kept attempt m on i the log has the record, beyond the clock of the file; or
\* the file shows it or a later one, and so does every record beyond its clock.
Covers(file, i, m) ==
  \/ \E r \in Logged : r.attempt = m /\ r.clock > file.clock
  \/ /\ ShowsOn(file.docs, i, m)
     /\ \A r \in Logged : r.iri = i /\ r.clock > file.clock => r.attempt >= m
Suffices(file) ==
  \A i \in Iris : SoundOn(file.docs, i) /\ \A m \in KeptOn(i) : Covers(file, i, m)

\* Of two records in the log one is before the other.
LEMMA RecordOrder ==
  ASSUME TypeOK, LogInv, NEW r \in Written(Segs), NEW q \in Written(Segs)
  PROVE  r = q \/ Before(r, q) \/ Before(q, r)
<1>1. Segs \in Seq(SegmentType) /\ Chained(Segs)
  BY LogShape DEF LogInv
<1>2. PICK s \in Seq(SegmentType) : s = Segs /\ Chained(s)
  BY <1>1
<1>3. PICK k \in DOMAIN s, l \in DOMAIN s : r \in Range(s[k]) /\ q \in Range(s[l])
  BY <1>2 DEF Written
<1>4. DOMAIN s \subseteq Nat /\ s[k] \in Seq(Record)
  BY SegmentsAreRecords
<1>5. k < l \/ l < k \/ k = l
  BY <1>4
<1>6. CASE k = l
  <2>1. PICK a \in DOMAIN s[k], b \in DOMAIN s[k] : r = s[k][a] /\ q = s[k][b]
    BY <1>3, <1>6 DEF Range
  <2>2. a \in Nat /\ b \in Nat
    BY <1>4
  <2>3. a < b \/ b < a \/ a = b
    BY <2>2
  <2>4. QED BY <1>2, <2>1, <2>3 DEF Chained, Ordered
<1>7. CASE k < l
  BY <1>2, <1>3, <1>7 DEF Chained
<1>8. CASE l < k
  BY <1>2, <1>3, <1>8 DEF Chained
<1>9. QED BY <1>5, <1>6, <1>7, <1>8

LEMMA LaterRecord ==
  ASSUME TypeOK, LogInv, NEW r \in Logged, NEW q \in Logged, r.clock <= q.clock
  PROVE  r.attempt <= q.attempt
<1>1. r \in Written(Segs) /\ q \in Written(Segs) /\ r \in Record /\ q \in Record
  BY LogShape
<1>2. /\ r.clock \in Nat /\ q.clock \in Nat /\ r.attempt \in Nat /\ q.attempt \in Nat
  BY <1>1 DEF Record
<1>3. r = q \/ Before(r, q) \/ Before(q, r)
  BY <1>1, RecordOrder
<1>4. QED BY <1>2, <1>3 DEF Before

LEMMA LoggedOutcome ==
  ASSUME TypeOK, LogInv, NEW r \in Logged
  PROVE  /\ r.attempt \in AttemptsOn(r.iri) /\ Outcome(r.attempt) = Value(r)
         /\ r.attempt \in Nat /\ r.clock \in Nat
         /\ attempts[r.attempt].iri = r.iri
<1>1. r \in Written(Segs) /\ r \in Record
  BY LogShape
<1>2. Recorded(r)
  BY <1>1 DEF LogInv
<1>3. r.attempt \in Nat /\ r.clock \in Nat
  BY <1>1 DEF Record
<1>4. attempts[r.attempt].iri = r.iri /\ attempts[r.attempt].delete = r.delete
  BY <1>2 DEF Recorded
<1>5. QED BY <1>2, <1>3, <1>4 DEF Recorded, AttemptsOn, Outcome, Value

LEMMA RecoveredSound ==
  ASSUME TypeOK, LogInv, NEW base, NEW image, Applied(base, Logged, image),
         \A i \in Iris : SoundOn(base.docs, i)
  PROVE  \A i \in Iris : SoundOn(image.docs, i)
<1>1. SUFFICES ASSUME NEW i \in Iris PROVE SoundOn(image.docs, i)
  OBVIOUS
<1>2. AppliedOn(i, base, Logged, image)
  BY DEF Applied
<1>3. CASE image.docs[i] = base.docs[i]
  BY <1>3 DEF SoundOn
<1>4. CASE \E r \in Logged : r.iri = i /\ image.docs[i] = Value(r)
  <2>1. PICK r \in Logged : r.iri = i /\ image.docs[i] = Value(r)
    BY <1>4
  <2>2. QED BY <2>1, LoggedOutcome DEF SoundOn
<1>5. QED BY <1>2, <1>3, <1>4 DEF AppliedOn

\* A file that suffices is recovered to documents that show what is owed.
LEMMA RecoveredShows ==
  ASSUME TypeOK, LogInv, NEW base \in ImageType, NEW image, Applied(base, Logged, image),
         Suffices(base)
  PROVE  Shows(image.docs)
<1>1. \A i \in Iris : SoundOn(image.docs, i)
  BY RecoveredSound DEF Suffices
<1>2. ASSUME NEW i \in Iris, NEW m \in KeptOn(i) PROVE ShowsOn(image.docs, i, m)
  <2>1. AppliedOn(i, base, Logged, image) /\ Covers(base, i, m)
    BY DEF Applied, Suffices
  <2>2. base.clock \in Nat /\ m \in Nat /\ attempts[m].iri = i
    BY DEF ImageType, KeptOn, Kept, TypeOK
  <2>3. ASSUME NEW r \in Logged, r.iri = i, image.docs[i] = Value(r), r.attempt >= m
        PROVE  ShowsOn(image.docs, i, m)
    BY <2>3, LoggedOutcome DEF ShowsOn
  <2>4. CASE /\ image.docs[i] = base.docs[i]
             /\ \A r \in Logged : r.iri = i => r.clock <= base.clock
    <3>1. ASSUME NEW r \in Logged, r.attempt = m, r.clock > base.clock PROVE FALSE
      <4>1. r.iri = i /\ r.clock \in Nat
        BY <2>2, <3>1, LoggedOutcome
      <4>2. r.clock <= base.clock
        BY <2>4, <4>1
      <4>3. QED BY <2>2, <3>1, <4>1, <4>2
    <3>2. ShowsOn(base.docs, i, m)
      BY <2>1, <3>1 DEF Covers
    <3>3. QED BY <2>4, <3>2 DEF ShowsOn
  <2>5. CASE \E r \in Logged : /\ r.iri = i /\ r.clock > base.clock /\ image.docs[i] = Value(r)
                               /\ \A q \in Logged : q.iri = i => q.clock <= r.clock
    <3>1. PICK r \in Logged : /\ r.iri = i /\ r.clock > base.clock /\ image.docs[i] = Value(r)
                              /\ \A q \in Logged : q.iri = i => q.clock <= r.clock
      BY <2>5
    <3>2. r.attempt >= m
      <4>1. CASE \E q \in Logged : q.attempt = m /\ q.clock > base.clock
        <5>1. PICK q \in Logged : q.attempt = m
          BY <4>1
        <5>2. q.iri = i
          BY <2>2, <5>1, LoggedOutcome
        <5>3. q.clock <= r.clock
          BY <3>1, <5>2
        <5>4. q.attempt <= r.attempt
          BY <5>3, LaterRecord
        <5>5. QED BY <5>1, <5>4
      <4>2. CASE \A q \in Logged : q.iri = i /\ q.clock > base.clock => q.attempt >= m
        BY <3>1, <4>2
      <4>3. QED BY <2>1, <4>1, <4>2 DEF Covers
    <3>3. QED BY <2>3, <3>1, <3>2
  <2>6. QED BY <2>1, <2>4, <2>5 DEF AppliedOn
<1>3. QED BY <1>1, <1>2 DEF Shows

LEMMA LastKept ==
  ASSUME TypeOK, NEW i \in Iris
  PROVE  /\ LastOf(Kept, i) \in KeptOn(i) \union {0}
         /\ \A m \in KeptOn(i) : m <= LastOf(Kept, i)
         /\ LastOf(Kept, i) \in Nat
<1> DEFINE S == {0} \union {n \in Kept : attempts[n].iri = i}
<1>1. Len(attempts) \in Nat /\ S \subseteq 0..Len(attempts) /\ S # {}
  <2>1. Len(attempts) \in Nat /\ DOMAIN attempts = 1..Len(attempts)
    BY DEF TypeOK
  <2>2. Kept \subseteq DOMAIN attempts
    BY DEF Kept, TypeOK
  <2>3. QED BY <2>1, <2>2
<1>2. LastOf(Kept, i) = Max(S)
  BY DEF LastOf
<1>3. Max(S) \in S /\ \A n \in S : n <= Max(S)
  <2> HIDE DEF S
  <2>1. QED BY <1>1, MaxIsGreatest
<1>4. Max(S) \in Nat
  <2>1. S \subseteq Nat
    BY <1>1
  <2> HIDE DEF S
  <2>2. QED BY <1>3, <2>1
<1>5. QED BY <1>2, <1>3, <1>4 DEF KeptOn

LEMMA ShowsFaithful ==
  ASSUME TypeOK, NEW docs, Shows(docs)
  PROVE  Faithful(docs, Kept)
<1>1. SUFFICES ASSUME NEW i \in Iris
               PROVE  LET last == LastOf(Kept, i)
                          later == {n \in DOMAIN attempts : attempts[n].iri = i /\ n >= last}
                      IN  docs[i] \in {Outcome(n) : n \in later}
                                        \union (IF last = 0 THEN {0} ELSE {})
  BY DEF Faithful
<1>2. PICK last : last = LastOf(Kept, i)
  OBVIOUS
<1>3. last \in KeptOn(i) \union {0} /\ last \in Nat
  BY <1>2, LastKept
<1> DEFINE later == {n \in DOMAIN attempts : attempts[n].iri = i /\ n >= last}
<1>4. docs[i] \in {Outcome(n) : n \in later} \union (IF last = 0 THEN {0} ELSE {})
  <2>1. CASE last \in KeptOn(i)
    <3>1. PICK n \in AttemptsOn(i) : n >= last /\ docs[i] = Outcome(n)
      BY <2>1 DEF Shows, ShowsOn
    <3>2. n \in later
      BY <3>1 DEF AttemptsOn
    <3>3. QED BY <3>1, <3>2
  <2>2. CASE last = 0
    <3>1. CASE docs[i] = 0
      BY <2>2, <3>1
    <3>2. CASE \E n \in AttemptsOn(i) : docs[i] = Outcome(n)
      <4>1. PICK n \in AttemptsOn(i) : docs[i] = Outcome(n)
        BY <3>2
      <4>2. n \in Nat
        BY DEF AttemptsOn, TypeOK
      <4>3. n \in later
        BY <2>2, <4>2 DEF AttemptsOn
      <4>4. QED BY <4>1, <4>3
    <3>3. QED BY <3>1, <3>2 DEF Shows, SoundOn
  <2>3. QED BY <1>3, <2>1, <2>2
<1>5. QED BY <1>2, <1>4

-----------------------------------------------------------------------------
(* What holds between any two steps.                                       *)

\* A generation that is whole gives back what is owed.
HoldsInv == \A file \in {current, previous} : Valid(file) => Suffices(file)
BareInv == previous = Absent /\ damages = 0 => Suffices(Empty)
ViewInv == up => Shows(state.docs)
\* What a sync has covered stands in the part of the file that is on the disk.
SureInv == \A k \in DOMAIN active : active[k].attempt \in sure => k <= synced
\* The clock a checkpoint prunes through is covered by each generation that remains.
CoverInv ==
  \A c \in Checkpointers : covered[c] > 0 =>
    /\ Valid(current) => covered[c] <= current.clock
    /\ current = Absent \/ pc[c] \in {"moved", "saved", "rotated"} =>
         previous # Absent /\ (Valid(previous) => covered[c] <= previous.clock)
KeepsInv == HoldsInv /\ BareInv /\ ViewInv /\ SureInv /\ CoverInv
DurableInv == BasicInv /\ KeepsInv

\* The attempts only grow.
Grows == \A n \in DOMAIN attempts : n \in DOMAIN attempts' /\ attempts'[n] = attempts[n]

LEMMA ShowsStill ==
  ASSUME Grows, NEW docs, NEW i
  PROVE  /\ SoundOn(docs, i) => SoundOn(docs, i)'
         /\ \A m : ShowsOn(docs, i, m) => ShowsOn(docs, i, m)'
<1>1. ASSUME NEW n \in AttemptsOn(i) PROVE n \in AttemptsOn(i)' /\ Outcome(n)' = Outcome(n)
  BY <1>1 DEF Grows, AttemptsOn, Outcome
<1>2. QED BY <1>1 DEF SoundOn, ShowsOn

LEMMA KeptStill ==
  ASSUME TypeOK, Grows, NEW i, NEW m \in KeptOn(i)', m \in Kept
  PROVE  m \in KeptOn(i)
<1>1. m \in DOMAIN attempts
  BY DEF Kept, TypeOK
<1>2. QED BY <1>1 DEF KeptOn, Grows

\* A file suffices as long as the records it lacks stay in the log.
LEMMA SufficesStill ==
  ASSUME TypeOK, UNCHANGED attempts, NEW file, Suffices(file),
         Kept' \subseteq Kept, Logged' \subseteq Logged,
         \A r \in Logged : r.attempt \in Kept' /\ r.clock > file.clock => r \in Logged'
  PROVE  Suffices(file)'
<1>1. Grows
  BY DEF Grows
<1>2. ASSUME NEW i \in Iris PROVE SoundOn(file.docs, i)'
  BY <1>1, ShowsStill DEF Suffices
<1>3. ASSUME NEW i \in Iris, NEW m \in KeptOn(i)' PROVE Covers(file, i, m)'
  <2>1. m \in Kept'
    BY DEF KeptOn
  <2>2. m \in KeptOn(i)
    BY <1>1, <2>1, KeptStill
  <2>3. Covers(file, i, m)
    BY <2>2 DEF Suffices
  <2>4. CASE \E r \in Logged : r.attempt = m /\ r.clock > file.clock
    BY <2>1, <2>4 DEF Covers
  <2>5. CASE /\ ShowsOn(file.docs, i, m)
             /\ \A r \in Logged : r.iri = i /\ r.clock > file.clock => r.attempt >= m
    <3>1. ShowsOn(file.docs, i, m)'
      BY <1>1, <2>5, ShowsStill
    <3>2. QED BY <2>5, <3>1 DEF Covers
  <2>6. QED BY <2>3, <2>4, <2>5 DEF Covers
<1>4. QED BY <1>2, <1>3 DEF Suffices

\* A mutation adds at most its own record, and is kept only with it.
LEMMA SufficesAfter ==
  ASSUME BasicInv, NEW i \in Iris, NEW delete \in BOOLEAN, Begin(i, delete),
         NEW r, r.attempt = Len(attempts) + 1, Logged' = Logged \/ Logged' = Logged \union {r},
         NEW file, Suffices(file), r.clock > file.clock,
         Kept' \subseteq Kept \union {Len(attempts) + 1},
         Len(attempts) + 1 \in Kept' => r \in Logged'
  PROVE  Suffices(file)'
<1> DEFINE new == Len(attempts) + 1
<1>1. Grows /\ Len(attempts) \in Nat /\ DOMAIN attempts = 1..Len(attempts)
  BY Begins DEF Grows, BasicInv
<1>2. ASSUME NEW j \in Iris PROVE SoundOn(file.docs, j)'
  BY <1>1, ShowsStill DEF Suffices
<1>3. ASSUME NEW j \in Iris, NEW m \in KeptOn(j)' PROVE Covers(file, j, m)'
  <2>1. m \in Kept' /\ (m = new \/ m \in Kept)
    BY DEF KeptOn
  <2>2. CASE m = new
    BY <2>1, <2>2 DEF Covers
  <2>3. CASE m \in Kept
    <3>1. m \in KeptOn(j)
      BY <1>1, <2>3, KeptStill DEF BasicInv
    <3>2. m \in DOMAIN attempts
      BY <2>3 DEF Kept, BasicInv, TypeOK
    <3>3. new >= m
      BY <1>1, <3>2
    <3>4. Covers(file, j, m)
      BY <3>1 DEF Suffices
    <3>5. CASE \E q \in Logged : q.attempt = m /\ q.clock > file.clock
      BY <3>5 DEF Covers
    <3>6. CASE /\ ShowsOn(file.docs, j, m)
               /\ \A q \in Logged : q.iri = j /\ q.clock > file.clock => q.attempt >= m
      <4>1. ShowsOn(file.docs, j, m)'
        BY <1>1, <3>6, ShowsStill
      <4>2. \A q \in Logged' : q.iri = j /\ q.clock > file.clock => q.attempt >= m
        BY <3>3, <3>6
      <4>3. QED BY <4>1, <4>2 DEF Covers
    <3>7. QED BY <3>4, <3>5, <3>6 DEF Covers
  <2>4. QED BY <2>1, <2>2, <2>3
<1>4. QED BY <1>2, <1>3 DEF Suffices

\* The image of the running engine suffices.
LEMMA StateSuffices ==
  ASSUME BasicInv, ViewInv, up
  PROVE  Suffices(state)
<1>1. \A r \in Logged : r.clock <= state.clock /\ r.clock \in Nat
  <2>1. \A r \in Logged : r \in Written(Segs) /\ r.clock \in Nat
    BY LogShape DEF BasicInv, Record
  <2>2. QED BY <2>1 DEF BasicInv, LogInv
<1>2. state.clock \in Nat
  BY DEF BasicInv, TypeOK, ImageType
<1>3. \A r \in Logged : ~(r.clock > state.clock)
  BY <1>1, <1>2
<1>4. QED BY <1>3 DEF ViewInv, Shows, Suffices, Covers

LEMMA ShowsUnchanged ==
  ASSUME TypeOK, Grows, NEW docs, Shows(docs), Kept' \subseteq Kept
  PROVE  Shows(docs)'
<1>1. ASSUME NEW i \in Iris PROVE SoundOn(docs, i)'
  BY ShowsStill DEF Shows
<1>2. ASSUME NEW i \in Iris, NEW m \in KeptOn(i)' PROVE ShowsOn(docs, i, m)'
  <2>1. m \in Kept
    BY DEF KeptOn
  <2>2. m \in KeptOn(i)
    BY <2>1, KeptStill
  <2>3. QED BY <2>2, ShowsStill DEF Shows
<1>3. QED BY <1>1, <1>2 DEF Shows

-----------------------------------------------------------------------------
(* Mutations.                                                              *)

LEMMA FileClocks ==
  ASSUME BasicInv, up
  PROVE  /\ \A file \in {current, previous} : Valid(file) =>
              file \in ImageType /\ file.clock \in Nat /\ file.clock <= state.clock
         /\ state.clock \in Nat
<1>1. state.clock \in Nat
  BY DEF BasicInv, TypeOK, ImageType
<1>2. ASSUME NEW file \in {current, previous}, Valid(file)
      PROVE  file \in ImageType /\ file.clock \in Nat /\ file.clock <= state.clock
  <2>1. file \in FileType
    BY DEF BasicInv, TypeOK
  <2>2. file \in ImageType
    BY <1>2, <2>1, ValidImage
  <2>3. QED BY <1>2, <2>2 DEF ImageType, BasicInv, ClockInv
<1>3. QED BY <1>1, <1>2

\* The files stand still and the clock of the record is beyond them.
LEMMA MutationKeeps ==
  ASSUME BasicInv, KeepsInv, NEW i \in Iris, NEW delete \in BOOLEAN, Begin(i, delete),
         NEW r, r.attempt = Len(attempts) + 1, r.clock = state.clock + 1,
         Logged' = Logged \/ Logged' = Logged \union {r},
         Kept' \subseteq Kept \union {Len(attempts) + 1},
         Len(attempts) + 1 \in Kept' => r \in Logged'
  PROVE  HoldsInv' /\ BareInv' /\ CoverInv'
<1>1. up /\ UNCHANGED <<current, previous, pc, covered, damages>>
  BY DEF Begin, files
<1>2. ASSUME NEW file, Suffices(file), file.clock \in Nat, file.clock <= state.clock
      PROVE  Suffices(file)'
  <2>1. state.clock \in Nat
    BY <1>1, FileClocks
  <2>2. r.clock > file.clock
    BY <1>2, <2>1
  <2>3. QED BY <1>2, <2>2, SufficesAfter
<1>3. HoldsInv'
  <2>1. SUFFICES ASSUME NEW file \in {current', previous'}, Valid(file) PROVE Suffices(file)'
    BY DEF HoldsInv, Valid
  <2>2. file \in {current, previous}
    BY <1>1
  <2>3. file.clock \in Nat /\ file.clock <= state.clock
    BY <1>1, <2>1, <2>2, FileClocks
  <2>4. Suffices(file)
    BY <2>1, <2>2 DEF KeepsInv, HoldsInv
  <2>5. QED BY <1>2, <2>3, <2>4
<1>4. BareInv'
  <2>1. SUFFICES ASSUME previous = Absent, damages = 0 PROVE Suffices(Empty)'
    BY <1>1 DEF BareInv
  <2>2. Suffices(Empty)
    BY <2>1 DEF KeepsInv, BareInv
  <2>3. Empty.clock \in Nat /\ Empty.clock <= state.clock
    BY <1>1, FileClocks, EmptyImage
  <2>4. QED BY <1>2, <2>2, <2>3
<1>5. CoverInv'
  BY <1>1 DEF KeepsInv, CoverInv, Valid
<1>6. QED BY <1>3, <1>4, <1>5

LEMMA GrowsBegin ==
  ASSUME BasicInv, NEW i \in Iris, NEW delete \in BOOLEAN, Begin(i, delete)
  PROVE  /\ Grows /\ up /\ Len(attempts) \in Nat
         /\ Len(attempts) + 1 \notin Kept /\ Len(attempts) + 1 \notin acked
         /\ Len(attempts) + 1 \notin sure
<1>1. /\ Grows /\ up /\ Len(attempts) \in Nat
      /\ Len(attempts) + 1 \notin DOMAIN attempts
  BY Begins DEF Grows, BasicInv
<1>2. QED BY <1>1 DEF BasicInv, TypeOK, Kept

\* The records of the file after a mutation: those it had, unless it was rotated out,
\* and the new one.
LEMMA SureAfter ==
  ASSUME BasicInv, KeepsInv, NEW i \in Iris, NEW delete \in BOOLEAN, NEW rotate \in BOOLEAN,
         NEW r, Appends(i, delete, rotate, r),
         \/ synced' = Len(active')
         \/ synced' = SyncedBefore(rotate) /\ sure' = SureBefore(rotate)
  PROVE  SureInv'
<1>1. SUFFICES ASSUME NEW k \in DOMAIN active', active'[k].attempt \in sure' PROVE k <= synced'
  BY DEF SureInv
<1>2. PICK segment \in SegmentType : segment = Segments(rotate).new
  BY AppendsLog
<1>3. /\ Len(segment) \in Nat /\ DOMAIN segment = 1..Len(segment)
      /\ active' = Append(segment, r) /\ Len(active') = Len(segment) + 1
      /\ active' \in SegmentType /\ r \in Record /\ r.attempt = Len(attempts) + 1
  <2>1. Len(segment) \in Nat /\ DOMAIN segment = 1..Len(segment)
    BY SegmentsAreRecords
  <2>2. QED BY <1>2, <2>1, AppendsLog DEF Appends
<1>4. k \in 1..(Len(segment) + 1) /\ active'[Len(segment) + 1] = r
      /\ \A l \in 1..Len(segment) : active'[l] = segment[l]
  <2>1. segment \in Seq(Record)
    BY SegmentsAreRecords
  <2>2. PICK t \in Seq(Record) : t = Append(segment, r) /\ t = active'
    BY <1>3, <2>1
  <2>3. QED BY <1>1, <1>3, <2>1, <2>2
<1>5. CASE synced' = Len(active')
  BY <1>3, <1>4, <1>5
<1>6. CASE synced' = SyncedBefore(rotate) /\ sure' = SureBefore(rotate)
  <2>1. sure \subseteq acked /\ Len(attempts) + 1 \notin acked
    BY GrowsBegin DEF BasicInv, TypeOK, Appends
  <2>2. sure' \subseteq acked
    BY <1>6, <2>1 DEF SureBefore
  <2>3. k \in 1..Len(segment)
    BY <1>1, <1>3, <1>4, <2>1, <2>2
  <2>4. active'[k] = segment[k]
    BY <1>4, <2>3
  <2>5. ~rotate
    BY <1>2, <1>3, <2>3 DEF Segments
  <2>6. segment = active /\ sure' = sure /\ synced' = synced
    BY <1>2, <1>6, <2>5 DEF Segments, SyncedBefore, SureBefore
  <2>7. QED BY <1>1, <1>3, <2>3, <2>4, <2>6 DEF KeepsInv, SureInv
<1>7. QED BY <1>5, <1>6

LEMMA WriteKeeps ==
  ASSUME DurableInv, NEW i \in Iris, NEW delete \in BOOLEAN, NEW rotate \in BOOLEAN,
         NEW sync \in BOOLEAN, Write(i, delete, rotate, sync)
  PROVE  DurableInv'
<1>0. PICK new : new = Len(attempts) + 1
  OBVIOUS
<1>1. BasicInv /\ KeepsInv /\ Begin(i, delete)
  BY DEF DurableInv, Write
<1>2. BasicInv' /\ Appends(i, delete, rotate, Attempt(i, delete))
  BY <1>1, WriteBasic
<1>3. PICK r : r = Attempt(i, delete)
  OBVIOUS
<1>4. Appends(i, delete, rotate, r) /\ r.whole /\ r.attempt = new /\ r.clock = state.clock + 1
  BY <1>0, <1>2, <1>3 DEF Attempt
<1>5. PICK segment \in SegmentType : segment = Segments(rotate).new
  BY <1>1, <1>4, AppendsLog
<1>6. /\ ~Torn(segment) => Logged' = Logged \union {r}
      /\ Torn(segment) => Logged' = Logged
  BY <1>1, <1>4, <1>5, AppendsLog
<1>7. /\ acked' = acked \union {new}
      /\ shadowed' = IF Torn(segment) THEN shadowed \union {new} ELSE shadowed
  BY <1>0, <1>5 DEF Write, Attempt
<1>8. Kept' \subseteq Kept \union {new} /\ (new \in Kept' => r \in Logged')
  <2>1. Kept' \subseteq Kept \union {new}
    BY <1>7 DEF Kept
  <2>2. ASSUME new \in Kept' PROVE ~Torn(segment)
    BY <1>7, <2>2 DEF Kept
  <2>3. QED BY <1>6, <2>1, <2>2
<1>9. HoldsInv' /\ BareInv' /\ CoverInv'
  BY <1>0, <1>1, <1>4, <1>6, <1>8, MutationKeeps
<1>10. SureInv'
  <2>1. \/ synced' = Len(segment) + 1
        \/ synced' = SyncedBefore(rotate) /\ sure' = SureBefore(rotate)
    BY <1>5 DEF Write
  <2>2. Len(active') = Len(segment) + 1
    BY <1>1, <1>4, <1>5, AppendsLog
  <2>3. QED BY <1>1, <1>4, <2>1, <2>2, SureAfter
<1>11. ViewInv'
  <2> DEFINE docs == state'.docs
  <2>1. /\ Grows /\ up /\ Shows(state.docs) /\ new \notin Kept /\ Len(attempts) \in Nat
    BY <1>0, <1>1, GrowsBegin DEF KeepsInv, ViewInv
  <2>2. docs = [state.docs EXCEPT ![i] = IF delete THEN 0 ELSE new]
    <3>1. Drawn(i, delete).docs = state.docs /\ Drawn(i, delete) \in ImageType
      BY <1>1, Begins DEF BasicInv
    <3>2. state' = [Drawn(i, delete) EXCEPT !.docs[i] = IF delete THEN 0 ELSE new]
      BY <1>0 DEF Write, Attempt
    <3>3. PICK drawn \in ImageType : drawn = Drawn(i, delete)
      BY <3>1
    <3>4. QED BY <3>1, <3>2, <3>3 DEF ImageType
  <2>3. /\ new \in DOMAIN attempts' /\ attempts'[new].iri = i /\ attempts'[new].delete = delete
        /\ DOMAIN attempts = 1..Len(attempts)
    <3>1. /\ DOMAIN attempts' = DOMAIN attempts \union {new} /\ DOMAIN attempts = 1..Len(attempts)
          /\ attempts'[new] = [iri |-> i, delete |-> delete]
      BY <1>0, <1>1, Begins DEF BasicInv
    <3>2. QED BY <3>1
  <2>4. state.docs \in [Iris -> 0..MaxAttempts]
    BY <1>1 DEF BasicInv, TypeOK, ImageType
  <2>5. PICK then : then = state'.docs
    OBVIOUS
  <2>6. then[i] = Outcome(new)' /\ \A j \in Iris : j # i => then[j] = state.docs[j]
    BY <2>2, <2>3, <2>4, <2>5 DEF Outcome
  <2>7. new \in AttemptsOn(i)'
    BY <2>3 DEF AttemptsOn
  <2>8. ASSUME NEW j \in Iris PROVE SoundOn(then, j)'
    <3>1. CASE j = i
      BY <2>6, <2>7, <3>1 DEF SoundOn
    <3>2. CASE j # i
      <4>1. PICK before : before = state.docs
        OBVIOUS
      <4>2. SoundOn(before, j)
        BY <2>1, <4>1 DEF Shows
      <4>3. SoundOn(before, j)'
        BY <2>1, <4>2, ShowsStill
      <4>4. then[j] = before[j]
        BY <2>6, <3>2, <4>1
      <4>5. QED BY <4>3, <4>4 DEF SoundOn
    <3>3. QED BY <3>1, <3>2
  <2>9. ASSUME NEW j \in Iris, NEW m \in KeptOn(j)' PROVE ShowsOn(then, j, m)'
    <3>1. m \in Kept' /\ attempts'[m].iri = j
      BY DEF KeptOn
    <3>2. m \in Kept \/ m = new
      BY <1>8, <3>1
    <3>3. m \in Nat /\ m <= new
      BY <1>0, <1>1, <2>1, <2>3, <3>2 DEF Kept, BasicInv, TypeOK
    <3>4. CASE j = i
      BY <2>6, <2>7, <3>3, <3>4 DEF ShowsOn
    <3>5. CASE j # i
      <4>1. PICK before : before = state.docs
        OBVIOUS
      <4>2. m \in Kept
        BY <2>3, <3>1, <3>2, <3>5
      <4>3. m \in KeptOn(j)
        BY <1>1, <2>1, <4>2, KeptStill DEF BasicInv
      <4>4. ShowsOn(before, j, m)
        BY <2>1, <4>1, <4>3 DEF Shows
      <4>5. ShowsOn(before, j, m)'
        BY <2>1, <4>4, ShowsStill
      <4>6. then[j] = before[j]
        BY <2>6, <3>5, <4>1
      <4>7. QED BY <4>5, <4>6 DEF ShowsOn
    <3>6. QED BY <3>4, <3>5
  <2>10. Shows(then)'
    BY <2>8, <2>9 DEF Shows
  <2>11. QED BY <2>5, <2>10 DEF ViewInv, Shows, SoundOn, ShowsOn
<1>12. QED BY <1>2, <1>9, <1>10, <1>11 DEF DurableInv, KeepsInv

\* A call that failed or was refused answers nothing and shows nothing.
LEMMA UnansweredView ==
  ASSUME BasicInv, KeepsInv, NEW i \in Iris, NEW delete \in BOOLEAN, Begin(i, delete),
         state' = Drawn(i, delete), UNCHANGED <<acked, shadowed>>
  PROVE  ViewInv' /\ Kept' = Kept
<1>1. Kept' = Kept
  BY DEF Kept
<1>2. PICK docs : docs = state.docs /\ docs = state'.docs
  BY Begins DEF BasicInv
<1>3. Grows /\ Shows(docs)
  BY <1>2, GrowsBegin DEF KeepsInv, ViewInv
<1>4. Shows(docs)'
  BY <1>1, <1>3, ShowsUnchanged DEF BasicInv
<1>5. QED BY <1>1, <1>2, <1>4 DEF ViewInv, Shows, SoundOn, ShowsOn

LEMMA FailedWriteKeeps ==
  ASSUME DurableInv, NEW i \in Iris, NEW delete \in BOOLEAN, NEW rotate \in BOOLEAN,
         WriteTorn(i, delete, rotate) \/ WriteUnsynced(i, delete, rotate)
  PROVE  DurableInv'
<1>1. BasicInv /\ KeepsInv /\ Begin(i, delete) /\ BasicInv'
  BY FailedWriteBasic DEF DurableInv, WriteTorn, WriteUnsynced
<1>2. /\ state' = Drawn(i, delete) /\ UNCHANGED <<acked, shadowed>>
      /\ synced' = SyncedBefore(rotate) /\ sure' = SureBefore(rotate)
  BY DEF WriteTorn, WriteUnsynced
<1>3. PICK r : /\ Appends(i, delete, rotate, r)
               /\ r \in {Attempt(i, delete), [Attempt(i, delete) EXCEPT !.whole = FALSE]}
  BY <1>1, FailedWriteBasic
<1>4. /\ r.attempt = Len(attempts) + 1 /\ r.clock = state.clock + 1 /\ r \in Record
      /\ Logged' = Logged \/ Logged' = Logged \union {r}
  <2>1. PICK segment : segment = Segments(rotate).new
    OBVIOUS
  <2>2. /\ r.attempt = Len(attempts) + 1 /\ r.clock = state.clock + 1 /\ r \in Record
    BY <1>1, <1>3, AppendsLog
  <2>3. /\ r.whole /\ ~Torn(segment) => Logged' = Logged \union {r}
        /\ ~r.whole \/ Torn(segment) => Logged' = Logged
    BY <1>1, <1>3, <2>1, AppendsLog
  <2>4. QED BY <2>2, <2>3
<1>5. ViewInv' /\ Kept' = Kept
  BY <1>1, <1>2, UnansweredView
<1>6. Len(attempts) + 1 \notin Kept'
  BY <1>1, <1>5, GrowsBegin
<1>7. HoldsInv' /\ BareInv' /\ CoverInv'
  BY <1>1, <1>4, <1>5, <1>6, MutationKeeps
<1>8. SureInv'
  BY <1>1, <1>2, <1>3, SureAfter
<1>9. QED BY <1>1, <1>5, <1>7, <1>8 DEF DurableInv, KeepsInv

LEMMA RefusedKeeps ==
  ASSUME DurableInv, NEW i \in Iris, NEW delete \in BOOLEAN, WriteRefused(i, delete)
  PROVE  DurableInv'
<1>1. BasicInv /\ KeepsInv /\ Begin(i, delete) /\ BasicInv' /\ Segs' = Segs
  BY RefusedBasic DEF DurableInv, WriteRefused
<1>2. Logged' = Logged
  BY <1>1 DEF Logged
<1>3. /\ state' = Drawn(i, delete) /\ UNCHANGED <<acked, shadowed>>
      /\ UNCHANGED <<active, synced, sure>>
  BY DEF WriteRefused, log
<1>4. ViewInv' /\ Kept' = Kept
  BY <1>1, <1>3, UnansweredView
<1>5. PICK r : r = Attempt(i, delete)
  OBVIOUS
<1>6. r.attempt = Len(attempts) + 1 /\ r.clock = state.clock + 1
  BY <1>5 DEF Attempt
<1>7. Len(attempts) + 1 \notin Kept'
  BY <1>1, <1>4, GrowsBegin
<1>8. HoldsInv' /\ BareInv' /\ CoverInv'
  BY <1>1, <1>2, <1>4, <1>6, <1>7, MutationKeeps
<1>9. SureInv'
  BY <1>1, <1>3 DEF KeepsInv, SureInv
<1>10. QED BY <1>1, <1>4, <1>8, <1>9 DEF DurableInv, KeepsInv

-----------------------------------------------------------------------------
(* Checkpoints.                                                            *)

\* A step that leaves the attempts and the log alone leaves what suffices.
LEMMA SufficesSame ==
  ASSUME TypeOK, UNCHANGED <<attempts, acked, shadowed>>, Logged' = Logged, NEW file, Suffices(file)
  PROVE  Suffices(file)'
<1>1. Kept' = Kept
  BY DEF Kept
<1>2. QED BY <1>1, SufficesStill

LEMMA ViewSame ==
  ASSUME TypeOK, ViewInv, UNCHANGED <<attempts, acked, shadowed>>, up' => up /\ state' = state
  PROVE  ViewInv'
<1>1. CASE ~up'
  BY <1>1 DEF ViewInv
<1>2. CASE up'
  <2>1. PICK docs : docs = state.docs /\ docs = state'.docs
    BY <1>2
  <2>2. Grows /\ Kept' = Kept /\ Shows(docs)
    BY <1>2, <2>1 DEF Grows, Kept, ViewInv
  <2>3. Shows(docs)'
    BY <2>2, ShowsUnchanged
  <2>4. QED BY <2>1, <2>3 DEF ViewInv, Shows, SoundOn, ShowsOn
<1>3. QED BY <1>1, <1>2

LEMMA HoldsSame ==
  ASSUME TypeOK, HoldsInv, UNCHANGED <<attempts, acked, shadowed>>, Logged' = Logged,
         {current', previous'} \subseteq {current, previous, Absent, Damaged}
  PROVE  HoldsInv'
<1>1. SUFFICES ASSUME NEW file \in {current', previous'}, Valid(file) PROVE Suffices(file)'
  BY DEF HoldsInv, Valid
<1>2. file \in {current, previous}
  BY <1>1 DEF Valid
<1>3. QED BY <1>1, <1>2, SufficesSame DEF HoldsInv

LEMMA BareSame ==
  ASSUME TypeOK, BareInv, UNCHANGED <<attempts, acked, shadowed>>, Logged' = Logged,
         previous' = Absent /\ damages' = 0 => previous = Absent /\ damages = 0
  PROVE  BareInv'
<1>1. SUFFICES ASSUME previous' = Absent, damages' = 0 PROVE Suffices(Empty)'
  BY DEF BareInv
<1>2. Suffices(Empty)
  BY <1>1 DEF BareInv
<1>3. QED BY <1>2, SufficesSame

\* The barrier is taken by one checkpoint.
LEMMA OneAtATime ==
  ASSUME TypeOK, NEW c \in Checkpointers, NEW d \in Checkpointers,
         pc[c] \notin {"idle", "read"}, d # c
  PROVE  pc[d] \in {"idle", "read"}
  BY DEF TypeOK

LEMMA ReadCoveredKeeps ==
  ASSUME DurableInv, NEW c \in Checkpointers, ReadCovered(c)
  PROVE  DurableInv'
<1>1. BasicInv /\ KeepsInv /\ BasicInv' /\ Segs' = Segs
  BY ReadCoveredBasic DEF DurableInv
<1>2. Logged' = Logged
  BY <1>1 DEF Logged
<1>3. /\ UNCHANGED <<up, state, active, synced, sure, current, previous, damages>>
      /\ UNCHANGED <<attempts, acked, shadowed>> /\ pc[c] = "idle"
      /\ covered' = [covered EXCEPT ![c] = IF Valid(current) THEN current.clock ELSE 0]
      /\ pc' = [pc EXCEPT ![c] = "read"]
  BY DEF ReadCovered, log, files, history
<1>4. HoldsInv' /\ BareInv' /\ ViewInv'
  BY <1>1, <1>2, <1>3, HoldsSame, BareSame, ViewSame DEF BasicInv, KeepsInv
<1>5. SureInv'
  BY <1>1, <1>3 DEF KeepsInv, SureInv
<1>6. CoverInv'
  <2>1. SUFFICES ASSUME NEW d \in Checkpointers, covered'[d] > 0
                 PROVE  /\ Valid(current) => covered'[d] <= current.clock
                        /\ current = Absent \/ pc'[d] \in {"moved", "saved", "rotated"} =>
                             previous # Absent
                             /\ (Valid(previous) => covered'[d] <= previous.clock)
    BY <1>3 DEF CoverInv, Valid
  <2>2. pc \in [Checkpointers -> Steps] /\ covered \in [Checkpointers -> 0..MaxAttempts]
    BY <1>1 DEF BasicInv, TypeOK
  <2>3. CASE d = c
    <3>1. pc'[d] = "read" /\ covered'[d] = IF Valid(current) THEN current.clock ELSE 0
      BY <1>3, <2>2, <2>3
    <3>2. Valid(current) /\ covered'[d] = current.clock
      BY <2>1, <3>1
    <3>3. current.clock \in Nat
      <4>1. up
        BY DEF ReadCovered
      <4>2. QED BY <1>1, <3>2, <4>1, FileClocks
    <3>4. QED BY <3>1, <3>2, <3>3 DEF Valid
  <2>4. CASE d # c
    <3>1. pc'[d] = pc[d] /\ covered'[d] = covered[d]
      BY <1>3, <2>2, <2>4
    <3>2. QED BY <1>1, <2>1, <3>1 DEF KeepsInv, CoverInv
  <2>5. QED BY <2>3, <2>4
<1>7. QED BY <1>1, <1>4, <1>5, <1>6 DEF DurableInv, KeepsInv

LEMMA StageKeeps ==
  ASSUME DurableInv, NEW c \in Checkpointers, Stage(c)
  PROVE  DurableInv'
<1>1. BasicInv /\ KeepsInv /\ BasicInv' /\ Segs' = Segs
  BY StageBasic DEF DurableInv
<1>2. Logged' = Logged
  BY <1>1 DEF Logged
<1>3. /\ UNCHANGED <<up, state, active, current, previous, damages, covered>>
      /\ UNCHANGED <<attempts, acked, shadowed>>
      /\ synced' = Len(active) /\ pc' = [pc EXCEPT ![c] = "staged"]
  BY DEF Stage, bounds
<1>4. HoldsInv' /\ BareInv' /\ ViewInv'
  BY <1>1, <1>2, <1>3, HoldsSame, BareSame, ViewSame DEF BasicInv, KeepsInv
<1>5. SureInv'
  <2>1. DOMAIN active = 1..Len(active) /\ Len(active) \in Nat
    BY <1>1, LogShape DEF BasicInv
  <2>2. QED BY <1>3, <2>1 DEF SureInv
<1>6. CoverInv'
  <2>1. ASSUME NEW d \in Checkpointers
        PROVE  pc'[d] \in {"moved", "saved", "rotated"} => pc[d] \in {"moved", "saved", "rotated"}
    BY <1>1, <1>3 DEF BasicInv, TypeOK
  <2>2. QED BY <1>1, <1>3, <2>1 DEF KeepsInv, CoverInv, Valid
<1>7. QED BY <1>1, <1>4, <1>5, <1>6 DEF DurableInv, KeepsInv

LEMMA KeepPreviousKeeps ==
  ASSUME DurableInv, NEW c \in Checkpointers, KeepPrevious(c)
  PROVE  DurableInv'
<1>1. BasicInv /\ KeepsInv /\ BasicInv' /\ Segs' = Segs
  BY KeepPreviousBasic DEF DurableInv
<1>2. Logged' = Logged
  BY <1>1 DEF Logged
<1>3. /\ UNCHANGED <<up, state, active, synced, sure, damages, covered>>
      /\ UNCHANGED <<attempts, acked, shadowed>>
      /\ current # Absent /\ previous' = current /\ current' = Absent
  BY DEF KeepPrevious, bounds, log, history
<1>4. HoldsInv' /\ BareInv' /\ ViewInv'
  BY <1>1, <1>2, <1>3, HoldsSame, BareSame, ViewSame DEF BasicInv, KeepsInv
<1>5. SureInv'
  BY <1>1, <1>3 DEF KeepsInv, SureInv
<1>6. CoverInv'
  BY <1>1, <1>3 DEF KeepsInv, CoverInv, Valid
<1>7. QED BY <1>1, <1>4, <1>5, <1>6 DEF DurableInv, KeepsInv

LEMMA PublishKeeps ==
  ASSUME DurableInv, NEW c \in Checkpointers, Publish(c)
  PROVE  DurableInv'
<1>1. BasicInv /\ KeepsInv /\ BasicInv' /\ Segs' = Segs /\ current' = state
  BY PublishBasic DEF DurableInv
<1>2. Logged' = Logged
  BY <1>1 DEF Logged
<1>3. /\ UNCHANGED <<up, state, active, synced, sure, previous, damages, covered>>
      /\ UNCHANGED <<attempts, acked, shadowed>>
      /\ pc[c] = "moved" \/ (pc[c] = "staged" /\ current = Absent)
      /\ pc' = [pc EXCEPT ![c] = "saved"]
  BY DEF Publish, bounds, log, history
<1>4. up
  BY <1>1, <1>3 DEF BasicInv, StepInv
<1>5. BareInv' /\ ViewInv'
  BY <1>1, <1>2, <1>3, BareSame, ViewSame DEF BasicInv, KeepsInv
<1>6. HoldsInv'
  <2>1. SUFFICES ASSUME NEW file \in {current', previous'}, Valid(file) PROVE Suffices(file)'
    BY DEF HoldsInv, Valid
  <2>2. CASE file = state
    <3>1. Suffices(file)
      BY <1>1, <1>4, <2>2, StateSuffices DEF KeepsInv
    <3>2. QED BY <1>1, <1>2, <1>3, <3>1, SufficesSame DEF BasicInv
  <2>3. CASE file = previous
    <3>1. Suffices(file)
      BY <1>1, <2>1, <2>3 DEF KeepsInv, HoldsInv
    <3>2. QED BY <1>1, <1>2, <1>3, <3>1, SufficesSame DEF BasicInv
  <2>4. QED BY <1>1, <1>3, <2>1, <2>2, <2>3
<1>7. SureInv'
  BY <1>1, <1>3 DEF KeepsInv, SureInv
<1>8. CoverInv'
  <2>1. state \in ImageType /\ current' # Absent
    BY <1>1, VectorLogAssumption DEF BasicInv, TypeOK
  <2>2. SUFFICES ASSUME NEW d \in Checkpointers, covered[d] > 0
                 PROVE  /\ covered[d] <= state.clock
                        /\ pc'[d] \in {"moved", "saved", "rotated"} =>
                             previous # Absent
                             /\ (Valid(previous) => covered[d] <= previous.clock)
    BY <1>1, <1>3, <2>1 DEF CoverInv, Valid
  <2>3. covered[d] <= state.clock
    BY <1>1 DEF BasicInv, StepInv
  <2>4. CASE d = c
    BY <1>1, <1>3, <2>2, <2>3, <2>4 DEF KeepsInv, CoverInv
  <2>5. CASE d # c
    <3>1. pc[c] \notin {"idle", "read"}
      BY <1>3
    <3>2. pc[d] \in {"idle", "read"}
      BY <1>1, <2>5, <3>1, OneAtATime DEF BasicInv
    <3>3. pc'[d] = pc[d]
      BY <1>1, <1>3, <2>5 DEF BasicInv, TypeOK
    <3>4. QED BY <2>3, <3>2, <3>3
  <2>6. QED BY <2>4, <2>5
<1>9. QED BY <1>1, <1>5, <1>6, <1>7, <1>8 DEF DurableInv, KeepsInv

LEMMA RotateKeeps ==
  ASSUME DurableInv, NEW c \in Checkpointers, Rotate(c)
  PROVE  DurableInv'
<1>1. BasicInv /\ KeepsInv /\ BasicInv' /\ Logged' = Logged
  BY RotateBasic DEF DurableInv
<1>2. /\ UNCHANGED <<up, state, current, previous, damages, covered>>
      /\ UNCHANGED <<attempts, acked, shadowed>>
      /\ active' = <<>> /\ pc[c] = "saved" /\ pc' = [pc EXCEPT ![c] = "rotated"]
  BY DEF Rotate, files, bounds, history
<1>3. HoldsInv' /\ BareInv' /\ ViewInv'
  BY <1>1, <1>2, HoldsSame, BareSame, ViewSame DEF BasicInv, KeepsInv
<1>4. SureInv'
  BY <1>2 DEF SureInv
<1>5. CoverInv'
  <2>1. ASSUME NEW d \in Checkpointers
        PROVE  pc'[d] \in {"moved", "saved", "rotated"} => pc[d] \in {"moved", "saved", "rotated"}
    BY <1>1, <1>2 DEF BasicInv, TypeOK
  <2>2. QED BY <1>1, <1>2, <2>1 DEF KeepsInv, CoverInv, Valid
<1>6. QED BY <1>1, <1>3, <1>4, <1>5 DEF DurableInv, KeepsInv

\* What is removed is covered by each generation; and before there is a second one
\* nothing is removed.
LEMMA PruneKeeps ==
  ASSUME DurableInv, NEW c \in Checkpointers, Cleanup(c) \/ CheckpointFails(c)
  PROVE  DurableInv'
<1>1. /\ BasicInv /\ KeepsInv /\ BasicInv' /\ Logged' \subseteq Logged
      /\ \A r \in Logged : covered[c] = 0 \/ r.clock > covered[c] => r \in Logged'
      /\ pc[c] # "rotated" => Logged' = Logged
  BY PruneBasic DEF DurableInv
<1>2. /\ UNCHANGED <<up, state, active, synced, sure, current, previous, damages>>
      /\ UNCHANGED <<attempts, acked, shadowed>> /\ pc[c] # "idle"
      /\ pc' = [pc EXCEPT ![c] = "idle"] /\ covered' = [covered EXCEPT ![c] = 0]
  BY DEF Cleanup, CheckpointFails, files, bounds, history
<1>3. Kept' = Kept /\ up
  BY <1>1, <1>2 DEF Kept, BasicInv, StepInv
<1>4. /\ pc \in [Checkpointers -> Steps] /\ covered \in [Checkpointers -> 0..MaxAttempts]
      /\ covered[c] \in Nat
  <2>1. /\ pc \in [Checkpointers -> Steps] /\ covered \in [Checkpointers -> 0..MaxAttempts]
    BY <1>1 DEF BasicInv, TypeOK
  <2>2. QED BY <2>1
<1>5. \A r \in Logged : r.clock \in Nat
  BY <1>1, LogShape DEF BasicInv, Record
<1>6. ASSUME NEW file, Suffices(file), file.clock \in Nat,
             pc[c] = "rotated" /\ covered[c] > 0 => covered[c] <= file.clock
      PROVE  Suffices(file)'
  <2>1. ASSUME NEW r \in Logged, r.clock > file.clock PROVE r \in Logged'
    <3>1. CASE pc[c] # "rotated"
      BY <1>1, <3>1
    <3>2. CASE covered[c] = 0
      BY <1>1, <3>2
    <3>3. CASE covered[c] <= file.clock
      <4>1. r.clock > covered[c]
        BY <1>4, <1>5, <1>6, <2>1, <3>3
      <4>2. QED BY <1>1, <4>1
    <3>4. QED BY <1>4, <1>6, <3>1, <3>2, <3>3
  <2>2. QED BY <1>1, <1>2, <1>3, <1>6, <2>1, SufficesStill DEF BasicInv
<1>7. HoldsInv'
  <2>1. SUFFICES ASSUME NEW file \in {current', previous'}, Valid(file) PROVE Suffices(file)'
    BY DEF HoldsInv, Valid
  <2>2. file \in {current, previous} /\ Suffices(file)
    BY <1>1, <1>2, <2>1 DEF KeepsInv, HoldsInv
  <2>3. file.clock \in Nat
    BY <1>1, <1>3, <2>1, <2>2, FileClocks
  <2>4. pc[c] = "rotated" /\ covered[c] > 0 => covered[c] <= file.clock
    BY <1>1, <2>1, <2>2 DEF KeepsInv, CoverInv
  <2>5. QED BY <1>6, <2>2, <2>3, <2>4
<1>8. BareInv'
  <2>1. SUFFICES ASSUME previous = Absent, damages = 0 PROVE Suffices(Empty)'
    BY <1>2 DEF BareInv
  <2>2. Suffices(Empty)
    BY <1>1, <2>1 DEF KeepsInv, BareInv
  <2>3. ~(pc[c] = "rotated" /\ covered[c] > 0)
    BY <1>1, <2>1 DEF KeepsInv, CoverInv
  <2>4. QED BY <1>6, <2>2, <2>3, EmptyImage
<1>9. ViewInv'
  BY <1>1, <1>2, ViewSame DEF BasicInv, KeepsInv
<1>10. SureInv'
  BY <1>1, <1>2 DEF KeepsInv, SureInv
<1>11. CoverInv'
  <2>1. ASSUME NEW d \in Checkpointers, covered'[d] > 0
        PROVE  covered'[d] = covered[d] /\ pc'[d] = pc[d]
    BY <1>2, <1>4, <2>1
  <2>2. QED BY <1>1, <1>2, <2>1 DEF KeepsInv, CoverInv, Valid
<1>12. QED BY <1>1, <1>7, <1>8, <1>9, <1>10, <1>11 DEF DurableInv, KeepsInv

-----------------------------------------------------------------------------
(* Death, decay, recovery.                                                 *)

LEMMA StoppedCover ==
  ASSUME Stop
  PROVE  CoverInv' /\ ViewInv'
<1>1. up' = FALSE /\ \A c \in Checkpointers : covered'[c] = 0
  BY DEF Stop
<1>2. QED BY <1>1 DEF CoverInv, ViewInv

LEMMA CrashKeeps ==
  ASSUME DurableInv, Crash
  PROVE  DurableInv'
<1>1. BasicInv /\ KeepsInv /\ BasicInv' /\ Segs' = Segs
  BY CrashBasic DEF DurableInv
<1>2. Logged' = Logged
  BY <1>1 DEF Logged
<1>3. /\ UNCHANGED <<active, synced, sure, current, previous, damages>>
      /\ UNCHANGED <<attempts, acked, shadowed>>
  BY DEF Crash, Stop, files
<1>4. HoldsInv' /\ BareInv'
  BY <1>1, <1>2, <1>3, HoldsSame, BareSame DEF BasicInv, KeepsInv
<1>5. SureInv'
  BY <1>1, <1>3 DEF KeepsInv, SureInv
<1>6. CoverInv' /\ ViewInv'
  BY StoppedCover DEF Crash
<1>7. QED BY <1>1, <1>4, <1>5, <1>6 DEF DurableInv, KeepsInv

\* What a power loss takes was not synced, so it is not owed any more.
LEMMA PowerLossKeeps ==
  ASSUME DurableInv, PowerLoss
  PROVE  DurableInv'
<1>1. BasicInv /\ KeepsInv /\ BasicInv'
  BY PowerLossBasic DEF DurableInv
<1>2. /\ Logged' \subseteq Logged /\ acked' = sure /\ sure' = sure
      /\ \A k \in DOMAIN active' : k \in DOMAIN active /\ active'[k] = active[k]
  BY <1>1, PowerLossBasic
<1>3. \A r \in Logged : r \in Logged' \/ \E k \in DOMAIN active : k > synced /\ active[k] = r
  BY <1>1, PowerLossBasic
<1>4. UNCHANGED <<current, previous, damages, attempts, shadowed, synced>>
  BY DEF PowerLoss, Stop, files
<1>5. Kept' \subseteq Kept /\ Kept' \subseteq sure
  BY <1>1, <1>2, <1>4 DEF Kept, BasicInv, TypeOK
<1>6. ASSUME NEW r \in Logged, r.attempt \in Kept' PROVE r \in Logged'
  <2>1. SUFFICES ASSUME NEW k \in DOMAIN active, k > synced, active[k] = r PROVE FALSE
    BY <1>3
  <2>2. k <= synced
    BY <1>1, <1>5, <1>6, <2>1 DEF KeepsInv, SureInv
  <2>3. synced \in Nat /\ k \in Nat
    BY <1>1, LogShape DEF BasicInv, TypeOK
  <2>4. QED BY <2>1, <2>2, <2>3
<1>7. ASSUME NEW file, Suffices(file) PROVE Suffices(file)'
  BY <1>1, <1>2, <1>4, <1>5, <1>6, <1>7, SufficesStill DEF BasicInv
<1>8. HoldsInv'
  BY <1>1, <1>4, <1>7 DEF KeepsInv, HoldsInv, Valid
<1>9. BareInv'
  <2>1. SUFFICES ASSUME previous = Absent, damages = 0 PROVE Suffices(Empty)'
    BY <1>4 DEF BareInv
  <2>2. Suffices(Empty)
    BY <1>1, <2>1 DEF KeepsInv, BareInv
  <2>3. QED BY <1>7, <2>2
<1>10. SureInv'
  BY <1>1, <1>2, <1>4 DEF KeepsInv, SureInv
<1>11. CoverInv' /\ ViewInv'
  BY StoppedCover DEF PowerLoss
<1>12. QED BY <1>1, <1>8, <1>9, <1>10, <1>11 DEF DurableInv, KeepsInv

LEMMA DamageKeeps ==
  ASSUME DurableInv, Damage
  PROVE  DurableInv'
<1>1. BasicInv /\ KeepsInv /\ BasicInv' /\ Segs' = Segs
  BY DamageBasic DEF DurableInv
<1>2. Logged' = Logged
  BY <1>1 DEF Logged
<1>3. /\ UNCHANGED <<up, state, active, synced, sure, pc, covered>>
      /\ UNCHANGED <<attempts, acked, shadowed>>
      /\ damages' = damages + 1 /\ damages \in Nat
      /\ \/ Valid(current) /\ current' = Damaged /\ previous' = previous
         \/ Valid(previous) /\ previous' = Damaged /\ current' = current
  BY <1>1 DEF Damage, log, history, BasicInv, ClockInv
<1>4. damages' # 0
  BY <1>3
<1>5. HoldsInv' /\ BareInv' /\ ViewInv'
  BY <1>1, <1>2, <1>3, <1>4, HoldsSame, BareSame, ViewSame DEF BasicInv, KeepsInv
<1>6. SureInv'
  BY <1>1, <1>3 DEF KeepsInv, SureInv
<1>7. CoverInv'
  BY <1>1, <1>3, VectorLogAssumption DEF KeepsInv, CoverInv, Valid
<1>8. QED BY <1>1, <1>5, <1>6, <1>7 DEF DurableInv, KeepsInv

\* An engine opened on generations none of which loads owes nothing, or has lost none
\* and has the whole log.
LEMMA OpenedSuffices ==
  ASSUME DurableInv
  PROVE  \/ Suffices(Newest(current, previous))
         \/ damages > 0 /\ ~Valid(current) /\ ~Valid(previous)
<1>1. CASE Valid(current) \/ Valid(previous)
  BY <1>1 DEF DurableInv, KeepsInv, HoldsInv, Newest
<1>2. CASE ~Valid(current) /\ ~Valid(previous)
  <2>1. damages \in Nat
    BY DEF DurableInv, BasicInv, ClockInv
  <2>2. CASE damages = 0
    <3>1. previous = Absent
      BY <1>2, <2>2 DEF DurableInv, BasicInv, ClockInv, Valid
    <3>2. QED BY <1>2, <2>2, <3>1 DEF DurableInv, KeepsInv, BareInv, Newest
  <2>3. QED BY <1>2, <2>1, <2>2
<1>3. QED BY <1>1, <1>2

LEMMA OpenKeeps ==
  ASSUME DurableInv, Open
  PROVE  DurableInv'
<1>1. BasicInv /\ KeepsInv /\ BasicInv'
  BY OpenBasic DEF DurableInv
<1>2. /\ Logged' = Logged /\ Applied(Newest(current, previous), Logged, state')
      /\ \A k \in DOMAIN active' : k \in DOMAIN active /\ active'[k] = active[k]
  BY <1>1, OpenBasic
<1> DEFINE bare == damages > 0 /\ ~Valid(current) /\ ~Valid(previous)
<1>3. /\ UNCHANGED <<pc, covered, damages, attempts, shadowed>> /\ ~up
      /\ acked' = (IF bare THEN {} ELSE acked) /\ sure' = (IF bare THEN {} ELSE sure)
      /\ current' = IF Valid(current) THEN current ELSE Absent
      /\ previous' = IF Valid(current) \/ Valid(previous) THEN previous ELSE Absent
      /\ active' = Healed(active) /\ synced' = Min({synced, Len(Healed(active))})
  BY DEF Open, bounds
<1>4. Kept' \subseteq Kept /\ sure' \subseteq sure /\ Grows
  BY <1>3 DEF Kept, Grows
<1>5. ASSUME NEW file, Suffices(file) PROVE Suffices(file)'
  BY <1>1, <1>2, <1>3, <1>4, <1>5, SufficesStill DEF BasicInv
<1>6. HoldsInv'
  <2>1. SUFFICES ASSUME NEW file \in {current', previous'}, Valid(file) PROVE Suffices(file)'
    BY DEF HoldsInv, Valid
  <2>2. file \in {current, previous}
    BY <1>3, <2>1 DEF Valid
  <2>3. QED BY <1>1, <1>5, <2>1, <2>2 DEF KeepsInv, HoldsInv
<1>7. BareInv'
  <2>1. SUFFICES ASSUME previous' = Absent, damages = 0 PROVE Suffices(Empty)'
    BY <1>3 DEF BareInv
  <2>2. previous = Absent
    BY <1>1, <1>3, <2>1 DEF BasicInv, ClockInv, Valid
  <2>3. QED BY <1>1, <1>5, <2>1, <2>2 DEF KeepsInv, BareInv
<1>8. ViewInv'
  <2>1. PICK image : image = state'
    OBVIOUS
  <2>2. PICK file \in ImageType : file = Newest(current, previous)
    BY <1>1, NewestImage DEF BasicInv
  <2>3. Applied(file, Logged, image)
    BY <1>2, <2>1, <2>2
  <2>4. CASE Suffices(file)
    <3>1. Shows(image.docs)
      BY <1>1, <2>3, <2>4, RecoveredShows DEF BasicInv
    <3>2. Shows(image.docs)'
      BY <1>1, <1>4, <3>1, ShowsUnchanged DEF BasicInv
    <3>3. QED BY <2>1, <3>2 DEF ViewInv, Shows, SoundOn, ShowsOn
  <2>5. CASE bare
    <3>1. file = Empty /\ Kept' = {}
      BY <1>3, <2>2, <2>5 DEF Newest, Kept
    <3>2. \A i \in Iris : SoundOn(file.docs, i)
      BY <3>1 DEF SoundOn, Empty
    <3>3. \A i \in Iris : SoundOn(image.docs, i)
      BY <1>1, <2>3, <3>2, RecoveredSound DEF BasicInv
    <3>4. \A i \in Iris : SoundOn(image.docs, i)'
      BY <1>4, <3>3, ShowsStill
    <3>5. Shows(image.docs)'
      BY <3>1, <3>4 DEF Shows, KeptOn
    <3>6. QED BY <2>1, <3>5 DEF ViewInv, Shows, SoundOn, ShowsOn
  <2>6. QED BY <2>2, <2>4, <2>5, OpenedSuffices
<1>9. SureInv'
  <2>1. SUFFICES ASSUME NEW k \in DOMAIN active', active'[k].attempt \in sure' PROVE k <= synced'
    BY DEF SureInv
  <2>2. k <= synced
    BY <1>1, <1>2, <1>4, <2>1 DEF KeepsInv, SureInv
  <2>3. Len(active') \in Nat /\ DOMAIN active' = 1..Len(active') /\ synced \in Nat
    <3>1. Len(active') \in Nat /\ DOMAIN active' = 1..Len(active')
      BY <1>1, SegmentsAreRecords DEF BasicInv, TypeOK
    <3>2. QED BY <1>1, <3>1, LogShape DEF BasicInv, TypeOK
  <2>4. synced' = Min({synced, Len(active')})
    BY <1>3
  <2>5. Min({synced, Len(active')}) \in {synced, Len(active')}
    BY <2>3, MinIsLeast
  <2>6. QED BY <2>1, <2>2, <2>3, <2>4, <2>5
<1>10. CoverInv'
  <2>1. \A c \in Checkpointers : covered'[c] = 0
    BY <1>1, <1>3 DEF BasicInv, StepInv
  <2>2. QED BY <2>1 DEF CoverInv
<1>11. QED BY <1>1, <1>6, <1>7, <1>8, <1>9, <1>10 DEF DurableInv, KeepsInv

LEMMA InitDurable == Init => DurableInv
<1>1. SUFFICES ASSUME Init PROVE DurableInv
  OBVIOUS
<1>2. BasicInv
  BY <1>1, InitBasic
<1>3. Kept = {} /\ \A i \in Iris : SoundOn(Empty.docs, i)
  BY <1>1 DEF Init, Kept, SoundOn, Empty
<1>4. Suffices(Empty) /\ Shows(Empty.docs)
  BY <1>3 DEF Suffices, Shows, KeptOn
<1>5. HoldsInv /\ BareInv /\ ViewInv /\ SureInv /\ CoverInv
  BY <1>1, <1>4 DEF Init, HoldsInv, BareInv, ViewInv, SureInv, CoverInv, Valid
<1>6. QED BY <1>2, <1>5 DEF DurableInv, KeepsInv

LEMMA StepDurable == DurableInv /\ [Next]_vars => DurableInv'
<1>1. SUFFICES ASSUME DurableInv, [Next]_vars PROVE DurableInv'
  OBVIOUS
<1>2. ASSUME NEW i \in Iris, Mutate(i) PROVE DurableInv'
  BY <1>1, <1>2, WriteKeeps, FailedWriteKeeps, RefusedKeeps DEF Mutate
<1>3. ASSUME NEW c \in Checkpointers, Checkpoint(c) PROVE DurableInv'
  BY <1>1, <1>3, ReadCoveredKeeps, StageKeeps, KeepPreviousKeeps, PublishKeeps, RotateKeeps,
     PruneKeeps DEF Checkpoint
<1>4. CASE UNCHANGED vars
  <2>1. BasicInv /\ KeepsInv /\ BasicInv'
    BY <1>1, <1>4, StepBasic DEF DurableInv
  <2>2. /\ UNCHANGED <<up, state, active, frozen, synced, sure, current, previous, damages>>
        /\ UNCHANGED <<attempts, acked, shadowed, pc, covered>>
    BY <1>4 DEF vars, log, files, bounds, history
  <2>3. Logged' = Logged
    BY <2>2 DEF Logged, Segs
  <2>4. HoldsInv' /\ BareInv' /\ ViewInv'
    BY <2>1, <2>2, <2>3, HoldsSame, BareSame, ViewSame DEF BasicInv, KeepsInv
  <2>5. SureInv' /\ CoverInv'
    BY <2>1, <2>2 DEF KeepsInv, SureInv, CoverInv, Valid
  <2>6. QED BY <2>1, <2>4, <2>5 DEF DurableInv, KeepsInv
<1>5. QED BY <1>1, <1>2, <1>3, <1>4, CrashKeeps, PowerLossKeeps, DamageKeeps, OpenKeeps DEF Next

LEMMA DurableInvariant == Spec => []DurableInv
<1>1. Init => DurableInv
  BY InitDurable
<1>2. DurableInv /\ [Next]_vars => DurableInv'
  BY StepDurable
<1>3. QED BY <1>1, <1>2, PTL DEF Spec

-----------------------------------------------------------------------------
(* The properties.                                                         *)

\* What a restart on this file would show.
LEMMA RebuiltShows ==
  ASSUME BasicInv, NEW file \in ImageType, Suffices(file)
  PROVE  Shows(Rebuilt(file))
<1>1. PICK image : image = Recover(file, frozen, active)
  OBVIOUS
<1>2. Applied(file, Logged, image)
  BY <1>1, Recovers DEF BasicInv
<1>3. Shows(image.docs)
  BY <1>2, RecoveredShows DEF BasicInv
<1>4. QED BY <1>1, <1>3 DEF Rebuilt

LEMMA DurableRecoverable ==
  ASSUME DurableInv
  PROVE  Recoverable
<1>1. BasicInv /\ KeepsInv
  BY DEF DurableInv
<1>2. ASSUME NEW file \in ImageType, Suffices(file) PROVE Faithful(Rebuilt(file), Kept)
  <2>1. PICK docs : docs = Rebuilt(file)
    OBVIOUS
  <2>2. Shows(docs)
    BY <1>1, <1>2, <2>1, RebuiltShows
  <2>3. Faithful(docs, Kept)
    BY <1>1, <2>2, ShowsFaithful DEF BasicInv
  <2>4. QED BY <2>1, <2>3
<1>3. GenerationsSuffice
  <2>1. SUFFICES ASSUME NEW file \in {current, previous}, Valid(file)
                 PROVE  Faithful(Rebuilt(file), Kept)
    BY DEF GenerationsSuffice
  <2>2. file \in FileType
    BY <1>1 DEF BasicInv, TypeOK
  <2>3. file \in ImageType
    BY <2>1, <2>2, ValidImage
  <2>4. Suffices(file)
    BY <1>1, <2>1 DEF KeepsInv, HoldsInv
  <2>5. QED BY <1>2, <2>3, <2>4
<1>4. LogSuffices
  BY <1>1, <1>2, EmptyImage DEF LogSuffices, KeepsInv, BareInv
<1>5. QED BY <1>3, <1>4 DEF Recoverable

\* Between two answers that show what is owed lies at most a later attempt that failed.
LEMMA ShowsAgree ==
  ASSUME TypeOK, NEW docs, NEW view, Shows(docs), Shows(view), NEW i \in Iris,
         ~ \E n \in DOMAIN attempts \ Kept : attempts[n].iri = i /\ n > LastOf(Kept, i)
  PROVE  docs[i] = view[i]
<1>1. PICK last \in Nat : last = LastOf(Kept, i)
  BY LastKept
<1>2. last \in KeptOn(i) \union {0}
  BY <1>1, LastKept
<1>3. \A n \in AttemptsOn(i) : n \in Nat /\ n > 0
  BY DEF AttemptsOn, TypeOK
<1>4. ASSUME NEW n \in AttemptsOn(i) PROVE n <= last
  <2>1. n \in DOMAIN attempts /\ attempts[n].iri = i
    BY <1>4 DEF AttemptsOn
  <2>2. CASE n \in Kept
    <3>1. n \in KeptOn(i)
      BY <2>1, <2>2 DEF KeptOn
    <3>2. QED BY <1>1, <3>1, LastKept
  <2>3. CASE n \notin Kept
    <3>1. ~(n > last)
      BY <1>1, <2>1, <2>3
    <3>2. QED BY <1>1, <1>3, <3>1
  <2>4. QED BY <2>2, <2>3
<1>5. CASE last \in KeptOn(i)
  <2>1. ASSUME NEW shown, Shows(shown) PROVE shown[i] = Outcome(last)
    <3>1. PICK n \in AttemptsOn(i) : n >= last /\ shown[i] = Outcome(n)
      BY <1>5, <2>1 DEF Shows, ShowsOn
    <3>2. n = last
      BY <1>1, <1>3, <1>4, <3>1
    <3>3. QED BY <3>1, <3>2
  <2>2. docs[i] = Outcome(last) /\ view[i] = Outcome(last)
    BY <2>1
  <2>3. QED BY <2>2
<1>6. CASE last = 0
  <2>1. ASSUME NEW n \in AttemptsOn(i) PROVE FALSE
    BY <1>3, <1>4, <1>6
  <2>2. ASSUME NEW shown, Shows(shown) PROVE shown[i] = 0
    BY <2>1, <2>2 DEF Shows, SoundOn
  <2>3. docs[i] = 0 /\ view[i] = 0
    BY <2>2
  <2>4. QED BY <2>3
<1>7. QED BY <1>2, <1>5, <1>6

LEMMA DurableAgrees ==
  ASSUME DurableInv
  PROVE  RestartAgrees
<1>1. BasicInv /\ KeepsInv
  BY DEF DurableInv
<1>2. SUFFICES ASSUME up, damages = 0, NEW i \in Iris,
                      ~ \E n \in DOMAIN attempts \ Kept :
                          attempts[n].iri = i /\ n > LastOf(Kept, i)
               PROVE  Rebuilt(Newest(current, previous))[i] = state.docs[i]
  BY DEF RestartAgrees
<1>3. PICK file \in ImageType : file = Newest(current, previous)
  BY <1>1, NewestImage DEF BasicInv
<1>4. Suffices(file)
  BY <1>2, <1>3, OpenedSuffices
<1>5. PICK docs : docs = Rebuilt(file)
  OBVIOUS
<1>6. Shows(docs)
  BY <1>1, <1>4, <1>5, RebuiltShows
<1>7. PICK view : view = state.docs
  OBVIOUS
<1>8. Shows(view)
  BY <1>1, <1>2, <1>7 DEF KeepsInv, ViewInv
<1>9. docs[i] = view[i]
  BY <1>1, <1>2, <1>6, <1>8, ShowsAgree DEF BasicInv
<1>10. QED BY <1>3, <1>5, <1>7, <1>9

-----------------------------------------------------------------------------
(* What the running engine shows.                                          *)

\* When the engine is opened, it shows what the log gives back of the attempts so far.
AtOpen == TypeOK /\ Shows(state.docs) /\ opened = Len(attempts)
Presenting == \A i \in Iris : Presented(i)

LEMMA FoundAtOpen == AtOpen => Presenting
<1>1. SUFFICES ASSUME AtOpen, NEW i \in Iris PROVE Presented(i)
  BY DEF Presenting
<1>2. /\ TypeOK /\ Shows(state.docs) /\ Len(attempts) \in Nat /\ DOMAIN attempts = 1..Len(attempts)
      /\ opened = Len(attempts) /\ acked \subseteq DOMAIN attempts
  BY <1>1 DEF AtOpen, TypeOK
<1>3. AnsweredHere(i) = {}
  BY <1>2 DEF AnsweredHere
<1>4. PICK last \in Nat : last = LastOf(Kept, i) /\ last \in KeptOn(i) \union {0}
  BY <1>2, LastKept
<1>5. ASSUME NEW n \in AttemptsOn(i), n >= last, state.docs[i] = Outcome(n) PROVE Presented(i)
  <2>1. n \in FoundFor(i)
    BY <1>2, <1>4, <1>5 DEF AttemptsOn, FoundFor
  <2>2. QED BY <1>3, <1>5, <2>1 DEF Presented
<1>6. CASE last \in KeptOn(i)
  <2>1. PICK n \in AttemptsOn(i) : n >= last /\ state.docs[i] = Outcome(n)
    BY <1>2, <1>6 DEF Shows, ShowsOn
  <2>2. QED BY <1>5, <2>1
<1>7. CASE last = 0
  <2>1. CASE state.docs[i] = 0
    BY <1>3, <1>4, <1>7, <2>1 DEF Presented
  <2>2. CASE \E n \in AttemptsOn(i) : state.docs[i] = Outcome(n)
    <3>1. PICK n \in AttemptsOn(i) : state.docs[i] = Outcome(n)
      BY <2>2
    <3>2. n >= last
      BY <1>2, <1>7, <3>1 DEF AttemptsOn
    <3>3. QED BY <1>5, <3>1, <3>2
  <2>3. QED BY <1>2, <2>1, <2>2 DEF Shows, SoundOn
<1>8. QED BY <1>4, <1>6, <1>7

LEMMA FoundWhenOpened == AtOpen' => Presenting'
  BY FoundAtOpen, PTL

\* It goes on showing it as long as nothing more is answered.
LEMMA PresentedStill ==
  ASSUME TypeOK, Grows, opened' = opened, NEW i \in Iris, state'.docs[i] = state.docs[i],
         AnsweredHere(i)' = AnsweredHere(i), LastOf(Kept, i)' = LastOf(Kept, i), Presented(i)
  PROVE  Presented(i)'
<1>1. /\ opened \in 0..Len(attempts) /\ Len(attempts) \in Nat /\ DOMAIN attempts = 1..Len(attempts)
      /\ acked \subseteq DOMAIN attempts
  BY DEF TypeOK
<1>2. \A n \in DOMAIN attempts : Outcome(n)' = Outcome(n)
  BY DEF Grows, Outcome
<1>3. CASE AnsweredHere(i) # {}
  <2>1. PICK S : S = AnsweredHere(i)
    OBVIOUS
  <2>2. S \subseteq 0..Len(attempts) /\ S \subseteq DOMAIN attempts /\ S # {}
    BY <1>1, <1>3, <2>1 DEF AnsweredHere
  <2>3. Max(S) \in S
    BY <1>1, <2>2, MaxIsGreatest
  <2>4. PICK m \in DOMAIN attempts : m = Max(S)
    BY <2>2, <2>3
  <2>5. state.docs[i] = Outcome(m)
    BY <1>3, <2>1, <2>4 DEF Presented
  <2>6. state'.docs[i] = Outcome(m)'
    BY <1>2, <2>5
  <2>7. AnsweredHere(i)' = S
    BY <2>1
  <2>8. (state.docs[i] = Outcome(Max(AnsweredHere(i))))'
    BY <2>4, <2>6, <2>7 DEF Outcome
  <2>9. QED BY <2>2, <2>7, <2>8 DEF Presented
<1>4. CASE AnsweredHere(i) = {}
  <2>1. FoundFor(i)' = FoundFor(i) /\ FoundFor(i) \subseteq DOMAIN attempts
    BY <1>1 DEF FoundFor, Grows
  <2>2. CASE \E n \in FoundFor(i) : state.docs[i] = Outcome(n)
    <3>1. PICK n \in FoundFor(i) : state.docs[i] = Outcome(n)
      BY <2>2
    <3>2. n \in FoundFor(i)' /\ state'.docs[i] = Outcome(n)'
      BY <1>2, <2>1, <3>1
    <3>3. QED BY <1>4, <3>2 DEF Presented
  <2>3. CASE LastOf(Kept, i) = 0 /\ state.docs[i] = 0
    BY <1>4, <2>3 DEF Presented
  <2>4. QED BY <1>4, <2>2, <2>3 DEF Presented
<1>5. QED BY <1>3, <1>4

\* A step that answers nothing.
LEMMA NothingAnswered ==
  ASSUME TypeOK, Grows, UNCHANGED <<acked, shadowed, opened>>, state'.docs = state.docs, Presenting
  PROVE  Presenting'
<1>1. SUFFICES ASSUME NEW i \in Iris PROVE Presented(i)'
  BY DEF Presenting
<1>2. acked \subseteq DOMAIN attempts /\ Kept \subseteq DOMAIN attempts /\ Kept' = Kept
  BY DEF TypeOK, Kept
<1>3. AnsweredHere(i)' = AnsweredHere(i)
  BY <1>2 DEF AnsweredHere, Grows
<1>4. {n \in Kept : attempts[n].iri = i}' = {n \in Kept : attempts[n].iri = i}
  BY <1>2 DEF Grows
<1>5. LastOf(Kept, i)' = LastOf(Kept, i)
  BY <1>4 DEF LastOf
<1>6. QED BY <1>3, <1>5, PresentedStill DEF Presenting

\* A mutation that is answered changes what is shown of its own document, and that to
\* what it wrote.
LEMMA AnsweredShown ==
  ASSUME BasicInv, Presenting, NEW i \in Iris, NEW delete \in BOOLEAN, NEW rotate \in BOOLEAN,
         NEW sync \in BOOLEAN, Write(i, delete, rotate, sync)
  PROVE  Presenting'
<1>0. PICK new \in Nat : new = Len(attempts) + 1
  BY DEF BasicInv, TypeOK
<1>1. /\ TypeOK /\ ClockInv /\ Begin(i, delete) /\ opened' = opened /\ acked' = acked \union {new}
      /\ state' = [Drawn(i, delete) EXCEPT !.docs[i] = IF delete THEN 0 ELSE new]
      /\ shadowed' \in {shadowed, shadowed \union {new}}
  BY <1>0 DEF BasicInv, Write, Begin, Attempt
<1>2. /\ Len(attempts) \in Nat /\ DOMAIN attempts = 1..Len(attempts) /\ new \notin DOMAIN attempts
      /\ DOMAIN attempts' = DOMAIN attempts \union {new}
      /\ \A n \in DOMAIN attempts : attempts'[n] = attempts[n]
      /\ attempts'[new] = [iri |-> i, delete |-> delete]
      /\ Drawn(i, delete) \in ImageType /\ Drawn(i, delete).docs = state.docs
  BY <1>0, <1>1, Begins
<1>3. /\ opened \in 0..Len(attempts) /\ acked \subseteq DOMAIN attempts
      /\ Kept' \ {new} = Kept /\ Kept \subseteq DOMAIN attempts
  BY <1>0, <1>1, <1>2 DEF TypeOK, Kept
<1>4. PICK docs, after : docs = state.docs /\ after = state'.docs
  OBVIOUS
<1>5. after = [docs EXCEPT ![i] = IF delete THEN 0 ELSE new] /\ docs \in [Iris -> 0..MaxAttempts]
  BY <1>1, <1>2, <1>4 DEF ImageType
<1>6. SUFFICES ASSUME NEW j \in Iris PROVE Presented(j)'
  BY DEF Presenting
<1>7. CASE j # i
  <2>1. Grows
    BY <1>2 DEF Grows
  <2>2. AnsweredHere(j)' = AnsweredHere(j)
    BY <1>1, <1>2, <1>3, <1>7 DEF AnsweredHere
  <2>3. {n \in Kept : attempts[n].iri = j}' = {n \in Kept : attempts[n].iri = j}
    BY <1>2, <1>3, <1>7
  <2>4. LastOf(Kept, j)' = LastOf(Kept, j)
    BY <2>3 DEF LastOf
  <2>5. state'.docs[j] = state.docs[j]
    BY <1>4, <1>5, <1>7
  <2>6. QED BY <1>1, <2>1, <2>2, <2>4, <2>5, PresentedStill DEF Presenting
<1>8. CASE j = i
  <2>1. PICK S : S = AnsweredHere(i)'
    OBVIOUS
  <2>2. new \in S /\ S \subseteq 0..new /\ S # {}
    BY <1>0, <1>1, <1>2, <1>3, <2>1 DEF AnsweredHere
  <2>3. Max(S) \in S /\ \A n \in S : n <= Max(S)
    BY <1>2, <2>2, MaxIsGreatest
  <2>4. Max(S) = new
    <3>1. PICK top : top = Max(S)
      OBVIOUS
    <3>2. top \in 0..new /\ new <= top
      BY <2>2, <2>3, <3>1
    <3>3. QED BY <1>0, <3>1, <3>2
  <2>5. Outcome(new)' = IF delete THEN 0 ELSE new
    BY <1>2 DEF Outcome
  <2>6. (state.docs[i] = Outcome(Max(AnsweredHere(i))))'
    BY <1>4, <1>5, <2>1, <2>4, <2>5 DEF Outcome
  <2>7. QED BY <1>8, <2>1, <2>2, <2>6 DEF Presented
<1>9. QED BY <1>7, <1>8

LEMMA StepView == DurableInv /\ DurableInv' /\ ViewFaithful /\ [Next]_vars => ViewFaithful'
<1>1. SUFFICES ASSUME DurableInv, DurableInv', ViewFaithful, [Next]_vars, up' PROVE Presenting'
  BY DEF ViewFaithful, Presenting
<1>2. BasicInv /\ TypeOK /\ ClockInv
  BY <1>1 DEF DurableInv, BasicInv
<1>3. up => Presenting
  BY <1>1 DEF ViewFaithful, Presenting
<1>4. ASSUME NEW i \in Iris, NEW delete \in BOOLEAN, Begin(i, delete), state' = Drawn(i, delete),
             UNCHANGED <<acked, shadowed>>
      PROVE  Presenting'
  <2>1. up /\ Grows /\ opened' = opened /\ state'.docs = state.docs
    BY <1>2, <1>4, Begins DEF Grows, Begin
  <2>2. QED BY <1>2, <1>3, <1>4, <2>1, NothingAnswered
<1>5. ASSUME NEW i \in Iris, Mutate(i) PROVE Presenting'
  <2>1. ASSUME NEW delete \in BOOLEAN, NEW rotate \in BOOLEAN, NEW sync \in BOOLEAN,
               Write(i, delete, rotate, sync)
        PROVE  Presenting'
    <3>1. up
      BY <2>1 DEF Write, Begin
    <3>2. QED BY <1>2, <1>3, <2>1, <3>1, AnsweredShown
  <2>2. ASSUME NEW delete \in BOOLEAN, NEW rotate \in BOOLEAN, WriteTorn(i, delete, rotate)
        PROVE  Presenting'
    BY <1>4, <2>2 DEF WriteTorn
  <2>3. ASSUME NEW delete \in BOOLEAN, NEW rotate \in BOOLEAN, WriteUnsynced(i, delete, rotate)
        PROVE  Presenting'
    BY <1>4, <2>3 DEF WriteUnsynced
  <2>4. ASSUME NEW delete \in BOOLEAN, WriteRefused(i, delete) PROVE Presenting'
    BY <1>4, <2>4 DEF WriteRefused
  <2>5. QED BY <1>5, <2>1, <2>2, <2>3, <2>4 DEF Mutate
<1>6. ASSUME UNCHANGED <<up, state, attempts, acked, shadowed, opened>> PROVE Presenting'
  <2>1. Grows /\ up
    BY <1>1, <1>6 DEF Grows
  <2>2. QED BY <1>2, <1>3, <1>6, <2>1, NothingAnswered
<1>7. ASSUME NEW c \in Checkpointers, Checkpoint(c) PROVE Presenting'
  <2>1. UNCHANGED <<up, state, attempts, acked, shadowed, opened>>
    BY <1>7 DEF Checkpoint, ReadCovered, Stage, KeepPrevious, Publish, Rotate, Cleanup,
       CheckpointFails, history
  <2>2. QED BY <1>6, <2>1
<1>8. CASE Open
  <2>1. opened' = Len(attempts) /\ attempts' = attempts
    BY <1>8 DEF Open
  <2>2. AtOpen'
    BY <1>1, <2>1 DEF AtOpen, DurableInv, BasicInv, KeepsInv, ViewInv
  <2>3. QED BY <2>2, FoundWhenOpened
<1>9. CASE Crash \/ PowerLoss
  BY <1>1, <1>9 DEF Crash, PowerLoss, Stop
<1>10. CASE Damage \/ UNCHANGED vars
  <2>1. UNCHANGED <<up, state, attempts, acked, shadowed, opened>>
    BY <1>10 DEF Damage, vars, history
  <2>2. QED BY <1>6, <2>1
<1>11. QED BY <1>1, <1>5, <1>7, <1>8, <1>9, <1>10 DEF Next

LEMMA InitView == Init => ViewFaithful
<1>1. SUFFICES ASSUME Init PROVE Presenting
  BY DEF ViewFaithful, Presenting
<1>2. DurableInv
  BY <1>1, InitDurable
<1>3. up /\ opened = 0 /\ Len(attempts) = 0
  BY <1>1 DEF Init
<1>4. AtOpen
  BY <1>2, <1>3 DEF AtOpen, DurableInv, BasicInv, KeepsInv, ViewInv
<1>5. QED BY <1>4, FoundAtOpen

-----------------------------------------------------------------------------
(* The theorems.                                                           *)

\* Checkpoints, rotations and pruning keep every answered write recoverable, from the
\* current generation, from the previous one should the current fail, and before there
\* is a previous one from the log alone (checkpoint, save_snapshot_transaction,
\* cleanup_frozen_through, recover_wal).
THEOREM EveryWriteIsRecoverable == Spec => []Recoverable
<1>1. DurableInv => Recoverable
  BY DurableRecoverable
<1>2. QED BY <1>1, DurableInvariant, PTL

\* The running engine shows of each document the last mutation answered since it was
\* opened, and before the first of these what the log gave back of the attempts until
\* then; a mutation that failed in this process it never shows (insert, upsert, delete,
\* recover_wal).
THEOREM ViewIsFaithful == Spec => []ViewFaithful
<1>1. DurableInv /\ DurableInv' /\ ViewFaithful /\ [Next]_vars => ViewFaithful'
  BY StepView
<1>2. Init => ViewFaithful
  BY InitView
<1>3. QED BY <1>1, <1>2, DurableInvariant, PTL DEF Spec

\* What a restart would show agrees with what the open engine shows, but for documents
\* with a later attempt that was reported as failed or stands behind a torn record
\* (HyperspaceEngineImpl::open).
THEOREM RestartsAgree == Spec => []RestartAgrees
<1>1. DurableInv => RestartAgrees
  BY DurableAgrees
<1>2. QED BY <1>1, DurableInvariant, PTL
=============================================================================
