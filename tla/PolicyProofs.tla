---------------------------- MODULE PolicyProofs ----------------------------
(***************************************************************************)
(* Proofs about Policy for every report and every list of rules: the       *)
(* backtracking matcher decides what the wildcards mean, for patterns and  *)
(* paths of any length; one scan that keeps only the best rule so far ends *)
(* with the rule the documented order names; and the verdict is exact.     *)
(***************************************************************************)
EXTENDS Policy, FiniteSetTheorems, SharedLemmas

(***************************************************************************)
(* The strengthening: at every point of the scan the deciding rule is the  *)
(* best of the rules looked at so far, and the violations found so far are *)
(* those of the types seen so far.                                         *)
(***************************************************************************)
BestSoFar ==
  pc = "scan" =>
    IF deciding = 0 THEN \A k \in 1 .. rule - 1 : ~Matches(k, pkg)
                    ELSE BestOf(deciding, rule - 1, pkg)

Seen(p, t) == p < pkg \/ (p = pkg /\ t < typ)

FoundFalls ==
  \A n \in DOMAIN violations :
    LET v == violations[n] IN
      /\ v[1] \in DOMAIN report /\ v[2] \in DOMAIN report[v[1]].types
      /\ Seen(v[1], v[2])
      /\ Falls(v[2], v[1], v[3])

FallenIsFound ==
  \A p \in DOMAIN report : \A t \in DOMAIN report[p].types :
    Seen(p, t) /\ (\E k \in DOMAIN rules : Falls(t, p, rules[k].min)) =>
      \E n \in DOMAIN violations : violations[n][1] = p /\ violations[n][2] = t

InReportOrder ==
  \A m, n \in DOMAIN violations : m < n =>
    \/ violations[m][1] < violations[n][1]
    \/ violations[m][1] = violations[n][1] /\ violations[m][2] < violations[n][2]

VerdictSoFar == FoundFalls /\ FallenIsFound /\ InReportOrder

\* The inductive invariant.
ScanType ==
  /\ report \in Reports
  /\ rules \in Seq(RuleType)
  /\ pc \in {"start", "scan", "done"}
  /\ pkg \in 1 .. Len(report) + 1
  /\ pc = "scan" => pkg <= Len(report)
  /\ pc = "done" => pkg = Len(report) + 1
  /\ rule \in 1 .. Len(rules) + 1
  /\ typ \in Nat \ {0}
  /\ violations \in Seq(Nat \X Nat \X Int)
  /\ pc = "start" => pkg = 1 /\ rule = 1 /\ typ = 1 /\ deciding = 0 /\ violations = <<>>

IInv == ScanType /\ BestSoFar

-----------------------------------------------------------------------------
\* Specificity is counted in numbers.
LEMMA SpecificityType ==
  ASSUME NEW p \in Seq(Segment)
  PROVE  Len(p) \in Nat /\ Wildcards(p) \in Nat /\ Literals(p) \in Int
<1>1. Len(p) \in Nat /\ DOMAIN p = 1 .. Len(p)
  OBVIOUS
<1>2. IsFiniteSet(DOMAIN p)
  BY <1>1, FS_Interval
<1>3. IsFiniteSet({i \in DOMAIN p : p[i] \in {"*", "**"}})
  BY <1>2, FS_Subset
<1>4. Wildcards(p) \in Nat
  BY <1>3, FS_CardinalityType DEF Wildcards
<1> QED
  BY <1>1, <1>4 DEF Literals

LEMMA RulesType ==
  ASSUME rules \in Seq(RuleType)
  PROVE  /\ Len(rules) \in Nat
         /\ DOMAIN rules = 1 .. Len(rules)
         /\ \A k \in 1 .. Len(rules) : /\ Len(rules[k].pattern) \in Nat
                                       /\ Wildcards(rules[k].pattern) \in Nat
                                       /\ Literals(rules[k].pattern) \in Int
<1>1. Len(rules) \in Nat /\ DOMAIN rules = 1 .. Len(rules)
  OBVIOUS
<1>2. \A k \in 1 .. Len(rules) : rules[k] \in RuleType
  OBVIOUS
<1>3. \A k \in 1 .. Len(rules) : rules[k].pattern \in Seq(Segment)
  BY <1>2 DEF RuleType
<1> QED
  BY <1>1, <1>3, SpecificityType

\* A later rule replaces the deciding one exactly when it beats it, and the
\* order is total and transitive, so what the deciding rule beat stays beaten.
LEMMA ReplacementBeats ==
  ASSUME rules \in Seq(RuleType), NEW c \in 1 .. Len(rules), NEW d \in 1 .. Len(rules), d < c
  PROVE  /\ MoreSpecific(rules[c].pattern, rules[d].pattern) => Beats(c, d)
         /\ ~MoreSpecific(rules[c].pattern, rules[d].pattern) => Beats(d, c)
BY RulesType DEF MoreSpecific, Beats

LEMMA BeatsTransitive ==
  ASSUME rules \in Seq(RuleType), NEW a \in 1 .. Len(rules), NEW b \in 1 .. Len(rules),
         NEW c \in 1 .. Len(rules), Beats(a, b), Beats(b, c)
  PROVE  Beats(a, c)
BY RulesType DEF Beats

-----------------------------------------------------------------------------
\* The recursive function of matchFrom exists and obeys its equation: row by row
\* from the end of the pattern a longer solution extends a shorter one.
LEMMA MatchFromUnfolds ==
  ASSUME NEW p \in Seq(Segment), NEW s \in Seq(Segment)
  PROVE  MatchFrom(p, s) =
           [i \in 1 .. Len(p) + 1 |->
              IF i > Len(p) THEN {Len(s) + 1} ELSE StartsOf(p, s, i, MatchFrom(p, s)[i + 1])]
<1> DEFINE n == Len(p)
           Row(f, i) == IF i > n THEN {Len(s) + 1} ELSE StartsOf(p, s, i, f[i + 1])
           Solves(f, l) == f = [i \in l .. n + 1 |-> Row(f, i)]
           T == {m \in 0 .. n : \E f : Solves(f, n + 1 - m)}
<1>1. n \in Nat
  OBVIOUS
<1>2. \A f, g : Row(f, n + 1) = Row(g, n + 1)
  BY <1>1
<1>3. ASSUME NEW f, NEW g, NEW i, f[i + 1] = g[i + 1] PROVE Row(f, i) = Row(g, i)
  BY <1>3
<1>4. MatchFrom(p, s) = CHOOSE f : Solves(f, 1)
  BY Zenon DEF MatchFrom
<1> HIDE DEF Row
<1>5. 0 \in T
  <2> DEFINE f == [i \in n + 1 .. n + 1 |-> Row(<<>>, n + 1)]
  <2>1. f = [i \in n + 1 .. n + 1 |-> Row(f, i)]
    <3>1. Row(f, n + 1) = Row(<<>>, n + 1)
      BY <1>2
    <3>2. \A i \in n + 1 .. n + 1 : i = n + 1
      BY <1>1
    <3> HIDE DEF n
    <3> QED BY <3>1, <3>2
  <2>2. n + 1 - 0 = n + 1 /\ 0 \in 0 .. n
    BY <1>1
  <2> HIDE DEF f
  <2> QED BY <2>1, <2>2
<1>6. ASSUME NEW m \in 0 .. n - 1, m \in T PROVE m + 1 \in T
  <2> DEFINE l == n + 1 - m
  <2>1. /\ l \in 2 .. n + 1 /\ n + 1 - (m + 1) = l - 1 /\ m + 1 \in 0 .. n
    BY <1>1
  <2>2. PICK f : f = [i \in l .. n + 1 |-> Row(f, i)]
    BY <1>6
  <2> HIDE DEF l, n
  <2> DEFINE g == [i \in l - 1 .. n + 1 |-> IF i = l - 1 THEN Row(f, i) ELSE f[i]]
  <2>3. ASSUME NEW i \in l - 1 .. n + 1 PROVE g[i] = Row(g, i)
    <3>1. g[i] = Row(f, i)
      <4>1. \A k \in l .. n + 1 : f[k] = Row(f, k)
        BY <2>2
      <4>2. i = l - 1 \/ i \in l .. n + 1
        BY <1>1, <2>1
      <4> QED BY <4>1, <4>2
    <3>2. CASE i = n + 1
      BY <1>2, <3>1, <3>2
    <3>3. CASE i # n + 1
      <4>1. i + 1 \in l .. n + 1
        BY <1>1, <2>1, <3>3
      <4>2. g[i + 1] = f[i + 1]
        BY <1>1, <2>1, <4>1
      <4> HIDE DEF g
      <4> QED BY <1>3, <3>1, <4>2
    <3> QED BY <3>2, <3>3
  <2>4. g = [i \in l - 1 .. n + 1 |-> Row(g, i)]
    BY <2>3
  <2> HIDE DEF g
  <2>5. \E h : Solves(h, n + 1 - (m + 1))
    BY <2>1, <2>4
  <2> QED BY <2>1, <2>5
<1>7. \E f : Solves(f, 1)
  <2>1. n \in T
    <3> HIDE DEF T, n
    <3>1. \A m \in 0 .. n - 1 : m \in T => m + 1 \in T
      BY <1>6
    <3>2. 0 .. n \subseteq T
      BY <1>1, <1>5, <3>1, UpTo
    <3> QED BY <1>1, <3>2
  <2>2. n + 1 - n = 1
    BY <1>1
  <2> QED BY <2>1, <2>2
<1>8. Solves(MatchFrom(p, s), 1)
  <2> HIDE DEF Solves
  <2> QED BY <1>4, <1>7, Zenon
<1> QED BY <1>8 DEF Row

\* Segment i of the pattern may cover the path from a up to b, b not included.
Spans(p, s, i, a, b) ==
  IF p[i] = "**" THEN a <= b ELSE b = a + 1 /\ (p[i] = "*" \/ p[i] = s[a])

\* Covers, from segment i of the pattern and segment j of the path on.
CoversFrom(p, s, i, j) ==
  \E cut \in [i .. Len(p) + 1 -> 1 .. Len(s) + 1] :
    /\ cut[i] = j
    /\ cut[Len(p) + 1] = Len(s) + 1
    /\ \A k \in i .. Len(p) : Spans(p, s, k, cut[k], cut[k + 1])

\* matchDoubleStar and matchOne try exactly the spans of a segment; a double
\* star at the end needs no trial.
LEMMA StartsSpan ==
  ASSUME NEW p \in Seq(Segment), NEW s \in Seq(Segment), NEW i \in 1 .. Len(p),
         NEW rest \in SUBSET (1 .. Len(s) + 1), i = Len(p) => rest = {Len(s) + 1},
         NEW j \in 1 .. Len(s) + 1
  PROVE  j \in StartsOf(p, s, i, rest) <=> \E k \in rest : Spans(p, s, i, j, k)
<1>1. Len(s) \in Nat /\ Len(p) \in Nat
  OBVIOUS
<1>2. CASE p[i] = "**"
  <2>1. j \in StartsOf(p, s, i, rest) <=> (i = Len(p) \/ \E k \in j .. Len(s) + 1 : k \in rest)
    BY <1>2 DEF StartsOf, AfterDoubleStar
  <2>2. (\E k \in j .. Len(s) + 1 : k \in rest) <=> \E k \in rest : j <= k
    BY <1>1
  <2>3. i = Len(p) => \E k \in rest : j <= k
    BY <1>1
  <2> QED BY <1>2, <2>1, <2>2, <2>3 DEF Spans
<1>3. CASE p[i] # "**"
  <2>1. j \in StartsOf(p, s, i, rest)
          <=> j <= Len(s) /\ (p[i] = "*" \/ p[i] = s[j]) /\ j + 1 \in rest
    BY <1>3 DEF StartsOf
  <2>2. (\E k \in rest : Spans(p, s, i, j, k))
          <=> (p[i] = "*" \/ p[i] = s[j]) /\ j + 1 \in rest
    BY <1>3 DEF Spans
  <2>3. j + 1 \in rest => j <= Len(s)
    BY <1>1
  <2> QED BY <2>1, <2>2, <2>3
<1> QED BY <1>2, <1>3

\* A covering is a span of the first segment and a covering by the others.
LEMMA CoversSpan ==
  ASSUME NEW p \in Seq(Segment), NEW s \in Seq(Segment), NEW i \in 1 .. Len(p),
         NEW j \in 1 .. Len(s) + 1
  PROVE  CoversFrom(p, s, i, j)
           <=> \E k \in 1 .. Len(s) + 1 : CoversFrom(p, s, i + 1, k) /\ Spans(p, s, i, j, k)
<1>1. Len(s) \in Nat /\ Len(p) \in Nat
  OBVIOUS
<1> DEFINE n == Len(p)
           Q == 1 .. Len(s) + 1
<1> HIDE DEF n, Q
<1>2. n \in Nat /\ i \in 1 .. n
  BY <1>1 DEF n
<1>3. ASSUME CoversFrom(p, s, i, j)
      PROVE  \E k \in Q : CoversFrom(p, s, i + 1, k) /\ Spans(p, s, i, j, k)
  <2>1. PICK cut \in [i .. n + 1 -> Q] :
          /\ cut[i] = j
          /\ cut[n + 1] = Len(s) + 1
          /\ \A k \in i .. n : Spans(p, s, k, cut[k], cut[k + 1])
    BY <1>3, Zenon DEF CoversFrom, n, Q
  <2> DEFINE tail == [k \in i + 1 .. n + 1 |-> cut[k]]
  <2>2. tail \in [i + 1 .. n + 1 -> Q]
    BY <1>2
  <2>3. tail[i + 1] = cut[i + 1] /\ tail[n + 1] = Len(s) + 1 /\ cut[i + 1] \in Q
    BY <1>2, <2>1
  <2>4. \A k \in i + 1 .. n : tail[k] = cut[k] /\ tail[k + 1] = cut[k + 1] /\ k \in i .. n
    BY <1>2
  <2>5. Spans(p, s, i, j, cut[i + 1])
    BY <1>2, <2>1
  <2>6. \A k \in i + 1 .. n : Spans(p, s, k, tail[k], tail[k + 1])
    <3> HIDE DEF tail
    <3> QED BY <2>1, <2>4
  <2>7. CoversFrom(p, s, i + 1, cut[i + 1])
    <3> HIDE DEF tail
    <3> QED BY <2>2, <2>3, <2>6, Zenon DEF CoversFrom, n, Q
  <2> QED BY <2>3, <2>5, <2>7
<1>4. ASSUME NEW q \in Q, CoversFrom(p, s, i + 1, q), Spans(p, s, i, j, q)
      PROVE  CoversFrom(p, s, i, j)
  <2>1. PICK tail \in [i + 1 .. n + 1 -> Q] :
          /\ tail[i + 1] = q
          /\ tail[n + 1] = Len(s) + 1
          /\ \A k \in i + 1 .. n : Spans(p, s, k, tail[k], tail[k + 1])
    BY <1>4, Zenon DEF CoversFrom, n, Q
  <2> DEFINE cut == [k \in i .. n + 1 |-> IF k = i THEN j ELSE tail[k]]
  <2>2. cut \in [i .. n + 1 -> Q]
    <3>1. j \in Q
      BY DEF Q
    <3> QED BY <1>2, <3>1
  <2>3. cut[i] = j /\ cut[n + 1] = Len(s) + 1 /\ cut[i + 1] = q
    BY <1>2, <2>1
  <2>4. \A k \in i + 1 .. n : cut[k] = tail[k] /\ cut[k + 1] = tail[k + 1]
    BY <1>2
  <2>5. \A k \in i .. n : k = i \/ k \in i + 1 .. n
    BY <1>2
  <2>6. \A k \in i .. n : Spans(p, s, k, cut[k], cut[k + 1])
    <3> HIDE DEF cut
    <3> QED BY <1>4, <2>1, <2>3, <2>4, <2>5
  <2> HIDE DEF cut
  <2> QED BY <2>2, <2>3, <2>6, Zenon DEF CoversFrom, n, Q
<1> QED BY <1>3, <1>4 DEF Q

\* Hence, by induction from the end of the pattern, the matcher decides Covers.
LEMMA MatchMeansCovers ==
  ASSUME NEW p \in Seq(Segment), NEW s \in Seq(Segment)
  PROVE  MatchPackage(p, s) <=> Covers(p, s)
<1> DEFINE n == Len(p)
           Q == 1 .. Len(s) + 1
           M == MatchFrom(p, s)
           Exact(i) == M[i] = {j \in Q : CoversFrom(p, s, i, j)}
           T == {m \in 0 .. n : Exact(n + 1 - m)}
<1>1. n \in Nat /\ Len(s) \in Nat
  OBVIOUS
<1>2. /\ M[n + 1] = {Len(s) + 1}
      /\ \A i \in 1 .. n : M[i] = StartsOf(p, s, i, M[i + 1])
  <2> DEFINE Row(i) == IF i > n THEN {Len(s) + 1} ELSE StartsOf(p, s, i, M[i + 1])
  <2> HIDE DEF n, M
  <2>1. M = [i \in 1 .. n + 1 |-> Row(i)]
    BY MatchFromUnfolds DEF n, M
  <2>2. \A i \in 1 .. n + 1 : M[i] = Row(i)
    <3> HIDE DEF Row
    <3> QED BY <2>1
  <2> QED BY <1>1, <2>2
<1> HIDE DEF M
<1>3. 0 \in T
  <2>1. ASSUME NEW j \in Q PROVE CoversFrom(p, s, n + 1, j) <=> j = Len(s) + 1
    <3>1. CoversFrom(p, s, n + 1, j) => j = Len(s) + 1
      BY DEF CoversFrom
    <3>2. ASSUME j = Len(s) + 1 PROVE CoversFrom(p, s, n + 1, j)
      <4> DEFINE cut == [k \in n + 1 .. n + 1 |-> j]
      <4>1. cut \in [n + 1 .. n + 1 -> Q] /\ cut[n + 1] = j
        BY <1>1
      <4>2. \A k \in n + 1 .. n : FALSE
        BY <1>1
      <4> HIDE DEF cut
      <4> QED BY <3>2, <4>1, <4>2 DEF CoversFrom
    <3> QED BY <3>1, <3>2
  <2>2. Exact(n + 1)
    BY <1>1, <1>2, <2>1
  <2>3. n + 1 - 0 = n + 1 /\ 0 \in 0 .. n
    BY <1>1
  <2> HIDE DEF Exact, n
  <2> QED BY <2>2, <2>3
<1>4. ASSUME NEW m \in 0 .. n - 1, m \in T PROVE m + 1 \in T
  <2> DEFINE i == n - m
  <2>1. i \in 1 .. n /\ n + 1 - m = i + 1 /\ n + 1 - (m + 1) = i /\ m + 1 \in 0 .. n
    BY <1>1
  <2>2. Exact(i + 1)
    <3> HIDE DEF Exact, i, n
    <3> QED BY <1>4, <2>1
  <2> HIDE DEF i
  <2>3. i = Len(p) => M[i + 1] = {Len(s) + 1}
    BY <1>2
  <2>4. \A j \in Q : j \in M[i] <=> \E k \in M[i + 1] : Spans(p, s, i, j, k)
    BY <1>2, <2>1, <2>2, <2>3, StartsSpan
  <2>5. \A j \in Q : CoversFrom(p, s, i, j)
                       <=> \E k \in Q : CoversFrom(p, s, i + 1, k) /\ Spans(p, s, i, j, k)
    BY <2>1, CoversSpan
  <2>6. M[i] \subseteq Q
    BY <1>2, <2>1 DEF StartsOf
  <2>7. Exact(i)
    <3> HIDE DEF Q
    <3> QED BY <2>2, <2>4, <2>5, <2>6
  <2> HIDE DEF Exact, n
  <2> QED BY <2>1, <2>7
<1>5. Exact(1)
  <2>1. \A m \in 0 .. n - 1 : m \in T => m + 1 \in T
    BY <1>4
  <2> HIDE DEF T, n
  <2>2. 0 .. n \subseteq T
    BY <1>1, <1>3, <2>1, UpTo
  <2>3. n \in T /\ n + 1 - n = 1
    BY <1>1, <2>2
  <2> HIDE DEF Exact
  <2> QED BY <2>3 DEF T
<1>6. CoversFrom(p, s, 1, 1) <=> Covers(p, s)
  <2>1. DOMAIN p = 1 .. Len(p)
    OBVIOUS
  <2> QED BY <2>1, Zenon DEF CoversFrom, Covers, Spans
<1>7. 1 \in Q
  BY <1>1
<1> QED BY <1>5, <1>6, <1>7 DEF MatchPackage, M

-----------------------------------------------------------------------------
\* The report is a sequence of packages, each with a path and a sequence of types.
LEMMA ReportType ==
  ASSUME report \in Reports
  PROVE  /\ Len(report) \in Nat /\ DOMAIN report = 1 .. Len(report)
         /\ \A p \in DOMAIN report :
              /\ report[p].path \in Seq(Segment)
              /\ Len(report[p].types) \in Nat
              /\ DOMAIN report[p].types = 1 .. Len(report[p].types)
<1> DEFINE PackageType == [path : PathType, types : Seq(TypeType)]
<1>1. report \in Seq(PackageType)
  BY PolicyAssumption
<1>2. \A p \in DOMAIN report : report[p] \in PackageType
  <2> HIDE DEF PackageType
  <2> QED BY <1>1
<1>3. \A p \in DOMAIN report : report[p].path \in Seq(Segment) /\ report[p].types \in Seq(TypeType)
  BY <1>2 DEF PathType
<1>4. Len(report) \in Nat /\ DOMAIN report = 1 .. Len(report)
  <2> HIDE DEF PackageType
  <2> QED BY <1>1
<1> QED BY <1>3, <1>4

\* Packages and types are numbered.
LEMMA Numbered ==
  ASSUME report \in Reports, NEW p \in DOMAIN report, NEW t \in DOMAIN report[p].types
  PROVE  p \in Nat \ {0} /\ t \in Nat \ {0}
BY ReportType

\* The package looked at is one of the report.
LEMMA Position ==
  ASSUME IInv, pc = "scan"
  PROVE  report \in Reports /\ pkg \in DOMAIN report /\ pkg \in Nat /\ typ \in Nat \ {0}
<1>1. report \in Reports /\ pkg \in 1 .. Len(report) + 1 /\ pkg <= Len(report) /\ typ \in Nat \ {0}
  BY DEF IInv, ScanType
<1>2. Len(report) \in Nat /\ DOMAIN report = 1 .. Len(report)
  BY <1>1, ReportType
<1> QED BY <1>1, <1>2

\* Only one rule is the best of all.
LEMMA BestIsOne ==
  ASSUME rules \in Seq(RuleType), NEW p, NEW k, NEW l,
         BestOf(k, Len(rules), p), BestOf(l, Len(rules), p)
  PROVE  k = l
<1> SUFFICES ASSUME k # l PROVE FALSE
  OBVIOUS
<1>1. k \in 1 .. Len(rules) /\ l \in 1 .. Len(rules) /\ Beats(k, l) /\ Beats(l, k)
  BY DEF BestOf
<1> QED BY <1>1, RulesType DEF Beats

LEMMA InitInv == Init => IInv /\ VerdictSoFar
<1> SUFFICES ASSUME Init PROVE IInv /\ VerdictSoFar
  OBVIOUS
<1>1. /\ rules \in Seq(RuleType) /\ report \in Reports
      /\ pkg = 1 /\ rule = 1 /\ typ = 1 /\ pc = "start" /\ deciding = 0 /\ violations = <<>>
  BY PolicyAssumption DEF Init
<1>2. Len(rules) \in Nat /\ Len(report) \in Nat
  BY <1>1, RulesType, ReportType
<1>3. IInv
  BY <1>1, <1>2 DEF IInv, ScanType, BestSoFar
<1>4. FoundFalls /\ InReportOrder
  BY <1>1 DEF FoundFalls, InReportOrder
<1>5. FallenIsFound
  BY <1>1, ReportType DEF FallenIsFound, Seen
<1> QED BY <1>3, <1>4, <1>5 DEF VerdictSoFar

LEMMA StartPreserves == IInv /\ Start => IInv' /\ VerdictSoFar'
<1> SUFFICES ASSUME IInv, Start PROVE IInv' /\ VerdictSoFar'
  OBVIOUS
<1>1. rules' \in Seq(RuleType)
  <2>1. <<"**">> \in Seq(Segment)
    <3>1. "**" \in Segment
      BY PolicyAssumption
    <3>2. ASSUME NEW s \in Segment PROVE <<s>> \in Seq(Segment)
      OBVIOUS
    <3> QED
      BY <3>1, <3>2
  <2>2. [pattern |-> <<"**">>, min |-> DefaultMin] \in RuleType
    BY <2>1, PolicyAssumption DEF RuleType
  <2>3. <<[pattern |-> <<"**">>, min |-> DefaultMin]>> \in Seq(RuleType)
    BY <2>2
  <2> QED
    BY <2>3 DEF IInv, ScanType, Start
<1>2. Len(rules') \in Nat
  BY <1>1
<1>3. /\ pkg' = 1 /\ rule' = 1 /\ typ' = 1 /\ deciding' = 0 /\ violations' = <<>>
      /\ report' = report /\ report \in Reports
      /\ pc' = IF report = <<>> THEN "done" ELSE "scan"
  BY DEF IInv, ScanType, Start
<1>4. report # <<>> => Len(report) # 0
  <2>1. report \in Seq([path : PathType, types : Seq(TypeType)])
    BY <1>3, PolicyAssumption
  <2> QED BY <2>1
<1>5. ScanType' /\ BestSoFar'
  BY <1>1, <1>2, <1>3, <1>4, ReportType DEF ScanType, BestSoFar
<1>6. FoundFalls' /\ InReportOrder'
  BY <1>3 DEF FoundFalls, InReportOrder
<1>7. FallenIsFound'
  <2>1. ASSUME NEW p \in DOMAIN report, NEW t \in DOMAIN report[p].types PROVE ~Seen(p, t)'
    BY <1>3, ReportType DEF Seen
  <2> QED BY <1>3, <2>1 DEF FallenIsFound
<1> QED BY <1>5, <1>6, <1>7 DEF IInv, VerdictSoFar

\* One more rule is looked at: it becomes the best, or the best so far beats it.
LEMMA OneMoreRule ==
  ASSUME IInv, pc = "scan", rule \in 1 .. Len(rules), NEW d,
         d = IF Matches(rule, pkg)
                /\ (deciding = 0 \/ MoreSpecific(rules[rule].pattern, rules[deciding].pattern))
             THEN rule ELSE deciding
  PROVE  IF d = 0 THEN \A k \in 1 .. rule : ~Matches(k, pkg) ELSE BestOf(d, rule, pkg)
<1>1. rules \in Seq(RuleType) /\ Len(rules) \in Nat /\ rule \in Nat \ {0}
  BY RulesType DEF IInv, ScanType
<1>2. CASE deciding = 0
  <2>1. \A k \in 1 .. rule - 1 : ~Matches(k, pkg)
    BY <1>2 DEF IInv, BestSoFar
  <2>2. \A k \in 1 .. rule : k = rule \/ k \in 1 .. rule - 1
    BY <1>1
  <2> QED
    BY <1>1, <1>2, <2>1, <2>2 DEF BestOf
<1>3. CASE deciding # 0
  <2>1. /\ deciding \in 1 .. rule - 1
        /\ Matches(deciding, pkg)
        /\ \A i \in (1 .. rule - 1) \ {deciding} : Matches(i, pkg) => Beats(deciding, i)
    BY <1>3 DEF IInv, BestSoFar, BestOf
  <2>2. deciding \in 1 .. Len(rules) /\ deciding < rule /\ deciding \in 1 .. rule
    BY <1>1, <2>1
  <2>3. \A k \in 1 .. rule : k = rule \/ k \in 1 .. rule - 1
    BY <1>1
  <2>4. CASE d = rule
    <3>1. Matches(rule, pkg) /\ Beats(rule, deciding)
      BY <1>1, <1>3, <2>2, <2>4, ReplacementBeats
    <3>2. \A i \in 1 .. rule - 1 : Matches(i, pkg) => Beats(rule, i)
      <4> SUFFICES ASSUME NEW i \in 1 .. rule - 1, Matches(i, pkg), i # deciding
                   PROVE  Beats(rule, i)
        BY <3>1
      <4>1. Beats(deciding, i)
        BY <2>1
      <4>2. i \in 1 .. Len(rules)
        BY <1>1
      <4> QED
        BY <1>1, <2>2, <3>1, <4>1, <4>2, BeatsTransitive
    <3> QED
      BY <1>1, <2>3, <2>4, <3>1, <3>2 DEF BestOf
  <2>5. CASE d # rule
    <3>1. d = deciding
      BY <2>5
    <3>2. Matches(rule, pkg) => Beats(deciding, rule)
      BY <1>1, <1>3, <2>2, <2>5, ReplacementBeats
    <3> QED
      BY <1>3, <2>1, <2>2, <2>3, <3>1, <3>2 DEF BestOf
  <2> QED
    BY <2>4, <2>5
<1> QED
  BY <1>2, <1>3

LEMMA ConsiderRulePreserves == IInv /\ ConsiderRule => IInv'
<1> SUFFICES ASSUME IInv, ConsiderRule PROVE IInv'
  OBVIOUS
<1>1. /\ UNCHANGED <<report, rules, pc, pkg, typ, violations>>
      /\ rule' = rule + 1
      /\ pc = "scan"
      /\ rule \in 1 .. Len(rules)
      /\ rules \in Seq(RuleType)
      /\ Len(rules) \in Nat
  BY RulesType DEF IInv, ScanType, ConsiderRule
<1>2. ScanType'
  BY <1>1 DEF IInv, ScanType
<1>3. deciding' = IF Matches(rule, pkg)
                     /\ (deciding = 0 \/ MoreSpecific(rules[rule].pattern, rules[deciding].pattern))
                  THEN rule ELSE deciding
  BY DEF ConsiderRule, Matches
<1>4. IF deciding' = 0 THEN \A k \in 1 .. rule : ~Matches(k, pkg)
                       ELSE BestOf(deciding', rule, pkg)
  BY <1>1, <1>3, OneMoreRule
<1>5. \A k, p : Matches(k, p)' <=> Matches(k, p)
  BY <1>1 DEF Matches
<1>6. \A k, n, p : BestOf(k, n, p)' <=> BestOf(k, n, p)
  BY <1>1 DEF BestOf, Matches, Beats
<1>7. rule' - 1 = rule
  BY <1>1
<1>8. BestSoFar'
  <2>1. CASE deciding' = 0
    BY <1>1, <1>4, <1>5, <1>7, <2>1 DEF BestSoFar
  <2>2. CASE deciding' # 0
    <3>1. BestOf(deciding', rule, pkg)
      BY <1>4, <2>2
    <3>2. BestOf(deciding, rule - 1, pkg)'
      BY <1>1, <1>7, <3>1 DEF BestOf, Matches, Beats
    <3> QED
      BY <2>2, <3>2 DEF BestSoFar
  <2> QED
    BY <2>1, <2>2
<1> QED
  BY <1>2, <1>8 DEF IInv

\* A type is held against the minimum; the scan is over.
LEMMA CheckTypePreserves == IInv /\ CheckType => IInv'
<1> SUFFICES ASSUME IInv, CheckType PROVE IInv'
  OBVIOUS
<1>1. UNCHANGED <<report, rules, pc, pkg, rule, deciding>> /\ typ' = typ + 1
  BY DEF CheckType
<1>2. violations' \in Seq(Nat \X Nat \X Int)
  <2>1. deciding \in 1 .. Len(rules) /\ rules \in Seq(RuleType)
    BY RulesType DEF CheckType, IInv, ScanType, BestSoFar, BestOf
  <2>2. rules[deciding] \in RuleType
    BY <2>1
  <2>3. rules[deciding].min \in Int
    BY <2>2 DEF RuleType
  <2>4. pkg \in Nat /\ typ \in Nat
    BY ReportType DEF IInv, ScanType
  <2>5. <<pkg, typ, rules[deciding].min>> \in Nat \X Nat \X Int
    BY <2>3, <2>4
  <2> QED BY <2>5 DEF IInv, ScanType, CheckType
<1>3. ScanType'
  BY <1>1, <1>2 DEF IInv, ScanType, CheckType
<1>4. BestSoFar'
  BY <1>1 DEF IInv, BestSoFar, BestOf, Matches, Beats
<1> QED BY <1>3, <1>4 DEF IInv

\* The next package is scanned from the first rule on, with no rule deciding.
LEMMA NextPackagePreserves == IInv /\ NextPackage => IInv'
<1> SUFFICES ASSUME IInv, NextPackage PROVE IInv'
  OBVIOUS
<1>1. /\ UNCHANGED <<report, rules, violations>>
      /\ pkg' = pkg + 1 /\ rule' = 1 /\ typ' = 1 /\ deciding' = 0
      /\ pkg \in 1 .. Len(report)
      /\ pc' = IF pkg = Len(report) THEN "done" ELSE "scan"
  BY ReportType DEF IInv, ScanType, NextPackage, FreshScan
<1>2. Len(rules) \in Nat /\ Len(report) \in Nat
  BY RulesType, ReportType DEF IInv, ScanType
<1>3. ScanType'
  BY <1>1, <1>2 DEF IInv, ScanType
<1>4. BestSoFar'
  BY <1>1 DEF BestSoFar
<1> QED BY <1>3, <1>4 DEF IInv

LEMMA StutterPreserves == IInv /\ UNCHANGED vars => IInv'
BY DEF IInv, ScanType, BestSoFar, BestOf, Matches, Beats, vars

LEMMA NextPreserves == IInv /\ [Next]_vars => IInv'
BY StartPreserves, ConsiderRulePreserves, CheckTypePreserves, NextPackagePreserves, StutterPreserves
   DEF Next, Done

-----------------------------------------------------------------------------
\* What a type is below is told from the report and the rules alone.
LEMMA FallsStays ==
  ASSUME UNCHANGED <<report, rules>>, NEW t, NEW p, NEW min
  PROVE  Falls(t, p, min)' <=> Falls(t, p, min)
BY DEF Falls, BestOf, Matches, Beats

LEMMA ConsiderRuleVerdict == VerdictSoFar /\ ConsiderRule => VerdictSoFar'
<1> SUFFICES ASSUME VerdictSoFar, ConsiderRule PROVE VerdictSoFar'
  OBVIOUS
<1>1. UNCHANGED <<report, rules, pkg, typ, violations>>
  BY DEF ConsiderRule
<1>2. \A t, p, min : Falls(t, p, min)' <=> Falls(t, p, min)
  BY <1>1, FallsStays
<1> QED BY <1>1, <1>2 DEF VerdictSoFar, FoundFalls, FallenIsFound, InReportOrder, Seen

\* The rule that decides when the types are looked at is the best of all, so a type
\* falls exactly when it violates that rule's minimum.
LEMMA DecidingFells ==
  ASSUME IInv, CheckType
  PROVE  /\ deciding \in DOMAIN rules
         /\ \A t, min : Falls(t, pkg, min)
              <=> min = rules[deciding].min /\ Violates(report[pkg].types[t], min)
<1>1. rules \in Seq(RuleType) /\ rule - 1 = Len(rules) /\ DOMAIN rules = 1 .. Len(rules)
  BY RulesType DEF IInv, ScanType, CheckType
<1>2. BestOf(deciding, Len(rules), pkg)
  BY <1>1 DEF IInv, BestSoFar, CheckType
<1>3. deciding \in DOMAIN rules
  BY <1>1, <1>2 DEF BestOf
<1>4. \A k \in DOMAIN rules : BestOf(k, Len(rules), pkg) => k = deciding
  BY <1>1, <1>2, BestIsOne
<1> QED BY <1>2, <1>3, <1>4 DEF Falls

LEMMA CheckTypeVerdict == IInv /\ VerdictSoFar /\ CheckType => VerdictSoFar'
<1> SUFFICES ASSUME IInv, VerdictSoFar, CheckType PROVE VerdictSoFar'
  OBVIOUS
<1> DEFINE min == rules[deciding].min
           new == <<pkg, typ, min>>
           SeenNow(p, t) == p < pkg' \/ (p = pkg' /\ t < typ')
<1>1. UNCHANGED <<report, rules, pkg>> /\ typ' = typ + 1
  BY DEF CheckType
<1>2. \A t, p, m : Falls(t, p, m)' <=> Falls(t, p, m)
  BY <1>1, FallsStays
<1>3. /\ violations \in Seq(Nat \X Nat \X Int)
      /\ pkg \in DOMAIN report /\ typ \in DOMAIN report[pkg].types
      /\ pkg \in Nat /\ typ \in Nat
  <2>1. report \in Reports /\ pkg \in DOMAIN report /\ pkg \in Nat /\ typ \in Nat \ {0}
    BY Position DEF CheckType
  <2>2. DOMAIN report[pkg].types = 1 .. Len(report[pkg].types) /\ Len(report[pkg].types) \in Nat
    BY <2>1, ReportType
  <2>3. typ \in DOMAIN report[pkg].types
    BY <2>1, <2>2 DEF CheckType
  <2> QED BY <2>1, <2>3 DEF IInv, ScanType
<1>4. ASSUME NEW p \in DOMAIN report, NEW t \in DOMAIN report[p].types
      PROVE  SeenNow(p, t) <=> Seen(p, t) \/ (p = pkg /\ t = typ)
  <2>1. p \in Nat /\ t \in Nat
    BY <1>4, Numbered, Position DEF CheckType
  <2> QED BY <1>1, <1>3, <2>1 DEF Seen
<1>5. CASE ~Violates(report[pkg].types[typ], min)
  <2>1. violations' = violations
    BY <1>5 DEF CheckType
  <2>2. \A m : ~Falls(typ, pkg, m)
    BY <1>5, DecidingFells
  <2>3. FoundFalls'
    <3>1. FoundFalls' <=> \A n \in DOMAIN violations :
                            LET v == violations[n] IN
                              /\ v[1] \in DOMAIN report /\ v[2] \in DOMAIN report[v[1]].types
                              /\ SeenNow(v[1], v[2]) /\ Falls(v[2], v[1], v[3])
      BY <1>1, <1>2, <2>1 DEF FoundFalls, Seen
    <3> QED BY <1>4, <3>1 DEF VerdictSoFar, FoundFalls
  <2>4. FallenIsFound'
    <3> SUFFICES ASSUME NEW p \in DOMAIN report, NEW t \in DOMAIN report[p].types, SeenNow(p, t),
                        \E k \in DOMAIN rules : Falls(t, p, rules[k].min)
                 PROVE  \E n \in DOMAIN violations : violations[n][1] = p /\ violations[n][2] = t
      BY <1>1, <1>2, <2>1 DEF FallenIsFound, Seen
    <3>1. Seen(p, t)
      BY <1>4, <2>2
    <3> QED BY <3>1 DEF VerdictSoFar, FallenIsFound
  <2> QED BY <2>1, <2>3, <2>4 DEF VerdictSoFar, InReportOrder
<1>6. CASE Violates(report[pkg].types[typ], min)
  <2>1. violations' = Append(violations, new)
    BY <1>6 DEF CheckType
  <2> DEFINE last == Len(violations) + 1
  <2>2. /\ Len(violations) \in Nat /\ DOMAIN violations = 1 .. Len(violations)
        /\ DOMAIN violations' = 1 .. last
        /\ \A n \in DOMAIN violations : violations'[n] = violations[n]
        /\ violations'[last] = new
    BY <1>3, <2>1
  <2>3. new[1] = pkg /\ new[2] = typ /\ new[3] = min /\ Falls(typ, pkg, min)
    BY <1>6, DecidingFells
  <2>4. \A n \in 1 .. last : n \in DOMAIN violations \/ n = last
    BY <2>2
  <2> HIDE DEF new, min, last
  <2>5. FoundFalls'
    <3> SUFFICES ASSUME NEW n \in DOMAIN violations'
                 PROVE  LET v == violations'[n] IN
                          /\ v[1] \in DOMAIN report /\ v[2] \in DOMAIN report[v[1]].types
                          /\ SeenNow(v[1], v[2]) /\ Falls(v[2], v[1], v[3])
      BY <1>1, <1>2 DEF FoundFalls, Seen
    <3>1. CASE n \in DOMAIN violations
      <4>1. /\ violations[n][1] \in DOMAIN report
            /\ violations[n][2] \in DOMAIN report[violations[n][1]].types
            /\ Seen(violations[n][1], violations[n][2])
            /\ Falls(violations[n][2], violations[n][1], violations[n][3])
        BY <3>1 DEF VerdictSoFar, FoundFalls
      <4>2. SeenNow(violations[n][1], violations[n][2])
        BY <1>4, <4>1
      <4>3. violations'[n] = violations[n]
        BY <2>2, <3>1
      <4> QED BY <4>1, <4>2, <4>3
    <3>2. CASE n = last
      <4>1. violations'[n] = new
        BY <2>2, <3>2
      <4>2. SeenNow(pkg, typ)
        BY <1>3, <1>4
      <4> QED BY <1>3, <2>3, <4>1, <4>2
    <3>3. n \in DOMAIN violations \/ n = last
      BY <2>2, <2>4
    <3> QED BY <3>1, <3>2, <3>3
  <2>6. FallenIsFound'
    <3> SUFFICES ASSUME NEW p \in DOMAIN report, NEW t \in DOMAIN report[p].types, SeenNow(p, t),
                        \E k \in DOMAIN rules : Falls(t, p, rules[k].min)
                 PROVE  \E n \in DOMAIN violations' : violations'[n][1] = p /\ violations'[n][2] = t
      BY <1>1, <1>2 DEF FallenIsFound, Seen
    <3>1. CASE Seen(p, t)
      <4>1. PICK n \in DOMAIN violations : violations[n][1] = p /\ violations[n][2] = t
        BY <3>1 DEF VerdictSoFar, FallenIsFound
      <4>2. n \in DOMAIN violations'
        BY <2>2 DEF last
      <4> QED BY <2>2, <4>1, <4>2
    <3>2. CASE p = pkg /\ t = typ
      <4>1. last \in DOMAIN violations'
        BY <2>2 DEF last
      <4> QED BY <2>2, <2>3, <3>2, <4>1
    <3> QED BY <1>4, <3>1, <3>2
  <2>7. InReportOrder'
    <3> SUFFICES ASSUME NEW m \in DOMAIN violations', NEW n \in DOMAIN violations', m < n
                 PROVE  \/ violations'[m][1] < violations'[n][1]
                        \/ /\ violations'[m][1] = violations'[n][1]
                           /\ violations'[m][2] < violations'[n][2]
      BY DEF InReportOrder
    <3>1. m \in DOMAIN violations
      BY <2>2 DEF last
    <3>2. CASE n \in DOMAIN violations
      BY <2>2, <3>1, <3>2 DEF VerdictSoFar, InReportOrder
    <3>3. CASE n = last
      <4>1. Seen(violations[m][1], violations[m][2])
        BY <3>1 DEF VerdictSoFar, FoundFalls
      <4> QED BY <2>2, <2>3, <3>1, <3>3, <4>1 DEF Seen
    <3> QED BY <2>2, <2>4, <3>2, <3>3
  <2> QED BY <2>5, <2>6, <2>7 DEF VerdictSoFar
<1> QED BY <1>5, <1>6

\* Every type of the package left behind was looked at, or no rule matches it.
LEMMA NextPackageVerdict == IInv /\ VerdictSoFar /\ NextPackage => VerdictSoFar'
<1> SUFFICES ASSUME IInv, VerdictSoFar, NextPackage PROVE VerdictSoFar'
  OBVIOUS
<1>1. UNCHANGED <<report, rules, violations>> /\ pkg' = pkg + 1 /\ typ' = 1
  BY DEF NextPackage
<1>2. \A t, p, m : Falls(t, p, m)' <=> Falls(t, p, m)
  BY <1>1, FallsStays
<1>3. report \in Reports /\ pkg \in DOMAIN report /\ pkg \in Nat /\ typ \in Nat \ {0}
  BY Position DEF NextPackage
<1>4. ASSUME NEW p \in DOMAIN report, NEW t \in DOMAIN report[p].types
      PROVE  /\ Seen(p, t) => Seen(p, t)'
             /\ Seen(p, t)' /\ ~Seen(p, t) => p = pkg /\ t >= typ
  <2>1. p \in Nat /\ t \in Nat \ {0}
    BY <1>3, <1>4, Numbered
  <2> QED BY <1>1, <1>3, <2>1 DEF Seen
<1>5. FoundFalls'
  BY <1>1, <1>2, <1>4 DEF VerdictSoFar, FoundFalls
<1>6. ASSUME NEW t \in DOMAIN report[pkg].types, t >= typ
      PROVE  \A m : ~Falls(t, pkg, m)
  <2>1. deciding = 0
    BY <1>3, <1>6, ReportType DEF IInv, ScanType, NextPackage
  <2>2. rule - 1 = Len(rules) /\ DOMAIN rules = 1 .. Len(rules) /\ pc = "scan"
    BY RulesType DEF IInv, ScanType, NextPackage
  <2>3. \A k \in DOMAIN rules : ~Matches(k, pkg)
    BY <2>1, <2>2 DEF IInv, BestSoFar
  <2> QED BY <2>3 DEF Falls, BestOf
<1>7. FallenIsFound'
  <2> SUFFICES ASSUME NEW p \in DOMAIN report, NEW t \in DOMAIN report[p].types, Seen(p, t)',
                      \E k \in DOMAIN rules : Falls(t, p, rules[k].min)
               PROVE  \E n \in DOMAIN violations : violations[n][1] = p /\ violations[n][2] = t
    BY <1>1, <1>2 DEF FallenIsFound
  <2>1. Seen(p, t)
    BY <1>4, <1>6
  <2> QED BY <2>1 DEF VerdictSoFar, FallenIsFound
<1> QED BY <1>1, <1>5, <1>7 DEF VerdictSoFar, InReportOrder

LEMMA StutterVerdict == VerdictSoFar /\ UNCHANGED vars => VerdictSoFar'
<1> SUFFICES ASSUME VerdictSoFar, UNCHANGED vars PROVE VerdictSoFar'
  OBVIOUS
<1>1. UNCHANGED <<report, rules, pkg, typ, violations>>
  BY DEF vars
<1>2. \A t, p, min : Falls(t, p, min)' <=> Falls(t, p, min)
  BY <1>1, FallsStays
<1> QED BY <1>1, <1>2 DEF VerdictSoFar, FoundFalls, FallenIsFound, InReportOrder, Seen

LEMMA NextVerdict == IInv /\ VerdictSoFar /\ [Next]_vars => VerdictSoFar'
BY StartPreserves, ConsiderRuleVerdict, CheckTypeVerdict, NextPackageVerdict, StutterVerdict
   DEF Next, Done

\* The scan keeps the best rule so far, and the verdict is right so far, at every
\* step of every execution.
THEOREM Invariance == Spec => [](IInv /\ VerdictSoFar)
BY InitInv, NextPreserves, NextVerdict, PTL DEF Spec

(***************************************************************************)
(* Whatever the rules, their order and the path: after the scan of a       *)
(* package the deciding rule is the one the documented order names, and    *)
(* none decides only when none matches (matchingRule, moreSpecific).       *)
(***************************************************************************)
THEOREM MostSpecificDecides == Spec => []DecidingRuleIsMostSpecific
<1>1. IInv => DecidingRuleIsMostSpecific
  <2> SUFFICES ASSUME IInv, pc = "scan", rule > Len(rules)
               PROVE  IF deciding = 0 THEN \A k \in DOMAIN rules : ~Matches(k, pkg)
                                      ELSE BestOf(deciding, Len(rules), pkg)
    BY DEF DecidingRuleIsMostSpecific
  <2>1. rule - 1 = Len(rules) /\ DOMAIN rules = 1 .. Len(rules)
    BY RulesType DEF IInv, ScanType
  <2> QED
    BY <2>1 DEF IInv, BestSoFar
<1> QED
  BY <1>1, Invariance, PTL
(***************************************************************************)
(* The matcher that tries every continuation of a double star matches a    *)
(* path exactly when the segments of the pattern cover it, for patterns    *)
(* and paths of any length (MatchPackage).                                 *)
(***************************************************************************)
THEOREM MatcherIsExact == Spec => []MatchIsCover
<1>1. IInv => MatchIsCover
  <2> SUFFICES ASSUME IInv, pc = "scan", rule <= Len(rules)
               PROVE  MatchPackage(rules[rule].pattern, report[pkg].path)
                        <=> Covers(rules[rule].pattern, report[pkg].path)
    BY DEF MatchIsCover
  <2>1. rules \in Seq(RuleType) /\ rule \in 1 .. Len(rules)
    BY RulesType DEF IInv, ScanType
  <2>2. rules[rule] \in RuleType
    BY <2>1
  <2>3. rules[rule].pattern \in Seq(Segment)
    BY <2>2 DEF RuleType
  <2>4. report[pkg].path \in Seq(Segment)
    BY ReportType DEF IInv, ScanType
  <2> QED BY <2>3, <2>4, MatchMeansCovers
<1> QED BY <1>1, Invariance, PTL

(***************************************************************************)
(* One violation for every type below the minimum of the rule that decides *)
(* for its own package, and no other, in the order of the report           *)
(* (Evaluate).                                                             *)
(***************************************************************************)
THEOREM VerdictExact == Spec => []VerdictIsExact
<1>1. IInv /\ VerdictSoFar => VerdictIsExact
  <2> SUFFICES ASSUME IInv, VerdictSoFar, pc = "done" PROVE VerdictIsExact
    BY DEF VerdictIsExact
  <2>1. \A p \in DOMAIN report : \A t : Seen(p, t)
    BY ReportType DEF IInv, ScanType, Seen
  <2> QED BY <2>1 DEF VerdictSoFar, FoundFalls, FallenIsFound, InReportOrder, VerdictIsExact
<1> QED BY <1>1, Invariance, PTL
=============================================================================
