--------------------------- MODULE AnalysisProofs ---------------------------
(***************************************************************************)
(* Proofs about Analysis for every set of package lists the loader may     *)
(* return: no stage reads a slot its pool did not fill, a cancellation     *)
(* before the metric pool's answer never ends in a report, an identifier   *)
(* names the type the source mentioned, the packages of a report are a     *)
(* function of the set of packages loaded, and its module is that of the   *)
(* one listed first.  All rest on what ParallelMap promises of an answer,  *)
(* and on no order of the workers.                                         *)
(***************************************************************************)
EXTENDS Analysis, SharedLemmas, SequenceTheorems

\* No stage reads a slot that is blank or another package's: once the extraction
\* pool has answered well every extract slot is its package's, and the report
\* is made of results that are each their package's, whatever the schedule.
SlotsAreFilled ==
  /\ pc \in {"assemble", "check", "metrics", "report"} =>
       \A i \in 0 .. Len(pkgs) - 1 : extracts[i + 1] = ExtractPackage(pkgs[i + 1])
  /\ pc = "report" =>
       \A i \in 0 .. Len(facts.packages) - 1 : results[i + 1] = AnalyzePackage(facts.packages[i + 1])

\* A pool has written the slot of every task it has finished, and no pool runs
\* before its stage.
ExtractInv ==
  /\ pc \in {"validate", "load"} => extracted = {}
  /\ \A i \in extracted :
       i + 1 \in DOMAIN extracts /\ extracts[i + 1] = ExtractPackage(pkgs[i + 1])
  /\ pc \in {"assemble", "check", "metrics", "report"} => extracted = 0 .. Len(pkgs) - 1

MetricInv ==
  /\ pc \in {"validate", "load", "extract", "assemble", "check"} => analyzed = {}
  /\ \A i \in analyzed :
       i + 1 \in DOMAIN results /\ results[i + 1] = AnalyzePackage(facts.packages[i + 1])
  /\ pc = "report" => analyzed = 0 .. Len(facts.packages) - 1

\* There is no answer before the call returns.
ResultInv == pc # "returned" => result.kind # "report"

-----------------------------------------------------------------------------
\* Run answers well only when the context is not done and every task is
\* finished (poolResult).
LEMMA ExtractAnswer ==
  ASSUME ExtractPool!Answer, AfterPool(extractOutcome', "assemble") # "failed"
  PROVE  ~canceled /\ extracted = 0 .. Len(pkgs) - 1
BY DEF ExtractPool!Answer, ExtractPool!CtxError, ExtractPool!TaskOf, AfterPool

\* The same of the metric stage's pool (packageWorkerConfig).
LEMMA MetricAnswer ==
  ASSUME MetricPool!Answer, AfterPool(metricOutcome', "report") # "failed"
  PROVE  ~canceled /\ analyzed = 0 .. Len(facts.packages) - 1
BY DEF MetricPool!Answer, MetricPool!CtxError, MetricPool!TaskOf, AfterPool, MetricTasks

\* Either way the next stage is the one named or the failure.
LEMMA AfterPoolIs ==
  ASSUME NEW o, NEW n PROVE AfterPool(o, n) \in {n, "failed"}
BY DEF AfterPool

\* What one finished task changes (extractWorker).
LEMMA ExtractStep ==
  ASSUME NEW i, Extract(i)
  PROVE  /\ extracted' = extracted \cup {i}
         /\ extracts' = [extracts EXCEPT ![i + 1] = ExtractPackage(pkgs[i + 1])]
         /\ i + 1 \in DOMAIN extracts /\ pc = "extract"
         /\ UNCHANGED <<pc, options, pkgs, facts, metricV, result, canceled>>
BY DEF Extract, ExtractPool!FinishTask, options, metricV

\* What one finished task changes (packageWorkerConfig's Fn).
LEMMA MeasureStep ==
  ASSUME NEW i, Measure(i)
  PROVE  /\ analyzed' = analyzed \cup {i}
         /\ results' = [results EXCEPT ![i + 1] = AnalyzePackage(facts.packages[i + 1])]
         /\ i + 1 \in DOMAIN results /\ pc = "metrics"
         /\ UNCHANGED <<pc, options, pkgs, facts, extractV, result, canceled>>
BY DEF Measure, MetricPool!FinishTask, options, extractV

-----------------------------------------------------------------------------
LEMMA ExtractInductive == ExtractInv /\ [Next]_vars => ExtractInv'
<1> SUFFICES ASSUME ExtractInv, [Next]_vars PROVE ExtractInv'
  OBVIOUS
<1> USE DEF ExtractInv
<1>1. CASE LoadPackages
  BY <1>1 DEF LoadPackages
<1>2. CASE ExtractSome
  <2>1. PICK i : Extract(i)
    BY <1>2 DEF ExtractSome
  <2>2. UNCHANGED <<pc, pkgs, includeGenerated>> /\ pc = "extract"
    BY <2>1, ExtractStep DEF options
  <2>3. ASSUME NEW j \in extracted'
        PROVE  j + 1 \in DOMAIN extracts' /\ extracts'[j + 1] = ExtractPackage(pkgs[j + 1])'
    <3>1. ExtractPackage(pkgs[j + 1])' = ExtractPackage(pkgs[j + 1])
      BY <2>2 DEF ExtractPackage
    <3> QED BY <2>1, <2>3, <3>1, ExtractStep
  <2> QED BY <2>2, <2>3
<1>3. CASE ExtractEnds
  <2>1. ExtractPool!Answer /\ pc' = AfterPool(extractOutcome', "assemble")
    BY <1>3 DEF ExtractEnds
  <2>2. UNCHANGED <<extracted, extracts, pkgs, includeGenerated>>
    BY <1>3 DEF ExtractEnds, ExtractPool!Answer, options
  <2>3. \A j : ExtractPackage(pkgs[j])' = ExtractPackage(pkgs[j])
    BY <2>2 DEF ExtractPackage
  <2>4. pc' = "failed" \/ (pc' = "assemble" /\ extracted = 0 .. Len(pkgs) - 1)
    BY <2>1, AfterPoolIs, ExtractAnswer
  <2> QED BY <2>2, <2>3, <2>4
<1>4. ASSUME UNCHANGED <<extractV, pkgs, options>>,
             pc' \in {"validate", "load"} => pc \in {"validate", "load"},
             pc' \in {"assemble", "check", "metrics", "report"} =>
               pc \in {"assemble", "check", "metrics", "report"}
      PROVE  ExtractInv'
  <2>1. \A j : ExtractPackage(pkgs[j])' = ExtractPackage(pkgs[j])
    BY <1>4 DEF ExtractPackage, options
  <2> QED BY <1>4, <2>1 DEF extractV
<1>5. CASE Validate \/ LoadFails
  BY <1>4, <1>5 DEF Validate, LoadFails
<1>6. CASE Assemble \/ StartMetrics
  BY <1>4, <1>6 DEF Assemble, StartMetrics
<1>7. CASE MeasureSome
  BY <1>4, <1>7, MeasureStep DEF MeasureSome
<1>8. CASE MetricsEnd
  <2>1. pc = "metrics" /\ pc' \in {"report", "failed"}
    BY <1>8, AfterPoolIs DEF MetricsEnd
  <2>2. UNCHANGED <<extractV, pkgs, options>>
    BY <1>8 DEF MetricsEnd, extractV
  <2> QED BY <1>4, <2>1, <2>2
<1>9. CASE ReturnReport \/ ReturnError \/ CancelContext \/ Returned
  BY <1>4, <1>9 DEF ReturnReport, ReturnError, CancelContext, Returned, vars
<1>10. CASE UNCHANGED vars
  BY <1>4, <1>10 DEF vars
<1> QED
  BY <1>1, <1>2, <1>3, <1>5, <1>6, <1>7, <1>8, <1>9, <1>10 DEF Next

LEMMA MetricInductive == MetricInv /\ [Next]_vars => MetricInv'
<1> SUFFICES ASSUME MetricInv, [Next]_vars PROVE MetricInv'
  OBVIOUS
<1> USE DEF MetricInv
<1>1. CASE StartMetrics
  <2>1. analyzed' = {} /\ pc' # "report"
    BY <1>1 DEF StartMetrics
  <2> QED BY <2>1
<1>2. CASE MeasureSome
  <2>1. PICK i : Measure(i)
    BY <1>2 DEF MeasureSome
  <2>2. UNCHANGED <<pc, facts>> /\ pc = "metrics"
    BY <2>1, MeasureStep
  <2>3. ASSUME NEW j \in analyzed'
        PROVE  /\ j + 1 \in DOMAIN results'
               /\ results'[j + 1] = AnalyzePackage(facts.packages[j + 1])'
    <3>1. AnalyzePackage(facts.packages[j + 1])' = AnalyzePackage(facts.packages[j + 1])
      BY <2>2 DEF AnalyzePackage
    <3> QED BY <2>1, <2>3, <3>1, MeasureStep
  <2> QED BY <2>2, <2>3
<1>3. CASE MetricsEnd
  <2>1. MetricPool!Answer /\ pc' = AfterPool(metricOutcome', "report")
    BY <1>3 DEF MetricsEnd
  <2>2. UNCHANGED <<analyzed, results, facts>>
    BY <1>3 DEF MetricsEnd, MetricPool!Answer
  <2>3. \A j : AnalyzePackage(facts.packages[j])' = AnalyzePackage(facts.packages[j])
    BY <2>2 DEF AnalyzePackage
  <2>4. pc' = "failed" \/ (pc' = "report" /\ analyzed = 0 .. Len(facts.packages) - 1)
    BY <2>1, AfterPoolIs, MetricAnswer
  <2> QED BY <2>2, <2>3, <2>4
<1>4. CASE Assemble
  <2>1. analyzed' = {} /\ pc' = "check"
    BY <1>4 DEF Assemble, metricV
  <2> QED BY <2>1
<1>5. ASSUME UNCHANGED <<metricV, facts>>,
             pc' \in {"validate", "load", "extract", "assemble", "check"} =>
               pc \in {"validate", "load", "extract", "assemble", "check"},
             pc' = "report" => pc = "report"
      PROVE  MetricInv'
  <2>1. \A j : AnalyzePackage(facts.packages[j])' = AnalyzePackage(facts.packages[j])
    BY <1>5 DEF AnalyzePackage
  <2> QED BY <1>5, <2>1 DEF metricV
<1>6. CASE Validate \/ LoadPackages \/ LoadFails
  BY <1>5, <1>6 DEF Validate, LoadPackages, LoadFails
<1>7. CASE ExtractSome
  BY <1>5, <1>7, ExtractStep DEF ExtractSome
<1>8. CASE ExtractEnds
  <2>1. pc = "extract" /\ pc' \in {"assemble", "failed"}
    BY <1>8, AfterPoolIs DEF ExtractEnds
  <2>2. UNCHANGED <<metricV, facts>>
    BY <1>8 DEF ExtractEnds
  <2> QED BY <1>5, <2>1, <2>2
<1>9. CASE ReturnReport \/ ReturnError \/ CancelContext \/ Returned
  BY <1>5, <1>9 DEF ReturnReport, ReturnError, CancelContext, Returned, vars
<1>10. CASE UNCHANGED vars
  BY <1>5, <1>10 DEF vars
<1> QED
  BY <1>1, <1>2, <1>3, <1>4, <1>6, <1>7, <1>8, <1>9, <1>10 DEF Next

LEMMA Inductive == Spec => [](ExtractInv /\ MetricInv)
<1>1. Init => ExtractInv /\ MetricInv
  BY DEF Init, ExtractInv, MetricInv
<1> QED BY <1>1, ExtractInductive, MetricInductive, PTL DEF Spec

\* Whatever the order in which workers finish and whenever the context is
\* canceled, assembly reads every package's own extract and the report is
\* made of every package's own result.
THEOREM SlotsFilled == Spec => []SlotsAreFilled
<1>1. ExtractInv /\ MetricInv => SlotsAreFilled
  BY DEF ExtractInv, MetricInv, SlotsAreFilled
<1> QED BY <1>1, Inductive, PTL

-----------------------------------------------------------------------------
LEMMA ResultInductive == ResultInv /\ [Next]_vars => ResultInv'
BY MeasureStep, ExtractStep
DEF ResultInv, Next, Validate, LoadPackages, LoadFails, ExtractSome, ExtractEnds, Assemble,
    StartMetrics, MeasureSome, MetricsEnd, ReturnReport, ReturnError, CancelContext, Returned, vars

\* A context that is done before the metric pool's answer never ends in a
\* report: the check before the metric stage and the pools' answers see it.
THEOREM CanceledIsNotReported == Spec => NoReportAfterCancellation
<1> DEFINE Gone == canceled /\ pc \notin {"report", "returned"}
           NoReport == result.kind # "report"
           Lost == canceled /\ pc # "report" /\ NoReport
<1>1. Init => ResultInv
  BY DEF Init, ResultInv, Pending
<1>2. ResultInv /\ Gone => Lost
  BY DEF ResultInv
<1>3. Lost /\ [Next]_vars => Lost'
  <2> SUFFICES ASSUME Lost, [Next]_vars PROVE Lost'
    OBVIOUS
  <2>1. CASE ExtractSome
    BY <2>1, ExtractStep DEF ExtractSome
  <2>2. CASE MeasureSome
    BY <2>2, MeasureStep DEF MeasureSome
  <2>3. CASE ExtractEnds
    BY <2>3, AfterPoolIs DEF ExtractEnds, ExtractPool!Answer
  <2>4. CASE MetricsEnd
    BY <2>4, AfterPoolIs, MetricAnswer DEF MetricsEnd, MetricPool!Answer
  <2>5. CASE Validate \/ ReturnError
    <3>1. Fail("config").kind # "report" /\ Fail("analysis").kind # "report"
      BY DEF Fail
    <3>2. result' \in {result, Fail("config"), Fail("analysis")}
      BY <2>5 DEF Validate, ReturnError
    <3>3. canceled' = canceled /\ pc' # "report"
      BY <2>5 DEF Validate, ReturnError
    <3> QED BY <3>1, <3>2, <3>3
  <2>6. CASE LoadPackages \/ LoadFails \/ Assemble \/ StartMetrics
    BY <2>6 DEF LoadPackages, LoadFails, Assemble, StartMetrics
  <2>7. CASE ReturnReport \/ CancelContext \/ Returned \/ UNCHANGED vars
    BY <2>7 DEF ReturnReport, CancelContext, Returned, vars
  <2> QED BY <2>1, <2>2, <2>3, <2>4, <2>5, <2>6, <2>7 DEF Next
<1>4. Lost => NoReport
  OBVIOUS
<1>5. Spec => [](Gone => []NoReport)
  <2> HIDE DEF Lost, Gone, NoReport
  <2> QED BY <1>1, <1>2, <1>3, <1>4, ResultInductive, PTL DEF Spec
<1> QED BY <1>5 DEF NoReportAfterCancellation

-----------------------------------------------------------------------------
\* Offsets depend on the lengths alone, and on no sequence behind.
LEMMA OffsetsAgree ==
  ASSUME NEW O, NEW Q, NEW ss, NEW tt, IsOffsets(O, ss), IsOffsets(Q, tt),
         NEW m \in Nat, NEW n \in Nat, Len(ss) = n, Len(tt) = m, m <= n,
         \A p \in 1 .. m : Len(tt[p]) = Len(ss[p])
  PROVE  \A p \in 0 .. m : Q[p] = O[p]
<1> DEFINE Same == {p \in 0 .. m : Q[p] = O[p]}
<1>1. 0 \in Same
  BY DEF IsOffsets
<1>2. ASSUME NEW p \in 0 .. m - 1, p \in Same PROVE p + 1 \in Same
  <2>1. p + 1 \in 1 .. m /\ p + 1 \in 1 .. n /\ (p + 1) - 1 = p /\ p + 1 \in 0 .. m
    OBVIOUS
  <2>2. Q[p + 1] = Q[p] + Len(tt[p + 1]) /\ O[p + 1] = O[p] + Len(ss[p + 1])
    BY <2>1 DEF IsOffsets
  <2> QED BY <1>2, <2>1, <2>2
<1>3. 0 .. m \subseteq Same
  <2> HIDE DEF Same
  <2> QED BY <1>1, <1>2, UpTo
<1> QED BY <1>3

\* Every place is that of some element of some sequence.
IsPlace(n, O, ss) ==
  \E p \in 1 .. Len(ss) : \E t \in 1 .. Len(ss[p]) : n = O[p - 1] + t

LEMMA OffsetsSplit ==
  ASSUME NEW O, NEW ss, IsOffsets(O, ss), NEW N \in Nat, Len(ss) = N,
         \A p \in 1 .. N : Len(ss[p]) \in Nat
  PROVE  \A n \in 1 .. O[N] : IsPlace(n, O, ss)
<1> SUFFICES ASSUME NEW n \in 1 .. O[N]
             PROVE  \E p \in 1 .. N : \E t \in 1 .. Len(ss[p]) : n = O[p - 1] + t
  BY DEF IsPlace
<1>1. O[N] \in Nat /\ N \in 0 .. N
  BY DEF IsOffsets
<1> DEFINE Above == {p \in 0 .. N : n <= O[p]}
<1>2. Above \subseteq Nat /\ Above # {}
  BY <1>1
<1>3. PICK p \in Above : \A q \in Above : p <= q
  <2> HIDE DEF Above
  <2> QED BY <1>2, LeastElement
<1>4. p \in 0 .. N /\ n <= O[p] /\ p # 0
  BY <1>3 DEF IsOffsets
<1>5. p - 1 \in 0 .. N /\ p \in 1 .. N /\ p - 1 \notin Above
  BY <1>3, <1>4
<1>6. O[p - 1] \in Nat /\ O[p] = O[p - 1] + Len(ss[p]) /\ Len(ss[p]) \in Nat
  BY <1>5 DEF IsOffsets
<1>7. n - O[p - 1] \in 1 .. Len(ss[p]) /\ n = O[p - 1] + (n - O[p - 1])
  BY <1>4, <1>5, <1>6
<1> QED BY <1>5, <1>7

-----------------------------------------------------------------------------
LEMMA MergePackageType ==
  ASSUME NEW order \in Seq(PackageType), NEW p \in PackageType
  PROVE  MergePackage(order, p) \in Seq(PackageType)
<1> DEFINE Place(k) == IF order[k].path = p.path /\ p.files > order[k].files THEN p ELSE order[k]
<1>1. Append(order, p) \in Seq(PackageType)
  BY AppendProperties
<1>2. [k \in DOMAIN order |-> Place(k)] \in Seq(PackageType)
  <2>1. DOMAIN order = 1 .. Len(order) /\ Len(order) \in Nat
    BY LenProperties
  <2>2. \A k \in 1 .. Len(order) : order[k] \in PackageType
    BY ElementOfSeq
  <2>3. \A k \in 1 .. Len(order) : Place(k) \in PackageType
    BY <2>2
  <2> HIDE DEF Place
  <2>4. [k \in 1 .. Len(order) |-> Place(k)] \in Seq(PackageType)
    BY <2>1, <2>3, IsASeq
  <2> QED BY <2>1, <2>4
<1> QED BY <1>1, <1>2 DEF MergePackage

\* Dedupe goes through the list from its first package to its last.
LEMMA DedupeUnfolds ==
  ASSUME NEW l \in Seq(PackageType)
  PROVE  \E order \in [0 .. Len(l) -> Seq(PackageType)] :
           /\ order[0] = <<>>
           /\ \A n \in 1 .. Len(l) : order[n] = MergePackage(order[n - 1], l[n])
           /\ Dedupe(l) = order[Len(l)]
<1> DEFINE N == Len(l)
           V == Seq(PackageType)
           Row(f, n) == IF n = 0 THEN <<>> ELSE MergePackage(f[n - 1], l[n])
           Solves(f) == f = [n \in 0 .. N |-> Row(f, n)]
           step == [x \in (1 .. N) \X V |-> MergePackage(x[2], l[x[1]])]
<1>1. N \in Nat /\ <<>> \in V /\ \A n \in 1 .. N : l[n] \in PackageType
  OBVIOUS
<1>2. step \in [(1 .. N) \X V -> V]
  <2> SUFFICES ASSUME NEW x \in (1 .. N) \X V PROVE MergePackage(x[2], l[x[1]]) \in V
    OBVIOUS
  <2>1. x[1] \in 1 .. N /\ x[2] \in V /\ l[x[1]] \in PackageType
    BY <1>1
  <2> QED BY <2>1, MergePackageType
<1> HIDE DEF step, N
<1>3. PICK h : IsHistory(h, N, V, <<>>, step)
  BY <1>1, <1>2, Iteration
<1>4. h \in [0 .. N -> V] /\ h[0] = <<>> /\ \A n \in 1 .. N : h[n] = step[<<n, h[n - 1]>>]
  BY <1>3 DEF IsHistory
<1>5. \A n \in 1 .. N : n - 1 \in 0 .. N /\ n # 0
  BY <1>1
<1>6. \A n \in 1 .. N : h[n] = MergePackage(h[n - 1], l[n])
  <2> SUFFICES ASSUME NEW n \in 1 .. N PROVE h[n] = MergePackage(h[n - 1], l[n])
    OBVIOUS
  <2>1. <<n, h[n - 1]>> \in (1 .. N) \X V
    BY <1>4, <1>5
  <2>2. step[<<n, h[n - 1]>>] = MergePackage(h[n - 1], l[n])
    BY <2>1 DEF step
  <2> QED BY <1>4, <2>2
<1>7. \A n \in 0 .. N : h[n] = Row(h, n)
  BY <1>1, <1>4, <1>5, <1>6
<1>8. Solves(h)
  <2> HIDE DEF Row
  <2> QED BY <1>4, <1>7
<1> DEFINE F == CHOOSE f : Solves(f)
<1>9. Solves(F)
  <2> HIDE DEF Solves
  <2> QED BY <1>8
<1>10. Dedupe(l) = F[N]
  BY DEF Dedupe, N
<1> HIDE DEF F
<1>11. \A n \in 0 .. N : F[n] = Row(F, n)
  BY <1>9
<1> DEFINE Same == {m \in 0 .. N : F[m] = h[m]}
<1>12. 0 \in Same
  BY <1>1, <1>4, <1>11
<1>13. ASSUME NEW m \in 0 .. N - 1, m \in Same PROVE m + 1 \in Same
  <2>1. m + 1 \in 1 .. N /\ m + 1 \in 0 .. N /\ m + 1 # 0 /\ (m + 1) - 1 = m
    BY <1>1
  <2>2. h[m + 1] = MergePackage(h[m], l[m + 1])
    BY <1>6, <2>1
  <2>3. F[m + 1] = MergePackage(F[m], l[m + 1])
    BY <1>11, <2>1
  <2>4. F[m] = h[m]
    BY <1>13
  <2> QED BY <2>1, <2>2, <2>3, <2>4
<1>14. 0 .. N \subseteq Same
  <2> HIDE DEF Same
  <2> QED BY <1>1, <1>12, <1>13, UpTo
<1>15. Dedupe(l) = h[N]
  BY <1>1, <1>10, <1>14
<1> QED BY <1>4, <1>6, <1>15 DEF N

\* order is what Dedupe has kept of the first n packages of the list: of each path
\* one package, and none with fewer files than another of the path.
Deduped(order, l, n) ==
  /\ order \in Seq(PackageType)
  /\ \A i, j \in DOMAIN order : order[i].path = order[j].path => i = j
  /\ \A k \in DOMAIN order :
       /\ \E m \in 1 .. n : order[k] = l[m]
       /\ ~order[k].testMain
       /\ \A m \in 1 .. n : ~l[m].testMain /\ l[m].path = order[k].path => l[m].files <= order[k].files
  /\ \A m \in 1 .. n : ~l[m].testMain => \E k \in DOMAIN order : order[k].path = l[m].path

\* The packages kept are in the order in which their paths were first listed.
PathBefore(l, n, a, b) ==
  \E m \in 1 .. n :
    ~l[m].testMain /\ l[m].path = a /\ \A k \in 1 .. m : ~l[k].testMain => l[k].path # b

InListOrder(order, l, n) ==
  \A i, j \in DOMAIN order : i < j => PathBefore(l, n, order[i].path, order[j].path)

LEMMA MergeKeepsDeduped ==
  ASSUME NEW l \in Seq(PackageType), NEW n \in 0 .. Len(l) - 1, NEW order, Deduped(order, l, n)
  PROVE  Deduped(MergePackage(order, l[n + 1]), l, n + 1)
<1> DEFINE p == l[n + 1]
           new == MergePackage(order, p)
<1>1. n \in Nat /\ p \in PackageType /\ n + 1 \in 1 .. n + 1
  <2>1. Len(l) \in Nat
    OBVIOUS
  <2>2. n \in Nat /\ n + 1 \in 1 .. Len(l)
    BY <2>1
  <2> QED BY <2>2, ElementOfSeq
<1>2. order \in Seq(PackageType) /\ DOMAIN order = 1 .. Len(order) /\ Len(order) \in Nat
  BY LenProperties DEF Deduped
<1>3. new \in Seq(PackageType)
  BY <1>1, <1>2, MergePackageType
<1>4. \A m \in 1 .. n + 1 : m \in 1 .. n \/ m = n + 1
  BY <1>1
<1>5. \A m \in 1 .. n : m \in 1 .. n + 1
  BY <1>1
<1>6. p.files \in Int /\ p.path \in Int /\ p.testMain \in BOOLEAN
  BY <1>1 DEF PackageType
<1>7. \A k \in DOMAIN order : order[k].files \in Int
  <2>1. \A k \in DOMAIN order : order[k] \in PackageType
    BY <1>2, ElementOfSeq
  <2> QED BY <2>1 DEF PackageType
<1>8. CASE p.testMain
  <2>1. new = order
    BY <1>8 DEF MergePackage
  <2> HIDE DEF p, new
  <2>2. Deduped(order, l, n + 1)
    BY <1>4, <1>5, <1>8 DEF Deduped, p
  <2> QED BY <2>1, <2>2 DEF p, new
<1>9. CASE ~p.testMain /\ \A k \in DOMAIN order : order[k].path # p.path
  <2>1. new = Append(order, p)
    BY <1>9 DEF MergePackage
  <2>2. /\ DOMAIN new = 1 .. Len(order) + 1
        /\ \A k \in DOMAIN order : new[k] = order[k]
        /\ new[Len(order) + 1] = p
    BY <1>1, <1>2, <2>1, AppendProperties, LenProperties
  <2>3. \A k \in DOMAIN new : (k \in DOMAIN order /\ new[k] = order[k]) \/ (k = Len(order) + 1 /\ new[k] = p)
    BY <1>2, <2>2
  <2>4. \A k \in DOMAIN order : k \in DOMAIN new
    BY <1>2, <2>2
  <2>5. Len(order) + 1 \in DOMAIN new
    BY <1>2, <2>2
  <2> HIDE DEF p, new
  <2>6. \A i, j \in DOMAIN new : new[i].path = new[j].path => i = j
    BY <1>9, <2>3 DEF Deduped
  <2>7. ASSUME NEW k \in DOMAIN new
        PROVE  /\ \E m \in 1 .. n + 1 : new[k] = l[m]
               /\ ~new[k].testMain
               /\ \A m \in 1 .. n + 1 : ~l[m].testMain /\ l[m].path = new[k].path => l[m].files <= new[k].files
    <3>1. CASE k \in DOMAIN order /\ new[k] = order[k]
      BY <1>4, <1>5, <1>9, <3>1 DEF Deduped, p
    <3>2. CASE new[k] = p
      <4>1. \A m \in 1 .. n : ~l[m].testMain => l[m].path # p.path
        BY <1>9 DEF Deduped
      <4> QED BY <1>1, <1>4, <1>6, <1>9, <3>2, <4>1 DEF p
    <3> QED BY <2>3, <3>1, <3>2
  <2>8. \A m \in 1 .. n + 1 : ~l[m].testMain => \E k \in DOMAIN new : new[k].path = l[m].path
    BY <1>4, <2>2, <2>4, <2>5 DEF Deduped, p
  <2> QED BY <1>3, <2>6, <2>7, <2>8 DEF Deduped, p, new
<1>10. CASE ~p.testMain /\ \E k \in DOMAIN order : order[k].path = p.path
  <2>1. /\ DOMAIN new = DOMAIN order
        /\ \A k \in DOMAIN order :
             new[k] = IF order[k].path = p.path /\ p.files > order[k].files THEN p ELSE order[k]
    BY <1>10 DEF MergePackage
  <2> HIDE DEF p, new
  <2>2. \A k \in DOMAIN order : new[k].path = order[k].path
    BY <2>1
  <2>3. \A i, j \in DOMAIN new : new[i].path = new[j].path => i = j
    BY <2>1, <2>2 DEF Deduped
  <2>4. ASSUME NEW k \in DOMAIN new
        PROVE  /\ \E m \in 1 .. n + 1 : new[k] = l[m]
               /\ ~new[k].testMain
               /\ \A m \in 1 .. n + 1 : ~l[m].testMain /\ l[m].path = new[k].path => l[m].files <= new[k].files
    <3>1. k \in DOMAIN order /\ order[k].files \in Int
      BY <1>7, <2>1
    <3>2. /\ ~order[k].testMain /\ \E m \in 1 .. n : order[k] = l[m]
          /\ \A m \in 1 .. n : ~l[m].testMain /\ l[m].path = order[k].path => l[m].files <= order[k].files
      BY <3>1 DEF Deduped
    <3>3. CASE order[k].path = p.path /\ p.files > order[k].files
      <4>1. new[k] = p
        BY <2>1, <3>1, <3>3
      <4>2. \A m \in 1 .. n : l[m].files \in Int
        <5>1. \A m \in 1 .. n : m \in 1 .. Len(l)
          BY <1>1
        <5>2. \A m \in 1 .. n : l[m] \in PackageType
          BY <5>1, ElementOfSeq
        <5> QED BY <5>2, SMTT(30) DEF PackageType
      <4>3. ASSUME NEW m \in 1 .. n, ~l[m].testMain, l[m].path = p.path PROVE l[m].files <= p.files
        <5>1. l[m].files <= order[k].files
          BY <3>2, <3>3, <4>3
        <5> QED BY <1>6, <3>1, <3>3, <4>2, <5>1
      <4> QED BY <1>1, <1>4, <1>6, <1>10, <4>1, <4>3 DEF p
    <3>4. CASE ~(order[k].path = p.path /\ p.files > order[k].files)
      <4>1. new[k] = order[k]
        BY <2>1, <3>1, <3>4
      <4>2. p.path = order[k].path => p.files <= order[k].files
        BY <1>6, <3>1, <3>4
      <4> QED BY <1>4, <1>5, <3>2, <4>1, <4>2 DEF p
    <3> QED BY <3>3, <3>4
  <2>5. \A m \in 1 .. n + 1 : ~l[m].testMain => \E k \in DOMAIN new : new[k].path = l[m].path
    BY <1>4, <1>10, <2>1, <2>2 DEF Deduped, p
  <2> QED BY <1>3, <2>3, <2>4, <2>5 DEF Deduped, p, new
<1> QED BY <1>6, <1>8, <1>9, <1>10

LEMMA MergeKeepsListOrder ==
  ASSUME NEW l \in Seq(PackageType), NEW n \in 0 .. Len(l) - 1, NEW order, Deduped(order, l, n),
         InListOrder(order, l, n)
  PROVE  InListOrder(MergePackage(order, l[n + 1]), l, n + 1)
<1> DEFINE p == l[n + 1]
           new == MergePackage(order, p)
<1>1. n \in Nat /\ \A m \in 1 .. n : m \in 1 .. n + 1 /\ \A k \in 1 .. m : k \in 1 .. n
  <2>1. Len(l) \in Nat
    OBVIOUS
  <2> QED BY <2>1
<1>2. order \in Seq(PackageType) /\ DOMAIN order = 1 .. Len(order) /\ Len(order) \in Nat
  BY LenProperties DEF Deduped
<1>3. p \in PackageType
  <2>1. n + 1 \in 1 .. Len(l)
    BY <1>1
  <2> QED BY <2>1, ElementOfSeq
<1>4. \A a, b : PathBefore(l, n, a, b) => PathBefore(l, n + 1, a, b)
  BY <1>1 DEF PathBefore
<1> HIDE DEF p, new
<1>5. CASE new = order
  BY <1>4, <1>5 DEF InListOrder, p, new
<1>6. CASE new = Append(order, p) /\ ~p.testMain /\ \A k \in DOMAIN order : order[k].path # p.path
  <2>1. /\ DOMAIN new = 1 .. Len(order) + 1
        /\ \A k \in DOMAIN order : new[k] = order[k]
        /\ new[Len(order) + 1] = p
    BY <1>2, <1>3, <1>6, AppendProperties, LenProperties
  <2>2. \A m \in 1 .. n : ~l[m].testMain => l[m].path # p.path
    BY <1>6 DEF Deduped
  <2>3. ASSUME NEW i \in DOMAIN order PROVE PathBefore(l, n, order[i].path, p.path)
    <3>1. PICK m \in 1 .. n : order[i] = l[m]
      BY DEF Deduped
    <3>2. ~l[m].testMain
      BY <3>1 DEF Deduped
    <3> QED BY <1>1, <2>2, <3>1, <3>2 DEF PathBefore
  <2>4. ASSUME NEW i \in DOMAIN new, NEW j \in DOMAIN new, i < j
        PROVE  PathBefore(l, n + 1, new[i].path, new[j].path)
    <3>1. i \in DOMAIN order /\ (j \in DOMAIN order \/ j = Len(order) + 1)
      BY <1>2, <2>1, <2>4
    <3>2. CASE j \in DOMAIN order
      BY <1>4, <2>1, <2>4, <3>1, <3>2 DEF InListOrder
    <3>3. CASE j = Len(order) + 1
      BY <1>4, <2>1, <2>3, <3>1, <3>3
    <3> QED BY <3>1, <3>2, <3>3
  <2> QED BY <2>4 DEF InListOrder, p, new
<1>7. CASE DOMAIN new = DOMAIN order /\ \A k \in DOMAIN order : new[k].path = order[k].path
  BY <1>4, <1>7 DEF InListOrder, p, new
<1>8. CASE p.testMain
  BY <1>5, <1>8 DEF MergePackage, new
<1>9. CASE ~p.testMain /\ \A k \in DOMAIN order : order[k].path # p.path
  BY <1>6, <1>9 DEF MergePackage, new
<1>10. CASE ~p.testMain /\ \E k \in DOMAIN order : order[k].path = p.path
  <2>1. /\ DOMAIN new = DOMAIN order
        /\ \A k \in DOMAIN order :
             new[k] = IF order[k].path = p.path /\ p.files > order[k].files THEN p ELSE order[k]
    BY <1>10 DEF MergePackage, new
  <2> QED BY <1>7, <2>1
<1>11. p.testMain \in BOOLEAN
  BY <1>3 DEF PackageType
<1> QED BY <1>8, <1>9, <1>10, <1>11

LEMMA DedupeIs ==
  ASSUME NEW l \in Seq(PackageType)
  PROVE  Deduped(Dedupe(l), l, Len(l)) /\ InListOrder(Dedupe(l), l, Len(l))
<1> DEFINE N == Len(l)
<1>1. N \in Nat
  OBVIOUS
<1>2. PICK order \in [0 .. N -> Seq(PackageType)] :
        /\ order[0] = <<>>
        /\ \A n \in 1 .. N : order[n] = MergePackage(order[n - 1], l[n])
        /\ Dedupe(l) = order[N]
  BY DedupeUnfolds
<1> DEFINE Good == {n \in 0 .. N : Deduped(order[n], l, n) /\ InListOrder(order[n], l, n)}
<1>3. 0 \in Good
  <2>1. Deduped(<<>>, l, 0) /\ InListOrder(<<>>, l, 0)
    BY DEF Deduped, InListOrder
  <2> QED BY <1>1, <1>2, <2>1
<1>4. ASSUME NEW n \in 0 .. N - 1, n \in Good PROVE n + 1 \in Good
  <2>1. n + 1 \in 1 .. N /\ n + 1 \in 0 .. N /\ (n + 1) - 1 = n
    BY <1>1
  <2>2. order[n + 1] = MergePackage(order[n], l[n + 1])
    BY <1>2, <2>1
  <2>3. /\ Deduped(MergePackage(order[n], l[n + 1]), l, n + 1)
        /\ InListOrder(MergePackage(order[n], l[n + 1]), l, n + 1)
    BY <1>4, MergeKeepsDeduped, MergeKeepsListOrder
  <2> QED BY <2>1, <2>2, <2>3
<1>5. 0 .. N \subseteq Good
  <2> HIDE DEF Good, N
  <2> QED BY <1>1, <1>3, <1>4, UpTo
<1> QED BY <1>1, <1>2, <1>5

\* The packages analysed are those Selected names, in the order in which their paths
\* were listed: merging and filtering lose none, take none for another, none twice,
\* and move none.
LEMMA SelectionIs ==
  ASSUME loaded \in Loads, pkgs = SelectPackages(loaded), pkgs # <<>>
  PROVE  /\ pkgs \in Seq(PackageType)
         /\ \A i, j \in DOMAIN pkgs : pkgs[i].path = pkgs[j].path => i = j
         /\ \A k \in DOMAIN pkgs : pkgs[k] \in Selected
         /\ \A p \in Selected : \E k \in DOMAIN pkgs : pkgs[k] = p
         /\ \A i, j \in DOMAIN pkgs : i < j => ListedBefore(pkgs[i], pkgs[j])
<1> DEFINE L == Len(loaded)
           D == Dedupe(loaded)
           Sound == {p \in Range(D) : ~p.broken}
<1>1. loaded \in Seq(PackageType) /\ DOMAIN loaded = 1 .. L /\ L \in Nat
  BY LoadsAssumption, LenProperties
<1>2. Deduped(D, loaded, L) /\ InListOrder(D, loaded, L)
  BY <1>1, DedupeIs
<1> HIDE DEF D
<1>3. D \in Seq(PackageType) /\ DOMAIN D = 1 .. Len(D) /\ Len(D) \in Nat /\ D \in [1 .. Len(D) -> PackageType]
  BY <1>2, LenProperties DEF Deduped
<1>4. pkgs = Keep(D, Sound)
  BY DEF SelectPackages, D
<1> DEFINE n == Len(D)
<1>5. PICK N \in Nat : \E pos \in [1 .. N -> 1 .. n] :
        /\ pkgs = [i \in 1 .. N |-> D[pos[i]]]
        /\ \A i, j \in 1 .. N : i < j => pos[i] < pos[j]
        /\ \A m \in 1 .. n : D[m] \in Sound <=> \E i \in 1 .. N : pos[i] = m
  <2>1. n \in Nat /\ D \in [1 .. n -> PackageType]
    BY <1>3
  <2> HIDE DEF Sound, n
  <2>2. IsKept(Keep(D, Sound), D, n, Sound)
    BY <2>1, KeepIs
  <2> QED BY <1>4, <2>2, ZenonT(60) DEF IsKept
<1>6. PICK pos \in [1 .. N -> 1 .. n] :
        /\ pkgs = [i \in 1 .. N |-> D[pos[i]]]
        /\ \A i, j \in 1 .. N : i < j => pos[i] < pos[j]
        /\ \A m \in 1 .. n : D[m] \in Sound <=> \E i \in 1 .. N : pos[i] = m
  BY <1>5
<1>7. \A m \in 1 .. n : D[m] \in PackageType /\ (D[m] \in Sound <=> ~D[m].broken)
  <2>1. \A m \in 1 .. n : D[m] \in PackageType /\ D[m] \in Range(D)
    BY <1>3 DEF Range
  <2> QED BY <2>1
<1> HIDE DEF Sound, n
<1>8. DOMAIN pkgs = 1 .. N /\ \A i \in 1 .. N : pkgs[i] = D[pos[i]] /\ pos[i] \in 1 .. n
  BY <1>6
<1>9. pkgs \in Seq(PackageType)
  <2>1. \A i \in 1 .. N : D[pos[i]] \in PackageType
    BY <1>7, <1>8
  <2> QED BY <1>6, <2>1, IsASeq
<1>10. \A i, j \in DOMAIN pkgs : pkgs[i].path = pkgs[j].path => i = j
  <2> SUFFICES ASSUME NEW i \in 1 .. N, NEW j \in 1 .. N, pkgs[i].path = pkgs[j].path, i # j
               PROVE  FALSE
    BY <1>8
  <2>1. pos[i] = pos[j]
    BY <1>2, <1>3, <1>8 DEF Deduped, n
  <2>2. i < j \/ j < i
    OBVIOUS
  <2>3. pos[i] < pos[j] \/ pos[j] < pos[i]
    BY <1>6, <2>2
  <2>4. pos[i] \in Int /\ pos[j] \in Int
    BY <1>8
  <2> QED BY <2>1, <2>3, <2>4
<1>11. ASSUME NEW k \in DOMAIN pkgs PROVE pkgs[k] \in Selected
  <2>1. pos[k] \in 1 .. n /\ pkgs[k] = D[pos[k]] /\ ~D[pos[k]].broken
    BY <1>6, <1>7, <1>8
  <2>2. PICK m \in 1 .. L : D[pos[k]] = loaded[m]
    BY <1>2, <1>3, <2>1 DEF Deduped, n
  <2>3. ~pkgs[k].testMain /\ \A q \in 1 .. L :
          ~loaded[q].testMain /\ loaded[q].path = pkgs[k].path => loaded[q].files <= pkgs[k].files
    BY <1>2, <1>3, <2>1 DEF Deduped, n
  <2>4. pkgs[k] \in Range(loaded)
    BY <1>1, <2>1, <2>2 DEF Range
  <2>5. \A q \in Range(loaded) : ~q.testMain /\ q.path = pkgs[k].path => q.files <= pkgs[k].files
    BY <1>1, <2>3 DEF Range
  <2> QED BY <2>1, <2>3, <2>4, <2>5 DEF Selected
<1>12. ASSUME NEW p \in Selected PROVE \E k \in DOMAIN pkgs : pkgs[k] = p
  <2>1. /\ p \in Range(loaded) /\ ~p.testMain /\ ~p.broken
        /\ \A q \in Range(loaded) : ~q.testMain /\ q.path = p.path => q.files <= p.files
    BY DEF Selected
  <2>2. PICK m \in 1 .. L : p = loaded[m]
    BY <1>1, <2>1 DEF Range
  <2>3. PICK d \in 1 .. n : D[d].path = p.path
    BY <1>2, <1>3, <2>1, <2>2 DEF Deduped, n
  <2>4. ~D[d].testMain /\ p.files <= D[d].files /\ \E x \in 1 .. L : D[d] = loaded[x]
    BY <1>2, <1>3, <2>1, <2>2, <2>3 DEF Deduped, n
  <2>5. D[d] \in Range(loaded)
    BY <1>1, <2>4 DEF Range
  <2>6. D[d].files <= p.files
    BY <2>1, <2>3, <2>4, <2>5
  <2>7. D[d].files \in Int /\ p.files \in Int
    <3>1. D[d] \in PackageType /\ p \in PackageType
      BY <1>1, <1>7, <2>2, ElementOfSeq
    <3> QED BY <3>1 DEF PackageType
  <2>8. D[d] = p
    BY <2>1, <2>3, <2>4, <2>5, <2>6, <2>7, LoadsAssumption
  <2>9. PICK k \in 1 .. N : pos[k] = d
    BY <1>6, <1>7, <2>1, <2>8
  <2> QED BY <1>8, <2>8, <2>9
<1>13. ASSUME NEW i \in DOMAIN pkgs, NEW j \in DOMAIN pkgs, i < j
       PROVE  ListedBefore(pkgs[i], pkgs[j])
  <2>1. /\ pos[i] \in DOMAIN D /\ pos[j] \in DOMAIN D
        /\ pkgs[i] = D[pos[i]] /\ pkgs[j] = D[pos[j]]
    BY <1>3, <1>8 DEF n
  <2>2. pos[i] < pos[j]
    BY <1>6, <1>8, <1>13
  <2>3. PathBefore(loaded, L, pkgs[i].path, pkgs[j].path)
    BY <1>2, <2>1, <2>2 DEF InListOrder
  <2> QED BY <1>1, <2>3 DEF PathBefore, ListedBefore
<1> QED BY <1>9, <1>10, <1>11, <1>12, <1>13

\* module is the one the report of the loaded list is to name.
ModuleRight(module) ==
  LET mains == {p \in Selected : p.module.main}
      owned == {p \in Selected : p.module # NoModule}
  IN /\ mains # {} => NamesFirst(module, mains)
     /\ mains = {} /\ owned # {} => NamesFirst(module, owned)
     /\ owned = {} => module = NoModule.path

\* Of some of the packages selected the first is the one whose path is listed first.
LEMMA FirstIsListedFirst ==
  ASSUME loaded \in Loads, pkgs = SelectPackages(loaded), pkgs # <<>>,
         NEW at, at \subseteq DOMAIN pkgs, at # {}
  PROVE  NamesFirst(pkgs[CHOOSE k \in at : \A j \in at : k <= j].module.path, {pkgs[k] : k \in at})
<1> DEFINE Least(k) == \A j \in at : k <= j
           x == CHOOSE k \in at : Least(k)
           S == {pkgs[k] : k \in at}
<1>1. at \subseteq Nat /\ \A i, j \in DOMAIN pkgs : i < j => ListedBefore(pkgs[i], pkgs[j])
  <2>1. pkgs \in Seq(PackageType)
    BY SelectionIs
  <2>2. DOMAIN pkgs = 1 .. Len(pkgs) /\ Len(pkgs) \in Nat
    BY <2>1, LenProperties
  <2>3. DOMAIN pkgs \subseteq Nat
    BY <2>2
  <2> QED BY <2>3, SelectionIs
<1>2. x \in at /\ Least(x)
  <2>1. \E k \in at : Least(k)
    BY <1>1, LeastElement
  <2> HIDE DEF Least
  <2> QED BY <2>1
<1> HIDE DEF x
<1>3. pkgs[x] \in S
  BY <1>2
<1>4. ASSUME NEW q \in S, q # pkgs[x] PROVE ListedBefore(pkgs[x], q)
  <2>1. PICK j \in at : q = pkgs[j]
    OBVIOUS
  <2>2. x < j
    BY <1>1, <1>2, <1>4, <2>1
  <2> QED BY <1>1, <1>2, <2>1, <2>2
<1> HIDE DEF S
<1>5. NamesFirst(pkgs[x].module.path, S)
  BY <1>3, <1>4 DEF NamesFirst
<1> QED BY <1>5 DEF S, x

\* What mainModulePath finds.
LEMMA ModuleIsRight ==
  ASSUME loaded \in Loads, pkgs = SelectPackages(loaded), pkgs # <<>>
  PROVE  ModuleRight(MainModulePath(pkgs))
<1> DEFINE mains == {p \in Selected : p.module.main}
           owned == {p \in Selected : p.module # NoModule}
           mainsAt == {k \in DOMAIN pkgs : pkgs[k].module.main}
           ownedAt == {k \in DOMAIN pkgs : pkgs[k].module # NoModule}
           first(at) == pkgs[CHOOSE k \in at : \A j \in at : k <= j].module.path
           module == MainModulePath(pkgs)
<1>1. /\ \A k \in DOMAIN pkgs : pkgs[k] \in Selected
      /\ \A p \in Selected : \E k \in DOMAIN pkgs : pkgs[k] = p
  BY SelectionIs
<1>2. mains = {pkgs[k] : k \in mainsAt} /\ owned = {pkgs[k] : k \in ownedAt}
  BY <1>1
<1>3. mainsAt \subseteq DOMAIN pkgs /\ ownedAt \subseteq DOMAIN pkgs
  OBVIOUS
<1>4. owned = {} => mains = {}
  BY DEF NoModule
<1>5. module = IF mainsAt # {} THEN first(mainsAt)
               ELSE IF ownedAt # {} THEN first(ownedAt) ELSE NoModule.path
  BY DEF MainModulePath
<1> HIDE DEF mains, owned, mainsAt, ownedAt, module
<1>6. mains # {} => NamesFirst(module, mains)
  <2> SUFFICES ASSUME mains # {} PROVE NamesFirst(module, mains)
    OBVIOUS
  <2>1. mainsAt # {}
    BY <1>2
  <2>2. NamesFirst(first(mainsAt), mains)
    BY <1>2, <1>3, <2>1, FirstIsListedFirst
  <2> QED BY <1>5, <2>1, <2>2
<1>7. mains = {} /\ owned # {} => NamesFirst(module, owned)
  <2> SUFFICES ASSUME mains = {}, owned # {} PROVE NamesFirst(module, owned)
    OBVIOUS
  <2>1. mainsAt = {} /\ ownedAt # {}
    BY <1>2
  <2>2. NamesFirst(first(ownedAt), owned)
    BY <1>2, <1>3, <2>1, FirstIsListedFirst
  <2> QED BY <1>5, <2>1, <2>2
<1>8. owned = {} => module = NoModule.path
  BY <1>2, <1>4, <1>5
<1> QED BY <1>6, <1>7, <1>8 DEF ModuleRight, mains, owned, module

-----------------------------------------------------------------------------
ExtractType == [name : Int, keys : SUBSET Key]
PackageExtract == [path : Int, types : Seq(ExtractType)]

\* The keys type u of package p is extracted with.
KeysOf(p, u) == {k \in u.uses : k[1] \in {q.path : q \in Selected} /\ k # <<p.path, u.name>>}

\* e holds the types of p that are not skipped, each with its keys.
ExtractedFrom(e, p) ==
  /\ e.path = p.path /\ e \in PackageExtract
  /\ \A i \in DOMAIN e.types : \E u \in Range(p.types) :
       Included(u, includeGenerated) /\ e.types[i] = [name |-> u.name, keys |-> KeysOf(p, u)]
  /\ \A u \in Range(p.types) : Included(u, includeGenerated) =>
       \E i \in DOMAIN e.types : e.types[i].name = u.name

LEMMA SelectedType ==
  ASSUME loaded \in Loads, NEW p \in Selected
  PROVE  /\ p \in PackageType /\ p \in Range(loaded)
         /\ \A i, j \in DOMAIN p.types : p.types[i].name = p.types[j].name => i = j
         /\ \A u \in Range(p.types) : u \in SourceType /\ IsFiniteSet(u.uses)
<1>1. p \in Range(loaded) /\ loaded \in Seq(PackageType)
  BY LoadsAssumption DEF Selected
<1>2. p \in PackageType
  BY <1>1, RangeOfSeq
<1>3. \A i, j \in DOMAIN p.types :
        (p.types[i].name = p.types[j].name => i = j) /\ IsFiniteSet(p.types[i].uses)
  BY <1>1, LoadsAssumption
<1>4. p.types \in Seq(SourceType)
  BY <1>2 DEF PackageType
<1>5. \A u \in Range(p.types) : u \in SourceType
  BY <1>4, RangeOfSeq
<1>6. \A u \in Range(p.types) : IsFiniteSet(u.uses)
  BY <1>3 DEF Range
<1> QED BY <1>1, <1>2, <1>3, <1>5, <1>6

\* What extractWorker leaves in the slot of a package (extractPackage).
LEMMA ExtractIs ==
  ASSUME loaded \in Loads, {pkgs[k].path : k \in DOMAIN pkgs} = {q.path : q \in Selected},
         NEW p \in Selected
  PROVE  /\ ExtractedFrom(ExtractPackage(p), p)
         /\ \A i, j \in DOMAIN ExtractPackage(p).types :
              ExtractPackage(p).types[i].name = ExtractPackage(p).types[j].name => i = j
<1> DEFINE s == p.types
           n == Len(s)
           T == {t \in Range(s) : Included(t, includeGenerated)}
           kept == Keep(s, T)
           Extract1(t) == [name |-> t.name, keys |-> KeysOf(p, t)]
           e == [path |-> p.path, types |-> [i \in DOMAIN kept |-> Extract1(kept[i])]]
<1>1. p \in PackageType /\ s \in Seq(SourceType)
  BY SelectedType DEF PackageType
<1>2. n \in Nat /\ s \in [1 .. n -> SourceType] /\ DOMAIN s = 1 .. n
  BY <1>1, LenProperties
<1>3. ExtractPackage(p) = e
  BY DEF ExtractPackage, ExtractUnder, KeysOf
<1>4. IsKept(kept, s, n, T)
  <2> HIDE DEF n, T
  <2> QED BY <1>2, KeepIs
<1>5. PICK N \in Nat : \E pos \in [1 .. N -> 1 .. n] :
        /\ kept = [i \in 1 .. N |-> s[pos[i]]]
        /\ \A i, j \in 1 .. N : i < j => pos[i] < pos[j]
        /\ \A m \in 1 .. n : s[m] \in T <=> \E i \in 1 .. N : pos[i] = m
  <2> HIDE DEF kept, s, T, n
  <2> QED BY <1>4 DEF IsKept
<1>6. PICK pos \in [1 .. N -> 1 .. n] :
        /\ kept = [i \in 1 .. N |-> s[pos[i]]]
        /\ \A i, j \in 1 .. N : i < j => pos[i] < pos[j]
        /\ \A m \in 1 .. n : s[m] \in T <=> \E i \in 1 .. N : pos[i] = m
  BY <1>5
<1>7. \A m \in 1 .. n : s[m] \in Range(s) /\ (s[m] \in T <=> Included(s[m], includeGenerated))
  BY <1>2 DEF Range
<1>8. \A i \in 1 .. N : pos[i] \in 1 .. n /\ kept[i] = s[pos[i]] /\ s[pos[i]] \in T
  <2> HIDE DEF kept, s, T, n
  <2> QED BY <1>6
<1>9. DOMAIN kept = 1 .. N
  <2> HIDE DEF kept, s
  <2> QED BY <1>6
<1>10. DOMAIN e.types = 1 .. N /\ e.path = p.path /\ \A i \in 1 .. N : e.types[i] = Extract1(s[pos[i]])
  <2> HIDE DEF kept, s, Extract1
  <2> QED BY <1>8, <1>9
<1>11. \A t \in Range(s) : Extract1(t) \in ExtractType
  <2> SUFFICES ASSUME NEW t \in Range(s) PROVE Extract1(t) \in ExtractType
    OBVIOUS
  <2>1. t \in SourceType
    BY SelectedType
  <2>2. KeysOf(p, t) \subseteq Key /\ t.name \in Int
    BY <2>1 DEF KeysOf, SourceType
  <2> QED BY <2>2 DEF ExtractType
<1> HIDE DEF n, T, kept
<1>12. e.types \in Seq(ExtractType)
  <2>1. \A i \in 1 .. N : Extract1(kept[i]) \in ExtractType
    BY <1>7, <1>8, <1>11
  <2>2. e.types = [i \in 1 .. N |-> Extract1(kept[i])]
    BY <1>9
  <2> HIDE DEF e, Extract1
  <2>3. [i \in 1 .. N |-> Extract1(kept[i])] \in Seq(ExtractType)
    BY <2>1, IsASeq
  <2> QED BY <2>2, <2>3
<1>13. e \in PackageExtract
  <2>1. p.path \in Int
    BY <1>1 DEF PackageType
  <2>2. e = [path |-> p.path, types |-> e.types]
    OBVIOUS
  <2> HIDE DEF e
  <2> QED BY <1>12, <2>1, <2>2 DEF PackageExtract
<1> HIDE DEF e
<1>14. \A i \in DOMAIN e.types : \E u \in Range(s) :
         Included(u, includeGenerated) /\ e.types[i] = [name |-> u.name, keys |-> KeysOf(p, u)]
  BY <1>7, <1>8, <1>10
<1>15. \A i \in 1 .. N : e.types[i].name = s[pos[i]].name
  <2>1. \A t : Extract1(t).name = t.name
    OBVIOUS
  <2> HIDE DEF Extract1, s
  <2> QED BY <1>10, <2>1
<1> HIDE DEF Extract1
<1>16. ASSUME NEW u \in Range(s), Included(u, includeGenerated)
       PROVE  \E i \in DOMAIN e.types : e.types[i].name = u.name
  <2>1. PICK m \in 1 .. n : u = s[m]
    BY <1>2 DEF Range
  <2>2. PICK i \in 1 .. N : pos[i] = m
    BY <1>6, <1>7, <1>16, <2>1
  <2>3. e.types[i].name = u.name
    BY <1>15, <2>1, <2>2
  <2> QED BY <1>10, <2>3
<1>17. ASSUME NEW i \in 1 .. N, NEW j \in 1 .. N, e.types[i].name = e.types[j].name
       PROVE  i = j
  <2>1. s[pos[i]].name = s[pos[j]].name
    BY <1>15, <1>17
  <2>2. pos[i] = pos[j]
    BY <1>2, <1>8, <2>1, SelectedType
  <2>3. ~(i < j) /\ ~(j < i)
    <3>1. pos[i] \in Int
      BY <1>8
    <3> QED BY <1>6, <2>2, <3>1
  <2> QED BY <2>3
<1>18. ExtractedFrom(e, p)
  BY <1>10, <1>13, <1>14, <1>16 DEF ExtractedFrom
<1> QED BY <1>3, <1>10, <1>17, <1>18

\* Sorting its types changes nothing but their order.
LEMMA SortedExtractIs ==
  ASSUME NEW p, NEW e, ExtractedFrom(e, p),
         \A i, j \in DOMAIN e.types : e.types[i].name = e.types[j].name => i = j,
         NEW f, f = [e EXCEPT !.types = ByName(@)]
  PROVE  /\ ExtractedFrom(f, p)
         /\ \A i, j \in DOMAIN f.types : i < j => f.types[i].name < f.types[j].name
<1> DEFINE s == e.types
           S == Range(s)
           key == [t \in S |-> t.name]
           r == ByName(s)
           N == Cardinality(S)
<1>1. s \in Seq(ExtractType) /\ DOMAIN s = 1 .. Len(s) /\ Len(s) \in Nat /\ s \in [1 .. Len(s) -> ExtractType]
  BY LenProperties DEF ExtractedFrom, PackageExtract
<1>2. f.path = e.path /\ f.types = r /\ (r \in Seq(ExtractType) => f \in PackageExtract)
  <2>1. e \in PackageExtract
    BY DEF ExtractedFrom
  <2> HIDE DEF r
  <2>2. f = [e EXCEPT !.types = r]
    BY DEF r
  <2> QED BY <2>1, <2>2 DEF PackageExtract
<1>3. \A x \in S : x \in ExtractType /\ x.name \in Int /\ \E i \in DOMAIN s : s[i] = x
  <2>1. \A x \in S : \E i \in DOMAIN s : s[i] = x
    BY DEF Range
  <2>2. \A x \in S : x \in ExtractType
    BY <1>1, RangeOfSeq
  <2> QED BY <2>1, <2>2 DEF ExtractType
<1>4. IsFiniteSet(S)
  BY <1>1, RangeIsFinite
<1>5. key \in [S -> Int] /\ \A x, y \in S : key[x] = key[y] => x = y
  BY <1>3
<1>6. \A x \in S : key[x] = x.name
  OBVIOUS
<1>7. r = Sorted(S, key)
  BY DEF ByName
<1> HIDE DEF S, key, r
<1>8. N \in Nat
  BY <1>4, <1>5, SortedIs
<1>9. r \in [1 .. N -> S]
  BY <1>4, <1>5, <1>7, SortedIs
<1>10. Ascending(r, key)
  BY <1>4, <1>5, <1>7, SortedIs
<1>11. \A x \in S : \E n \in 1 .. N : r[n] = x
  BY <1>4, <1>5, <1>7, SortedIs
<1> HIDE DEF N, s
<1>12. f.types = r /\ DOMAIN r = 1 .. N
  BY <1>9, <1>2
<1>13. \A i, j \in DOMAIN r : i < j => r[i].name < r[j].name
  <2>1. \A i \in DOMAIN r : key[r[i]] = r[i].name
    BY <1>6, <1>9
  <2> QED BY <1>10, <2>1 DEF Ascending
<1>14. r \in Seq(ExtractType)
  <2>1. r \in [1 .. N -> ExtractType]
    BY <1>3, <1>9
  <2> QED BY <1>8, <2>1
<1>15. \A i \in DOMAIN r : \E j \in DOMAIN s : r[i] = s[j]
  BY <1>3, <1>9
<1>16. \A j \in DOMAIN s : \E i \in DOMAIN r : r[i] = s[j]
  BY <1>11, <1>12 DEF Range, S
<1>17. f.path = p.path /\ f \in PackageExtract /\ f.types = r
  BY <1>12, <1>14, <1>2 DEF ExtractedFrom
<1>18. \A i \in DOMAIN r : \E u \in Range(p.types) :
         Included(u, includeGenerated) /\ r[i] = [name |-> u.name, keys |-> KeysOf(p, u)]
  <2> SUFFICES ASSUME NEW i \in DOMAIN r
               PROVE  \E u \in Range(p.types) :
                        Included(u, includeGenerated) /\ r[i] = [name |-> u.name, keys |-> KeysOf(p, u)]
    OBVIOUS
  <2>1. PICK j \in DOMAIN e.types : r[i] = e.types[j]
    BY <1>15 DEF s
  <2>2. PICK u \in Range(p.types) :
          Included(u, includeGenerated) /\ e.types[j] = [name |-> u.name, keys |-> KeysOf(p, u)]
    BY DEF ExtractedFrom
  <2> QED BY <2>1, <2>2
<1>19. \A u \in Range(p.types) : Included(u, includeGenerated) => \E i \in DOMAIN r : r[i].name = u.name
  BY <1>16 DEF ExtractedFrom, s
<1>20. ExtractedFrom(f, p)
  BY <1>17, <1>18, <1>19 DEF ExtractedFrom
<1> QED BY <1>12, <1>13, <1>20

\* Of each path one package is selected.
LEMMA SelectedByPath ==
  ASSUME loaded \in Loads, NEW p \in Selected, NEW q \in Selected, p.path = q.path
  PROVE  p = q
<1>1. /\ p \in Range(loaded) /\ q \in Range(loaded)
      /\ p.files <= q.files /\ q.files <= p.files
  BY DEF Selected
<1>2. p.files \in Int /\ q.files \in Int
  BY SelectedType DEF PackageType
<1> QED BY <1>1, <1>2, LoadsAssumption

\* es has one extract of every selected package, by increasing path, and in each
\* the types by increasing name.
RightExtracts(es) ==
  /\ es \in Seq(PackageExtract)
  /\ \A i, j \in DOMAIN es : i < j => es[i].path < es[j].path
  /\ \A k \in DOMAIN es : \E p \in Selected : ExtractedFrom(es[k], p)
  /\ \A k \in DOMAIN es : \A i, j \in DOMAIN es[k].types : i < j => es[k].types[i].name < es[k].types[j].name
  /\ \A p \in Selected : \E k \in DOMAIN es : es[k].path = p.path

\* What sortExtracts makes of the slots once the extraction pool has answered.
LEMMA SortedExtractsAreRight ==
  ASSUME loaded \in Loads, pkgs = SelectPackages(loaded), pkgs # <<>>,
         DOMAIN extracts = DOMAIN pkgs,
         \A k \in DOMAIN pkgs : extracts[k] = ExtractPackage(pkgs[k])
  PROVE  RightExtracts(SortedExtracts)
<1> DEFINE n == Len(pkgs)
           S == Range(extracts)
           key == [e \in S |-> e.path]
           r == Sorted(S, key)
           es == SortedExtracts
           N == Cardinality(S)
<1>1. /\ pkgs \in Seq(PackageType) /\ DOMAIN pkgs = 1 .. n /\ n \in Nat
      /\ \A i, j \in DOMAIN pkgs : pkgs[i].path = pkgs[j].path => i = j
      /\ \A k \in DOMAIN pkgs : pkgs[k] \in Selected
      /\ \A p \in Selected : \E k \in DOMAIN pkgs : pkgs[k] = p
  BY SelectionIs, LenProperties
<1>2. {pkgs[k].path : k \in DOMAIN pkgs} = {q.path : q \in Selected}
  BY <1>1
<1>3. ASSUME NEW x \in S
      PROVE  \E k \in DOMAIN pkgs :
               /\ x = ExtractPackage(pkgs[k]) /\ ExtractedFrom(x, pkgs[k])
               /\ \A i, j \in DOMAIN x.types : x.types[i].name = x.types[j].name => i = j
  <2>1. PICK k \in DOMAIN pkgs : x = extracts[k]
    BY DEF Range
  <2>2. x = ExtractPackage(pkgs[k]) /\ pkgs[k] \in Selected
    BY <1>1, <2>1
  <2>3. ExtractedFrom(ExtractPackage(pkgs[k]), pkgs[k])
    BY <1>2, <2>2, ExtractIs
  <2>4. \A i, j \in DOMAIN ExtractPackage(pkgs[k]).types :
          ExtractPackage(pkgs[k]).types[i].name = ExtractPackage(pkgs[k]).types[j].name => i = j
    BY <1>2, <2>2, ExtractIs
  <2> QED BY <2>2, <2>3, <2>4
<1>4. \A x \in S : x \in PackageExtract /\ x.path \in Int
  BY <1>3 DEF ExtractedFrom, PackageExtract
<1>5. \A x, y \in S : x.path = y.path => x = y
  <2> SUFFICES ASSUME NEW x \in S, NEW y \in S, x.path = y.path PROVE x = y
    OBVIOUS
  <2>1. PICK k \in DOMAIN pkgs : x = ExtractPackage(pkgs[k]) /\ ExtractedFrom(x, pkgs[k])
    BY <1>3
  <2>2. PICK m \in DOMAIN pkgs : y = ExtractPackage(pkgs[m]) /\ ExtractedFrom(y, pkgs[m])
    BY <1>3
  <2>3. pkgs[k].path = pkgs[m].path
    BY <2>1, <2>2 DEF ExtractedFrom
  <2> QED BY <1>1, <2>1, <2>2, <2>3
<1>6. \A k \in DOMAIN pkgs : extracts[k] \in S
  BY DEF Range
<1>7. IsFiniteSet(S)
  <2> DEFINE s == [k \in 1 .. n |-> extracts[k]]
  <2>1. Range(s) = S
    BY <1>1 DEF Range
  <2> HIDE DEF n
  <2>2. s \in [1 .. n -> S]
    BY <1>1, <1>6
  <2> HIDE DEF s, S
  <2>3. IsFiniteSet(Range(s))
    BY <1>1, <2>2, RangeIsFinite
  <2> QED BY <2>1, <2>3
<1>8. key \in [S -> Int] /\ (\A x, y \in S : key[x] = key[y] => x = y) /\ \A x \in S : key[x] = x.path
  <2> HIDE DEF S
  <2> QED BY <1>4, <1>5
<1>9. es = [k \in DOMAIN r |-> [r[k] EXCEPT !.types = ByName(@)]]
  BY DEF SortedExtracts, SortExtracts
<1> HIDE DEF S, key, r, n, es
<1>10. N \in Nat
  BY <1>7, <1>8, SortedIs
<1>11. r \in [1 .. N -> S]
  BY <1>7, <1>8, SortedIs DEF r
<1>12. Ascending(r, key)
  BY <1>7, <1>8, SortedIs DEF r
<1>13. \A x \in S : \E k \in 1 .. N : r[k] = x
  BY <1>7, <1>8, SortedIs DEF r
<1> HIDE DEF N
<1>14. DOMAIN es = 1 .. N /\ \A k \in 1 .. N : es[k] = [r[k] EXCEPT !.types = ByName(@)] /\ r[k] \in S
  BY <1>9, <1>11
<1>15. ASSUME NEW k \in 1 .. N
       PROVE  /\ es[k].path = r[k].path /\ es[k] \in PackageExtract
              /\ \E p \in Selected : ExtractedFrom(es[k], p)
              /\ \A i, j \in DOMAIN es[k].types : i < j => es[k].types[i].name < es[k].types[j].name
  <2>1. es[k] = [r[k] EXCEPT !.types = ByName(@)] /\ r[k] \in S
    BY <1>14
  <2>2. PICK m \in DOMAIN pkgs :
               /\ ExtractedFrom(r[k], pkgs[m])
               /\ \A i, j \in DOMAIN r[k].types : r[k].types[i].name = r[k].types[j].name => i = j
    BY <1>3, <2>1
  <2>3. ExtractedFrom(es[k], pkgs[m])
    BY <2>1, <2>2, SortedExtractIs
  <2>4. \A i, j \in DOMAIN es[k].types : i < j => es[k].types[i].name < es[k].types[j].name
    BY <2>1, <2>2, SortedExtractIs
  <2>5. es[k].path = r[k].path /\ es[k] \in PackageExtract
    BY <2>2, <2>3 DEF ExtractedFrom
  <2> QED BY <1>1, <2>3, <2>4, <2>5
<1>16. es \in Seq(PackageExtract)
  <2>1. es = [k \in 1 .. N |-> es[k]]
    BY <1>9, <1>14
  <2>2. es \in [1 .. N -> PackageExtract]
    BY <1>15, <2>1
  <2> QED BY <1>10, <2>2
<1>17. \A i, j \in 1 .. N : i < j => es[i].path < es[j].path
  <2>1. \A i \in 1 .. N : key[r[i]] = es[i].path
    BY <1>8, <1>14, <1>15
  <2> QED BY <1>11, <1>12, <2>1 DEF Ascending
<1>18. \A p \in Selected : \E k \in 1 .. N : es[k].path = p.path
  <2> SUFFICES ASSUME NEW p \in Selected PROVE \E k \in 1 .. N : es[k].path = p.path
    OBVIOUS
  <2>1. PICK m \in DOMAIN pkgs : pkgs[m] = p
    BY <1>1
  <2>2. extracts[m] \in S /\ extracts[m].path = p.path
    <3>1. ExtractedFrom(ExtractPackage(p), p)
      BY <1>2, ExtractIs
    <3> QED BY <1>6, <2>1, <3>1 DEF ExtractedFrom
  <2> QED BY <1>13, <1>15, <2>2
<1> QED BY <1>14, <1>15, <1>16, <1>17, <1>18 DEF RightExtracts, es

-----------------------------------------------------------------------------
\* The types of the first p packages are O[p]: the IDs of package p start there.
IsNumbering(O, es) ==
  /\ O \in [0 .. Len(es) -> Nat]
  /\ O[0] = 0
  /\ \A p \in 1 .. Len(es) : O[p] = O[p - 1] + Len(es[p].types)

\* rows has a row for every package and in it an element for every type.
IsRows(rows, es) ==
  /\ Len(rows) = Len(es)
  /\ \A p \in 1 .. Len(es) : Len(rows[p]) = Len(es[p].types)

LEMMA FlattenedRows ==
  ASSUME NEW es \in Seq(PackageExtract), NEW O, IsNumbering(O, es),
         NEW T, NEW rows \in Seq(Seq(T)), IsRows(rows, es)
  PROVE  /\ FlattenSeq(rows) \in Seq(T) /\ Len(FlattenSeq(rows)) = O[Len(es)]
         /\ \A p \in 1 .. Len(es) : \A t \in 1 .. Len(es[p].types) :
              /\ O[p - 1] + t \in 1 .. O[Len(es)]
              /\ FlattenSeq(rows)[O[p - 1] + t] = rows[p][t]
<1> DEFINE N == Len(es)
<1>1. N \in Nat /\ Len(rows) = N
  BY LenProperties DEF IsRows
<1>2. \A p \in 1 .. N : Len(rows[p]) = Len(es[p].types)
  BY DEF IsRows
<1>3. PICK Q : IsFlat(FlattenSeq(rows), Q, rows, T)
  BY Flattened
<1>4. IsOffsets(O, rows)
  BY <1>1, <1>2 DEF IsNumbering, IsOffsets
<1>5. \A p \in 0 .. N : Q[p] = O[p]
  <2> HIDE DEF N
  <2>1. N <= N /\ IsOffsets(Q, rows)
    BY <1>1, <1>3 DEF IsFlat
  <2> QED BY <1>1, <1>4, <2>1, OffsetsAgree
<1>6. \A p \in 1 .. N : p - 1 \in 0 .. N
  BY <1>1
<1>7. N \in 0 .. N
  BY <1>1
<1>8. Q[N] = O[N] /\ \A p \in 1 .. N : Q[p - 1] = O[p - 1]
  BY <1>5, <1>6, <1>7
<1>9. FlattenSeq(rows) \in Seq(T) /\ Len(FlattenSeq(rows)) = O[N]
  BY <1>1, <1>3, <1>8 DEF IsFlat
<1>10. ASSUME NEW p \in 1 .. N, NEW t \in 1 .. Len(es[p].types)
       PROVE  O[p - 1] + t \in 1 .. O[N] /\ FlattenSeq(rows)[O[p - 1] + t] = rows[p][t]
  <2>1. t \in 1 .. Len(rows[p]) /\ p \in 1 .. Len(rows)
    BY <1>1, <1>2
  <2>2. Q[p - 1] + t \in 1 .. Q[N] /\ FlattenSeq(rows)[Q[p - 1] + t] = rows[p][t]
    BY <1>1, <1>3, <2>1 DEF IsFlat
  <2> QED BY <1>8, <2>2
<1> QED BY <1>9, <1>10

\* The keys of the types, in the order of the packages and of the types in each.
LEMMA TypeKeysAre ==
  ASSUME NEW es \in Seq(PackageExtract), NEW O, IsNumbering(O, es)
  PROVE  /\ TypeKeys(es) \in Seq(Key) /\ Len(TypeKeys(es)) = O[Len(es)]
         /\ \A p \in 1 .. Len(es) : \A t \in 1 .. Len(es[p].types) :
              /\ O[p - 1] + t \in 1 .. O[Len(es)]
              /\ TypeKeys(es)[O[p - 1] + t] = <<es[p].path, es[p].types[t].name>>
<1> DEFINE Row(k) == [t \in DOMAIN es[k].types |-> <<es[k].path, es[k].types[t].name>>]
           rows == [k \in DOMAIN es |-> Row(k)]
           N == Len(es)
<1>1. N \in Nat /\ DOMAIN es = 1 .. N
  BY LenProperties
<1>2. ASSUME NEW k \in 1 .. N
      PROVE  Row(k) \in Seq(Key) /\ Len(Row(k)) = Len(es[k].types) /\ DOMAIN es[k].types = 1 .. Len(es[k].types)
  <2> DEFINE s == es[k].types
             n == Len(s)
  <2>1. es[k] \in PackageExtract
    BY ElementOfSeq
  <2>2. s \in Seq(ExtractType) /\ es[k].path \in Int
    BY <2>1 DEF PackageExtract
  <2>3. n \in Nat /\ DOMAIN s = 1 .. n /\ \A t \in 1 .. n : s[t] \in ExtractType
    BY <2>2, LenProperties, ElementOfSeq
  <2>4. \A t \in 1 .. n : <<es[k].path, s[t].name>> \in Key
    BY <2>2, <2>3 DEF ExtractType, Key
  <2> HIDE DEF s, n
  <2>5. [t \in 1 .. n |-> <<es[k].path, s[t].name>>] \in [1 .. n -> Key]
    BY <2>4
  <2>6. Row(k) = [t \in 1 .. n |-> <<es[k].path, s[t].name>>]
    BY <2>3 DEF s
  <2> HIDE DEF Row
  <2>7. Row(k) \in [1 .. n -> Key]
    BY <2>5, <2>6
  <2>8. Row(k) \in Seq(Key) /\ Len(Row(k)) = n /\ DOMAIN s = 1 .. n
    BY <2>3, <2>7
  <2> QED BY <2>8 DEF s, n
<1> HIDE DEF Row, N
<1>3. rows \in [1 .. N -> Seq(Key)]
  BY <1>1, <1>2
<1>4. rows \in Seq(Seq(Key)) /\ Len(rows) = N
  <2> HIDE DEF rows
  <2> QED BY <1>1, <1>3
<1>5. \A k \in 1 .. N : rows[k] = Row(k)
  BY <1>1
<1>6. TypeKeys(es) = FlattenSeq(rows)
  BY DEF TypeKeys, Row
<1> HIDE DEF rows
<1>7. IsRows(rows, es)
  BY <1>2, <1>4, <1>5 DEF IsRows, N
<1>8. \A p \in 1 .. N : \A t \in 1 .. Len(es[p].types) : rows[p][t] = <<es[p].path, es[p].types[t].name>>
  BY <1>2, <1>5 DEF Row
<1>9. FlattenSeq(rows) \in Seq(Key) /\ Len(FlattenSeq(rows)) = O[Len(es)]
  BY <1>4, <1>7, FlattenedRows
<1>10. \A p \in 1 .. Len(es) : \A t \in 1 .. Len(es[p].types) :
              /\ O[p - 1] + t \in 1 .. O[Len(es)]
              /\ FlattenSeq(rows)[O[p - 1] + t] = rows[p][t]
  BY <1>4, <1>7, FlattenedRows
<1> QED BY <1>6, <1>8, <1>9, <1>10 DEF N

LEMMA NumberingExists ==
  ASSUME NEW es \in Seq(PackageExtract)
  PROVE  \E O : IsNumbering(O, es)
<1> DEFINE rows == [k \in 1 .. Len(es) |-> es[k].types]
<1>1. Len(es) \in Nat
  BY LenProperties
<1>2. rows \in [1 .. Len(es) -> Seq(ExtractType)]
  <2>1. \A k \in 1 .. Len(es) : es[k] \in PackageExtract
    BY ElementOfSeq
  <2> QED BY <2>1 DEF PackageExtract
<1>3. \A k \in 1 .. Len(es) : rows[k] = es[k].types
  OBVIOUS
<1> HIDE DEF rows
<1>4. rows \in Seq(Seq(ExtractType)) /\ Len(rows) = Len(es)
  BY <1>1, <1>2
<1>5. PICK O : IsFlat(FlattenSeq(rows), O, rows, ExtractType)
  BY <1>4, Flattened
<1>6. IsNumbering(O, es)
  BY <1>3, <1>4, <1>5 DEF IsFlat, IsOffsets, IsNumbering
<1> QED BY <1>6

\* Every ID below the count is some type's.
LEMMA EveryID ==
  ASSUME NEW es \in Seq(PackageExtract), NEW O, IsNumbering(O, es), NEW n \in 1 .. O[Len(es)]
  PROVE  \E p \in 1 .. Len(es) : \E t \in 1 .. Len(es[p].types) : n = O[p - 1] + t
<1> DEFINE rows == [k \in 1 .. Len(es) |-> es[k].types]
           N == Len(es)
<1>1. N \in Nat
  BY LenProperties
<1>2. \A k \in 1 .. N : rows[k] = es[k].types /\ Len(rows[k]) \in Nat
  <2>1. \A k \in 1 .. Len(es) : es[k] \in PackageExtract
    BY ElementOfSeq
  <2>2. \A k \in 1 .. Len(es) : es[k].types \in Seq(ExtractType)
    BY <2>1 DEF PackageExtract
  <2> QED BY <2>2, LenProperties
<1>3. Len(rows) = N
  <2>1. rows \in [1 .. N -> Seq(ExtractType)]
    <3>1. \A k \in 1 .. Len(es) : es[k] \in PackageExtract
      BY ElementOfSeq
    <3> QED BY <3>1 DEF PackageExtract
  <2> HIDE DEF rows
  <2> QED BY <1>1, <2>1
<1> HIDE DEF rows
<1>4. IsOffsets(O, rows)
  BY <1>2, <1>3 DEF IsNumbering, IsOffsets
<1>5. \E p \in 1 .. N : \E t \in 1 .. Len(rows[p]) : n = O[p - 1] + t
  <2> HIDE DEF N
  <2>1. n \in 1 .. O[N]
    BY DEF N
  <2>2. \A k \in 1 .. N : Len(rows[k]) \in Nat
    BY <1>2
  <2>3. \A i \in 1 .. O[N] : IsPlace(i, O, rows)
    BY <1>1, <1>3, <1>4, <2>2, OffsetsSplit
  <2> QED BY <1>3, <2>1, <2>3 DEF IsPlace
<1> QED BY <1>2, <1>5

\* The count appendPackages has reached before package p.
LEMMA FirstIs ==
  ASSUME NEW es \in Seq(PackageExtract), NEW O, IsNumbering(O, es), NEW p \in 1 .. Len(es)
  PROVE  Len(TypeKeys(SubSeq(es, 1, p - 1))) = O[p - 1]
<1> DEFINE n == p - 1
           pre == SubSeq(es, 1, n)
           P == [k \in 0 .. n |-> O[k]]
<1>1. Len(es) \in Nat /\ n \in Nat /\ n <= Len(es) /\ 1 \in Int /\ n - 1 + 1 = n /\ (n = 0 \/ 1 <= n)
  BY LenProperties
<1>2. \A k \in 1 .. n : es[k] \in PackageExtract /\ 1 + k - 1 = k
  BY <1>1, ElementOfSeq
<1> HIDE DEF n
<1>3. pre \in Seq(PackageExtract) /\ Len(pre) = n /\ \A k \in 1 .. n : pre[k] = es[k]
  <2>1. n \in Int
    BY <1>1
  <2>2. pre \in Seq(PackageExtract)
    BY <1>2, <2>1, SubSeqProperties
  <2>3. Len(pre) = IF 1 <= n THEN n - 1 + 1 ELSE 0
    BY <1>2, <2>1, SubSeqProperties
  <2>4. \A k \in 1 .. n - 1 + 1 : pre[k] = es[1 + k - 1]
    BY <1>2, <2>1, SubSeqProperties
  <2> HIDE DEF pre
  <2> QED BY <1>1, <1>2, <2>2, <2>3, <2>4
<1> HIDE DEF pre
<1>4. IsNumbering(P, pre)
  <2>1. \A k \in 1 .. n : k \in 1 .. Len(es) /\ k \in 0 .. n /\ k - 1 \in 0 .. n
    BY <1>1
  <2>2. \A k \in 0 .. n : k \in 0 .. Len(es) /\ P[k] = O[k]
    BY <1>1
  <2>3. P \in [0 .. n -> Nat]
    BY <2>2 DEF IsNumbering
  <2> HIDE DEF P
  <2>4. P[0] = 0
    BY <1>1, <2>2 DEF IsNumbering
  <2>5. \A k \in 1 .. n : P[k] = P[k - 1] + Len(pre[k].types)
    BY <1>3, <2>1, <2>2 DEF IsNumbering
  <2> QED BY <1>3, <2>3, <2>4, <2>5 DEF IsNumbering
<1>5. Len(TypeKeys(pre)) = P[n]
  BY <1>3, <1>4, TypeKeysAre
<1>6. P[n] = O[n]
  BY <1>1
<1> QED BY <1>5, <1>6 DEF n, pre

\* A name the source declares and the options include is a type of the report.
Declared(k) ==
  \E q \in Selected : /\ q.path = k[1]
                      /\ \E u \in Range(q.types) : u.name = k[2] /\ Included(u, includeGenerated)

\* Every declared type has one place among the keys, and nothing else has one.
LEMMA KeysAreDeclared ==
  ASSUME loaded \in Loads, NEW es, RightExtracts(es), NEW O, IsNumbering(O, es)
  PROVE  /\ \A m, n \in 1 .. O[Len(es)] : TypeKeys(es)[m] = TypeKeys(es)[n] => m = n
         /\ \A n \in 1 .. O[Len(es)] : Declared(TypeKeys(es)[n])
         /\ \A k \in Key : Declared(k) => \E n \in 1 .. O[Len(es)] : TypeKeys(es)[n] = k
<1> DEFINE N == Len(es)
           keys == TypeKeys(es)
           top == O[N]
           L(p) == Len(es[p].types)
<1>1. es \in Seq(PackageExtract) /\ N \in Nat /\ DOMAIN es = 1 .. N
  BY LenProperties DEF RightExtracts
<1>2. /\ keys \in Seq(Key) /\ Len(keys) = top
      /\ \A p \in 1 .. N : \A t \in 1 .. L(p) :
           O[p - 1] + t \in 1 .. top /\ keys[O[p - 1] + t] = <<es[p].path, es[p].types[t].name>>
  BY <1>1, TypeKeysAre
<1>3. \A n \in 1 .. top : \E p \in 1 .. N : \E t \in 1 .. L(p) : n = O[p - 1] + t
  BY <1>1, EveryID
<1>4. ASSUME NEW p \in 1 .. N
      PROVE  /\ es[p] \in PackageExtract /\ es[p].path \in Int /\ L(p) \in Nat
             /\ DOMAIN es[p].types = 1 .. L(p) /\ \A t \in 1 .. L(p) : es[p].types[t].name \in Int
             /\ \E q \in Selected : ExtractedFrom(es[p], q)
  <2>1. es[p] \in PackageExtract
    BY <1>1, ElementOfSeq
  <2>2. es[p].path \in Int /\ es[p].types \in Seq(ExtractType)
    BY <2>1 DEF PackageExtract
  <2>3. L(p) \in Nat /\ DOMAIN es[p].types = 1 .. L(p)
    BY <2>2, LenProperties
  <2>4. \A t \in 1 .. L(p) : es[p].types[t] \in ExtractType
    BY <2>2, ElementOfSeq
  <2>5. \A t \in 1 .. L(p) : es[p].types[t].name \in Int
    BY <2>4 DEF ExtractType
  <2>6. \E q \in Selected : ExtractedFrom(es[p], q)
    BY <1>1 DEF RightExtracts
  <2> QED BY <2>1, <2>2, <2>3, <2>5, <2>6
<1> HIDE DEF N, keys, top, L
<1>5. ASSUME NEW m \in 1 .. top, NEW n \in 1 .. top, keys[m] = keys[n]
      PROVE  m = n
  <2>1. PICK p \in 1 .. N : \E t \in 1 .. L(p) : m = O[p - 1] + t
    BY <1>3
  <2>2. PICK t \in 1 .. L(p) : m = O[p - 1] + t
    BY <2>1
  <2>3. PICK q \in 1 .. N : \E u \in 1 .. L(q) : n = O[q - 1] + u
    BY <1>3
  <2>4. PICK u \in 1 .. L(q) : n = O[q - 1] + u
    BY <2>3
  <2>5. <<es[p].path, es[p].types[t].name>> = <<es[q].path, es[q].types[u].name>>
    BY <1>2, <1>5, <2>2, <2>4
  <2>6. p = q
    <3> DEFINE x == es[p].path
               y == es[q].path
    <3>1. x \in Int /\ x = y
      BY <1>4, <2>5
    <3>2. (p < q => x < y) /\ (q < p => y < x)
      BY <1>1 DEF RightExtracts
    <3> HIDE DEF x, y
    <3>3. p \in Int /\ q \in Int
      OBVIOUS
    <3> QED BY <3>1, <3>2, <3>3
  <2>7. t = u
    <3>1. u \in 1 .. L(p) /\ es[p].types[t].name = es[p].types[u].name
      BY <2>5, <2>6
    <3> DEFINE x == es[p].types[t].name
               y == es[p].types[u].name
    <3>2. t \in Int /\ u \in Int /\ t \in DOMAIN es[p].types /\ u \in DOMAIN es[p].types
      BY <1>4, <3>1
    <3>3. x \in Int /\ x = y
      BY <1>4, <3>1
    <3>4. (t < u => x < y) /\ (u < t => y < x)
      BY <1>1, <3>2 DEF RightExtracts
    <3> HIDE DEF x, y
    <3> QED BY <3>2, <3>3, <3>4
  <2> QED BY <2>2, <2>4, <2>6, <2>7
<1>6. ASSUME NEW n \in 1 .. top PROVE Declared(keys[n])
  <2>1. PICK p \in 1 .. N : \E t \in 1 .. L(p) : n = O[p - 1] + t
    BY <1>3
  <2>2. PICK t \in 1 .. L(p) : n = O[p - 1] + t
    BY <2>1
  <2>3. keys[n] = <<es[p].path, es[p].types[t].name>>
    BY <1>2, <2>2
  <2>4. PICK q \in Selected : ExtractedFrom(es[p], q)
    BY <1>4
  <2>5. t \in DOMAIN es[p].types
    BY <1>4
  <2>6. PICK u \in Range(q.types) :
          Included(u, includeGenerated) /\ es[p].types[t] = [name |-> u.name, keys |-> KeysOf(q, u)]
    BY <2>4, <2>5 DEF ExtractedFrom
  <2>7. keys[n][1] = q.path /\ keys[n][2] = u.name
    BY <2>3, <2>4, <2>6 DEF ExtractedFrom
  <2> QED BY <2>6, <2>7 DEF Declared
<1>7. ASSUME NEW k \in Key, Declared(k) PROVE \E n \in 1 .. top : keys[n] = k
  <2>1. PICK q \in Selected : q.path = k[1] /\ \E u \in Range(q.types) : u.name = k[2] /\ Included(u, includeGenerated)
    BY <1>7 DEF Declared
  <2>2. PICK u \in Range(q.types) : u.name = k[2] /\ Included(u, includeGenerated)
    BY <2>1
  <2>3. PICK p \in 1 .. N : es[p].path = q.path
    BY <1>1 DEF RightExtracts
  <2>4. PICK r \in Selected : ExtractedFrom(es[p], r)
    BY <1>4
  <2>5. r = q
    BY <2>3, <2>4, SelectedByPath DEF ExtractedFrom
  <2>6. PICK t \in DOMAIN es[p].types : es[p].types[t].name = u.name
    BY <2>2, <2>4, <2>5 DEF ExtractedFrom
  <2>7. t \in 1 .. L(p)
    BY <1>4
  <2>8. k = <<k[1], k[2]>>
    BY DEF Key
  <2>9. O[p - 1] + t \in 1 .. top /\ keys[O[p - 1] + t] = k
    BY <1>2, <2>1, <2>2, <2>3, <2>6, <2>7, <2>8
  <2> QED BY <2>9
<1> QED BY <1>5, <1>6, <1>7 DEF N, keys, top

-----------------------------------------------------------------------------
\* The ID of the n-th key is n - 1 (indexTypeKeys).
LEMMA IdsAre ==
  ASSUME loaded \in Loads, NEW es, RightExtracts(es), NEW O, IsNumbering(O, es)
  PROVE  /\ DOMAIN IdByKey(es) = Range(TypeKeys(es))
         /\ \A n \in 1 .. O[Len(es)] : IdByKey(es)[TypeKeys(es)[n]] = n - 1
<1> DEFINE keys == TypeKeys(es)
           top == O[Len(es)]
<1>1. es \in Seq(PackageExtract)
  BY DEF RightExtracts
<1>2. keys \in Seq(Key) /\ Len(keys) = top
  BY <1>1, TypeKeysAre
<1>3. DOMAIN keys = 1 .. top
  <2> HIDE DEF keys, top
  <2> QED BY <1>2, LenProperties
<1>4. \A m, n \in 1 .. top : keys[m] = keys[n] => m = n
  BY KeysAreDeclared
<1>5. /\ DOMAIN IdByKey(es) = Range(keys)
      /\ \A key \in Range(keys) : IdByKey(es)[key] = (CHOOSE n \in DOMAIN keys : keys[n] = key) - 1
  BY DEF IdByKey, Positions
<1> HIDE DEF keys, top
<1>6. ASSUME NEW n \in 1 .. top PROVE IdByKey(es)[keys[n]] = n - 1
  <2> DEFINE m == CHOOSE i \in DOMAIN keys : keys[i] = keys[n]
  <2>1. keys[n] \in Range(keys)
    BY <1>3 DEF Range
  <2>2. m \in DOMAIN keys /\ keys[m] = keys[n]
    BY <1>3
  <2> HIDE DEF m
  <2>3. m = n
    BY <1>3, <1>4, <2>2
  <2>4. IdByKey(es)[keys[n]] = m - 1
    BY <1>5, <2>1 DEF m
  <2> QED BY <2>3, <2>4
<1> QED BY <1>5, <1>6 DEF keys, top

\* A type's resolved references name what its source mentions and the report has,
\* each once: resolveKeys drops the keys without an ID and no other.
LEMMA ReferencesAre ==
  ASSUME loaded \in Loads, NEW es, RightExtracts(es), NEW O, IsNumbering(O, es),
         NEW p \in Selected, NEW u \in Range(p.types),
         NEW refs, refs = ResolveKeys(KeysOf(p, u), IdByKey(es))
  PROVE  /\ refs \in Seq(0 .. O[Len(es)] - 1)
         /\ Len(refs) = Cardinality(Mentioned(p, u))
         /\ {TypeKeys(es)[id + 1] : id \in Range(refs)} = Mentioned(p, u)
<1> DEFINE keys == TypeKeys(es)
           top == O[Len(es)]
           ids == IdByKey(es)
           C == KeysOf(p, u) \cap DOMAIN ids
           S == {ids[key] : key \in C}
           key == [n \in S |-> n]
           M == Cardinality(S)
<1>1. /\ keys \in Seq(Key) /\ Len(keys) = top /\ DOMAIN keys = 1 .. top /\ top \in Nat
      /\ \A n \in 1 .. top : Declared(keys[n])
      /\ \A k \in Key : Declared(k) => \E n \in 1 .. top : keys[n] = k
  <2>1. es \in Seq(PackageExtract)
    BY DEF RightExtracts
  <2>2. keys \in Seq(Key) /\ Len(keys) = top
    BY <2>1, TypeKeysAre
  <2>3. \A n \in 1 .. top : Declared(keys[n])
    BY KeysAreDeclared
  <2>4. \A k \in Key : Declared(k) => \E n \in 1 .. top : keys[n] = k
    BY KeysAreDeclared
  <2> HIDE DEF keys, top
  <2>5. DOMAIN keys = 1 .. top /\ top \in Nat
    BY <2>2, LenProperties
  <2> QED BY <2>2, <2>3, <2>4, <2>5
<1>2. DOMAIN ids = Range(keys)
  BY IdsAre
<1>3. \A n \in 1 .. top : ids[keys[n]] = n - 1
  BY IdsAre
<1>4. u.uses \subseteq Key /\ IsFiniteSet(u.uses)
  <2>1. u \in SourceType /\ IsFiniteSet(u.uses)
    BY SelectedType
  <2> QED BY <2>1 DEF SourceType
<1>5. refs = Sorted(S, key)
  BY DEF ResolveKeys, SortedNumbers
<1> HIDE DEF keys, top, ids
<1>6. \A k \in DOMAIN ids : \E n \in 1 .. top : k = keys[n] /\ ids[k] = n - 1
  BY <1>1, <1>2, <1>3 DEF Range
<1>7. C = Mentioned(p, u)
  <2>1. ASSUME NEW k \in C PROVE k \in Mentioned(p, u)
    <3>1. k \in u.uses /\ k # <<p.path, u.name>> /\ k \in DOMAIN ids
      BY DEF KeysOf
    <3>2. Declared(k)
      BY <1>1, <1>6, <3>1
    <3> QED BY <3>1, <3>2 DEF Mentioned, Declared
  <2>2. ASSUME NEW k \in Mentioned(p, u) PROVE k \in C
    <3>1. k \in u.uses /\ k # <<p.path, u.name>> /\ Declared(k)
      BY DEF Mentioned, Declared
    <3>2. k[1] \in {q.path : q \in Selected}
      BY <3>1 DEF Declared
    <3>3. PICK n \in 1 .. top : keys[n] = k
      BY <1>1, <1>4, <3>1
    <3>4. k \in DOMAIN ids
      BY <1>1, <1>2, <3>3 DEF Range
    <3> QED BY <3>1, <3>2, <3>4 DEF KeysOf
  <2> QED BY <2>1, <2>2
<1>8. IsFiniteSet(C)
  <2>1. C \subseteq u.uses
    BY DEF KeysOf
  <2> QED BY <1>4, <2>1, FS_Subset
<1>9. IsFiniteSet(S) /\ Cardinality(S) = Cardinality(C)
  <2> DEFINE b == [k \in C |-> ids[k]]
  <2>1. \A k, m \in C : ids[k] = ids[m] => k = m
    <3> SUFFICES ASSUME NEW k \in C, NEW m \in C, ids[k] = ids[m] PROVE k = m
      OBVIOUS
    <3>1. PICK i \in 1 .. top : k = keys[i] /\ ids[k] = i - 1
      BY <1>6
    <3>2. PICK j \in 1 .. top : m = keys[j] /\ ids[m] = j - 1
      BY <1>6
    <3>3. i = j
      BY <3>1, <3>2
    <3> QED BY <3>1, <3>2, <3>3
  <2> HIDE DEF C
  <2>2. b \in Injection(C, S) /\ b \in Surjection(C, S)
    BY <2>1 DEF Injection, IsInjective, Surjection
  <2>3. ExistsBijection(C, S)
    <3> HIDE DEF b, S
    <3> QED BY <2>2 DEF ExistsBijection, Bijection
  <2> HIDE DEF S
  <2> QED BY <1>8, <2>3, FS_Bijection
<1>10. S \subseteq 0 .. top - 1 /\ S \subseteq Int
  <2>1. \A k \in C : ids[k] \in 0 .. top - 1
    BY <1>1, <1>6
  <2> QED BY <2>1
<1>11. key \in [S -> Int] /\ \A x, y \in S : key[x] = key[y] => x = y
  <2> HIDE DEF S
  <2> QED BY <1>10
<1>12. \A id \in S : \E k \in C : id = ids[k]
  OBVIOUS
<1>13. \A k \in C : ids[k] \in S
  OBVIOUS
<1>14. \A k \in C : keys[ids[k] + 1] = k
  <2> SUFFICES ASSUME NEW k \in C PROVE keys[ids[k] + 1] = k
    OBVIOUS
  <2>1. PICK n \in 1 .. top : k = keys[n] /\ ids[k] = n - 1
    BY <1>6
  <2> QED BY <2>1
<1> HIDE DEF S, key, C
<1>15. M \in Nat
  BY <1>9, <1>11, SortedIs
<1>16. refs \in [1 .. M -> S]
  BY <1>5, <1>9, <1>11, SortedIs
<1>17. \A x \in S : \E n \in 1 .. M : refs[n] = x
  BY <1>5, <1>9, <1>11, SortedIs
<1> HIDE DEF M
<1>18. refs \in Seq(0 .. top - 1) /\ Len(refs) = M
  <2> DEFINE V == 0 .. top - 1
  <2>1. refs \in [1 .. M -> V]
    BY <1>10, <1>16
  <2> HIDE DEF V
  <2>2. refs \in Seq(V) /\ Len(refs) = M
    BY <1>15, <2>1
  <2> QED BY <2>2 DEF V
<1>19. Range(refs) = S
  BY <1>16, <1>17 DEF Range
<1>20. {keys[id + 1] : id \in Range(refs)} = C
  <2>1. ASSUME NEW id \in S PROVE keys[id + 1] \in C
    BY <1>12, <1>14
  <2>2. ASSUME NEW k \in C PROVE \E id \in S : k = keys[id + 1]
    BY <1>13, <1>14
  <2> QED BY <1>19, <2>1, <2>2
<1> QED BY <1>7, <1>9, <1>18, <1>20 DEF keys, top, M

-----------------------------------------------------------------------------
\* t tells of type u of package p its name and what it refers to.
TypeRight(f, t, p, u) ==
  /\ t.name = u.name
  /\ Len(t.refs) = Cardinality(Mentioned(p, u))
  /\ {LET r == f.types[id + 1] IN <<f.packages[r.package + 1].path, r.name>> : id \in Range(t.refs)}
       = Mentioned(p, u)

TypeAt(f, k, t) == f.types[f.packages[k].typeIDs[t] + 1]

\* The k-th package is p, with the types of p that are not skipped.
PackageRight(f, k, p) ==
  /\ f.packages[k].path = p.path
  /\ \A i, j \in DOMAIN f.packages[k].typeIDs : i < j => TypeAt(f, k, i).name < TypeAt(f, k, j).name
  /\ \A t \in DOMAIN f.packages[k].typeIDs : \E u \in Range(p.types) :
       Included(u, includeGenerated) /\ TypeRight(f, TypeAt(f, k, t), p, u)
  /\ \A u \in Range(p.types) : Included(u, includeGenerated) =>
       \E t \in DOMAIN f.packages[k].typeIDs : TypeAt(f, k, t).name = u.name

\* The facts have the selected packages by increasing path, and every type is one of
\* its package's.
FactsRight(f) ==
  /\ DOMAIN f.packages = 1 .. Len(f.packages) /\ Len(f.packages) \in Nat
  /\ DOMAIN f.types \subseteq Int
  /\ \A i, j \in DOMAIN f.packages : i < j => f.packages[i].path < f.packages[j].path
  /\ \A p \in Selected : \E k \in DOMAIN f.packages : f.packages[k].path = p.path
  /\ \A k \in DOMAIN f.packages : \E p \in Selected : PackageRight(f, k, p)
  /\ \A n \in DOMAIN f.types : \E k \in DOMAIN f.packages :
       /\ f.types[n].package = k - 1
       /\ \E t \in DOMAIN f.packages[k].typeIDs : f.packages[k].typeIDs[t] = n - 1

\* Where appendPackages puts packages and types.
IsAssembled(f, es, O) ==
  /\ DOMAIN f.packages = 1 .. Len(es) /\ Len(f.packages) = Len(es)
  /\ DOMAIN f.types = 1 .. O[Len(es)]
  /\ \A p \in 1 .. Len(es) :
       /\ f.packages[p].path = es[p].path
       /\ DOMAIN f.packages[p].typeIDs = 1 .. Len(es[p].types)
       /\ \A t \in 1 .. Len(es[p].types) :
            /\ f.packages[p].typeIDs[t] = O[p - 1] + t - 1
            /\ O[p - 1] + t \in 1 .. O[Len(es)]
            /\ f.types[O[p - 1] + t] =
                 [package |-> p - 1, name |-> es[p].types[t].name,
                  refs |-> ResolveKeys(es[p].types[t].keys, IdByKey(es))]

LEMMA AssembledIs ==
  ASSUME NEW es \in Seq(PackageExtract), NEW O, IsNumbering(O, es)
  PROVE  IsAssembled(Assembled(es, IdByKey(es)), es, O)
<1> DEFINE N == Len(es)
           f == Assembled(es, IdByKey(es))
           L(p) == Len(es[p].types)
           Type(p, t) == [package |-> p - 1, name |-> es[p].types[t].name,
                          refs |-> ResolveKeys(es[p].types[t].keys, IdByKey(es))]
           Row(p) == [t \in DOMAIN es[p].types |-> Type(p, t)]
           rows == [p \in DOMAIN es |-> Row(p)]
           First(p) == Len(TypeKeys(SubSeq(es, 1, p - 1)))
           Ids(p) == [t \in DOMAIN es[p].types |-> First(p) + t - 1]
           packages == [p \in DOMAIN es |-> [path |-> es[p].path, typeIDs |-> Ids(p)]]
           T == UNION {Range(Row(p)) : p \in 1 .. N}
<1>1. N \in Nat /\ DOMAIN es = 1 .. N
  BY LenProperties
<1>2. \A p \in 1 .. N : L(p) \in Nat /\ DOMAIN es[p].types = 1 .. L(p)
  <2> SUFFICES ASSUME NEW p \in 1 .. N PROVE L(p) \in Nat /\ DOMAIN es[p].types = 1 .. L(p)
    OBVIOUS
  <2>1. es[p] \in PackageExtract
    BY ElementOfSeq
  <2>2. es[p].types \in Seq(ExtractType)
    BY <2>1 DEF PackageExtract
  <2> QED BY <2>2, LenProperties
<1>3. f.packages = packages /\ f.types = FlattenSeq(rows)
  BY DEF Assembled
<1> HIDE DEF Type, f, L, N
<1>4. \A p \in 1 .. N : DOMAIN Row(p) = 1 .. L(p) /\ Row(p) \in [1 .. L(p) -> T] /\ \A t \in 1 .. L(p) : Row(p)[t] = Type(p, t)
  <2> SUFFICES ASSUME NEW p \in 1 .. N
               PROVE  DOMAIN Row(p) = 1 .. L(p) /\ Row(p) \in [1 .. L(p) -> T] /\ \A t \in 1 .. L(p) : Row(p)[t] = Type(p, t)
    OBVIOUS
  <2>1. Row(p) = [t \in 1 .. L(p) |-> Type(p, t)]
    BY <1>2
  <2>2. \A t \in 1 .. L(p) : Type(p, t) \in T
    <3>1. \A t \in 1 .. L(p) : Type(p, t) \in Range(Row(p))
      BY <1>2 DEF Range
    <3> HIDE DEF Row
    <3> QED BY <3>1
  <2> HIDE DEF Row, T
  <2> QED BY <2>1, <2>2
<1> HIDE DEF Row, T
<1>5. \A p \in 1 .. N : Row(p) \in Seq(T) /\ Len(Row(p)) = L(p)
  BY <1>2, <1>4
<1>6. rows \in Seq(Seq(T)) /\ Len(rows) = N /\ \A p \in 1 .. N : rows[p] = Row(p)
  <2>1. rows \in [1 .. N -> Seq(T)] /\ \A p \in 1 .. N : rows[p] = Row(p)
    BY <1>1, <1>5
  <2> HIDE DEF rows
  <2> QED BY <1>1, <2>1
<1> HIDE DEF rows
<1>7. IsRows(rows, es)
  BY <1>5, <1>6 DEF IsRows, N, L
<1>8. f.types \in Seq(T) /\ Len(f.types) = O[N]
  BY <1>3, <1>6, <1>7, FlattenedRows DEF N
<1>9. \A p \in 1 .. N : \A t \in 1 .. L(p) : O[p - 1] + t \in 1 .. O[N] /\ f.types[O[p - 1] + t] = rows[p][t]
  BY <1>3, <1>6, <1>7, FlattenedRows DEF N, L
<1>10. DOMAIN f.types = 1 .. O[N]
  BY <1>8, LenProperties
<1>11. \A p \in 1 .. N : \A t \in 1 .. L(p) : f.types[O[p - 1] + t] = Type(p, t)
  <2> SUFFICES ASSUME NEW p \in 1 .. N, NEW t \in 1 .. L(p)
               PROVE  f.types[O[p - 1] + t] = Type(p, t)
    OBVIOUS
  <2>1. f.types[O[p - 1] + t] = rows[p][t] /\ rows[p] = Row(p)
    BY <1>6, <1>9
  <2>2. Row(p)[t] = Type(p, t)
    BY <1>4
  <2> QED BY <2>1, <2>2
<1>12. \A p \in 1 .. N : First(p) = O[p - 1]
  BY FirstIs DEF N
<1> HIDE DEF First
<1>13. \A p \in 1 .. N : DOMAIN Ids(p) = 1 .. L(p) /\ \A t \in 1 .. L(p) : Ids(p)[t] = O[p - 1] + t - 1
  BY <1>2, <1>12
<1> HIDE DEF Ids
<1>14. DOMAIN f.packages = 1 .. N /\ \A p \in 1 .. N : f.packages[p].path = es[p].path /\ f.packages[p].typeIDs = Ids(p)
  BY <1>1, <1>3
<1>15. Len(f.packages) = N
  <2> DEFINE V == {[path |-> es[p].path, typeIDs |-> Ids(p)] : p \in 1 .. N}
  <2>1. packages \in [1 .. N -> V]
    BY <1>1
  <2> HIDE DEF packages, V
  <2> QED BY <1>1, <1>3, <2>1
<1> QED
  <2>1. \A p \in 1 .. N :
          /\ f.packages[p].path = es[p].path
          /\ DOMAIN f.packages[p].typeIDs = 1 .. L(p)
          /\ \A t \in 1 .. L(p) :
               /\ f.packages[p].typeIDs[t] = O[p - 1] + t - 1
               /\ O[p - 1] + t \in 1 .. O[N]
               /\ f.types[O[p - 1] + t] = Type(p, t)
    BY <1>9, <1>11, <1>13, <1>14
  <2> QED BY <1>10, <1>14, <1>15, <2>1 DEF IsAssembled, f, L, N, Type

\* What Assemble makes of the right extracts: the facts of the selected packages.
LEMMA AssembledIsRight ==
  ASSUME loaded \in Loads, NEW es, RightExtracts(es)
  PROVE  FactsRight(Assembled(es, IdByKey(es)))
<1> DEFINE N == Len(es)
           f == Assembled(es, IdByKey(es))
           L(p) == Len(es[p].types)
           keys == TypeKeys(es)
           ids == IdByKey(es)
<1>1. es \in Seq(PackageExtract) /\ N \in Nat /\ DOMAIN es = 1 .. N
  BY LenProperties DEF RightExtracts
<1>2. PICK O : IsNumbering(O, es)
  BY <1>1, NumberingExists
<1> DEFINE top == O[N]
<1>3. IsAssembled(f, es, O)
  BY <1>1, <1>2, AssembledIs
<1>4. /\ keys \in Seq(Key) /\ Len(keys) = top
      /\ \A p \in 1 .. N : \A t \in 1 .. L(p) : keys[O[p - 1] + t] = <<es[p].path, es[p].types[t].name>>
  BY <1>1, <1>2, TypeKeysAre
<1>5. \A n \in 1 .. top : \E p \in 1 .. N : \E t \in 1 .. L(p) : n = O[p - 1] + t
  BY <1>1, <1>2, EveryID
<1>6. \A p \in 1 .. N : L(p) \in Nat /\ DOMAIN es[p].types = 1 .. L(p)
  <2> SUFFICES ASSUME NEW p \in 1 .. N PROVE L(p) \in Nat /\ DOMAIN es[p].types = 1 .. L(p)
    OBVIOUS
  <2>1. es[p] \in PackageExtract
    BY <1>1, ElementOfSeq
  <2>2. es[p].types \in Seq(ExtractType)
    BY <2>1 DEF PackageExtract
  <2> QED BY <2>2, LenProperties
<1>7. \A p \in 1 .. N : O[p - 1] \in Nat
  <2>1. \A p \in 1 .. N : p - 1 \in 0 .. N
    BY <1>1
  <2> QED BY <1>2, <2>1 DEF IsNumbering
<1> HIDE DEF N, f, L, keys, top, ids
<1>8. DOMAIN f.packages = 1 .. N /\ Len(f.packages) = N /\ DOMAIN f.types = 1 .. top
  BY <1>3 DEF IsAssembled, N, top
<1>9. \A p \in 1 .. N :
        /\ f.packages[p].path = es[p].path
        /\ DOMAIN f.packages[p].typeIDs = 1 .. L(p)
        /\ \A t \in 1 .. L(p) :
             /\ f.packages[p].typeIDs[t] = O[p - 1] + t - 1
             /\ O[p - 1] + t \in 1 .. top
             /\ f.types[O[p - 1] + t] =
                  [package |-> p - 1, name |-> es[p].types[t].name,
                   refs |-> ResolveKeys(es[p].types[t].keys, ids)]
  BY <1>3 DEF IsAssembled, N, top, L, ids
<1>10. ASSUME NEW p \in 1 .. N, NEW t \in 1 .. L(p)
      PROVE  /\ f.packages[p].typeIDs[t] = (O[p - 1] + t) - 1
             /\ f.packages[p].typeIDs[t] + 1 = O[p - 1] + t
             /\ f.types[O[p - 1] + t].package = p - 1
             /\ f.types[O[p - 1] + t].name = es[p].types[t].name
             /\ f.types[O[p - 1] + t].refs = ResolveKeys(es[p].types[t].keys, ids)
  <2> DEFINE at == O[p - 1] + t
             id == f.packages[p].typeIDs[t]
             refs == ResolveKeys(es[p].types[t].keys, ids)
             name == es[p].types[t].name
  <2>1. O[p - 1] \in Nat /\ L(p) \in Nat
    BY <1>6, <1>7
  <2>2. t \in Int /\ at \in Int
    BY <2>1
  <2>3. id = at - 1
    <3>1. \A u \in 1 .. L(p) : f.packages[p].typeIDs[u] = O[p - 1] + u - 1
      BY <1>9
    <3>2. id = O[p - 1] + (t - 1)
      BY <3>1, Zenon
    <3> DEFINE first == O[p - 1]
    <3> HIDE DEF first, id
    <3>3. first \in Nat /\ t \in Int /\ id = first + (t - 1)
      BY <2>1, <2>2, <3>2 DEF first
    <3>4. id = (first + t) - 1
      BY <3>3
    <3> QED BY <3>4 DEF first
  <2>4. f.types[at] = [package |-> p - 1, name |-> name, refs |-> refs]
    BY <1>9
  <2> HIDE DEF at, id, refs, name
  <2>5. id = at - 1 /\ id + 1 = at
    BY <2>2, <2>3
  <2>6. f.types[at].package = p - 1 /\ f.types[at].name = name /\ f.types[at].refs = refs
    BY <2>4
  <2> QED BY <2>5, <2>6 DEF at, id, refs, name
<1>11. ASSUME NEW n \in 1 .. top
       PROVE  \E p \in 1 .. N : \E t \in 1 .. L(p) :
                /\ f.types[n].package = p - 1 /\ f.packages[p].typeIDs[t] = n - 1
                /\ <<f.packages[f.types[n].package + 1].path, f.types[n].name>> = keys[n]
  <2>1. PICK p \in 1 .. N : \E t \in 1 .. L(p) : n = O[p - 1] + t
    BY <1>5
  <2>2. PICK t \in 1 .. L(p) : n = O[p - 1] + t
    BY <2>1
  <2>3. /\ f.packages[p].typeIDs[t] = n - 1
        /\ f.types[n].package = p - 1 /\ f.types[n].name = es[p].types[t].name
    BY <1>10, <2>2
  <2>4. f.types[n].package + 1 = p
    BY <2>3
  <2>5. f.packages[p].path = es[p].path
    BY <1>9
  <2>6. keys[n] = <<es[p].path, es[p].types[t].name>>
    BY <1>4, <2>2
  <2> QED BY <2>3, <2>4, <2>5, <2>6
<1>12. ASSUME NEW p \in 1 .. N, NEW t \in 1 .. L(p)
       PROVE  /\ TypeAt(f, p, t).name = es[p].types[t].name
              /\ TypeAt(f, p, t).refs = ResolveKeys(es[p].types[t].keys, ids)
  BY <1>10 DEF TypeAt
<1>13. ASSUME NEW p \in Selected, NEW u \in Range(p.types), NEW t,
              t.name = u.name, t.refs = ResolveKeys(KeysOf(p, u), ids)
       PROVE  TypeRight(f, t, p, u)
  <2>1. t.refs \in Seq(0 .. top - 1)
    BY <1>2, <1>13, ReferencesAre DEF ids, top, N
  <2>2. Len(t.refs) = Cardinality(Mentioned(p, u))
    BY <1>2, <1>13, ReferencesAre DEF ids
  <2>3. {keys[id + 1] : id \in Range(t.refs)} = Mentioned(p, u)
    BY <1>2, <1>13, ReferencesAre DEF ids, keys
  <2>4. \A id \in Range(t.refs) : id + 1 \in 1 .. top
    <3>1. \A id \in Range(t.refs) : id \in 0 .. top - 1
      BY <2>1, RangeOfSeq
    <3>2. top \in Nat
      BY <1>4, LenProperties
    <3> QED BY <3>1, <3>2
  <2> DEFINE Name(n) == <<f.packages[f.types[n].package + 1].path, f.types[n].name>>
  <2>5. \A id \in Range(t.refs) : Name(id + 1) = keys[id + 1]
    BY <1>11, <2>4
  <2>6. {Name(id + 1) : id \in Range(t.refs)} = Mentioned(p, u)
    <3> HIDE DEF Name
    <3> QED BY <2>3, <2>5
  <2> QED BY <1>13, <2>2, <2>6 DEF TypeRight
<1>14. ASSUME NEW k \in 1 .. N PROVE \E p \in Selected : PackageRight(f, k, p)
  <2>1. PICK p \in Selected : ExtractedFrom(es[k], p)
    BY <1>1 DEF RightExtracts
  <2>2. f.packages[k].path = p.path
    BY <1>9, <2>1 DEF ExtractedFrom
  <2>3. DOMAIN f.packages[k].typeIDs = 1 .. L(k) /\ DOMAIN es[k].types = 1 .. L(k)
    BY <1>6, <1>9
  <2>4. \A i, j \in 1 .. L(k) : i < j => TypeAt(f, k, i).name < TypeAt(f, k, j).name
    <3>1. \A i, j \in 1 .. L(k) : i < j => es[k].types[i].name < es[k].types[j].name
      BY <1>1, <2>3 DEF RightExtracts
    <3>2. \A i \in 1 .. L(k) : TypeAt(f, k, i).name = es[k].types[i].name
      BY <1>12
    <3> QED BY <3>1, <3>2
  <2>5. ASSUME NEW t \in 1 .. L(k)
        PROVE  \E u \in Range(p.types) : Included(u, includeGenerated) /\ TypeRight(f, TypeAt(f, k, t), p, u)
    <3>1. PICK u \in Range(p.types) :
            Included(u, includeGenerated) /\ es[k].types[t] = [name |-> u.name, keys |-> KeysOf(p, u)]
      BY <2>1, <2>3 DEF ExtractedFrom
    <3>2. TypeAt(f, k, t).name = u.name /\ TypeAt(f, k, t).refs = ResolveKeys(KeysOf(p, u), ids)
      BY <1>12, <3>1
    <3> QED BY <1>13, <3>1, <3>2
  <2>6. ASSUME NEW u \in Range(p.types), Included(u, includeGenerated)
        PROVE  \E t \in 1 .. L(k) : TypeAt(f, k, t).name = u.name
    <3>1. PICK t \in DOMAIN es[k].types : es[k].types[t].name = u.name
      BY <2>1, <2>6 DEF ExtractedFrom
    <3> QED BY <1>12, <2>3, <3>1
  <2>7. PackageRight(f, k, p)
    BY <2>2, <2>3, <2>4, <2>5, <2>6 DEF PackageRight
  <2> QED BY <2>7
<1>15. \A i, j \in 1 .. N : i < j => f.packages[i].path < f.packages[j].path
  BY <1>1, <1>9 DEF RightExtracts
<1>16. \A p \in Selected : \E k \in 1 .. N : f.packages[k].path = p.path
  BY <1>1, <1>9 DEF RightExtracts
<1>17. \A n \in 1 .. top : \E k \in 1 .. N :
         /\ f.types[n].package = k - 1
         /\ \E t \in DOMAIN f.packages[k].typeIDs : f.packages[k].typeIDs[t] = n - 1
  BY <1>9, <1>11, ZenonT(60)
<1>18. FactsRight(f)
  <2>1. DOMAIN f.types \subseteq Int
    BY <1>8
  <2> QED BY <2>1, <1>1, <1>8, <1>14, <1>15, <1>16, <1>17 DEF FactsRight
<1> QED BY <1>18 DEF f

-----------------------------------------------------------------------------
\* What the facts are right for does not change under them.
LEMMA SelectedKept ==
  ASSUME UNCHANGED <<loaded, includeGenerated>>
  PROVE  Selected' = Selected /\ \A p, u : Mentioned(p, u)' = Mentioned(p, u)
<1>1. Selected' = Selected
  BY DEF Selected
<1>2. ASSUME NEW p, NEW u PROVE Mentioned(p, u)' = Mentioned(p, u)
  BY <1>1 DEF Mentioned, Included
<1> QED BY <1>1, <1>2

LEMMA FactsStayRight ==
  ASSUME UNCHANGED <<loaded, includeGenerated>>, FactsRight(facts')
  PROVE  FactsRight(facts)'
<1>1. Selected' = Selected /\ \A p, u : Mentioned(p, u)' = Mentioned(p, u)
  BY SelectedKept
<1>2. \A k, t : TypeAt(facts, k, t)' = TypeAt(facts', k, t)
  BY DEF TypeAt
<1>3. ASSUME NEW k, NEW t, NEW p, NEW u, TypeRight(facts', TypeAt(facts', k, t), p, u)
      PROVE  TypeRight(facts, TypeAt(facts, k, t), p, u)'
  BY <1>1, <1>2, <1>3 DEF TypeRight
<1>4. ASSUME NEW k, NEW p, PackageRight(facts', k, p) PROVE PackageRight(facts, k, p)'
  <2>1. \A u : Included(u, includeGenerated)' <=> Included(u, includeGenerated)
    BY DEF Included
  <2>2. \A t \in DOMAIN facts'.packages[k].typeIDs : \E u \in Range(p.types) :
          Included(u, includeGenerated)' /\ TypeRight(facts, TypeAt(facts, k, t), p, u)'
    <3> SUFFICES ASSUME NEW t \in DOMAIN facts'.packages[k].typeIDs
                 PROVE  \E u \in Range(p.types) :
                          Included(u, includeGenerated)' /\ TypeRight(facts, TypeAt(facts, k, t), p, u)'
      OBVIOUS
    <3>1. PICK u \in Range(p.types) : Included(u, includeGenerated) /\ TypeRight(facts', TypeAt(facts', k, t), p, u)
      BY <1>4 DEF PackageRight
    <3>2. TypeRight(facts, TypeAt(facts, k, t), p, u)'
      BY <1>3, <3>1
    <3> QED BY <2>1, <3>1, <3>2
  <2>3. \A i, j \in DOMAIN facts'.packages[k].typeIDs :
          i < j => TypeAt(facts, k, i)'.name < TypeAt(facts, k, j)'.name
    BY <1>2, <1>4 DEF PackageRight
  <2>4. \A u \in Range(p.types) : Included(u, includeGenerated)' =>
          \E t \in DOMAIN facts'.packages[k].typeIDs : TypeAt(facts, k, t)'.name = u.name
    BY <1>2, <1>4, <2>1 DEF PackageRight
  <2>5. facts'.packages[k].path = p.path
    BY <1>4 DEF PackageRight
  <2> QED BY <2>2, <2>3, <2>4, <2>5 DEF PackageRight
<1> QED BY <1>1, <1>4 DEF FactsRight

\* Right facts are consistent: a reference's name and owner are what the source says.
LEMMA RightIsConsistent ==
  ASSUME loaded \in Loads, FactsRight(facts), NEW n \in DOMAIN facts.types
  PROVE  LET t == facts.types[n]
             path(u) == facts.packages[u.package + 1].path
         IN /\ \E k \in DOMAIN facts.packages[t.package + 1].typeIDs :
                 facts.packages[t.package + 1].typeIDs[k] = n - 1
            /\ \A p \in Selected : \A u \in Range(p.types) :
                 p.path = path(t) /\ u.name = t.name =>
                   {LET r == facts.types[id + 1] IN <<path(r), r.name>> : id \in Range(t.refs)}
                     = Mentioned(p, u)
<1> DEFINE t == facts.types[n]
<1>1. PICK k \in DOMAIN facts.packages :
        /\ t.package = k - 1
        /\ \E i \in DOMAIN facts.packages[k].typeIDs : facts.packages[k].typeIDs[i] = n - 1
  BY DEF FactsRight
<1>2. PICK i \in DOMAIN facts.packages[k].typeIDs : facts.packages[k].typeIDs[i] = n - 1
  BY <1>1
<1>3. k \in Int /\ t.package + 1 = k
  <2>1. k \in Int
    BY DEF FactsRight
  <2> HIDE DEF t
  <2> QED BY <1>1, <2>1
<1>4. n \in Int /\ TypeAt(facts, k, i) = t
  <2>1. n \in Int
    BY DEF FactsRight
  <2> QED BY <1>2, <2>1 DEF TypeAt
<1>5. PICK q \in Selected : PackageRight(facts, k, q)
  BY DEF FactsRight
<1>6. PICK v \in Range(q.types) : TypeRight(facts, t, q, v)
  BY <1>2, <1>4, <1>5 DEF PackageRight
<1>7. ASSUME NEW p \in Selected, NEW u \in Range(p.types),
             p.path = facts.packages[t.package + 1].path, u.name = t.name
      PROVE  p = q /\ u = v
  <2>1. p = q
    BY <1>3, <1>5, <1>7, SelectedByPath DEF PackageRight
  <2>2. v.name = u.name
    BY <1>6, <1>7 DEF TypeRight
  <2> QED BY <2>1, <2>2, SelectedType DEF Range
<1> HIDE DEF t
<1>8. {LET r == facts.types[id + 1] IN <<facts.packages[r.package + 1].path, r.name>> : id \in Range(t.refs)}
        = Mentioned(q, v)
  BY <1>6 DEF TypeRight
<1>9. \E j \in DOMAIN facts.packages[t.package + 1].typeIDs : facts.packages[t.package + 1].typeIDs[j] = n - 1
  BY <1>2, <1>3
<1> QED BY <1>7, <1>8, <1>9 DEF t

\* rs tells of the selected packages what ReportIsOfTheLoad says.
ReportRight(rs) ==
  LET Increasing(s) == \A i, j \in DOMAIN s : i < j => s[i] < s[j]
  IN /\ Increasing([k \in DOMAIN rs |-> rs[k].path])
     /\ {r.path : r \in Range(rs)} = {p.path : p \in Selected}
     /\ \A r \in Range(rs) : \A p \in Selected : p.path = r.path =>
          /\ Increasing([k \in DOMAIN r.types |-> r.types[k].name])
          /\ Range(r.types) = {[name |-> t.name, coupledTo |-> Cardinality(Mentioned(p, t))] :
                                 t \in {u \in Range(p.types) : Included(u, includeGenerated)}}

\* What analyzePackage makes of right facts.
LEMMA MeasuredIsRight ==
  ASSUME loaded \in Loads, FactsRight(facts), DOMAIN results = DOMAIN facts.packages,
         \A k \in DOMAIN results : results[k] = AnalyzePackage(facts.packages[k])
  PROVE  ReportRight(results)
<1> DEFINE Ids(k) == facts.packages[k].typeIDs
           Row(k) == [t \in DOMAIN Ids(k) |->
                        [name |-> TypeAt(facts, k, t).name, coupledTo |-> Len(TypeAt(facts, k, t).refs)]]
<1>1. \A k \in DOMAIN results : results[k] = [path |-> facts.packages[k].path, types |-> Row(k)]
  BY Zenon DEF AnalyzePackage, TypeAt
<1> HIDE DEF Row
<1>2. \A k \in DOMAIN results : results[k].path = facts.packages[k].path /\ results[k].types = Row(k)
  <2> SUFFICES ASSUME NEW k \in DOMAIN results
               PROVE  results[k].path = facts.packages[k].path /\ results[k].types = Row(k)
    OBVIOUS
  <2> DEFINE path == facts.packages[k].path
             row == Row(k)
  <2>1. results[k] = [path |-> path, types |-> row]
    BY <1>1
  <2> HIDE DEF path, row
  <2>2. results[k].path = path /\ results[k].types = row
    BY <2>1
  <2> QED BY <2>2 DEF path, row
<1>3. \A i, j \in DOMAIN results : i < j => results[i].path < results[j].path
  BY <1>2 DEF FactsRight
<1>4. \A k \in DOMAIN results : \E p \in Selected : p.path = results[k].path /\ PackageRight(facts, k, p)
  BY <1>2 DEF FactsRight, PackageRight
<1>5. {r.path : r \in Range(results)} = {p.path : p \in Selected}
  <2>1. ASSUME NEW r \in Range(results) PROVE \E p \in Selected : r.path = p.path
    BY <1>4 DEF Range
  <2>2. ASSUME NEW p \in Selected PROVE \E r \in Range(results) : r.path = p.path
    <3>1. PICK k \in DOMAIN results : results[k].path = p.path
      BY <1>2 DEF FactsRight
    <3> QED BY <3>1 DEF Range
  <2> QED BY <2>1, <2>2
<1>6. ASSUME NEW k \in DOMAIN results, NEW p \in Selected, p.path = results[k].path
      PROVE  /\ DOMAIN Row(k) = DOMAIN Ids(k)
             /\ \A i, j \in DOMAIN Ids(k) : i < j => Row(k)[i].name < Row(k)[j].name
             /\ Range(Row(k)) = {[name |-> t.name, coupledTo |-> Cardinality(Mentioned(p, t))] :
                                   t \in {u \in Range(p.types) : Included(u, includeGenerated)}}
  <2>1. PackageRight(facts, k, p)
    <3>1. PICK q \in Selected : q.path = results[k].path /\ PackageRight(facts, k, q)
      BY <1>4
    <3>2. p = q
      BY <1>6, <3>1, SelectedByPath
    <3> QED BY <3>1, <3>2
  <2>2. DOMAIN Row(k) = DOMAIN Ids(k)
    BY DEF Row
  <2>3. \A t \in DOMAIN Ids(k) :
          Row(k)[t] = [name |-> TypeAt(facts, k, t).name, coupledTo |-> Len(TypeAt(facts, k, t).refs)]
    BY DEF Row
  <2>4. \A i, j \in DOMAIN Ids(k) : i < j => Row(k)[i].name < Row(k)[j].name
    <3>1. \A i, j \in DOMAIN Ids(k) : i < j => TypeAt(facts, k, i).name < TypeAt(facts, k, j).name
      BY <2>1 DEF PackageRight
    <3>2. ASSUME NEW i \in DOMAIN Ids(k) PROVE Row(k)[i].name = TypeAt(facts, k, i).name
      <4> DEFINE name == TypeAt(facts, k, i).name
                 count == Len(TypeAt(facts, k, i).refs)
      <4>1. Row(k)[i] = [name |-> name, coupledTo |-> count]
        BY <2>3
      <4> HIDE DEF name, count
      <4>2. Row(k)[i].name = name
        BY <4>1
      <4> QED BY <4>2 DEF name
    <3> HIDE DEF Ids
    <3> QED BY <3>1, <3>2
  <2> DEFINE Told(u) == [name |-> u.name, coupledTo |-> Cardinality(Mentioned(p, u))]
  <2>5. \A u \in Range(p.types) : \A t \in DOMAIN Ids(k) :
          TypeRight(facts, TypeAt(facts, k, t), p, u) => Row(k)[t] = Told(u)
    BY <2>3 DEF TypeRight
  <2>6. ASSUME NEW t \in DOMAIN Ids(k)
        PROVE  \E u \in Range(p.types) : Included(u, includeGenerated) /\ Row(k)[t] = Told(u)
    <3>1. PICK u \in Range(p.types) :
            Included(u, includeGenerated) /\ TypeRight(facts, TypeAt(facts, k, t), p, u)
      BY <2>1 DEF PackageRight
    <3> QED BY <2>5, <3>1
  <2>7. ASSUME NEW u \in Range(p.types), Included(u, includeGenerated)
        PROVE  \E t \in DOMAIN Ids(k) : Row(k)[t] = Told(u)
    <3>1. PICK t \in DOMAIN Ids(k) : TypeAt(facts, k, t).name = u.name
      BY <2>1, <2>7 DEF PackageRight
    <3>2. PICK v \in Range(p.types) : TypeRight(facts, TypeAt(facts, k, t), p, v)
      BY <2>1 DEF PackageRight
    <3>3. v = u
      <4>1. v.name = u.name
        BY <3>1, <3>2 DEF TypeRight
      <4> QED BY <4>1, SelectedType DEF Range
    <3> QED BY <2>5, <3>2, <3>3
  <2> HIDE DEF Ids, Told
  <2>8. Range(Row(k)) = {Told(u) : u \in {v \in Range(p.types) : Included(v, includeGenerated)}}
    BY <2>2, <2>6, <2>7 DEF Range
  <2> QED BY <2>2, <2>4, <2>8 DEF Told, Ids
<1>7. ASSUME NEW r \in Range(results), NEW p \in Selected, p.path = r.path
      PROVE  /\ \A i, j \in DOMAIN r.types : i < j => r.types[i].name < r.types[j].name
             /\ Range(r.types) = {[name |-> t.name, coupledTo |-> Cardinality(Mentioned(p, t))] :
                                   t \in {u \in Range(p.types) : Included(u, includeGenerated)}}
  <2>1. PICK k \in DOMAIN results : r = results[k]
    BY DEF Range
  <2>2. r.types = Row(k) /\ p.path = results[k].path
    BY <1>2, <1>7, <2>1
  <2>3. DOMAIN Row(k) = DOMAIN Ids(k) /\ \A i, j \in DOMAIN Ids(k) : i < j => Row(k)[i].name < Row(k)[j].name
    BY <1>6, <2>2
  <2>4. Range(Row(k)) = {[name |-> t.name, coupledTo |-> Cardinality(Mentioned(p, t))] :
                           t \in {u \in Range(p.types) : Included(u, includeGenerated)}}
    BY <1>6, <2>2
  <2> QED BY <2>2, <2>3, <2>4
<1> QED BY <1>3, <1>5, <1>7, Zenon DEF ReportRight

-----------------------------------------------------------------------------
\* From the load on, the packages are the selected ones of the list and the module is
\* theirs; from the assembly on the facts are right, and so is the report.
FactsInv ==
  /\ pc \in {"extract", "assemble", "check", "metrics", "report"} =>
       /\ loaded \in Loads /\ pkgs = SelectPackages(loaded) /\ pkgs # <<>>
       /\ modulePath = MainModulePath(pkgs)
       /\ DOMAIN extracts = DOMAIN pkgs
  /\ pc \in {"check", "metrics", "report"} => FactsRight(facts)
  /\ pc \in {"metrics", "report"} => DOMAIN results = DOMAIN facts.packages
  /\ result.kind = "report" => ReportRight(result.packages) /\ ModuleRight(result.module)

LEMMA SelectKept ==
  ASSUME UNCHANGED options PROVE SelectPackages(loaded)' = SelectPackages(loaded')
BY DEF SelectPackages, options

LEMMA ReportStaysRight ==
  ASSUME UNCHANGED <<loaded, includeGenerated>>, ReportRight(result'.packages)
  PROVE  ReportRight(result.packages)'
<1>1. Selected' = Selected /\ \A p, u : Mentioned(p, u)' = Mentioned(p, u)
  BY SelectedKept
<1>2. \A u : Included(u, includeGenerated)' <=> Included(u, includeGenerated)
  BY DEF Included
<1>3. ASSUME NEW p
      PROVE  {[name |-> t.name, coupledTo |-> Cardinality(Mentioned(p, t)')] :
                t \in {u \in Range(p.types) : Included(u, includeGenerated)'}}
             = {[name |-> t.name, coupledTo |-> Cardinality(Mentioned(p, t))] :
                  t \in {u \in Range(p.types) : Included(u, includeGenerated)}}
  BY <1>1, <1>2
<1> QED BY <1>1, <1>3 DEF ReportRight

LEMMA ModuleStaysRight ==
  ASSUME UNCHANGED <<loaded, includeGenerated>>, ModuleRight(result'.module)
  PROVE  ModuleRight(result.module)'
<1>1. Selected' = Selected
  BY SelectedKept
<1>2. \A p, q : ListedBefore(p, q)' <=> ListedBefore(p, q)
  BY DEF ListedBefore
<1>3. \A module, S : NamesFirst(module, S)' <=> NamesFirst(module, S)
  BY <1>2 DEF NamesFirst
<1> QED BY <1>1, <1>3 DEF ModuleRight

\* A step that leaves the data alone and enters no stage that it does not come from.
LEMMA FactsKept ==
  ASSUME FactsInv, ResultInv,
         UNCHANGED <<options, loaded, pkgs, modulePath, facts>>, DOMAIN extracts' = DOMAIN extracts,
         DOMAIN results' = DOMAIN results,
         pc' \in {"extract", "assemble", "check", "metrics", "report"} =>
           pc \in {"extract", "assemble", "check", "metrics", "report"},
         pc' \in {"check", "metrics", "report"} => pc \in {"check", "metrics", "report"},
         pc' \in {"metrics", "report"} => pc \in {"metrics", "report"},
         result' = result \/ result'.kind # "report"
  PROVE  FactsInv'
<1>1. SelectPackages(loaded)' = SelectPackages(loaded)
  BY DEF SelectPackages, options
<1>2. FactsRight(facts) => FactsRight(facts)'
  BY FactsStayRight DEF options
<1>3. result' = result /\ ReportRight(result.packages) => ReportRight(result.packages)'
  BY ReportStaysRight DEF options
<1>4. result' = result /\ ModuleRight(result.module) => ModuleRight(result.module)'
  BY ModuleStaysRight DEF options
<1>5. MainModulePath(pkgs)' = MainModulePath(pkgs)
  BY DEF MainModulePath
<1> QED BY <1>1, <1>2, <1>3, <1>4, <1>5 DEF FactsInv

LEMMA FactsInductive ==
  FactsInv /\ ExtractInv /\ MetricInv /\ ResultInv /\ [Next]_vars => FactsInv'
<1> SUFFICES ASSUME FactsInv, ExtractInv, MetricInv, ResultInv, [Next]_vars PROVE FactsInv'
  OBVIOUS
<1>1. CASE Validate \/ LoadFails
  BY <1>1, FactsKept DEF Validate, LoadFails, Fail, extractV, metricV
<1>2. CASE LoadPackages
  <2>1. pc = "load" /\ loaded' \in Loads /\ pkgs' = SelectPackages(loaded') /\ UNCHANGED options
        /\ DOMAIN extracts' = DOMAIN pkgs' /\ (pkgs' = <<>> => pc' = "failed")
        /\ pc' \in {"extract", "failed"} /\ result' = result /\ modulePath' = MainModulePath(pkgs)'
    BY <1>2 DEF LoadPackages, MainModulePath
  <2>2. SelectPackages(loaded)' = SelectPackages(loaded')
    BY <2>1, SelectKept
  <2>3. result.kind # "report"
    BY <2>1 DEF ResultInv
  <2> QED BY <2>1, <2>2, <2>3 DEF FactsInv
<1>3. CASE ExtractSome
  <2>1. PICK i : Extract(i)
    BY <1>3 DEF ExtractSome
  <2>2. DOMAIN extracts' = DOMAIN extracts /\ UNCHANGED <<loaded, pc, options, pkgs, modulePath, facts, metricV, result>>
    BY <2>1, ExtractStep DEF Extract
  <2> QED BY <2>2, FactsKept DEF metricV
<1>4. CASE ExtractEnds
  <2>1. pc = "extract" /\ pc' \in {"assemble", "failed"}
    BY <1>4, AfterPoolIs DEF ExtractEnds
  <2>2. UNCHANGED <<options, loaded, pkgs, modulePath, extracts, facts, metricV, result>>
    BY <1>4 DEF ExtractEnds
  <2> QED BY <2>1, <2>2, FactsKept DEF metricV
<1>5. CASE Assemble
  <2>1. pc = "assemble" /\ pc' = "check" /\ UNCHANGED <<options, loaded, pkgs, modulePath, extractV, metricV, result>>
        /\ facts' = Assembled(SortedExtracts, IdByKey(SortedExtracts))
    BY <1>5 DEF Assemble
  <2>2. /\ loaded \in Loads /\ pkgs = SelectPackages(loaded) /\ pkgs # <<>>
        /\ modulePath = MainModulePath(pkgs) /\ DOMAIN extracts = DOMAIN pkgs
    BY <2>1 DEF FactsInv
  <2>3. \A k \in DOMAIN pkgs : extracts[k] = ExtractPackage(pkgs[k])
    <3>1. pkgs \in Seq(PackageType)
      BY <2>2, SelectionIs
    <3>2. DOMAIN pkgs = 1 .. Len(pkgs) /\ Len(pkgs) \in Nat
      BY <3>1, LenProperties
    <3>3. \A i \in 0 .. Len(pkgs) - 1 : extracts[i + 1] = ExtractPackage(pkgs[i + 1])
      BY <2>1 DEF ExtractInv
    <3> SUFFICES ASSUME NEW k \in DOMAIN pkgs PROVE extracts[k] = ExtractPackage(pkgs[k])
      OBVIOUS
    <3>4. k - 1 \in 0 .. Len(pkgs) - 1 /\ (k - 1) + 1 = k
      BY <3>2
    <3> QED BY <3>3, <3>4
  <2>4. RightExtracts(SortedExtracts)
    BY <2>2, <2>3, SortedExtractsAreRight
  <2>5. FactsRight(facts')
    BY <2>1, <2>2, <2>4, AssembledIsRight
  <2>6. FactsRight(facts)'
    BY <2>1, <2>5, FactsStayRight DEF options
  <2>7. SelectPackages(loaded)' = SelectPackages(loaded)
    BY <2>1 DEF SelectPackages, options
  <2>8. result'.kind # "report"
    BY <2>1 DEF ResultInv
  <2>9. MainModulePath(pkgs)' = MainModulePath(pkgs)
    BY <2>1 DEF MainModulePath
  <2> QED BY <2>1, <2>2, <2>6, <2>7, <2>8, <2>9 DEF FactsInv, extractV
<1>6. CASE StartMetrics
  <2>1. pc = "check" /\ pc' \in {"failed", "metrics"} /\ UNCHANGED <<options, loaded, pkgs, modulePath, extractV, facts, result>>
        /\ (pc' = "metrics" => DOMAIN results' = DOMAIN facts.packages)
    BY <1>6 DEF StartMetrics
  <2>2. SelectPackages(loaded)' = SelectPackages(loaded)
    BY <2>1 DEF SelectPackages, options
  <2>3. FactsRight(facts)'
    BY <2>1, FactsStayRight DEF options, FactsInv
  <2>4. result'.kind # "report"
    BY <2>1 DEF ResultInv
  <2>5. MainModulePath(pkgs)' = MainModulePath(pkgs)
    BY <2>1 DEF MainModulePath
  <2> QED BY <2>1, <2>2, <2>3, <2>4, <2>5 DEF FactsInv, extractV
<1>7. CASE MeasureSome
  <2>1. PICK i : Measure(i)
    BY <1>7 DEF MeasureSome
  <2>2. DOMAIN results' = DOMAIN results /\ UNCHANGED <<loaded, pc, options, pkgs, modulePath, facts, extractV, result>>
    BY <2>1, MeasureStep DEF Measure
  <2> QED BY <2>2, FactsKept DEF extractV
<1>8. CASE MetricsEnd
  <2>1. pc = "metrics" /\ pc' \in {"report", "failed"}
    BY <1>8, AfterPoolIs DEF MetricsEnd
  <2>2. UNCHANGED <<options, loaded, pkgs, modulePath, extractV, facts, results, result>>
    BY <1>8 DEF MetricsEnd
  <2> QED BY <2>1, <2>2, FactsKept DEF extractV
<1>9. CASE ReturnReport
  <2>1. pc = "report" /\ pc' = "returned" /\ result' = Report(modulePath, results) /\ UNCHANGED <<options, loaded>>
    BY <1>9 DEF ReturnReport
  <2>2. /\ loaded \in Loads /\ FactsRight(facts) /\ DOMAIN results = DOMAIN facts.packages
        /\ pkgs = SelectPackages(loaded) /\ pkgs # <<>> /\ modulePath = MainModulePath(pkgs)
    BY <2>1 DEF FactsInv
  <2>3. \A k \in DOMAIN results : results[k] = AnalyzePackage(facts.packages[k])
    <3>1. DOMAIN facts.packages = 1 .. Len(facts.packages) /\ Len(facts.packages) \in Nat
      BY <2>2 DEF FactsRight
    <3>2. \A i \in 0 .. Len(facts.packages) - 1 : results[i + 1] = AnalyzePackage(facts.packages[i + 1])
      BY <2>1 DEF MetricInv
    <3> SUFFICES ASSUME NEW k \in DOMAIN results PROVE results[k] = AnalyzePackage(facts.packages[k])
      OBVIOUS
    <3>3. k - 1 \in 0 .. Len(facts.packages) - 1 /\ (k - 1) + 1 = k
      BY <2>2, <3>1
    <3> QED BY <3>2, <3>3
  <2>4. ReportRight(results)
    BY <2>2, <2>3, MeasuredIsRight
  <2>5. result'.packages = results /\ result'.module = modulePath
    BY <2>1 DEF Report
  <2>6. ReportRight(result.packages)'
    BY <2>1, <2>4, <2>5, ReportStaysRight DEF options
  <2>7. ModuleRight(modulePath)
    BY <2>2, ModuleIsRight
  <2>8. ModuleRight(result.module)'
    BY <2>1, <2>5, <2>7, ModuleStaysRight DEF options
  <2> QED BY <2>1, <2>6, <2>8 DEF FactsInv
<1>10. CASE ReturnError \/ CancelContext \/ Returned \/ UNCHANGED vars
  BY <1>10, FactsKept DEF ReturnError, CancelContext, Returned, vars, extractV, metricV, Fail
<1> QED
  BY <1>1, <1>2, <1>3, <1>4, <1>5, <1>6, <1>7, <1>8, <1>9, <1>10 DEF Next

LEMMA FactsAlways == Spec => []FactsInv
<1>1. Init => FactsInv /\ ResultInv
  BY DEF Init, FactsInv, ResultInv, Pending
<1> QED BY <1>1, Inductive, ResultInductive, FactsInductive, PTL DEF Spec

\* Whatever the packages loaded, the order they came in and the order in which
\* workers filled the slots, a resolved reference names the type the source
\* mentions.
THEOREM FactsConsistent == Spec => []FactsAreConsistent
<1>1. FactsInv => FactsAreConsistent
  BY RightIsConsistent DEF FactsInv, FactsAreConsistent
<1> QED BY <1>1, FactsAlways, PTL

\* Every report is what the load determines.  The set of packages loaded gives its
\* packages: all of them and their types, in order, each count that of the references
\* the source makes.  The list gives its module: that of the package listed first of
\* those in a main module, or else of those in any.
THEOREM ReportExact == Spec => []ReportIsOfTheLoad
<1>1. FactsInv => ReportIsOfTheLoad
  BY DEF FactsInv, ReportRight, ModuleRight, ReportIsOfTheLoad
<1> QED BY <1>1, FactsAlways, PTL
=============================================================================
