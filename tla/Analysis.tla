------------------------------ MODULE Analysis ------------------------------
(***************************************************************************)
(* One call of Analyze, from the checked configuration to the report: the  *)
(* load (PackageLoad), the extraction of every selected package on a       *)
(* worker pool, the assembly of the project facts (typefacts/application), *)
(* and the metrics of every package on a second pool                       *)
(* (projectanalysis/application), racing the caller's cancellation.        *)
(*                                                                         *)
(* The two pools are instances of ParallelMap, which WorkerPool is proved  *)
(* to implement; no fn here ever fails.  Paths and names are numbers, in   *)
(* the order of the strings; a type's index is reduced to the number of    *)
(* its resolved references, the one input that depends on other packages.  *)
(***************************************************************************)
EXTENDS Integers, Sequences, FiniteSets, SequencesExt, Sorting

CONSTANT Loads   \* the lists packages.Load may return

Key == Int \X Int   \* a type: the path of its package and its name
SourceType == [name : Int, generated : BOOLEAN, uses : SUBSET Key]

\* The module of a package: none, or its path and whether it is a main module, of
\* which a workspace has several.
NoModule == [path |-> 0, main |-> FALSE]
Modules == {NoModule} \cup [path : Nat \ {0}, main : BOOLEAN]

PackageType ==
  [path : Int, files : Nat, broken : BOOLEAN, testMain : BOOLEAN, module : Modules,
   types : Seq(SourceType)]

\* A package declares a name once and mentions finitely many types.  Of a package
\* that is listed again, for a test, the variant has more files or is the same.
ASSUME LoadsAssumption ==
  \A l \in Loads :
    /\ l \in Seq(PackageType)
    /\ \A p, q \in Range(l) : p.path = q.path /\ p.files = q.files => p = q
    /\ \A p \in Range(l) : \A i, j \in DOMAIN p.types :
         /\ p.types[i].name = p.types[j].name => i = j
         /\ IsFiniteSet(p.types[i].uses)

VARIABLES
  pc,          \* where the call is
  configOK,    \* does the configuration pass validateConfig; never changes
  continueOnError, includeGenerated,  \* the options that matter; never change
  loaded,      \* what packages.Load returned
  pkgs,        \* the packages selected for analysis
  modulePath,  \* the module the report is to name
  extracted, extractOutcome, extracts,  \* the extraction pool and its slots
  facts,       \* the assembled ProjectFacts
  analyzed, metricOutcome, results,     \* the metric pool and its slots
  canceled,    \* the caller's context is canceled
  result       \* what Analyze returned

options  == <<configOK, continueOnError, includeGenerated>>
extractV == <<extracted, extractOutcome, extracts>>
metricV  == <<analyzed, metricOutcome, results>>
vars == <<pc, options, loaded, pkgs, modulePath, extractV, facts, metricV, canceled, result>>

Blank   == [path |-> 0, types |-> <<>>]    \* a slot no worker has written
NoFacts == [packages |-> <<>>, types |-> <<>>]
Pending == [kind |-> "pending"]
Fail(e) == [kind |-> e]
Report(module, rs) == [kind |-> "report", module |-> module, packages |-> rs]

\* Every fn returns nil.
NoErrs(n) == [i \in 0 .. n - 1 |-> "nil"]

\* The metric stage has one task per package (mutant: one per type).
MetricTasks_PerType == Len(facts.types)
MetricTasks == Len(facts.packages)

ExtractPool == INSTANCE ParallelMap
  WITH taskCount <- Len(pkgs), finished <- extracted, errs <- NoErrs(Len(pkgs)),
       outcome <- extractOutcome
MetricPool == INSTANCE ParallelMap
  WITH taskCount <- MetricTasks, finished <- analyzed, errs <- NoErrs(MetricTasks),
       outcome <- metricOutcome

-----------------------------------------------------------------------------
\* mergePackage: of the variants of one path the one with more files is kept, in
\* the place of the first (mutant: the first one is kept).
MergePackage_FirstWins(order, p) ==
  IF p.testMain \/ \E k \in DOMAIN order : order[k].path = p.path
    THEN order ELSE Append(order, p)

MergePackage(order, p) ==
  IF p.testMain THEN order
  ELSE IF \A k \in DOMAIN order : order[k].path # p.path THEN Append(order, p)
  ELSE [k \in DOMAIN order |->
          IF order[k].path = p.path /\ p.files > order[k].files THEN p ELSE order[k]]

Dedupe(l) ==
  LET order[n \in 0 .. Len(l)] ==
        IF n = 0 THEN <<>> ELSE MergePackage(order[n - 1], l[n])
  IN order[Len(l)]

\* filterPackages and selectLoadedPackages; <<>> stands for an error.
SelectPackages(l) ==
  LET variants == Dedupe(l)
  IN IF ~continueOnError /\ \E k \in DOMAIN variants : variants[k].broken THEN <<>>
     ELSE Keep(variants, {p \in Range(variants) : ~p.broken})

\* mainModulePath: of the packages selected the first that is of a main module
\* names it, or else the first that is of any (mutant: main or not).
MainModulePath_AnyFirst(l) ==
  LET owned == {k \in DOMAIN l : l[k].module # NoModule}
  IN IF owned # {} THEN l[CHOOSE k \in owned : \A j \in owned : k <= j].module.path
                   ELSE NoModule.path

MainModulePath(l) ==
  LET mains == {k \in DOMAIN l : l[k].module.main}
      owned == {k \in DOMAIN l : l[k].module # NoModule}
      first(at) == l[CHOOSE k \in at : \A j \in at : k <= j].module.path
  IN IF mains # {} THEN first(mains)
     ELSE IF owned # {} THEN first(owned) ELSE NoModule.path

\* extractPackage: the types that are not skipped as generated, in the scope's
\* order, with the keys of the other types of analyzed packages they mention.
Included(t, generatedToo) == generatedToo \/ ~t.generated

ExtractUnder(p, paths, generatedToo) ==
  LET kept == Keep(p.types, {t \in Range(p.types) : Included(t, generatedToo)})
      Extract(t) == [name |-> t.name,
                     keys |-> {k \in t.uses : k[1] \in paths /\ k # <<p.path, t.name>>}]
  IN [path |-> p.path, types |-> [i \in DOMAIN kept |-> Extract(kept[i])]]

ExtractPackage(p) == ExtractUnder(p, {pkgs[k].path : k \in DOMAIN pkgs}, includeGenerated)

\* sortExtracts.
ByName(types) == Sorted(Range(types), [t \in Range(types) |-> t.name])
SortExtracts(es) ==
  LET byPath == Sorted(Range(es), [e \in Range(es) |-> e.path])
  IN [k \in DOMAIN byPath |-> [byPath[k] EXCEPT !.types = ByName(@)]]
SortedExtracts == SortExtracts(extracts)

\* The keys of all types in the order their IDs are handed out.
TypeKeys(es) ==
  FlattenSeq([k \in DOMAIN es |->
    [t \in DOMAIN es[k].types |-> <<es[k].path, es[k].types[t].name>>]])

\* indexTypeKeys: IDs from zero in the order of the keys (mutant: in the
\* order of extraction).
Positions(keys) == [key \in Range(keys) |-> CHOOSE n \in DOMAIN keys : keys[n] = key]

IdByKey_Unsorted(es) ==
  LET position == Positions(TypeKeys(extracts))
  IN [key \in DOMAIN position |-> position[key] - 1]
IdByKey(es) ==
  LET position == Positions(TypeKeys(es))
  IN [key \in DOMAIN position |-> position[key] - 1]

\* resolveKeys: sorted, without duplicates and without keys of no extracted type.
ResolveKeys(keys, ids) ==
  SortedNumbers({ids[key] : key \in keys \cap DOMAIN ids})

\* appendPackages.  facts.types[n + 1] is the type with ID n.
Assembled(es, ids) ==
  LET first(p) == Len(TypeKeys(SubSeq(es, 1, p - 1)))
  IN [packages |-> [p \in DOMAIN es |->
        [path |-> es[p].path,
         typeIDs |-> [t \in DOMAIN es[p].types |-> first(p) + t - 1]]],
      types |-> FlattenSeq([p \in DOMAIN es |->
        [t \in DOMAIN es[p].types |->
          [package |-> p - 1, name |-> es[p].types[t].name,
           refs |-> ResolveKeys(es[p].types[t].keys, ids)]]])]

\* analyzePackage.
AnalyzePackage(p) ==
  [path |-> p.path,
   types |-> [k \in DOMAIN p.typeIDs |->
     LET t == facts.types[p.typeIDs[k] + 1]
     IN [name |-> t.name, coupledTo |-> Len(t.refs)]]]

\* Where a pool's answer leads (mutant: its error is dropped).
AfterPool_IgnoresError(outcome, next) == next
AfterPool(outcome, next) == IF outcome.kind = "ok" THEN next ELSE "failed"

-----------------------------------------------------------------------------
Init ==
  /\ pc = "validate"
  /\ configOK \in BOOLEAN /\ continueOnError \in BOOLEAN /\ includeGenerated \in BOOLEAN
  /\ loaded = <<>>
  /\ pkgs = <<>>
  /\ modulePath = NoModule.path
  /\ extracted = {} /\ extractOutcome = ExtractPool!Pending /\ extracts = <<>>
  /\ facts = NoFacts
  /\ analyzed = {} /\ metricOutcome = MetricPool!Pending /\ results = <<>>
  /\ canceled \in BOOLEAN
  /\ result = Pending

\* Analyze: validateConfig; its error is not the analysis's.
Validate ==
  /\ pc = "validate"
  /\ pc' = IF configOK THEN "load" ELSE "returned"
  /\ result' = IF configOK THEN result ELSE Fail("config")
  /\ UNCHANGED <<options, loaded, pkgs, modulePath, extractV, facts, metricV, canceled>>

\* The load answers with packages, which takes a context that was not done
\* (PackageLoad, CancellationWins); extractLoaded looks for the module, and
\* newExtractWorkerState makes the slots.
LoadPackages ==
  /\ pc = "load"
  /\ ~canceled
  /\ loaded' \in Loads
  /\ pkgs' = SelectPackages(loaded')
  /\ modulePath' = MainModulePath(pkgs')
  /\ extracts' = [k \in DOMAIN pkgs' |-> Blank]
  /\ pc' = IF pkgs' = <<>> THEN "failed" ELSE "extract"
  /\ UNCHANGED <<options, extracted, extractOutcome, facts, metricV, canceled, result>>

\* The load fails for good.
LoadFails ==
  /\ pc = "load"
  /\ pc' = "failed"
  /\ UNCHANGED <<options, loaded, pkgs, modulePath, extractV, facts, metricV, canceled, result>>

\* extractWorker for one package; it also lets go of the package's syntax.
Extract(i) ==
  /\ pc = "extract"
  /\ i + 1 \in DOMAIN extracts
  /\ UNCHANGED <<pc, options, loaded, pkgs, modulePath, facts, metricV, result>>
  /\ ExtractPool!FinishTask(i)
  /\ extracts' = [extracts EXCEPT ![i + 1] = ExtractPackage(pkgs[i + 1])]

ExtractEnds ==
  /\ pc = "extract"
  /\ UNCHANGED <<options, loaded, pkgs, modulePath, extracts, facts, metricV, result>>
  /\ ExtractPool!Answer
  /\ pc' = AfterPool(extractOutcome', "assemble")

\* collectFacts: Assemble, whether or not the context is done by now.
Assemble ==
  /\ pc = "assemble"
  /\ \E es \in {SortedExtracts} : \E ids \in {IdByKey(es)} : facts' = Assembled(es, ids)
  /\ pc' = "check"
  /\ UNCHANGED <<options, loaded, pkgs, modulePath, extractV, metricV, canceled, result>>

\* assembleResult: the context, then the slots of the metric stage.
StartMetrics ==
  /\ pc = "check"
  /\ pc' = IF canceled THEN "failed" ELSE "metrics"
  /\ results' = IF canceled THEN results ELSE [p \in DOMAIN facts.packages |-> Blank]
  /\ UNCHANGED <<options, loaded, pkgs, modulePath, extractV, facts, analyzed, metricOutcome,
                 canceled, result>>

\* packageWorkerConfig's Fn for one package.
Measure(i) ==
  /\ pc = "metrics"
  /\ i + 1 \in DOMAIN results
  /\ UNCHANGED <<pc, options, loaded, pkgs, modulePath, extractV, facts, result>>
  /\ MetricPool!FinishTask(i)
  /\ results' = [results EXCEPT ![i + 1] = AnalyzePackage(facts.packages[i + 1])]

MetricsEnd ==
  /\ pc = "metrics"
  /\ UNCHANGED <<options, loaded, pkgs, modulePath, extractV, facts, results, result>>
  /\ MetricPool!Answer
  /\ pc' = AfterPool(metricOutcome', "report")

\* toReport; the facts and the result have handed on the module as it was found.
ReturnReport ==
  /\ pc = "report"
  /\ result' = Report(modulePath, results)
  /\ pc' = "returned"
  /\ UNCHANGED <<options, loaded, pkgs, modulePath, extractV, facts, metricV, canceled>>

\* Whatever failed, the facade reports an analysis error and nothing else.
ReturnError ==
  /\ pc = "failed"
  /\ result' = Fail("analysis")
  /\ pc' = "returned"
  /\ UNCHANGED <<options, loaded, pkgs, modulePath, extractV, facts, metricV, canceled>>

\* The caller's context (external).
CancelContext ==
  /\ ~canceled
  /\ canceled' = TRUE
  /\ UNCHANGED <<pc, options, loaded, pkgs, modulePath, extractV, facts, metricV, result>>

Returned == pc = "returned" /\ UNCHANGED vars

ExtractSome == \E i \in 0 .. Len(pkgs) - 1 : Extract(i)
MeasureSome == \E i \in 0 .. MetricTasks - 1 : Measure(i)

Next ==
  \/ Validate \/ LoadPackages \/ LoadFails
  \/ ExtractSome \/ ExtractEnds
  \/ Assemble \/ StartMetrics
  \/ MeasureSome \/ MetricsEnd
  \/ ReturnReport \/ ReturnError
  \/ CancelContext \/ Returned

\* The call's own goroutines keep running, and the load ends one way or another.
Fairness ==
  /\ WF_vars(Validate) /\ WF_vars(LoadPackages \/ LoadFails)
  /\ WF_vars(ExtractSome) /\ WF_vars(ExtractEnds)
  /\ WF_vars(Assemble) /\ WF_vars(StartMetrics)
  /\ WF_vars(MeasureSome) /\ WF_vars(MetricsEnd)
  /\ WF_vars(ReturnReport) /\ WF_vars(ReturnError)

Spec     == Init /\ [][Next]_vars
FairSpec == Spec /\ Fairness

-----------------------------------------------------------------------------
\* The type invariant.
TypeOK ==
  /\ pc \in {"validate", "load", "extract", "assemble", "check", "metrics", "report",
             "failed", "returned"}
  /\ options \in BOOLEAN \X BOOLEAN \X BOOLEAN
  /\ loaded \in Loads \cup {<<>>}
  /\ \A k \in DOMAIN pkgs : pkgs[k] \in Range(loaded)
  /\ modulePath \in Nat
  /\ DOMAIN extracts = DOMAIN pkgs
  /\ extracted \subseteq 0 .. Len(pkgs) - 1
  /\ analyzed \subseteq 0 .. Len(facts.packages) - 1
  /\ \A t \in DOMAIN facts.types : Range(facts.types[t].refs) \subseteq 0 .. Len(facts.types) - 1
  /\ canceled \in BOOLEAN
  /\ result.kind \in {"pending", "config", "analysis", "report"}

\* The packages of the loaded list that the analysis is about, told without the
\* list's order: the largest variant of each path, unless it is broken.
Selected ==
  LET all == {p \in Range(loaded) : ~p.testMain}
  IN {p \in all : ~p.broken /\ \A q \in all : q.path = p.path => q.files <= p.files}

\* The other types of the analysis that type t of package p mentions.
Mentioned(p, t) ==
  {k \in t.uses : /\ k # <<p.path, t.name>>
                  /\ \E q \in Selected : /\ q.path = k[1]
                                         /\ \E u \in Range(q.types) : u.name = k[2] /\ Included(u, includeGenerated)}

\* A dense ID means the same type everywhere: what a resolved reference names is
\* the type the source mentioned, whichever order the packages were loaded and
\* the slots were written in.
FactsAreConsistent ==
  pc = "check" =>
  \A n \in DOMAIN facts.types :
    LET t == facts.types[n]
        path(u) == facts.packages[u.package + 1].path
    IN /\ \E k \in DOMAIN facts.packages[t.package + 1].typeIDs :
            facts.packages[t.package + 1].typeIDs[k] = n - 1
       /\ \A p \in Selected : \A u \in Range(p.types) :
            p.path = path(t) /\ u.name = t.name =>
              {LET r == facts.types[id + 1] IN <<path(r), r.name>> : id \in Range(t.refs)}
                = Mentioned(p, u)

\* In the list p's path comes before q's, synthesized mains aside.
ListedBefore(p, q) ==
  \E m \in DOMAIN loaded :
    /\ ~loaded[m].testMain /\ loaded[m].path = p.path
    /\ \A k \in 1 .. m : ~loaded[k].testMain => loaded[k].path # q.path

\* It is the module of that package of S whose path is listed first.
NamesFirst(module, S) ==
  \E p \in S : module = p.module.path /\ \A q \in S : q # p => ListedBefore(p, q)

\* The report is what the load determines, and no schedule of the workers (ADR
\* 0009).  Its packages are a function of the set of packages loaded, not of their
\* order in the list: packages and types are in increasing order, none is missing
\* or blank, and every count is right.  Its module is not, when the packages are of
\* several: it is the main module of the package listed first of those in a main
\* module, and where none is, the module of the first that has one.
ReportIsOfTheLoad ==
  result.kind = "report" =>
    LET rs == result.packages
        Increasing(s) == \A i, j \in DOMAIN s : i < j => s[i] < s[j]
        mains == {p \in Selected : p.module.main}
        owned == {p \in Selected : p.module # NoModule}
    IN /\ Increasing([k \in DOMAIN rs |-> rs[k].path])
       /\ {r.path : r \in Range(rs)} = {p.path : p \in Selected}
       /\ \A r \in Range(rs) : \A p \in Selected : p.path = r.path =>
            /\ Increasing([k \in DOMAIN r.types |-> r.types[k].name])
            /\ Range(r.types) = {[name |-> t.name, coupledTo |-> Cardinality(Mentioned(p, t))] :
                                   t \in {u \in Range(p.types) : Included(u, includeGenerated)}}
       /\ mains # {} => NamesFirst(result.module, mains)
       /\ mains = {} /\ owned # {} => NamesFirst(result.module, owned)
       /\ owned = {} => result.module = NoModule.path

\* A context that is done before the metric pool has answered never ends in a
\* report, in whichever stage it strikes: no stage hands on partial work.
NoReportAfterCancellation ==
  [](canceled /\ pc \notin {"report", "returned"} => [](result.kind # "report"))

\* Every call returns.
AnalysisReturns == <>(pc = "returned")
=============================================================================
