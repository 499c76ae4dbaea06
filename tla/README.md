# A TLA+ model of reusability

`reusability` reads a Go module, computes a reusability index for every named
type, and reports it: as text, JSON, CSV or a web page from the command line, or
as diagnostics of a `golangci-lint` plugin. This directory models the parts of
it that have control flow worth checking — the concurrency, the retries and
cancellation, the order in which things are merged, numbered and decided, and
the algorithms that work in place — checks small instances with TLC, and proves
the central claims for every instance with TLAPS.

Every definition is translated from the code; `PROJECT.json` maps it to the
lines it stands for, lists every run, theorem and mutant, and names the hazards
the properties were written against. `src/` below is the repository.

    cd tla
    tlc -workers 2 -config WorkerPool.cfg MCWorkerPool    # a run
    tlapm WorkerPoolProofs.tla                            # a module of proofs

## 1. The system

One analysis is a pipeline; two front ends start it.

    CLI (internal/cli) ──┐                          golangci-lint (plugin, analyzer)
       parse, profile,   │                             settings, one pass per package,
       gate, exit code   │                             shared result (resultcache)
                         ▼                                  │
                  facade (funcs.go: Analyze) ◄──────────────┘
                         │  validate the configuration, wrap errors
                         ▼
     package loader (goloader) ── packages.Load under retries and a budget
                         │  merge test variants, drop broken packages
                         ▼
     extraction: one task per package on a worker pool ── facts of each type
                         ▼
     assembly (typefacts/application) ── dense type identifiers, references
                         ▼
     metrics: one task per package on a worker pool ── field usage, the index
                         ▼
                       Report ──► text tree, JSON, CSV, web   and   policy gate

| Component | State it keeps | Operations | What makes it correct |
|---|---|---|---|
| Worker pool (`internal/shared/workerpool`) | next index, task channel, wait group, one error slot per task | spawn, hand out, run, close, wait, answer | each slot has one writer, all goroutines gone at the answer, the answer complete or the context's error, and there is one |
| Package loader (`goloader`: `loadPackages` … `packageLoadError`) | request, attempts, elapsed time, interval, last error | attempt, judge, schedule, wait, give up, select | only transient failures retried, cancellation wins, no attempt sees another's writes |
| Fact extraction (`goloader`: `extractType` …) | visited and recorded types, indices of methods and field comments | collect references, walk bodies, count documentation | facts belong to the method or field they are filed under, references neither missing nor invented |
| Fact assembly and analysis (`typefacts/application`, `projectanalysis/application`) | extracts, identifiers, results, one slot per package | merge, extract, sort, number, resolve, measure | the report depends on what was loaded and on nothing else; no partial report |
| Field usage (`cohesion/domain`) | field sets per method, "changed" flag | copy, absorb, repeat | the least usage closed under calls, facts not written |
| Index (`reusability/domain`, `shared/metrics`) | running sums over four components | validate weights, sum, divide | stays among the components that count |
| Policy (`policy/domain`) | deciding rule of the scan | match, compare, judge | the documented rule decides, each type below its minimum reported once |
| Result cache (`resultcache`) | one result, failure or panic | get, settle, give up | one run, one answer for all, no stranger's cancellation |
| Analyzer and plugin (`analyzer`, `plugin`) | snapshot of the settings, violations by package | rename keys, decode, validate, run, report | settings as they were, all violations, at home |
| Command (`internal/cli`, `profiling`, `browser`) | open files, exit code, a browser | parse, resolve, profile, analyze, write, open, gate; write the guide | exit code tells what became of the report; files closed; the browser sees whole pages only; the command ends |
| Report writing (`reporting/application`, `sinks`, `ports/outbound`) | the stream, buffers above it | open, render piece by piece, flush, close | success exactly if all of the page arrived; the stream closed |
| Report formats (`reporting/domain`, `reporting/application`) | tree, statistics per node, column widths | attach, fold, sum up, measure, print; encode | every package and type has its row, means belong to the subtree, columns line up, marks are explained, the formats agree |

How they interact: calls go down the pipeline, and the context goes with them.
Shared memory is confined to the slots of a pool, the cached result, and the
facts all metrics read. Nothing is persisted, so there is no crash recovery to
model; a killed process leaves at most a truncated report.

What is hard: the interleavings of pool workers and of concurrent passes;
cancellation at every step of the pipeline; a load whose answer races the
cancellation or a timer; several files opened, written and closed with a failure
possible each time, some of them noticed only when a buffer is flushed; two
passes over the same list that must number alike; in-place propagation over
cyclic calls; a tree folded while it is walked; weights that are no numbers; and
settings decoded through a map whose order Go leaves open.

## 2. The modules

| Module | Models | Composes |
|---|---|---|
| `ParallelMap` | what callers may rely on in `workerpool.Run`, with no worker in sight | |
| `WorkerPool` | `workerpool.Run` | refines `ParallelMap` |
| `Loader` | what the analysis may rely on when it loads packages, with no backoff in sight | |
| `PackageLoad` | the retry loop and the selection of loaded packages | refines `Loader` |
| `Analysis` | one call of `Analyze` | two instances of `ParallelMap` |
| `TypeRefs` | the collector of referenced types | |
| `TypeMembers` | method facts, documentation counts | |
| `TypeExtract` | `extractType`: a type becomes facts | extends `TypeRefs`, instance of `TypeMembers` |
| `FieldUsage` | `EffectiveFieldSets` | |
| `Reusability` | weights, components and the index | |
| `TypeIndex` | `Compute`: facts become an index | extends `FieldUsage`, instance of `Reusability` |
| `Policy` | `Evaluate`, matching and specificity | |
| `OnceCell` | what callers may rely on in the result cache | |
| `ResultCache` | `resultcache.New`, with the singleton library as an external | |
| `SharedAnalysis` | `analyzer.New`, the passes and what else calls the cached function | instance of `ResultCache`, refines `OnceCell` |
| `Settings` | plugin settings from the block to the checked configuration | |
| `ReportSink` | what the command may rely on when it writes a page | |
| `Cli` | one run of the command | instance of `ReportSink` |
| `ReportTree` | the table of the text report | |
| `ReportFormats` | what each format makes of a report | extends `ReportTree` |
| `ReportWrite` | `reporting.Write`: rendering into a sink | extends `ReportFormats`, refines `ReportSink` |
| `Sorting` | what `slices.Sort` and a filtering loop leave, written so that proofs can look into it | |
| `WorkerPoolProofs`, `LoadWriteProofs`, `AnalysisProofs`, `TypeFactsProofs`, `PolicyProofs`, `PluginProofs`, `CliProofs` | theorems, on the lemmas `SharedLemmas` states once: induction, loops, sorting, lists, the glyphs of a tree drawn row by row, sums | |
| `MC...` | the small instances | |

Three abstract specifications sit between components. `ParallelMap` and
`ReportSink` are used on both sides: `WorkerPool` and `ReportWrite` implement
them, `Analysis` and `Cli` are built from their actions. `Loader` and `OnceCell`
are promises to callers who look at the answer only.

State and actions follow the code one to one.

- **WorkerPool.** `next` is `dispatch`'s loop index, `wstate`/`wtask` the place
  and the index each goroutine holds, `wg` the wait group's counter, `errs` the
  error slice. A send on the unbuffered channel is one step of two goroutines
  (`HandOff`); `StopDispatch` is the other case of `dispatch`'s `select`, and
  both are enabled when both are ready, as in Go. `PoolResult` is `wg.Wait()`
  and the look at the context that follows.
- **PackageLoad.** `StartAttempt` … `FinishAttempt` are `loadPackageAttempt`,
  split where the loader runs and others may cancel; `ScheduleRetry`,
  `TimerFires` and `CanceledInBackoff` are `backoff.Retry` (external) under the
  options `retryPackageList` passes. An error is the set of what `errors.Is`
  and `errors.As` find in its chain, which is all the classifier looks at. Time
  is in ticks of 20 ms. Towards `Loader`, the last element of the history of
  calls is the call, and what an open call has brought so far is hidden.
- **Analysis.** `pc` walks `runPipeline`. Each pool is an instance of
  `ParallelMap`, so a worker's write into its slot and a cancellation interleave
  at every index; this is justified by the refinement proved for `WorkerPool`.
  A package is its path, the number of its files (which decides between
  variants), whether it is broken, its module, and its types with the types they
  mention.
- **TypeExtract.** The recursion of `addType` is a stack of calls to come. A
  body is the sequence of nodes its walk tells apart. The collector is asked for
  each field, then for each method's signature just before the method's body is
  walked, as in `methodFacts`.
- **TypeIndex.** `UseFields` is `typeLCOM`'s call of `EffectiveFieldSets`; the
  accesses it counts become an input of the two loops of `Reusability`. A float
  is an exact fraction, or infinite (a denominator of zero), or no number (both
  zero); a sum above `MaxFloat` is infinite.
- **Policy.** `ConsiderRule` is one turn of `matchingRule`'s loop, `CheckType` one of
  `evaluatePackage`'s, `NextPackage` one of `Evaluate`'s. `MatchPackage` is the
  matcher with its backtracking, as a function on positions. Minimum and
  value are integers with a tolerance of one, for `violationForType`'s epsilon.
- **SharedAnalysis / ResultCache.** A caller is idle, waiting or returned; the
  factory runs at most once. What the singleton library does with the options
  `New` passes (one attempt, no deadline) is external and modelled from the
  contract `New`'s comment states and its tests exercise. `HostWrites` lets the
  host write to each part of the settings object that has memory of its own.
- **Settings.** A block is a function from keys — field and separator — to typed
  values; `Remap` takes any key next, which is Go's map order. Then come strict
  decoding, `New`'s validation, and the facade's own.
- **Cli.** Flags are an immutable record. `ParseFlags` to `ResolveWeights` are the
  checks in the order of `parseCLI` and `buildRuntime`; each step that touches a
  file has a failing alternative; `Interrupt` may come between any two steps once
  the signals are caught. `file` tells for each profile and for the temporary file
  of the guide whether it was opened and closed, and the destination is a
  `ReportSink`. The browser is a process that may outlive the command.
- **ReportTree.** Nodes are numbered and hang together by child lists, as the
  pointers do; statistics live in `cells`, so that two nodes sharing a pointer
  can be told from two nodes with equal values. `Down` is one segment of
  `attachPackage`'s way (`at` is how far it is), `Attach` its end. The recursion of
  `aggregateTree` is the stack of its calls under way, that of `emitNode` the list of
  its calls to come (`pending`).
- **ReportFormats.** A text page is a sequence of lines, CSV of records, JSON of
  packages, the web page of pieces of text, among which a name may spell a
  placeholder. Widths are counted in runes.
- **ReportWrite.** `OpenSink` to `CloseSink` are `reporting.Write`. `WriteLine`,
  `WriteRecord` and `FlushRecords`, and `WriteDocument` are the renderers' writes;
  `held` and `csvHeld` are the two buffers, `room` is what the device still takes.
  A `bufio.Writer` that met an error repeats it.

## 3. The runs

All runs are of small instances, chosen so that the interesting cases occur; in
each, every property is broken by some mutant of the code (a dropped guard, a
forgotten copy, a wrong boundary — listed in `PROJECT.json`, defined beside the
definition each replaces), so none holds by the model's shape.

| Run | Question | Bounds, and why they are enough |
|---|---|---|
| `worker_pool` | Is a pool run a parallel map, and does it end? | 0 to 4 tasks, worker settings 0 (GOMAXPROCS = 2), 1 and 3: fewer, as many and more tasks than workers; cancellation at any step; three workers are the first number at which one holds while two race |
| `package_load` | Does the retry loop keep the README's promises? | one error of each class and two mixed chains; loads that end before, at and after the budget (0, 88, 95, 101 of 100 ticks, so that either delay may or may not fit); the code's own limits (3 tries, 100 ms, factor 2, 20 %) |
| `analysis` | Is the report that of what was loaded, whatever the schedule? | every order of a package, its larger test variant, two others and a synthesized test main; a broken variant hiding a sound one; references both ways, to generated and to unknown types; packages of two main modules, of a required one and of none; cancellation at any step |
| `type_extract` | Are the facts of a type those of its own members? | twelve types (generic, recursive, map, pointer, struct, signature), every pair of field types; three methods declared out of order, one possibly without a body, every pair of seven bodies for the other two; two files in either order |
| `type_index` | Does a type's index follow from its usage? | every call graph of three methods without self-calls (`recordSiblingCall` drops those), up to two fields, every extracted usage, both modes; twelve shapes under eleven choices of weights (defaults, one alone, one missing, uneven, negative), seven under weights that are infinite, NaN, or too large to be added: `MaxFloat` = 10 makes every sum of three fours or of a ten and a one overflow |
| `policy` | Does the right rule decide? | all patterns and paths of up to three segments over two names; all lists of up to three of six overlapping patterns; values below, within the tolerance of and above the minimum |
| `shared_analysis` | Do concurrent passes share one honest analysis? | four passes — a package, its test variant, another, one outside the module — and a caller that may be canceled; result, failure or panic; host writes anywhere |
| `settings` | Does a block mean what it says? | all blocks of up to three keys over both spellings, with valid, invalid and mistyped values: three keys are a pair of spellings and one more |
| `cli` | Do exit code, report, files and browser agree, and does the command end? | every combination of the flags an analysis reads, and the other modes with each flag they read; a failure of each file operation, a signal at any step, a browser that may never close |
| `report_write` | Does the report reach its reader, whole and in every format? | as text: all subsets of six paths (module root, nested, skipping a level, outside), three lists of types each, with and without a module; two packages of one relative path (a reader of the table cannot tell them apart, so that what it is to learn is asked of reports without such packages only); in every format and to both sinks: reports of up to two packages over seven lists (reasons shared by some, all or none; a type named like a placeholder), a device with room for 0 to 6 pieces or all, buffers of 2 pieces, so that a page fits, just fits or overflows once or several times |
| `cli_interrupt`, `policy_strictest` | two statements the code does not live up to; see section 6 | |

What they show, run by run:

- `worker_pool`: a slot is written by one worker at a time and never again once
  its task finished (`OneWriterPerSlot`, what makes the unlocked write sound);
  when `Run` returns no goroutine is left (`NoWorkerOutlivesRun`); the answer is
  what `ParallelMap` allows — in particular no success after a cancellation that
  left tasks unrun (`ImplementsParallelMap`); and there is one (`RunReturns`).
- `package_load`: the load is a `Loader` (`ImplementsLoader`): chains that hold a
  context error are not retried though they also look transient, no call begins
  after the cancellation, and the answer is that of the last call. Beyond it: a
  retryable failure is reported only at a limit; a cancellation wins over a success
  and an error alike; each attempt sees the original request.
- `analysis`: an identifier names the type the source mentioned, although it is
  assigned in two loops over data extracted in any order; the packages of a report
  are told from the set of loaded packages alone, and its module is that of the
  package listed first, of those in a main module if there are any
  (`ReportIsOfTheLoad`; see section 6); a cancellation before the metric pool's
  answer never ends in a report; and the call returns.
- `type_extract`: references are exactly the analysed types the notation
  mentions; after sorting and leaving methods out every recorded sibling is the
  method that is called; a field's documentation is its own.
- `type_index`: the in-place rounds end, in the least closed usage; the facts
  stay untouched; the index lies among the components that carry weight, as long
  as the weights add up to a number.
- `policy`: the backtracking matcher agrees with a declarative reading of `*`
  and `**`; the single scan finds the documented winner; the verdict lists every
  type below its package's minimum, once and in order.
- `shared_analysis`: the analysis runs under the settings `New` was given; the
  passes of a package report all of its violations and no others; the cache is a
  cell that is filled once (`ImplementsOnceCell`): one answer for everyone who
  waits, and only a caller whose own context is done leaves without it; whoever
  cannot be canceled is answered.
- `settings`: whatever order the map is ranged over, the outcome is that of the
  block with one spelling of each field; of what `New` accepts, the analysis
  later rejects only an empty package pattern.
- `cli`: 0 or 3 exactly when the report, or 0 when the guide, is complete, 3
  exactly with violations of rules asked for, 2 only before anything was touched; a
  failed analysis leaves an earlier report alone; every opened file is closed; the
  browser is started on a complete, closed page only; and the command ends whether
  or not the browser does.
- `report_write`: packages with distinct relative paths each have their row with
  their types under it; each mean counts each value below its row once; corners
  close exactly their own branch; values stand in one column to the right of the
  longest name; each mark is explained and each reason told once, under its own
  package; all four formats tell of the same types and values, whatever the names
  spell (the table of a report without two packages of one relative path); and success is answered exactly if all of the page arrived and the sink
  was closed (`ImplementsReportSink`).

`settings` turns deadlock checking off since a run of the linter really ends;
in the other runs the end is an explicit stuttering step.

Where a component's specification has a type invariant that no run lists, it is
stated in the module all the same (`TypeOK`) and can be added to the `.cfg`.

## 4. Fairness

Liveness is checked only under what the code and its scheduling justify.

- `WorkerPool`: the caller and each worker take steps that stay enabled — the Go
  scheduler runs every runnable goroutine — and every `fn` the repository passes
  returns. The context need never be canceled. The two `select` cases have no
  fairness of their own.
- `Analysis`: the call's own goroutines run, and loading ends one way or another
  (the loader's budget bounds attempts, not one attempt; that `packages.Load`
  returns is an assumption about an external).
- `SharedAnalysis`: the analysis ends, with a panic if need be, and a waiter that
  can be answered runs. The host need not start a pass or write; nobody need call
  or cancel.
- `TypeIndex`: the computation is one goroutine that is never blocked.
- `Cli`: the command's own steps happen, since file operations return; nobody need
  interrupt it, and the browser need never close. That the analysis returns is
  `AnalysisReturns`.

The remaining modules state safety only and have no fairness.

## 5. What is proved

The theorems hold for every value of the constants, under the named assumptions
on them, which TLC evaluates on the instances. What is assumed of the data is what
Go or its loader guarantees: no two types of a package, and no two methods of a
type, have one name; of two variants of a package with as many files each there is
one (`LoadsAssumption`, `IsDeclaration`, `ReportTreeAssumption`); a report has no two
packages of one path; every segment and name has a width (`RunesAssumption`); the
keys of a settings block are fields in one of two spellings and what decodes has
its field's type (`SettingsAssumption`).

Loops and recursive functions are reasoned about with two lemmas of `SharedLemmas`:
`UpTo` is induction up to a bound over a *set* of numbers in place of a predicate,
and `Iteration` says that a function given by its first value and by each value in
terms of the one before exists and has these values. `SortedIs`, `KeepIs`,
`SortedHasAll` and `Flattened` say what sorting, filtering and concatenation leave.

**WorkerPool implements ParallelMap** (`WorkerPoolProofs`). Assumed: task counts
are naturals, worker settings integers, GOMAXPROCS positive. None of the
invariants is inductive alone: that a slot has one writer needs that running
tasks were handed out (`wtask[w] < next`) and unfinished; that the wait group
counts the goroutines needs their states; that the answer is complete needs that
dispatch ended with all tasks handed out or with the context canceled. `IInv` is
the conjunction of the type invariant, `ControlInv` (program counter against
channel, answer and the reason dispatch ended), `WorkerInv`, `ErrsInv` and the
named invariants, preserved action by action. From it: `TypeCorrect`,
`SlotsHaveOneWriter`, `NoIndexLost`, `WorkersEndBeforeRun`, `AnswersAreComplete`,
`ReturnIsFinal`, and `Refinement`: the initial state maps to that of
`ParallelMap`, `FinishTask`, `PoolResult`, `RunEmptyPool` and `CancelContext` to
its steps, every other action to a stutter. That a first failed index exists
where a task failed comes from `LeastElement`, the well-foundedness of the
naturals, and not from induction.

**Propagation is exact** (`TypeFactsProofs`). For every call graph, cyclic ones
included: throughout, the sets lie between the extracted usage and every closed
usage that covers it (`LowerBound`, `UpperBound`), and while a round has changed
nothing what it visited is closed (`QuietRoundIsClosed`). The last needs that
comparing counts detects every change, since a union only adds. When a round ends
quietly, the sets are closed, hence least. The facts are never written.

**The most specific rule decides** (`PolicyProofs`). For every report and list of
rules: the rule kept is the best of those seen (`BestSoFar`), because replacing
is beating and beating is transitive — through three lexicographic comparisons
and the tie that goes to the later rule. What a pattern matches plays no part, so
the argument covers paths of any length. `MatcherIsExact`: from the last segment of
the pattern back, the positions `MatchFrom` gives are those where a cover of the rest
starts; `StartsSpan` says that the trials are the spans of one segment, `CoversSpan`
that a cover is a span of the first segment and a cover by the others. `VerdictExact`: `VerdictSoFar`
adds to the invariant that what was found falls short of its own package's rule
(`FoundFalls`), that of the types seen none that falls short was missed
(`FallenIsFound`), and that what was found is in the order of the report.

**References are exact** (`TypeFactsProofs`). For every program: visited types and
those on the stack together are closed under "mentions" as far as visited ones
go; once the stack is empty that is a closed set, so it holds all that is
mentioned, and it never held anything else. One visited set for all fields and
methods loses nothing. `ExtractCollects` shows that the extraction of a whole type
drives the collector by the collector's own steps, so that `ExtractedReferencesExact`
speaks of the program the run checks; `TypeIndex` likewise takes only steps of
`FieldUsage` on its variables.

**Facts belong to their method, documentation to its field** (`TypeFactsProofs`). For
every declaration: `MembersInv` says that methods are numbered in the order of their
names and ranges in that of their starts (`AreNumbered`, `AreIndexed`), that the facts
of each method finished are what a walk of its own body gives, and those of the one
under way what the nodes walked so far give. The number filed for a call is that of
the method called because `Numbers` and the sorted list count alike, methods without a
body left out of both (`FactsOfTheBody`). `DocsOfTheField`: a field counts as
documented exactly if a documented declaration encloses its position, since the search
ends at the last of the sorted ranges that starts at or before it (`BeforeIs`), and
the field declarations of the package's types do not overlap (`IsDeclaration`).

**PackageLoad implements Loader** (`LoadWriteProofs`). For every set of
failures, budget, limit of tries and backoff whose initial interval is at most its
maximum: `RangeInv` types what the steps need, `CallInv` ties the history of calls,
the last error and the answer to the program counter, `RequestInv` says that the
template of the request is never written, `LimitInv` that calls, tries and elapsed
time are counted and that a transient failure reaches the end only with a limit
spent. `GivesUpOnlyAtALimit` is not inductive because the limit is compared with a
delay drawn before the interval grows; `LimitInv` keeps that delay as a witness.
`CancellationDecides` needs the invariant to show that a canceled load never
becomes loaded again, and `LoadIsLoader` maps each action to a step or a stutter.

**The cache is a once-cell** (`PluginProofs`). For every number of passes,
other callers, rules and host writes: `CacheInv` (an outcome exists exactly once
the factory settled, which it does only after a call) and `SettingsInv` (the copy
is as `New` took it) are preserved together, because what the analysis puts into
the cache is computed from the copy. `StepOfCache` shows every step of the program
to be one of the cache's, `StepOfCell` every step of the cache to be one of the
cell's. `EveryViolationIsReported`: `ReportInv` says that a pass has reported what
its package's share of the violations is, or nothing. That the share is complete and
in order is an induction over the violations grouped so far.

**A settings block means one spelling of each field** (`PluginProofs`). For every
block and every order of the map: `ReadInv` says that the renamed map holds, for each
field met so far, the value of one of its keys (`RenamedSoFar`), that the decoded
settings are those of one spelling of each field, and that each run concluded so far
came out as that spelling does. `OneSpellingCounts` follows, and `LateFailures`: what
`New` accepts and the later check does not is an empty pattern, because on weights,
modes and rules the two checks ask for the same.

**Exit code, files and browser** (`CliProofs`). For all command lines and counts of
violations: `WayInv` says which flags led to a step, `SinkInv` what became of the
destination there, `FoundInv`, `FileInv`, `CodeInv` and `BrowserInv` the same of
report, files, exit code and browser. The four safety properties speak of the exit
or of a file alone and hold only because each step on the way knows where all of
them are, so they are proved from the conjunction.

**No stage reads partial work** (`AnalysisProofs`). For every set of package lists:
`ExtractInv` and `MetricInv` say that a pool has written the slot of each task it
finished, with what its own package yields, and that a stage beyond a pool was
reached with all of them finished. Only what `ParallelMap` promises of an answer is
used, so `WorkerPoolProofs` carries it to the pool as coded. `SlotsFilled` follows
(what the run sees of it is `ReportIsOfTheLoad`);
`CanceledIsNotReported` is preserved step by step, because a canceled context makes
either pool's answer an error and `StartMetrics` fail. The bound of a slice is a
guard of `Extract` and `Measure` (an index outside it would panic).

**Identifiers name what the source mentions; the report is that of the load**
(`AnalysisProofs`). `FactsInv` says that the packages are the selected ones of the
list and the module is theirs from the load on, that the facts are right from the
assembly on (`FactsRight`), and that a report's packages and module are right
(`ReportRight`, `ModuleRight`). The core is the assembly: the extracts
sorted by path are one list whatever order they were made in; the index numbers the
types by their position in it, and so does the loop that appends them, because both
count the types of the packages before and then those of the package. Hence resolving
a mentioned key and looking the number up again gives the type mentioned, and keys of
generated or foreign types resolve to nothing. That `dedupePackages` keeps one package
per path, the largest, in the order in which the paths were first listed, is an
induction over the list (`Deduped`, `InListOrder`), and filtering keeps that order; so
the first package that `mainModulePath` finds is the one listed first
(`ModuleIsRight`). With that, `FactsConsistent` and `ReportExact` follow.

**Writing is a ReportSink** (`LoadWriteProofs`). For every report, format, sink, buffer
size and room: `RenderInv` says that what the device took, what the two buffers hold
and what is still to be produced add up to the page, and `CloseInv` that at the close
either all of it is delivered or held, or the loss shows in the buffer's error or in
the count. So success, which needs an error-free flush and close, means the whole page
(`WriteIsSink`). The length of a text page is known only when its table is built;
until then the sum is that of the header (`Produced`).

**The table** (`LoadWriteProofs`). `TreeInv` types the tree, the rows and the calls to
come while packages are hung in, chains are folded and rows are printed. From it
`ValuesLineUp`: the name column is at least as wide as any row. For
`ReasonsAreExplained` the invariant also has to say that a mark stands for a value
that does not apply and for nothing else: `StatsInv` that every statistic counts
something, `StackInv` that each node whose summary is begun is on the stack of
`aggregateTree` or has all of its children summed up, hence `PendingInv` that no row
is printed of a node without a summary. Notes are a concatenation of sections whose
places are known by their offsets; a note is beneath the path of its own section and
of no other, and a type is named by the one note with its reason.

**The branches of the tree** (`LoadWriteProofs`, `BranchesAreClosed`). That exactly the
last branch below a row has the corner is a statement about the finished table; the
invariant `GlyphsRight` tells it of one under way. Of the calls of `emitNode` left, none
goes deeper than the one before it, and each hangs from a row that no later row has
closed. The row of a branch has a corner unless another branch of its parent follows —
as a row, or, while the parent is still open, as a call. `GlyphsGrow` says that a
round (a row printed for the first call, rows for its types, calls for its children)
keeps this, with the rows looked at through their depths only.

**Each package has its row** (`PackagesAreListed`). Two invariants. `TreeSpelled`, while
packages are attached and chains folded: the live nodes form a tree, each spells the
names down to it, no two spell the same, and each package is where its relative path is
spelled; a node that takes the place of its only child spells what the child did
(`AbsorbSpells`), and what `compressTree` still has to look at hangs from what it has
done. `PageLists`, while rows are printed: each node row is of one node, whose path it
spells and whose types follow it, and each node below one that has its row has its own
or is called. When no call is left every live node has its row (`AllPrinted`), and the
reader of the table, who reads paths off depths alone, finds it (`PathsRead`).

**The formats agree** (`FormatsAgree`). Records, documents and pages are concatenations
of lists made package by package and type by type; `FlatHolds` and `FlatLengths` say
what these hold and how often. What the reader of the table learns of a type is its
record with the relative path (`TypeTells`), by the two invariants above. The web page
is whole because the guide is put in before the report, whatever a name spells.

**Means are of the subtree** (`MeansAreRight`). For every report whose relative paths
differ, each node row's statistic is over the applicable values at or below the path it
spells. A sum over a set does not depend on an order: a function `f` on all sets of
values that gives one value its own and a union of disjoint sets both sums exists
(`SumExists`), and `MapThenSumSet` is that `f` (`MapThenSumIs`). A statistic tells a set
if it has its size, its sum, and bounds for its values (`Tells`); one more value, and a
merge with that of a disjoint set, keep this (`AddedTells`, `MergedTells`). The sets are
disjoint and nothing is missed because the names of siblings begin with different
segments, from hanging packages in through folding chains (`BranchInv`): a value below a
node is its own or below exactly one child (`SplitsBelow`). `SumInv` follows
`aggregateTree`: a node whose call is under way tells its own values and those below the
children that returned, one that returned all below it (`UnderWay`), and no two nodes
share a statistic, so that a merge into one changes no other (`NoneShared`). At the end
every live node has told (`AllAreTold`), and the row shows what its node tells
(`RowTells`).

**The index is a mean** (`TypeFactsProofs`, `IndexIsMean`). For every type, weights and
largest float. `Gcd` is defined by recursion on pairs: `Remainders` and `GcdUnfolds` show
that Euclid's algorithm defines a function, and `GcdDivides` that it gives a divisor of
both, so a fraction in lowest terms is the same number (`ReducedIs`). Each component
is between 0 and 1 (`ComponentIs`), of the cohesion because no more cells are used than
there are (`FactsAreRight`), for which the invariant includes that of the propagation. In
the first loop the sum is the partial sum of the counted weights (`Partial`). In the
second, the value times the total lies between two components' multiples of that
partial sum, and is at most the partial sum itself (`IsMean`). One more component keeps
a bound or becomes one (`RoundBounds`, `BoundsKept`), and because the value never
exceeds one it never overflows (`MeanSteps`). At the end the partial sum is the total,
which is not zero. Weights that are no numbers, and totals that are infinite, are
followed separately (`PlusOdd`, `PartIs`, `ValueRight`).

Left to TLC is liveness (`RunReturns`, `AnalysisReturns`, `WaitersAreAnswered`,
`EvaluationEnds`, `CliExits`): the prover handles neither fairness nor `ENABLED`.

## 6. Disagreements met

Two are checked as runs that TLC must find violated:

- **An interrupted analysis exits with 1** (`cli_interrupt`,
  `CanceledAnalysisExits130`). `Analyze` wraps with `"%w: %v"`
  (`src/consts.go:35`), which drops `context.Canceled` from the chain, so the
  test at `internal/cli/funcs.go:180` never holds for a real interrupt. The test
  `internal/cli/cli_test.go:53` calls `failAnalyze` with the bare error.
- **The strictest rule does not apply** (`policy_strictest`,
  `StrictestRuleApplies`). ADR 0021:29 says the highest minimum of all matching
  rules applies; the code, like `src/README.md:93-97`, lets the most specific rule
  decide. `policy` checks what the README says.

Five more were met on the way and are kept as definitions or notes:

- `dispatch` may hand out a task after the cancellation (`workerpool/funcs.go:116`
  against the comment at `:16`): `select` chooses freely between ready cases.
  `NoHandOffOnceCanceled` in `WorkerPool` states the comment; added to
  `WorkerPool.cfg` it fails. Callers are not affected: what was handed out is run
  and the answer says so (`ImplementsParallelMap`).
- A settings block that gives a field in both spellings may mean different things
  in two runs (`analyzer/funcs.go:433`, against ADR 0009:11-12). `RunsAgree` in
  `Settings` states it; added to `Settings.cfg` it fails.
- The module a report names, and with it the relative paths of the text report,
  depends on the order in which packages of several modules are listed, as in a
  workspace (`mainModulePath`, `goloader/funcs.go:795-825`: the first main module,
  or else the first). The byte-identical output of ADR 0009:11-12 rests for this one
  field on `packages.Load` listing the same packages in the same order; every other
  field is sorted. `ReportIsOfTheLoad` says what depends on the order, and how.
- A package outside the module whose path equals the relative path of a package of
  the module takes its node over (`reporting/domain/funcs.go:673`), for example
  package `a` beside `m/a` in module `m`. What is asked of the table's reader is
  therefore asked of reports whose relative paths differ (`RelativePathsDiffer`).
- `checkWeight` (`shared/metrics/funcs.go:221`) refuses negative weights only. A
  counted weight that is NaN or infinite makes the index NaN, which the comment at
  `:172` rules out, and finite weights with an infinite sum make every index 0.
  `IndexBetweenItsComponents` says exactly when each happens.

## 7. Not modelled, and why

- Colours, the formatting of numbers, quoting and indentation of JSON and CSV, and
  the text of the metrics guide: layout, constants, and the encoders' business.
- Whether a package is of the report's module (`InModule`): only coupling reads it.
- Coupling graphs, TCC and its pair counts, and the standalone metrics: reached by
  their tests only; no report shows them.
- `singleton`, `backoff`, `go/packages`, `go/types`, `bufio` are externals, modelled
  from how `src/` uses them, and so are the host's contexts, the files and the
  browser.
- Import paths, generated-file markers, positions and names as text: inputs of the
  modules that depend on them, in the order of the strings.
- Floating-point rounding: finite fractions are exact; that the tolerance of the
  policy gate absorbs rounding is not examined.
- Conversions of the report between the facade's types: field by field copies.
- Version information, build tooling.

## 8. Plan

Done: the pipeline, both front ends, and the way from the report to its reader;
abstract specifications for the pool, the loader, the cache and the sink; and the
proofs above, of every safety property the runs check. Left to extend: the facade as a module of its own between `Cli`, `SharedAnalysis` and
`Analysis`, so that both front ends are checked on the same abstract `Analyze`;
`Analysis` on an instance of `Loader`; type identity across test variants.
