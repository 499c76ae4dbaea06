--------------------------- MODULE SharedAnalysis ---------------------------
(***************************************************************************)
(* The go/analysis analyzer (analyzer/funcs.go): New validates and         *)
(* snapshots the host's settings; then one pass per package, run           *)
(* concurrently by the host, shares one analysis of the whole module       *)
(* through ResultCache and reports the violations of its own package.      *)
(* The settings object stays the host's, who may go on writing to it.      *)
(* The cache also serves calls under a context of their own, which may be  *)
(* canceled, as its doc comment promises and its tests make them.          *)
(***************************************************************************)
EXTENDS Integers, Sequences, FiniteSets

CONSTANTS
  Pass,        \* the passes the host runs
  Holder,      \* calls of the cached function by others than passes
  PackageOf,   \* pass.Pkg.Path() of each pass
  Package,     \* the packages of the module
  Found,       \* policy violations, in Evaluate's order, for each of the two
               \* states of the settings; each is a <<package, type>> pair
  AnalyzeMayFail \* may the analysis return an error

ASSUME SharedAssumption ==
  /\ Pass \cap Holder = {}
  /\ PackageOf \in [Pass -> STRING]
  /\ Found \in [{"original", "written"} -> Seq(Package \X STRING)]
  /\ AnalyzeMayFail \in BOOLEAN

VARIABLES
  settings,  \* the host's Settings object, field by field
  snapshot,  \* newRunnerWith's copy
  factory, attempts, outcome, caller, answer, ctxDone,  \* see ResultCache
  reported   \* what each pass reported, in order

cachevars == <<factory, attempts, outcome, caller, answer, ctxDone>>
vars      == <<settings, snapshot, cachevars, reported>>

\* The groups of fields of Settings that live in memory of their own: the
\* struct itself, the three slices, what the rules' Min pointers point at, and
\* the weights with their pointers.
Field == {"struct", "patterns", "buildTags", "rules", "ruleMins", "weights"}

\* What snapshotSettings still shares with the host (mutant: slices.Clone of the
\* rules keeps their Min pointers).
Shared_RuleMins == {"ruleMins"}
Shared == {}

\* groupByPackage: the violations of a package after the first n of all of them.
Own(vs, p) ==
  LET Kept[n \in 0 .. Len(vs)] ==
        IF n = 0 THEN <<>>
        ELSE IF vs[n][1] = p THEN Append(Kept[n - 1], vs[n]) ELSE Kept[n - 1]
  IN Kept

\* The violations of each package (mutant: only the last one is kept).
GroupByPackage_LastOnly(vs) ==
  [p \in Package |->
     LET mine == Own(vs, p)[Len(vs)] IN IF mine = <<>> THEN <<>> ELSE <<mine[Len(mine)]>>]

GroupByPackage(vs) == [p \in Package |-> Own(vs, p)[Len(vs)]]

\* computeViolations on the settings the factory sees when it runs.
ViolationsUnder(s) ==
  GroupByPackage(Found[IF \E f \in Field : s[f] = "written" THEN "written"
                                                            ELSE "original"])

Cache  == INSTANCE ResultCache
            WITH Caller <- Pass \cup Holder, Cancelable <- Holder,
                 Value <- {ViolationsUnder([f \in Field |-> "original"]),
                           ViolationsUnder([f \in Field |-> "written"])}

-----------------------------------------------------------------------------
\* New has returned: the settings were valid and have been copied.
Init ==
  /\ settings = [f \in Field |-> "original"]
  /\ snapshot = [f \in Field |-> "original"]
  /\ Cache!Init
  /\ reported = [p \in Pass |-> <<>>]

\* The host (external) reuses its settings object.
HostWrites(f) ==
  /\ settings[f] = "original"
  /\ settings' = [settings EXCEPT ![f] = "written"]
  /\ snapshot' = IF f \in Shared THEN [snapshot EXCEPT ![f] = "written"] ELSE snapshot
  /\ UNCHANGED <<cachevars, reported>>

\* runRunner asks the cache.
StartPass(p) ==
  /\ Cache!Call(p)
  /\ UNCHANGED <<settings, snapshot, reported>>

\* Another call of the cached function; its context may be canceled.
HolderStep(h) ==
  /\ Cache!Call(h) \/ Cache!Answer(h) \/ Cache!GiveUp(h) \/ Cache!CancelCaller(h)
  /\ UNCHANGED <<settings, snapshot, reported>>

\* The shared analysis ends; a panic is replayed in every caller, where it is
\* the host's to handle.
AnalysisEnds ==
  /\ \/ Cache!Settle(Cache!Result(ViolationsUnder(snapshot)))
     \/ AnalyzeMayFail /\ (Cache!Settle(Cache!Failure) \/ Cache!Settle(Cache!Panic))
  /\ UNCHANGED <<settings, snapshot, reported>>

\* The cache answers the pass, which reports the violations of its own package.
Diagnostics(p, byPkg) ==
  IF PackageOf[p] \in Package THEN byPkg[PackageOf[p]] ELSE <<>>

EndPass(p) ==
  /\ Cache!Answer(p)
  /\ reported' = IF outcome.kind = "value"
                   THEN [reported EXCEPT ![p] = Diagnostics(p, outcome.value)]
                   ELSE reported
  /\ UNCHANGED <<settings, snapshot>>

AllDone == (\A p \in Pass : caller[p] = "returned") /\ UNCHANGED vars

Next ==
  \/ \E f \in Field : HostWrites(f)
  \/ \E p \in Pass : StartPass(p) \/ EndPass(p)
  \/ \E h \in Holder : HolderStep(h)
  \/ AnalysisEnds
  \/ AllDone

\* The analysis ends, with a panic if need be, and woken waiters run; the host
\* need not write or start a pass, and nobody need call or cancel.
Fairness ==
  /\ WF_vars(AnalysisEnds)
  /\ \A p \in Pass : WF_vars(EndPass(p))

Spec     == Init /\ [][Next]_vars
FairSpec == Spec /\ Fairness

-----------------------------------------------------------------------------
\* The type invariant.
TypeOK ==
  /\ {settings, snapshot} \subseteq [Field -> {"original", "written"}]
  /\ Cache!TypeOK
  /\ reported \in [Pass -> Seq(Package \X STRING)]

\* The analysis ran under the settings New was given, whatever the host wrote to
\* its object before, during or after any pass.
SettingsAsOfNew ==
  outcome.kind = "value" => outcome = Cache!Result(ViolationsUnder([f \in Field |-> "original"]))

\* s is what vs has at the positions in at, in the same order.
Lists(s, vs, at) ==
  \E pos \in [DOMAIN s -> DOMAIN vs] :
    /\ \A k, l \in DOMAIN s : k < l => pos[k] < pos[l]
    /\ \A k \in DOMAIN s : s[k] = vs[pos[k]]
    /\ at = {pos[k] : k \in DOMAIN s}

\* Nothing is lost and nothing invented: a pass that was answered with a value has
\* reported the violations of its own package, all of them and no other, in the
\* order the policy lists them; every other pass has reported none.
EveryViolationReportedAtHome ==
  LET all == Found["original"] IN
  \A p \in Pass :
    IF answer[p].kind = "value"
      THEN Lists(reported[p], all, {n \in DOMAIN all : all[n][1] = PackageOf[p]})
      ELSE reported[p] = <<>>

\* The cache keeps what callers rely on: the factory's first outcome - a failure
\* and a panic included (resultcache/funcs.go:14-16) - is what every caller gets,
\* however many race, come late or give up, and a cancellation is answered to
\* nobody but its owner and never kept.
Once == INSTANCE OnceCell
          WITH Caller <- Pass \cup Holder, Cancelable <- Holder,
               Outcome <- Cache!Outcomes, cell <- outcome
ImplementsOnceCell == Once!Spec

\* A caller that cannot be canceled is answered; see ResultCache.
WaitersAreAnswered == Cache!WaitersAreAnswered
=============================================================================
