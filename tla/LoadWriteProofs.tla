-------------------------- MODULE LoadWriteProofs --------------------------
(***************************************************************************)
(* Proofs about the two ends of a run, where the world outside may fail:   *)
(* loading the packages (PackageLoad) and writing the report               *)
(* (ReportWrite).  The second part goes from the sink, by the widths of    *)
(* the columns, to what a reader learns from the page: whose corner closes *)
(* which branch, which rows are a package's, whether the table, the        *)
(* records and the documents tell the same, and which values a mean is of. *)
(***************************************************************************)
EXTENDS PackageLoad, ReportWrite, SharedLemmas

-----------------------------------------------------------------------------
(***************************************************************************)
(* PackageLoad, for all limits, delays, durations and errors: the retry    *)
(* loop is a Loader, every attempt sees the request as it was built, a     *)
(* cancellation decides the answer, and a transient failure is reported    *)
(* only at a limit.                                                        *)
(***************************************************************************)
Verdicts == {"open", "ok", "transient", "permanent"}

\* The invariant's parts: the ranges that the steps rely on ...
RangeInv ==
  /\ continueOnError \in BOOLEAN
  /\ canceled \in BOOLEAN
  /\ calls \in Seq(Verdicts)
  /\ {tries, elapsed} \subseteq Nat
  /\ interval \in Initial .. Maximum
  /\ wake \in Int
  /\ pc = "backoff" => wake \in Nat
  /\ loaded \subseteq PackageKind
  /\ lastErr \in Failures \cup {NoErr}

\* ... what the history says at each point of the loop ...
CallInv ==
  /\ pc \in {"attempt", "loading", "finish", "retry", "backoff", "failed", "loaded", "returned"}
  /\ pc = "attempt" => LastCall \in {"none", "transient"}
  /\ pc \in {"loading", "finish"} => LastCall = "open"
  /\ pc \in {"retry", "backoff"} => LastCall = "transient"
  /\ pc = "failed" => LastCall \in {"none", "transient", "permanent"}
  /\ pc = "failed" /\ LastCall = "none" => canceled
  /\ pc = "loaded" => LastCall = "ok"
  /\ pc # "returned" => result = Pending

\* ... that the template of the configuration is as it was ...
RequestInv == request = Original

\* ... and how far the limits have been used up.
Spent ==
  \/ Len(calls) = MaxTries
  \/ \E i \in Initial .. interval : \E d \in Delays(i) :
       NextInterval(i) = interval /\ elapsed + d > Budget

LimitInv ==
  /\ ~canceled => tries = Len(calls)
  /\ tries <= MaxTries
  /\ pc \in {"attempt", "backoff"} => tries < MaxTries
  /\ pc = "failed" /\ ~canceled => Spent \/ ~TransientLoadError(lastErr)
  /\ GivesUpOnlyAtALimit

IInv == RangeInv /\ CallInv /\ RequestInv /\ LimitInv

-----------------------------------------------------------------------------
\* The last element of a sequence that was extended, or whose last element was
\* replaced.
LEMMA LastOfAppend ==
  ASSUME NEW s \in Seq(Verdicts), NEW v \in Verdicts
  PROVE  /\ Append(s, v) \in Seq(Verdicts)
         /\ Append(s, v) # <<>>
         /\ Len(Append(s, v)) = Len(s) + 1
         /\ Append(s, v)[Len(Append(s, v))] = v
OBVIOUS

LEMMA LastOfExcept ==
  ASSUME NEW s \in Seq(Verdicts), s # <<>>, NEW v \in Verdicts,
         NEW t, t = [s EXCEPT ![Len(s)] = v]
  PROVE  /\ t \in Seq(Verdicts)
         /\ t # <<>>
         /\ Len(t) = Len(s)
         /\ t[Len(t)] = v
OBVIOUS

\* The interval grows and stays below its ceiling.
LEMMA IntervalGrows ==
  ASSUME NEW i \in Initial .. Maximum
  PROVE  NextInterval(i) \in i .. Maximum
<1>1. i \in Nat \ {0} /\ Maximum \in Nat /\ Multiplier \in Nat \ {0}
  BY LoadAssumption
<1>2. i * Multiplier \in Nat /\ i * Multiplier >= i
  BY <1>1
<1> QED BY <1>1, <1>2 DEF NextInterval

\* A delay may be drawn for every interval: the interval itself.
LEMMA DelaysAreNat ==
  ASSUME NEW i \in Nat, NEW d \in Delays(i)
  PROVE  d \in Nat
<1>1. i \div JitterDivisor \in 0 .. i
  BY LoadAssumption
<1> QED BY <1>1 DEF Delays

\* The verdict of an attempt, and what it tells.
LEMMA VerdictMeans ==
  /\ Verdict \in {"ok", "transient", "permanent"}
  /\ Verdict = "ok" => ~canceled /\ lastErr = NoErr
  /\ Verdict = "transient" => ~canceled /\ lastErr # NoErr /\ TransientLoadError(lastErr)
  /\ Verdict = "permanent" => canceled \/ (lastErr # NoErr /\ ~TransientLoadError(lastErr))
BY DEF Verdict

-----------------------------------------------------------------------------
LEMMA InitInv == Init => IInv
BY LoadAssumption
DEF Init, IInv, RangeInv, CallInv, RequestInv, LimitInv, GivesUpOnlyAtALimit, LastCall, NoErr,
    NoWake, PackageKind

\* A step keeps the ranges and the history in order.
LEMMA CallStep == RangeInv /\ CallInv /\ [Next]_vars => RangeInv' /\ CallInv'
<1> SUFFICES ASSUME RangeInv, CallInv, [Next]_vars PROVE RangeInv' /\ CallInv'
  OBVIOUS
<1> USE LoadAssumption DEF RangeInv, CallInv, LastCall
<1>1. CASE StartAttempt
  <2>1. CASE ~MayCall
    BY <1>1, <2>1 DEF StartAttempt, MayCall
  <2>2. CASE MayCall
    <3>1. calls' = Append(calls, "open") /\ pc' = "loading"
      BY <1>1, <2>2 DEF StartAttempt
    <3>2. calls' \in Seq(Verdicts) /\ LastCall' = "open"
      BY <3>1, LastOfAppend DEF Verdicts
    <3> QED BY <1>1, <3>1, <3>2 DEF StartAttempt
  <2> QED BY <2>1, <2>2
<1>2. CASE LoaderWrites
  BY <1>2 DEF LoaderWrites
<1>3. CASE LoaderReturns
  BY <1>3 DEF LoaderReturns, NoErr
<1>4. CASE FinishAttempt
  <2>1. calls # <<>>
    BY <1>4 DEF FinishAttempt
  <2>2. Verdict \in Verdicts
    BY VerdictMeans DEF Verdicts
  <2>3. calls' \in Seq(Verdicts) /\ LastCall' = Verdict
    BY <1>4, <2>1, <2>2, LastOfExcept DEF FinishAttempt
  <2> QED BY <1>4, <2>3, VerdictMeans DEF FinishAttempt
<1>5. CASE ScheduleRetry
  <2>1. interval' \in Initial .. Maximum
    BY <1>5, IntervalGrows DEF ScheduleRetry
  <2>2. interval \in Nat
    OBVIOUS
  <2>3. PICK d \in Delays(interval) :
          \/ pc' = "failed" /\ wake' = wake
          \/ pc' = "backoff" /\ wake' = elapsed + d
    BY <1>5 DEF ScheduleRetry
  <2>4. d \in Nat
    BY <2>2, DelaysAreNat
  <2> QED BY <1>5, <2>1, <2>3, <2>4, SMTT(30) DEF ScheduleRetry
<1>6. CASE TimerFires
  BY <1>6 DEF TimerFires, NoWake
<1>7. CASE CanceledInBackoff
  BY <1>7 DEF CanceledInBackoff, NoWake
<1>8. CASE ReportFailure
  BY <1>8 DEF ReportFailure
<1>9. CASE SelectLoaded
  BY <1>9 DEF SelectLoaded
<1>10. CASE CancelContext
  BY <1>10 DEF CancelContext
<1>11. CASE UNCHANGED vars
  BY <1>11 DEF vars
<1> QED
  BY <1>1, <1>2, <1>3, <1>4, <1>5, <1>6, <1>7, <1>8, <1>9, <1>10, <1>11 DEF Next, Returned

\* What the loader writes does not reach the template: every field is a copy.
LEMMA RequestStep == RequestInv /\ [Next]_vars => RequestInv'
BY DEF RequestInv, SharedFields, Original, Field, Next, StartAttempt, LoaderWrites, LoaderReturns,
       FinishAttempt, ScheduleRetry, TimerFires, CanceledInBackoff, ReportFailure, SelectLoaded,
       CancelContext, Returned, vars

\* The attempts are counted, and the loop ends in a transient failure only when
\* they, or the time, are spent.
LEMMA LimitStep == RangeInv /\ CallInv /\ LimitInv /\ [Next]_vars => LimitInv'
<1> SUFFICES ASSUME RangeInv, CallInv, LimitInv, [Next]_vars PROVE LimitInv'
  OBVIOUS
<1> USE LoadAssumption DEF LimitInv
<1>0. pc # "returned" /\ pc' # "returned" => GivesUpOnlyAtALimit'
  BY DEF GivesUpOnlyAtALimit
<1>1. CASE StartAttempt
  <2>1. CASE ~MayCall
    BY <1>0, <1>1, <2>1 DEF StartAttempt, MayCall, RangeInv
  <2>2. CASE MayCall
    <3>1. Len(calls') = Len(calls) + 1
      BY <1>1, <2>2, LastOfAppend DEF StartAttempt, RangeInv, Verdicts
    <3> QED BY <1>0, <1>1, <2>2, <3>1 DEF StartAttempt, MayCall, RangeInv
  <2> QED BY <2>1, <2>2
<1>2. CASE LoaderWrites \/ LoaderReturns
  BY <1>0, <1>2 DEF LoaderWrites, LoaderReturns
<1>3. CASE FinishAttempt
  <2>1. Len(calls') = Len(calls)
    <3>1. calls # <<>> /\ Verdict \in Verdicts
      BY <1>3, VerdictMeans DEF FinishAttempt, CallInv, LastCall, Verdicts
    <3> QED BY <1>3, <3>1, LastOfExcept DEF FinishAttempt, RangeInv
  <2>2. pc' = "failed" => canceled \/ ~TransientLoadError(lastErr)
    BY <1>3, VerdictMeans DEF FinishAttempt
  <2>3. pc' \in {"loaded", "retry", "failed"}
    BY <1>3, VerdictMeans DEF FinishAttempt
  <2>4. TransientLoadError(lastErr)' <=> TransientLoadError(lastErr)
    BY <1>3 DEF FinishAttempt, TransientLoadError
  <2> QED BY <1>0, <1>3, <2>1, <2>2, <2>3, <2>4 DEF FinishAttempt
<1>4. CASE ScheduleRetry
  <2> USE <1>4 DEF ScheduleRetry
  <2>1. PICK d \in Delays(interval) :
          \/ ~RetryAllowed(d) /\ pc' = "failed"
          \/ RetryAllowed(d) /\ pc' = "backoff"
    OBVIOUS
  <2>2. interval \in Initial .. interval' /\ NextInterval(interval) = interval'
    BY IntervalGrows DEF RangeInv
  <2>3. ASSUME ~RetryAllowed(d), ~canceled PROVE Spent'
    <3>1. CASE tries >= MaxTries
      BY <2>3, <3>1 DEF Spent, RangeInv
    <3>2. CASE tries < MaxTries
      <4>1. d \in Nat /\ elapsed + d > Budget
        BY <2>3, <3>2, DelaysAreNat DEF RetryAllowed, RangeInv
      <4>2. \E i \in Initial .. interval' : \E e \in Delays(i) :
              NextInterval(i) = interval' /\ elapsed + e > Budget
        BY <2>2, <4>1
      <4> QED BY <4>2 DEF Spent
    <3> QED BY <3>1, <3>2 DEF RangeInv
  <2>4. RetryAllowed(d) => tries < MaxTries
    BY DEF RetryAllowed
  <2> QED BY <1>0, <2>1, <2>3, <2>4
<1>5. CASE TimerFires
  BY <1>0, <1>5 DEF TimerFires
<1>6. CASE CanceledInBackoff
  BY <1>0, <1>6 DEF CanceledInBackoff
<1>7. CASE ReportFailure
  <2>1. Spent' <=> Spent
    BY <1>7 DEF ReportFailure, Spent
  <2>2. ~canceled' => result'.err = lastErr
    BY <1>7 DEF ReportFailure, ReportedError, Fail
  <2>3. GivesUpOnlyAtALimit'
    BY <1>7, <2>1, <2>2 DEF ReportFailure, GivesUpOnlyAtALimit, Spent
  <2> QED BY <1>7, <2>3 DEF ReportFailure
<1>8. CASE SelectLoaded
  <2>1. ~TransientLoadError(result'.err)
    BY <1>8 DEF SelectLoaded, SelectPackages, Fail, Loaded, NoErr, TransientLoadError, TransientErrno
  <2>2. GivesUpOnlyAtALimit'
    BY <2>1 DEF GivesUpOnlyAtALimit
  <2> QED BY <1>8, <2>2 DEF SelectLoaded
<1>9. CASE CancelContext
  BY <1>9 DEF CancelContext, GivesUpOnlyAtALimit
<1>10. CASE UNCHANGED vars
  BY <1>10 DEF vars, GivesUpOnlyAtALimit, Spent
<1> QED
  BY <1>1, <1>2, <1>3, <1>4, <1>5, <1>6, <1>7, <1>8, <1>9, <1>10 DEF Next, Returned

LEMMA Invariance == Spec => []IInv
<1>1. IInv /\ [Next]_vars => IInv'
  BY CallStep, RequestStep, LimitStep DEF IInv
<1> QED BY <1>1, InitInv, PTL DEF Spec

-----------------------------------------------------------------------------
\* The retries promised are made, whatever the limits and the delays are.
THEOREM RetriesAreMade == Spec => []GivesUpOnlyAtALimit
<1>1. IInv => GivesUpOnlyAtALimit
  BY DEF IInv, LimitInv
<1> QED BY <1>1, Invariance, PTL

\* No attempt sees what the loader did to the configuration of an earlier one.
THEOREM AttemptsSeeTheRequest == Spec => EveryAttemptSeesTheRequest
<1>1. IInv /\ [Next]_vars => [Len(calls') > Len(calls) => attempt' = Original]_vars
  <2> SUFFICES ASSUME IInv, Next PROVE Len(calls') > Len(calls) => attempt' = Original
    BY DEF vars
  <2>1. CASE StartAttempt
    BY <2>1 DEF IInv, RangeInv, RequestInv, StartAttempt
  <2>2. CASE FinishAttempt
    <3>1. calls # <<>> /\ Verdict \in Verdicts
      BY <2>2, VerdictMeans DEF IInv, CallInv, FinishAttempt, LastCall, Verdicts
    <3>2. Len(calls') = Len(calls)
      BY <2>2, <3>1, LastOfExcept DEF FinishAttempt, IInv, RangeInv
    <3> QED BY <3>2 DEF IInv, RangeInv
  <2>3. CASE ~(StartAttempt \/ FinishAttempt)
    <3>1. calls' = calls
      BY <2>3 DEF Next, LoaderWrites, LoaderReturns, ScheduleRetry, TimerFires, CanceledInBackoff,
                  ReportFailure, SelectLoaded, CancelContext, Returned, vars
    <3> QED BY <3>1 DEF IInv, RangeInv
  <2> QED BY <2>1, <2>2, <2>3
<1> QED BY <1>1, Invariance, PTL DEF Spec, EveryAttemptSeesTheRequest

\* Once the context is done before the last attempt is judged, the answer can
\* only be the cancellation.
GoneBeforeVerdict == canceled /\ pc \in {"attempt", "loading", "finish", "retry", "backoff", "failed"}
AnswersCanceled   == pc = "returned" => result = Fail({"Canceled"})

THEOREM CancellationDecides == Spec => CancellationWins
<1> DEFINE Lost == canceled /\ pc # "loaded" /\ AnswersCanceled
<1>1. GoneBeforeVerdict => Lost
  BY DEF GoneBeforeVerdict, AnswersCanceled
<1>2. Lost /\ [Next]_vars => Lost'
  BY VerdictMeans
  DEF AnswersCanceled, Next, StartAttempt, LoaderWrites, LoaderReturns, FinishAttempt, ScheduleRetry,
      TimerFires, CanceledInBackoff, ReportFailure, ReportedError, SelectLoaded, CancelContext,
      Returned, vars
<1>3. Lost => AnswersCanceled
  OBVIOUS
<1>4. Spec => [](GoneBeforeVerdict => []AnswersCanceled)
  <2> HIDE DEF Lost
  <2> QED BY <1>1, <1>2, <1>3, PTL DEF Spec
<1> QED BY <1>4 DEF CancellationWins, GoneBeforeVerdict, AnswersCanceled

-----------------------------------------------------------------------------
\* Each step of the retry loop is one of the loader, or none.
LEMMA StepOfLoad == IInv /\ IInv' /\ [Next]_vars => [Load!Next]_(Load!loadervars)
<1> SUFFICES ASSUME IInv, IInv', [Next]_vars PROVE Load!Next \/ UNCHANGED Load!loadervars
  OBVIOUS
<1> USE DEF IInv, RangeInv, CallInv
<1>1. CASE StartAttempt
  <2>1. CASE ~MayCall
    BY <1>1, <2>1 DEF StartAttempt, Load!loadervars, LastCall, Settled
  <2>2. CASE MayCall
    <3>1. calls' = Append(calls, "open") /\ LastCall' = "open"
      BY <1>1, <2>2, LastOfAppend DEF StartAttempt, LastCall, Verdicts
    <3>2. Load!Begin
      BY <1>1, <2>2, <3>1 DEF StartAttempt, MayCall, Load!Begin, Settled, Load!Waiting, Pending, NoErr
    <3> QED BY <3>2 DEF Load!Next
  <2> QED BY <2>1, <2>2
<1>2. CASE LoaderWrites \/ LoaderReturns
  BY <1>2 DEF LoaderWrites, LoaderReturns, Load!loadervars, LastCall, Settled
<1>3. CASE FinishAttempt
  <2>1. calls # <<>> /\ Verdict \in Verdicts
    BY <1>3, VerdictMeans DEF FinishAttempt, LastCall, Verdicts
  <2>2. LastCall' = Verdict
    BY <1>3, <2>1, LastOfExcept DEF FinishAttempt, LastCall
  <2>3. lastErr' = lastErr /\ loaded' = loaded /\ canceled' = canceled
    BY <1>3 DEF FinishAttempt
  <2>4. Settled(lastErr)' = lastErr /\ Settled(loaded)' = loaded
    BY <2>2, <2>3, VerdictMeans DEF Settled
  <2>5. Load!End
    BY <1>3, <2>2, <2>3, <2>4, VerdictMeans
    DEF FinishAttempt, Load!End, Load!ContextError, TransientLoadError, PackageKind, NoErr
  <2> QED BY <2>5 DEF Load!Next
<1>4. CASE ScheduleRetry \/ TimerFires \/ CanceledInBackoff
  BY <1>4 DEF ScheduleRetry, TimerFires, CanceledInBackoff, Load!loadervars, LastCall, Settled
<1>5. CASE ReportFailure
  <2>1. Load!GiveUp
    BY <1>5 DEF ReportFailure, ReportedError, LastCall, Settled, Load!GiveUp, Load!Answer,
                Load!Failed, Load!Waiting, Fail, Pending, NoErr
  <2> QED BY <2>1 DEF Load!Next
<1>6. CASE SelectLoaded
  <2>1. UNCHANGED <<LastCall, Settled(lastErr), Settled(loaded), canceled, continueOnError>>
    BY <1>6 DEF SelectLoaded, LastCall, Settled
  <2>2. LastCall = "ok" /\ Settled(loaded) = loaded /\ result = Load!Waiting
    BY <1>6 DEF SelectLoaded, Settled, Load!Waiting, Pending, NoErr
  <2>3. CASE Load!Usable
    <3>1. result' = Load!Success
      BY <1>6, <2>2, <2>3 DEF SelectLoaded, SelectPackages, Load!Usable, Load!Success, Loaded, NoErr
    <3> QED BY <2>1, <2>2, <2>3, <3>1 DEF Load!Use, Load!Answer, Load!Next
  <2>4. CASE ~Load!Usable
    <3>1. \E e \in {{"errNoPackagesMatched"}, {"errPackageLoadFailures"}, {"errNoLoadablePackages"}} :
            result' = Load!Failed(e)
      BY <1>6, <2>2, <2>4 DEF SelectLoaded, SelectPackages, Load!Usable, Load!Failed, Fail
    <3> QED BY <2>1, <2>2, <2>4, <3>1 DEF Load!Refuse, Load!Answer, Load!Next
  <2> QED BY <2>3, <2>4
<1>7. CASE CancelContext
  BY <1>7 DEF CancelContext, Load!Cancel, Load!Next, LastCall, Settled
<1>8. CASE UNCHANGED vars
  BY <1>8 DEF vars, Load!loadervars, LastCall, Settled
<1> QED BY <1>1, <1>2, <1>3, <1>4, <1>5, <1>6, <1>7, <1>8 DEF Next, Returned

\* The retry loop is a loader: no call once the context is done or after a
\* context error, and the answer is that of the last call.
THEOREM LoadIsLoader == Spec => ImplementsLoader
<1>1. Init => Load!Init
  BY DEF Init, Load!Init, LastCall, Settled, Load!Waiting, Pending, NoErr
<1> QED BY <1>1, StepOfLoad, Invariance, PTL DEF Spec, ImplementsLoader, Load!Spec

-----------------------------------------------------------------------------
(***************************************************************************)
(* ReportWrite, for all reports, formats, buffer sizes and lacks of room:  *)
(* writing is a ReportSink, the values of the table stand in one column,   *)
(* and what does not apply is explained.                                   *)
(***************************************************************************)
-----------------------------------------------------------------------------
\* Names are made of what has a width.
Names == Seq(DOMAIN Runes)

\* A report is what its assumptions say.
LEMMA ReportIs ==
  ASSUME report \in Reports
  PROVE  /\ IsList(Packages)
         /\ \A k \in DOMAIN Packages : IsList(Packages[k].types)
         /\ report.module \in Names
         /\ \A k \in DOMAIN Packages :
              /\ Packages[k].path \in Names
              /\ \A typ \in Range(Packages[k].types) :
                   typ.name \in DOMAIN Runes /\ typ.applicable \in BOOLEAN /\ typ.value \in Int
  BY ReportTreeAssumption, RunesAssumption DEF Packages, IsList, Names

LEMMA RecordsAreList ==
  ASSUME report \in Reports PROVE IsList(CSVRecords) /\ IsList(ReportPieces) /\ IsList(JSONReport)
<1>1. IsList(Packages) /\ \A k \in DOMAIN Packages : IsList(Packages[k].types)
  BY ReportIs
<1>2. IsList(CSVRecords)
  <2> DEFINE f == [k \in DOMAIN Packages |->
                     [j \in DOMAIN Packages[k].types |-> CSVRecord(Packages[k], Packages[k].types[j])]]
  <2>1. ASSUME NEW k \in DOMAIN Packages PROVE IsList(f[k])
    <3>1. PICK g : g = [j \in DOMAIN Packages[k].types |-> CSVRecord(Packages[k], Packages[k].types[j])]
      OBVIOUS
    <3>2. IsList(g)
      BY <1>1, <3>1, MappedIsList
    <3> QED BY <3>1, <3>2
  <2>2. DOMAIN f = DOMAIN Packages /\ f = [k \in DOMAIN Packages |-> f[k]]
    OBVIOUS
  <2> HIDE DEF f
  <2>3. IsList(FlattenSeq(f))
    BY <1>1, <2>1, <2>2, FlatMapIsList
  <2> QED BY <2>3 DEF CSVRecords, f
<1>3. IsList(ReportPieces)
  <2> DEFINE f == [k \in DOMAIN Packages |->
                     [j \in DOMAIN Packages[k].types |-> Packages[k].types[j].name]]
  <2>1. ASSUME NEW k \in DOMAIN Packages PROVE IsList(f[k])
    <3>1. PICK g : g = [j \in DOMAIN Packages[k].types |-> Packages[k].types[j].name]
      OBVIOUS
    <3>2. IsList(g)
      BY <1>1, <3>1, MappedIsList
    <3> QED BY <3>1, <3>2
  <2>2. DOMAIN f = DOMAIN Packages /\ f = [k \in DOMAIN Packages |-> f[k]]
    OBVIOUS
  <2> HIDE DEF f
  <2>3. IsList(FlattenSeq(f))
    BY <1>1, <2>1, <2>2, FlatMapIsList
  <2> QED BY <2>3 DEF ReportPieces, f
<1>4. IsList(JSONReport)
  <2>1. PICK f : f = JSONReport
    OBVIOUS
  <2>2. DOMAIN f = DOMAIN Packages /\ f = [k \in DOMAIN Packages |-> f[k]]
    BY <2>1 DEF JSONReport
  <2> QED BY <1>1, <2>1, <2>2, MappedIsList
<1> QED BY <1>2, <1>3, <1>4

\* injectPlaceholder leaves a page.
LEMMA InjectedIsList ==
  ASSUME NEW page, NEW placeholder, NEW pieces, IsList(page), IsList(pieces)
  PROVE  IsList(Inject(page, placeholder, pieces))
<1> DEFINE First(i) == page[i] = placeholder /\ \A j \in 1 .. i - 1 : page[j] # placeholder
           T == {i \in DOMAIN page : page[i] = placeholder}
<1>1. Len(page) \in Nat /\ DOMAIN page = 1 .. Len(page)
  BY ListIs
<1>2. CASE placeholder \in Range(page)
  <2>1. T # {} /\ T \subseteq Nat
    BY <1>1, <1>2 DEF Range
  <2>2. PICK i \in T : \A j \in T : i <= j
    <3> HIDE DEF T
    <3> QED BY <2>1, LeastElement
  <2>3. i \in DOMAIN page /\ First(i)
    <3>1. \A j \in 1 .. i - 1 : j \in DOMAIN page /\ ~ (i <= j)
      BY <1>1
    <3> QED BY <2>2, <3>1
  <2>4. PICK first : first = CHOOSE x \in DOMAIN page : First(x)
    OBVIOUS
  <2>5. first \in 1 .. Len(page)
    <3> HIDE DEF First
    <3> QED BY <1>1, <2>3, <2>4
  <2>6. IsList(SubSeq(page, 1, first - 1)) /\ IsList(SubSeq(page, first + 1, Len(page)))
    <3>1. page \in Seq(Range(page))
      BY DEF IsList
    <3>2. SubSeq(page, 1, first - 1) \in Seq(Range(page))
      BY <1>1, <2>5, <3>1
    <3>3. SubSeq(page, first + 1, Len(page)) \in Seq(Range(page))
      BY <1>1, <2>5, <3>1
    <3> QED BY <3>2, <3>3, SequenceIsList
  <2>7. Inject(page, placeholder, pieces)
          = (SubSeq(page, 1, first - 1) \o pieces) \o SubSeq(page, first + 1, Len(page))
    BY <1>2, <2>4 DEF Inject
  <2>8. IsList(SubSeq(page, 1, first - 1) \o pieces)
    BY <2>6, ListConcat
  <2> QED BY <2>6, <2>7, <2>8, ListConcat
<1>3. CASE placeholder \notin Range(page)
  BY <1>3 DEF Inject
<1> QED BY <1>2, <1>3

LEMMA WebPageIsList == ASSUME report \in Reports PROVE IsList(WebPage)
<1>1. IsList(WebTemplate)
  <2>1. DOMAIN WebTemplate = 1 .. 5
    BY DEF WebTemplate
  <2>2. PICK w : w = WebTemplate
    OBVIOUS
  <2>3. w = [k \in 1 .. 5 |-> w[k]]
    BY <2>2 DEF WebTemplate
  <2>4. w \in [1 .. 5 -> Range(w)]
    BY <2>3 DEF Range
  <2>5. IsList(w)
    BY <2>4, FunctionIsList
  <2> QED BY <2>2, <2>5
<1>2. IsList(<<"guide">>) /\ IsList(ReportPieces)
  BY OneIsList, RecordsAreList
<1>3. IsList(Inject(WebTemplate, "__DOCS_DATA__", <<"guide">>))
  BY <1>1, <1>2, InjectedIsList
<1> QED BY <1>2, <1>3, InjectedIsList DEF WebPage

\* collectNoteEntries has each reason once.
LEMMA ReasonsAre ==
  ASSUME NEW pkg, IsList(pkg.types)
  PROVE  /\ IsList(ReasonsOf(pkg))
         /\ Range(ReasonsOf(pkg)) = {typ.reason : typ \in Range(pkg.types)} \ {""}
         /\ \A i, j \in DOMAIN ReasonsOf(pkg) : ReasonsOf(pkg)[i] = ReasonsOf(pkg)[j] => i = j
<1> DEFINE T == pkg.types
           S == {typ.reason : typ \in Range(T)} \ {""}
           At(r) == CHOOSE k \in DOMAIN T : T[k].reason = r /\ \A l \in 1 .. k - 1 : T[l].reason # r
           key == [r \in S |-> At(r)]
<1>1. Len(T) \in Nat /\ DOMAIN T = 1 .. Len(T)
  BY ListIs
<1>2. ASSUME NEW r \in S PROVE At(r) \in DOMAIN T /\ T[At(r)].reason = r
  <2> DEFINE K == {k \in DOMAIN T : T[k].reason = r}
             Is(k) == T[k].reason = r /\ \A l \in 1 .. k - 1 : T[l].reason # r
  <2>1. PICK n \in Nat : DOMAIN T = 1 .. n
    BY <1>1
  <2>2. K # {}
    <3>1. \E typ \in Range(T) : typ.reason = r
      <4> HIDE DEF T
      <4> QED OBVIOUS
    <3>2. PICK typ \in Range(T) : typ.reason = r
      BY <3>1
    <3>3. PICK k \in DOMAIN T : T[k] = typ
      <4> HIDE DEF T
      <4> QED BY DEF Range
    <3> QED BY <3>2, <3>3
  <2>3. \A l \in K : l \in Nat /\ l \in 1 .. n /\ T[l].reason = r
    <3>1. \A l \in K : l \in DOMAIN T /\ T[l].reason = r
      OBVIOUS
    <3>2. \A l \in 1 .. n : l \in Nat
      <4> HIDE DEF K, T, At, S, key, Is
      <4> QED OBVIOUS
    <3> HIDE DEF T, K
    <3> QED BY <2>1, <3>1, <3>2
  <2>4. \A l \in 1 .. n : T[l].reason = r => l \in K
    <3> HIDE DEF T
    <3> QED BY <2>1
  <2>5. K \subseteq Nat
    BY <2>3
  <2>6. PICK k \in K : \A l \in K : k <= l
    <3> HIDE DEF K
    <3> QED BY <2>2, <2>5, LeastElement
  <2>7. \A l \in 1 .. k - 1 : T[l].reason # r
    <3>1. \A l \in 1 .. k - 1 : l \in 1 .. n /\ ~ (k <= l)
      <4>1. PICK c \in 1 .. n : c = k
        BY <2>3
      <4>2. \A l \in 1 .. c - 1 : l \in 1 .. n /\ ~ (c <= l)
        <5> HIDE DEF K, T, At, S, key, Is
        <5> QED OBVIOUS
      <4> HIDE DEF K
      <4> QED BY <4>1, <4>2
    <3> HIDE DEF K, T
    <3> QED BY <2>4, <2>6, <3>1
  <2>8. k \in DOMAIN T /\ Is(k)
    <3> HIDE DEF K, T
    <3> QED BY <2>1, <2>3, <2>7
  <2>9. At(r) = CHOOSE x \in DOMAIN T : Is(x)
    OBVIOUS
  <2>10. At(r) \in DOMAIN T /\ Is(At(r))
    <3> HIDE DEF Is, At, T
    <3> QED BY <2>8, <2>9
  <2> HIDE DEF At
  <2> QED BY <2>10
<1>3. IsFiniteSet(S)
  <2>1. PICK n \in Nat : DOMAIN T = 1 .. n
    BY <1>1
  <2>2. PICK g : g = [k \in 1 .. n |-> T[k].reason]
    OBVIOUS
  <2>3. Range(g) = {typ.reason : typ \in Range(T)}
    <3> HIDE DEF T
    <3> QED BY <2>1, <2>2 DEF Range
  <2>4. g \in [1 .. n -> Range(g)]
    BY <2>2 DEF Range
  <2>5. IsFiniteSet(Range(g))
    BY <2>4, RangeIsFinite
  <2>6. S \in SUBSET Range(g)
    <3> HIDE DEF T
    <3> QED BY <2>3
  <2> QED BY <2>5, <2>6, FS_Subset
<1>4. ReasonsOf(pkg) = Sorted(S, key)
  BY DEF ReasonsOf, FirstWith
<1>5. key \in [S -> Int] /\ \A x, y \in S : key[x] = key[y] => x = y
  <2>1. \A r \in S : key[r] = At(r)
    OBVIOUS
  <2> HIDE DEF S, At, T
  <2> QED BY <1>1, <1>2, <2>1
<1> HIDE DEF key, S
<1>6. PICK R : R = Sorted(S, key)
  OBVIOUS
<1>7. R \in Seq(S) /\ Range(R) = S /\ Ascending(R, key)
  <2>1. Sorted(S, key) \in Seq(S)
    BY <1>3, <1>5, SortedHasAll
  <2>2. Range(Sorted(S, key)) = S
    BY <1>3, <1>5, SortedHasAll
  <2>3. Ascending(Sorted(S, key), key)
    BY <1>3, <1>5, SortedHasAll
  <2> QED BY <1>6, <2>1, <2>2, <2>3
<1>8. IsList(R)
  BY <1>7, SequenceIsList
<1>9. ASSUME NEW i \in DOMAIN R, NEW j \in DOMAIN R, R[i] = R[j] PROVE i = j
  <2>1. PICK n \in Nat : DOMAIN R = 1 .. n
    BY <1>8, ListIs
  <2>2. \A k \in DOMAIN R : R[k] \in S
    BY <1>7
  <2>3. PICK v \in Int : v = key[R[i]] /\ v = key[R[j]]
    BY <1>5, <1>9, <2>2
  <2>4. ~ (v < v)
    OBVIOUS
  <2>5. ~ (i < j) /\ ~ (j < i)
    BY <1>7, <2>3, <2>4 DEF Ascending
  <2> QED BY <2>1, <2>5
<1>10. S = {typ.reason : typ \in Range(T)} \ {""}
  BY DEF S
<1> QED BY <1>4, <1>6, <1>7, <1>8, <1>9, <1>10

LEMMA NotesAreList == ASSUME report \in Reports PROVE IsList(Notes)
<1> DEFINE Section(pkg) == IF ReasonsOf(pkg) = <<>> THEN <<>>
                           ELSE <<[kind |-> "notes path", path |-> pkg.path]>> \o PackageNotes(pkg)
           f == [k \in DOMAIN Packages |-> Section(Packages[k])]
<1>1. IsList(Packages) /\ \A k \in DOMAIN Packages : IsList(Packages[k].types)
  BY ReportIs
<1>2. ASSUME NEW k \in DOMAIN Packages PROVE IsList(Section(Packages[k]))
  <2>1. IsList(ReasonsOf(Packages[k]))
    BY <1>1, ReasonsAre
  <2>2. PICK g : g = PackageNotes(Packages[k])
    OBVIOUS
  <2>3. DOMAIN g = DOMAIN ReasonsOf(Packages[k]) /\ g = [j \in DOMAIN ReasonsOf(Packages[k]) |-> g[j]]
    BY <2>2 DEF PackageNotes
  <2>4. IsList(g)
    BY <2>1, <2>3, MappedIsList
  <2>5. IsList(<<[kind |-> "notes path", path |-> Packages[k].path]>> \o g)
    BY <2>4, OneIsList, ListConcat
  <2> QED BY <2>2, <2>5, EmptyIsList
<1>3. DOMAIN f = DOMAIN Packages /\ (f = [k \in DOMAIN Packages |-> f[k]]) /\ \A k \in DOMAIN Packages : IsList(f[k])
  <2> HIDE DEF Section
  <2> QED BY <1>2
<1>4. Notes = IF FlattenSeq(f) = <<>> THEN <<>> ELSE <<[kind |-> "notes title"]>> \o FlattenSeq(f)
  BY DEF Notes
<1> HIDE DEF f
<1>5. IsList(FlattenSeq(f))
  BY <1>1, <1>3, FlatMapIsList
<1>6. IsList(<<[kind |-> "notes title"]>> \o FlattenSeq(f))
  BY <1>5, OneIsList, ListConcat
<1> QED BY <1>4, <1>6, EmptyIsList

\* Every page has a length, and of a text page the header comes first.
LEMMA PageIsCounted ==
  ASSUME report \in Reports, IsList(rows), how.format \in {"text", "csv", "json", "web"}
  PROVE  /\ PageSize \in Nat /\ Len(TextHeader) \in Nat /\ Len(TextBody) \in Nat
         /\ Packages = <<>> => Len(TextBody) = 0
         /\ how.format = "text" => PageSize = Len(TextHeader) + Len(TextBody)
         /\ how.format # "text" => PageSize # 0 \/ how.format = "web"
<1>1. IsList(TextHeader)
  <2>1. IsList(IF report.module = <<>> THEN <<>> ELSE <<[kind |-> "module"]>>)
    BY OneIsList, EmptyIsList
  <2> QED BY <2>1, OneIsList, ListConcat DEF TextHeader
<1>2. IsList(TextBody)
  <2>1. IsList(TextTable)
    BY OneIsList, ListConcat DEF TextTable
  <2>2. IsList(Legend) /\ IsList(Explanation(how.explain))
    BY OneIsList, EmptyIsList, NotesAreList DEF Legend, Explanation
  <2>3. IsList(TextTail(how.explain))
    BY <2>2, ListConcat DEF TextTail
  <2> QED BY <2>1, <2>3, ListConcat, EmptyIsList DEF TextBody
<1>3. Packages = <<>> => Len(TextBody) = 0
  BY EmptyIsList DEF TextBody
<1>4. /\ Len(TextHeader) \in Nat /\ Len(TextBody) \in Nat /\ Len(CSVRecords) \in Nat
      /\ Len(JSONReport) \in Nat /\ Len(WebPage) \in Nat
  BY <1>1, <1>2, RecordsAreList, WebPageIsList, ListIs
<1> QED BY <1>3, <1>4 DEF PageSize

-----------------------------------------------------------------------------
\* The table while it is built: children are nodes, packages are the report's,
\* and what is left to do is about nodes that are there.
TreeNodes(m) == [name : Names, pkg : 0 .. Len(Packages), children : Seq(1 .. m)]
IsTree == tree \in Seq(TreeNodes(Len(tree))) /\ tree # <<>>
AttachInv ==
  phase = "attach" => todo \in Seq(DOMAIN Packages) /\ at.node \in DOMAIN tree /\ at.depth \in Nat
CompressInv == phase = "compress" => todo \in Seq(DOMAIN tree)
CellsAre(c) == c = <<>> \/ \E stat : c = <<stat>> /\ (stat.count = 0 => stat = NoStat)
IsRow(row) == IsList(row.prefix) /\ row.name \in Names /\ CellsAre(row.cells)
AreRows(s) == IsList(s) /\ \A k \in DOMAIN s : IsRow(s[k])
IsCall(call) == call.node \in DOMAIN tree /\ IsList(call.prefix) /\ AreRows(call.gap)
AreCalls(s) == IsList(s) /\ \A k \in DOMAIN s : IsCall(s[k])
EmitInv == AreRows(rows) /\ AreCalls(pending)
TreeInv == report \in Reports /\ IsTree /\ AttachInv /\ CompressInv /\ EmitInv

\* aggregateTree goes through all that hangs from the root: a node with a summary
\* is under way, with those of its children done that come before the next one,
\* or all of its children have theirs.  A statistic counts something.
Stats  == [sum : Int, count : Nat, minimum : Int, maximum : Int]
Frames == [node : DOMAIN tree, next : Nat \ {0}]
HasSummary(n) == n \in DOMAIN summary
AllDone(n) == \A j \in DOMAIN tree[n].children : HasSummary(tree[n].children[j])
DoneBefore(frame) ==
  /\ HasSummary(frame.node)
  /\ \A j \in DOMAIN tree[frame.node].children :
       j < frame.next => HasSummary(tree[frame.node].children[j])

BeforeInv == phase \in {"attach", "compress"} => summary = <<>> /\ cells = <<>>
StatsInv ==
  /\ cells \in Seq(Stats) /\ \A c \in DOMAIN cells : cells[c].count # 0
  /\ \A n \in DOMAIN summary :
       n \in DOMAIN tree /\ (summary[n].stat = 0 \/ summary[n].stat \in DOMAIN cells)
StackInv ==
  phase = "aggregate" =>
    /\ stack \in Seq(Frames) /\ stack # <<>> /\ stack[Len(stack)].node = Root
    /\ \A k \in DOMAIN stack :
         /\ DoneBefore(stack[k])
         /\ k # 1 => tree[stack[k].node].children[stack[k].next] = stack[k - 1].node
    /\ \A n \in DOMAIN summary : AllDone(n) \/ \E k \in DOMAIN stack : stack[k].node = n
PendingInv ==
  phase = "emit" =>
    /\ \A n \in DOMAIN summary : AllDone(n)
    /\ \A k \in DOMAIN pending : HasSummary(pending[k].node)
TableInv == TreeInv /\ BeforeInv /\ StatsInv /\ StackInv /\ PendingInv

\* The pieces of the page: what the device took, what the buffers hold and what is
\* left to produce are the page, of a text page its header as long as the table
\* is not there; what is lost leaves its trace in the buffer or in the count.
Produced == IF how.format = "text" /\ phase # "done" THEN Len(TextHeader) ELSE PageSize
WriteTypes ==
  /\ how \in Jobs /\ TableInv
  /\ stage \in {"open", "render", "close", "returned"}
  /\ left \in Nat /\ csvHeld \in Nat /\ held \in Nat /\ room \in Nat /\ delivered \in Nat
  /\ rendered \in BOOLEAN /\ broken \in BOOLEAN
  /\ how.sink = "file" => held = 0 /\ ~broken
OpenInv ==
  stage = "open" =>
    /\ sink = "unopened" /\ outcome = "none" /\ ~rendered /\ ~broken /\ phase = "attach"
    /\ delivered = 0 /\ held = 0 /\ csvHeld = 0
RenderInv ==
  stage = "render" =>
    /\ sink = "open" /\ outcome = "none" /\ ~rendered /\ ~broken
    /\ how.format # "csv" => csvHeld = 0
    /\ delivered + held + csvHeld + left = Produced
CloseInv ==
  stage = "close" =>
    /\ sink = "open" /\ outcome = "none"
    /\ rendered => delivered + held = PageSize
    /\ ~rendered => broken \/ delivered + held < PageSize
WriteInv == WriteTypes /\ OpenInv /\ RenderInv /\ CloseInv

LEMMA NodesGrow == ASSUME NEW m \in Nat PROVE TreeNodes(m) \subseteq TreeNodes(m + 1)
<1>1. 1 .. m \subseteq 1 .. (m + 1)
  OBVIOUS
<1>2. Seq(1 .. m) \subseteq Seq(1 .. (m + 1))
  BY <1>1
<1> QED BY <1>2 DEF TreeNodes

LEMMA TreeIs ==
  ASSUME IsTree
  PROVE  /\ Len(tree) \in Nat \ {0} /\ DOMAIN tree = 1 .. Len(tree) /\ Root \in DOMAIN tree
         /\ \A n \in DOMAIN tree :
              /\ tree[n] \in TreeNodes(Len(tree)) /\ IsList(tree[n].children)
              /\ \A k \in DOMAIN tree[n].children : tree[n].children[k] \in DOMAIN tree
<1>1. Len(tree) \in Nat \ {0} /\ DOMAIN tree = 1 .. Len(tree)
  BY DEF IsTree
<1>2. Root \in DOMAIN tree
  BY <1>1 DEF Root
<1>3. ASSUME NEW n \in DOMAIN tree
      PROVE  /\ tree[n] \in TreeNodes(Len(tree)) /\ IsList(tree[n].children)
             /\ \A k \in DOMAIN tree[n].children : tree[n].children[k] \in DOMAIN tree
  <2>1. tree[n] \in TreeNodes(Len(tree))
    BY DEF IsTree
  <2>2. tree[n].children \in Seq(1 .. Len(tree))
    BY <2>1 DEF TreeNodes
  <2>3. PICK s \in Seq(1 .. Len(tree)) : s = tree[n].children
    BY <2>2
  <2>4. IsList(s)
    BY SequenceIsList
  <2>5. \A k \in DOMAIN s : s[k] \in 1 .. Len(tree)
    OBVIOUS
  <2> QED BY <1>1, <2>1, <2>3, <2>4, <2>5
<1> QED BY <1>1, <1>2, <1>3

\* accumulateSelf's statistic is one.
LEMMA AddedIs == ASSUME NEW stat \in Stats, NEW value \in Int PROVE AddStat(stat, value) \in Stats /\ AddStat(stat, value).count # 0
<1>1. CASE stat.count = 0
  <2>1. AddStat(stat, value) = [sum |-> value, count |-> 1, minimum |-> value, maximum |-> value]
    BY <1>1 DEF AddStat
  <2> QED BY <2>1 DEF Stats
<1>2. CASE stat.count # 0
  <2>1. PICK c \in Nat, s \in Int, a \in Int, b \in Int :
          c = stat.count /\ s = stat.sum /\ a = stat.minimum /\ b = stat.maximum
    BY DEF Stats
  <2>2. AddStat(stat, value) = [sum |-> s + value, count |-> c + 1,
                                minimum |-> IF value < a THEN value ELSE a,
                                maximum |-> IF value > b THEN value ELSE b]
    BY <1>2, <2>1 DEF AddStat
  <2>3. s + value \in Int /\ c + 1 \in Nat /\ c + 1 # 0
    OBVIOUS
  <2> QED BY <2>2, <2>3 DEF Stats
<1> QED BY <1>1, <1>2

LEMMA NoStatIs == NoStat \in Stats /\ NoStat.count = 0
  BY DEF NoStat, Stats

\* collectPackageStats goes from type to type.
NextStat(pkg, k, stat) ==
  IF pkg.types[k].applicable THEN AddStat(stat, pkg.types[k].value) ELSE stat
StatRuns(pkg, w, N) ==
  /\ w[0] = NoStat /\ \A k \in 1 .. N : w[k] = NextStat(pkg, k, w[k - 1])
  /\ \A k \in 0 .. N : w[k] \in Stats

LEMMA PackageStatRuns ==
  ASSUME NEW pkg, IsList(pkg.types), \A typ \in Range(pkg.types) : typ.applicable \in BOOLEAN /\ typ.value \in Int
  PROVE  \E w : StatRuns(pkg, w, Len(pkg.types)) /\ PackageStat(pkg) = w[Len(pkg.types)]
<1> DEFINE N == Len(pkg.types)
           Is(f) == f = [k \in 0 .. N |-> IF k = 0 THEN NoStat
                                          ELSE IF pkg.types[k].applicable THEN AddStat(f[k - 1], pkg.types[k].value)
                                          ELSE f[k - 1]]
           Next1(k, v) == NextStat(pkg, k, v)
           step == [p \in (1 .. N) \X Stats |-> Next1(p[1], p[2])]
<1>1. N \in Nat /\ \A k \in 1 .. N : pkg.types[k].applicable \in BOOLEAN /\ pkg.types[k].value \in Int
  BY ListIs DEF Range
<1>2. \A k \in 1 .. N, v \in Stats : Next1(k, v) \in Stats
  <2> HIDE DEF N
  <2> QED BY <1>1, AddedIs DEF NextStat
<1>3. \A k \in 1 .. N, v \in Stats : step[<<k, v>>] = Next1(k, v)
  <2> HIDE DEF Next1
  <2> QED OBVIOUS
<1>4. step \in [(1 .. N) \X Stats -> Stats]
  <2> HIDE DEF N, Next1
  <2> QED BY <1>2
<1> HIDE DEF step, N
<1>5. PICK h : IsHistory(h, N, Stats, NoStat, step)
  BY <1>1, <1>4, NoStatIs, Iteration
<1>6. PICK g : g = [k \in 0 .. N |-> h[k]]
  OBVIOUS
<1>7. Is(g)
  <2>1. h \in [0 .. N -> Stats] /\ h[0] = NoStat /\ \A k \in 1 .. N : h[k] = step[<<k, h[k - 1]>>]
    BY <1>5 DEF IsHistory
  <2>2. ASSUME NEW k \in 0 .. N, k # 0 PROVE g[k] = Next1(k, g[k - 1])
    <3>1. k \in 1 .. N /\ k - 1 \in 0 .. N
      BY <1>1, <2>2
    <3>2. h[k - 1] \in Stats
      BY <2>1, <3>1
    <3>3. h[k] = Next1(k, h[k - 1])
      BY <1>3, <2>1, <3>1, <3>2
    <3> QED BY <1>6, <3>1, <3>3
  <2>3. g[0] = NoStat /\ DOMAIN g = 0 .. N /\ g = [k \in 0 .. N |-> g[k]]
    BY <1>1, <1>6, <2>1
  <2> QED BY <2>2, <2>3 DEF NextStat
<1>8. PICK w : w = CHOOSE f : Is(f)
  OBVIOUS
<1>9. Is(w)
  BY <1>7, <1>8
<1>10. w[0] = NoStat /\ \A k \in 1 .. N : w[k] = Next1(k, w[k - 1])
  BY <1>1, <1>9 DEF NextStat
<1>11. \A k \in 0 .. N : w[k] \in Stats
  <2> DEFINE T == {k \in 0 .. N : w[k] \in Stats}
  <2>1. 0 \in T
    BY <1>1, <1>10, NoStatIs
  <2>2. ASSUME NEW k \in 0 .. N - 1, k \in T PROVE k + 1 \in T
    <3>1. PICK j \in 0 .. N : j = k + 1 /\ j # 0 /\ j - 1 = k /\ j \in 1 .. N
      BY <1>1
    <3>2. w[j] = Next1(j, w[j - 1])
      BY <1>10, <3>1
    <3>3. w[k] \in Stats
      BY <2>2
    <3>4. w[j] \in Stats
      BY <1>2, <3>1, <3>2, <3>3
    <3> QED BY <3>1, <3>4
  <2>3. 0 .. N \subseteq T
    <3> HIDE DEF T
    <3> QED BY <1>1, <2>1, <2>2, UpTo
  <2> QED BY <2>3
<1>12. PackageStat(pkg) = w[N]
  BY <1>8 DEF PackageStat, N
<1>13. StatRuns(pkg, w, N)
  BY <1>10, <1>11 DEF StatRuns
<1> QED BY <1>12, <1>13 DEF N

LEMMA PackageStatIs ==
  ASSUME NEW pkg, IsList(pkg.types), \A typ \in Range(pkg.types) : typ.applicable \in BOOLEAN /\ typ.value \in Int
  PROVE  PackageStat(pkg) \in Stats
<1>1. Len(pkg.types) \in Nat
  BY ListIs
<1>2. PICK w : StatRuns(pkg, w, Len(pkg.types)) /\ PackageStat(pkg) = w[Len(pkg.types)]
  BY PackageStatRuns
<1> QED BY <1>1, <1>2 DEF StatRuns

LEMMA SelfStatIs ==
  ASSUME report \in Reports, IsTree, NEW n \in DOMAIN tree PROVE SelfStat(n) \in Stats
<1>1. tree[n].pkg \in 0 .. Len(Packages)
  BY TreeIs DEF TreeNodes
<1>2. /\ IsList(Packages) /\ \A k \in DOMAIN Packages : IsList(Packages[k].types)
      /\ \A k \in DOMAIN Packages : \A typ \in Range(Packages[k].types) :
           typ.applicable \in BOOLEAN /\ typ.value \in Int
  BY ReportIs
<1>3. DOMAIN Packages = 1 .. Len(Packages) /\ Len(Packages) \in Nat
  BY <1>2, ListIs
<1>4. tree[n].pkg # 0 => tree[n].pkg \in DOMAIN Packages
  BY <1>1, <1>3
<1> QED BY <1>2, <1>4, PackageStatIs, NoStatIs DEF SelfStat

\* mergeOneStat of two that count something.
LEMMA MergedIs ==
  ASSUME NEW a \in Stats, NEW b \in Stats, a.count # 0, b.count # 0
  PROVE  Merged(a, b) \in Stats /\ Merged(a, b).count # 0
<1>1. PICK c \in Nat, s \in Int : c = a.count /\ s = a.sum
  BY DEF Stats
<1>2. PICK d \in Nat, t \in Int : d = b.count /\ t = b.sum
  BY DEF Stats
<1>3. /\ a.minimum \in Int /\ b.minimum \in Int /\ a.maximum \in Int /\ b.maximum \in Int
  BY DEF Stats
<1>4. PICK low \in Int : low = IF b.minimum < a.minimum THEN b.minimum ELSE a.minimum
  BY <1>3
<1>5. PICK high \in Int : high = IF b.maximum > a.maximum THEN b.maximum ELSE a.maximum
  BY <1>3
<1>6. Merged(a, b) = [sum |-> s + t, count |-> c + d, minimum |-> low, maximum |-> high]
  BY <1>1, <1>2, <1>4, <1>5 DEF Merged
<1>7. s + t \in Int /\ c + d \in Nat /\ c + d # 0
  BY <1>1, <1>2
<1> QED BY <1>6, <1>7 DEF Stats

\* nodeTypeCount's types are a package's of the report, or none.
IsType(typ) == typ.name \in DOMAIN Runes /\ typ.applicable \in BOOLEAN /\ typ.value \in Int

LEMMA TypesOfAre ==
  ASSUME report \in Reports, IsTree, NEW n \in DOMAIN tree
  PROVE  IsList(TypesOf(n)) /\ \A typ \in Range(TypesOf(n)) : IsType(typ)
<1>1. tree[n].pkg \in 0 .. Len(Packages)
  BY TreeIs DEF TreeNodes
<1>2. /\ IsList(Packages) /\ \A k \in DOMAIN Packages : IsList(Packages[k].types)
      /\ \A k \in DOMAIN Packages : \A typ \in Range(Packages[k].types) : IsType(typ)
  BY ReportIs DEF IsType
<1>3. DOMAIN Packages = 1 .. Len(Packages) /\ Len(Packages) \in Nat
  BY <1>2, ListIs
<1>4. tree[n].pkg # 0 => tree[n].pkg \in DOMAIN Packages
  BY <1>1, <1>3
<1>5. Range(<<>>) = {}
  BY DEF Range
<1> QED BY <1>2, <1>4, <1>5, EmptyIsList DEF TypesOf

\* nodeTypeAggCells of a node that was visited.
LEMMA NodeCellsAre ==
  ASSUME StatsInv, NEW n, HasSummary(n) PROVE CellsAre(NodeCells(n))
<1>1. summary[n].stat = 0 \/ (summary[n].stat \in DOMAIN cells /\ cells[summary[n].stat].count # 0)
  BY DEF StatsInv, HasSummary
<1>2. PICK stat : stat = IF summary[n].stat = 0 THEN NoStat ELSE cells[summary[n].stat]
  OBVIOUS
<1>3. stat.count = 0 => stat = NoStat
  BY <1>1, <1>2
<1>4. NodeCells(n) = IF summary[n].types = 0 THEN <<>> ELSE <<stat>>
  BY <1>2 DEF NodeCells
<1> QED BY <1>3, <1>4 DEF CellsAre

LEMMA TypeRowsAre ==
  ASSUME report \in Reports, IsTree, NEW n \in DOMAIN tree, NEW prefix, IsList(prefix), NEW total
  PROVE  AreRows(TypeRows(n, prefix, total))
<1>1. PICK f : f = TypeRows(n, prefix, total)
  OBVIOUS
<1>2. DOMAIN f = DOMAIN TypesOf(n) /\ f = [i \in DOMAIN TypesOf(n) |-> f[i]]
  BY <1>1 DEF TypeRows
<1>3. IsList(f)
  BY <1>2, TypesOfAre, MappedIsList
<1>4. ASSUME NEW i \in DOMAIN f PROVE IsRow(f[i])
  <2>1. i \in 1 .. Len(TypesOf(n)) /\ Len(TypesOf(n)) \in Nat
    BY <1>2, TypesOfAre, ListIs
  <2>2. f[i] = TypeRow(n, i - 1, prefix, total)
    BY <1>1, <1>2 DEF TypeRows
  <2>3. i - 1 + 1 = i
    BY <2>1
  <2>4. PICK typ : typ = TypesOf(n)[i]
    OBVIOUS
  <2>5. PICK stat : stat = IF typ.applicable THEN AddStat(NoStat, typ.value) ELSE NoStat
    OBVIOUS
  <2>6. PICK name : name = typ.name
    OBVIOUS
  <2>7. f[i].prefix = prefix /\ f[i].name = <<name>> /\ f[i].cells = <<stat>>
    BY <2>2, <2>3, <2>4, <2>5, <2>6 DEF TypeRow
  <2>8. IsType(typ)
    BY <1>2, <2>4, TypesOfAre DEF Range
  <2>9. <<name>> \in Names
    BY <2>6, <2>8, OneInSeq DEF Names, IsType
  <2>10. stat.count = 0 => stat = NoStat
    BY <2>5, <2>8, AddedIs, NoStatIs DEF IsType
  <2>11. CellsAre(f[i].cells)
    BY <2>7, <2>10 DEF CellsAre
  <2> QED BY <2>7, <2>9, <2>11 DEF IsRow
<1> QED BY <1>1, <1>3, <1>4 DEF AreRows

LEMMA NodeRowIs ==
  ASSUME IsTree, StatsInv, NEW n \in DOMAIN tree, HasSummary(n), NEW prefix, IsList(prefix), NEW connector
  PROVE  AreRows(<<NodeRow(n, prefix, connector)>>)
<1>1. PICK row : row = NodeRow(n, prefix, connector)
  OBVIOUS
<1>2. row.prefix = prefix /\ row.name = tree[n].name /\ row.cells = NodeCells(n)
  BY <1>1 DEF NodeRow
<1>3. IsRow(row)
  BY <1>2, TreeIs, NodeCellsAre DEF IsRow, TreeNodes
<1>4. IsList(<<row>>) /\ DOMAIN <<row>> = {1} /\ <<row>>[1] = row
  BY OneIsList
<1> QED BY <1>1, <1>3, <1>4 DEF AreRows

LEMMA GapIs == ASSUME NEW prefix, IsList(prefix) PROVE AreRows(<<Gap(prefix)>>)
<1>1. PICK row : row = Gap(prefix)
  OBVIOUS
<1>2. row.prefix = prefix /\ row.name = <<>> /\ row.cells = <<>>
  BY <1>1 DEF Gap
<1>3. <<>> \in Names
  BY DEF Names
<1>4. IsRow(row)
  BY <1>2, <1>3 DEF IsRow, CellsAre
<1>5. IsList(<<row>>) /\ DOMAIN <<row>> = {1} /\ <<row>>[1] = row
  BY OneIsList
<1> QED BY <1>1, <1>4, <1>5 DEF AreRows

LEMMA NoRows == AreRows(<<>>) /\ AreCalls(<<>>)
  BY EmptyIsList DEF AreRows, AreCalls

LEMMA RowsConcat ==
  ASSUME NEW s, NEW t, AreRows(s), AreRows(t) PROVE AreRows(s \o t)
<1> DEFINE U == Range(s) \cup Range(t)
<1>1. s \in [1 .. Len(s) -> U] /\ t \in [1 .. Len(t) -> U] /\ Len(s) \in Nat /\ Len(t) \in Nat
  BY ListIs DEF AreRows
<1>2. \A row \in U : IsRow(row)
  BY DEF AreRows, Range
<1> HIDE DEF U
<1>3. s \in Seq(U) /\ t \in Seq(U)
  BY <1>1
<1>4. PICK r \in Seq(U) : r = s \o t
  BY <1>3, ConcatProperties
<1>5. IsList(r)
  BY SequenceIsList
<1>6. \A k \in DOMAIN r : r[k] \in U
  OBVIOUS
<1> QED BY <1>2, <1>4, <1>5, <1>6 DEF AreRows

LEMMA ListAppend == ASSUME NEW s, IsList(s), NEW x PROVE IsList(Append(s, x))
<1> DEFINE U == Range(s) \cup {x}
<1>1. s \in [1 .. Len(s) -> U] /\ Len(s) \in Nat /\ x \in U
  BY ListIs
<1> HIDE DEF U
<1>2. s \in Seq(U)
  BY <1>1
<1>3. Append(s, x) \in Seq(U)
  BY <1>1, <1>2, AppendProperties
<1> QED BY <1>3, SequenceIsList

LEMMA ChildCallsAre ==
  ASSUME report \in Reports, IsTree, NEW n \in DOMAIN tree, NEW prefix, IsList(prefix)
  PROVE  AreCalls(ChildCalls(n, prefix))
<1>1. PICK f : f = ChildCalls(n, prefix)
  OBVIOUS
<1>2. DOMAIN f = DOMAIN tree[n].children /\ f = [i \in DOMAIN tree[n].children |-> f[i]]
  BY <1>1 DEF ChildCalls
<1>3. \A i \in DOMAIN f : f[i].node = tree[n].children[i] /\ f[i].prefix = prefix
  BY <1>1 DEF ChildCalls
<1>4. PICK gap : gap = <<Gap(Append(prefix, "bar"))>>
  OBVIOUS
<1>5. \A i \in DOMAIN f : f[i].gap = <<>> \/ f[i].gap = gap
  BY <1>1, <1>4 DEF ChildCalls
<1>6. IsList(f)
  BY <1>2, TreeIs, MappedIsList
<1>7. AreRows(gap)
  BY <1>4, ListAppend, GapIs
<1>8. \A i \in DOMAIN f : f[i].node \in DOMAIN tree
  BY <1>2, <1>3, TreeIs
<1> QED BY <1>1, <1>3, <1>5, <1>6, <1>7, <1>8, NoRows DEF AreCalls, IsCall

LEMMA TopCallsAre ==
  ASSUME report \in Reports, IsTree PROVE AreCalls(TopCalls)
<1>1. PICK f : f = TopCalls
  OBVIOUS
<1>2. DOMAIN f = DOMAIN tree[Root].children /\ f = [i \in DOMAIN tree[Root].children |-> f[i]]
  BY <1>1 DEF TopCalls
<1>3. \A i \in DOMAIN f : f[i].node = tree[Root].children[i] /\ f[i].prefix = <<>>
  BY <1>1 DEF TopCalls
<1>4. PICK gap : gap = <<Gap(<<>>)>>
  OBVIOUS
<1>5. \A i \in DOMAIN f : f[i].gap = <<>> \/ f[i].gap = gap
  BY <1>1, <1>4 DEF TopCalls
<1>6. IsList(f)
  BY <1>2, TreeIs, MappedIsList
<1>7. AreRows(gap)
  BY <1>4, EmptyIsList, GapIs
<1>8. \A i \in DOMAIN f : f[i].node \in DOMAIN tree
  BY <1>2, <1>3, TreeIs
<1> QED BY <1>1, <1>3, <1>5, <1>6, <1>7, <1>8, EmptyIsList, NoRows DEF AreCalls, IsCall

LEMMA TailIs ==
  ASSUME NEW U, NEW s \in Seq(U), s # <<>>
  PROVE  Head(s) \in U /\ Tail(s) \in Seq(U)
  OBVIOUS

LEMMA CallsConcat ==
  ASSUME NEW s, NEW t, AreCalls(s), AreCalls(t) PROVE AreCalls(s \o t)
<1> DEFINE U == Range(s) \cup Range(t)
<1>1. s \in [1 .. Len(s) -> U] /\ t \in [1 .. Len(t) -> U] /\ Len(s) \in Nat /\ Len(t) \in Nat
  BY ListIs DEF AreCalls
<1>2. \A c \in U : IsCall(c)
  BY DEF AreCalls, Range
<1> HIDE DEF U
<1>3. s \in Seq(U) /\ t \in Seq(U)
  BY <1>1
<1>4. PICK r \in Seq(U) : r = s \o t
  BY <1>3, ConcatProperties
<1>5. IsList(r)
  BY SequenceIsList
<1>6. \A k \in DOMAIN r : r[k] \in U
  OBVIOUS
<1> QED BY <1>2, <1>4, <1>5, <1>6 DEF AreCalls

\* The next call and those after it.
LEMMA CallsTail ==
  ASSUME NEW s, AreCalls(s), s # <<>> PROVE IsCall(Head(s)) /\ AreCalls(Tail(s))
<1>1. s \in Seq(Range(s)) /\ \A c \in Range(s) : IsCall(c)
  BY DEF AreCalls, IsList, Range
<1>2. Head(s) \in Range(s) /\ Tail(s) \in Seq(Range(s))
  BY <1>1, TailIs
<1>3. PICK t \in Seq(Range(s)) : t = Tail(s)
  BY <1>2
<1>4. IsList(t)
  BY SequenceIsList
<1>5. \A k \in DOMAIN t : t[k] \in Range(s)
  OBVIOUS
<1> QED BY <1>1, <1>2, <1>3, <1>4, <1>5 DEF AreCalls

\* relPath is a path.
LEMMA RelIsPath ==
  ASSUME report \in Reports, NEW path \in Names PROVE Rel(path) \in Names
<1>1. CASE report.module # <<>> /\ IsPrefix(report.module, path)
  <2>1. report.module \in Seq(DOMAIN Runes) /\ path \in Seq(DOMAIN Runes)
    BY ReportIs DEF Names
  <2>2. PICK m \in Nat : m = Len(report.module)
    BY <2>1
  <2>3. PICK l \in Nat : l = Len(path)
    BY <2>1
  <2>4. m + 1 \in 1 .. l + 1 \/ l < m
    BY <2>2, <2>3
  <2>5. SubSeq(path, m + 1, l) \in Seq(DOMAIN Runes)
    BY <2>1, <2>2, <2>3
  <2> QED BY <1>1, <2>2, <2>3, <2>5 DEF Rel, Names
<1>2. CASE ~ (report.module # <<>> /\ IsPrefix(report.module, path))
  BY <1>2 DEF Rel
<1> QED BY <1>1, <1>2

LEMMA FirstNamedIs ==
  ASSUME IsTree, NEW n \in DOMAIN tree, NEW segment, Named(n, segment) # {}
  PROVE  FirstNamed(n, segment) \in DOMAIN tree
<1> DEFINE K == Named(n, segment)
<1>1. Len(tree[n].children) \in Nat /\ DOMAIN tree[n].children = 1 .. Len(tree[n].children)
  BY TreeIs, ListIs
<1>2. K \subseteq DOMAIN tree[n].children
  BY DEF Named
<1>3. K \subseteq Nat /\ K # {}
  BY <1>1, <1>2
<1>4. PICK k \in K : \A l \in K : k <= l
  <2> HIDE DEF K
  <2> QED BY <1>3, LeastElement
<1>5. PICK first : first = CHOOSE x \in K : \A l \in K : x <= l
  OBVIOUS
<1>6. first \in K
  <2> HIDE DEF K
  <2> QED BY <1>4, <1>5
<1>7. FirstNamed(n, segment) = tree[n].children[first]
  BY <1>5 DEF FirstNamed
<1> HIDE DEF K
<1> QED BY <1>2, <1>6, <1>7, TreeIs

\* child adds a node at the end and hangs it from its parent.
LEMMA WithChildIsTree ==
  ASSUME report \in Reports, IsTree, NEW n \in DOMAIN tree, NEW segment \in DOMAIN Runes
  PROVE  /\ WithChild(n, segment) \in Seq(TreeNodes(Len(tree) + 1))
         /\ Len(WithChild(n, segment)) = Len(tree) + 1
<1> DEFINE new == NewNode(<<segment>>)
<1>1. PICK m \in Nat \ {0} : m = Len(tree)
  BY TreeIs
<1>2. tree \in Seq(TreeNodes(m + 1)) /\ n \in 1 .. m
  <2>1. tree \in Seq(TreeNodes(m)) /\ TreeNodes(m) \subseteq TreeNodes(m + 1)
    BY <1>1, NodesGrow DEF IsTree
  <2>2. n \in 1 .. m
    BY <1>1, TreeIs
  <2> QED BY <2>1, <2>2
<1>3. new \in TreeNodes(m + 1)
  <2>1. <<segment>> \in Names
    BY OneInSeq DEF Names
  <2>2. 0 \in 0 .. Len(Packages)
    BY ReportIs, ListIs
  <2>3. <<>> \in Seq(1 .. m + 1)
    OBVIOUS
  <2> QED BY <2>1, <2>2, <2>3 DEF NewNode, TreeNodes
<1>4. PICK grown \in Seq(TreeNodes(m + 1)) : grown = Append(tree, new) /\ Len(grown) = m + 1
  <2> HIDE DEF new
  <2> QED BY <1>1, <1>2, <1>3, AppendProperties
<1>5. n \in DOMAIN grown
  BY <1>2, <1>4
<1>6. PICK old \in TreeNodes(m + 1) : old = grown[n]
  BY <1>5
<1>7. Append(old.children, m + 1) \in Seq(1 .. m + 1)
  <2>1. old.children \in Seq(1 .. m + 1) /\ m + 1 \in 1 .. m + 1
    BY <1>6 DEF TreeNodes
  <2> QED BY <2>1, AppendProperties
<1>8. PICK node : node = [old EXCEPT !.children = Append(@, m + 1)]
  OBVIOUS
<1>9. node \in TreeNodes(m + 1)
  BY <1>6, <1>7, <1>8 DEF TreeNodes
<1>10. WithChild(n, segment) = [grown EXCEPT ![n] = node]
  BY <1>1, <1>4, <1>6, <1>8 DEF WithChild
<1> HIDE DEF new
<1>11. [grown EXCEPT ![n] = node] \in Seq(TreeNodes(m + 1)) /\ Len([grown EXCEPT ![n] = node]) = m + 1
  BY <1>4, <1>5, <1>9, ExceptSeq
<1> QED BY <1>1, <1>10, <1>11

LEMMA DownKeepsTree == ASSUME TreeInv, Down PROVE TreeInv'
<1> DEFINE segment == AttachPath[at.depth + 1]
           found == Named(at.node, segment) # {}
<1>1. /\ report \in Reports /\ IsTree /\ EmitInv /\ phase = "attach" /\ todo # <<>> /\ at.depth < Len(AttachPath)
      /\ todo \in Seq(DOMAIN Packages) /\ at.node \in DOMAIN tree /\ at.depth \in Nat
      /\ UNCHANGED <<report, phase, todo, stack, summary, cells, pending, rows>>
  BY DEF TreeInv, Down, AttachInv
<1>2. segment \in DOMAIN Runes
  <2>1. Head(todo) \in DOMAIN Packages
    BY <1>1, TailIs
  <2>2. AttachPath \in Seq(DOMAIN Runes)
    BY <1>1, <2>1, ReportIs, RelIsPath DEF AttachPath, Names
  <2>3. PICK p \in Seq(DOMAIN Runes) : p = AttachPath
    BY <2>2
  <2>4. PICK d \in Nat : d = at.depth
    BY <1>1
  <2>5. d + 1 \in 1 .. Len(p)
    BY <1>1, <2>3, <2>4
  <2> QED BY <2>3, <2>4, <2>5
<1>3. /\ tree' = IF found THEN tree ELSE WithChild(at.node, segment)
      /\ at' = [node  |-> IF found THEN FirstNamed(at.node, segment) ELSE Len(tree) + 1, depth |-> at.depth + 1]
  BY SMTT(30) DEF Down
<1> HIDE DEF segment
<1>4. PICK m \in Nat \ {0} : m = Len(tree) /\ DOMAIN tree = 1 .. m
  BY <1>1, TreeIs
<1>5. tree' \in Seq(TreeNodes(Len(tree'))) /\ Len(tree') \in Nat /\ Len(tree') >= m /\ at'.node \in 1 .. Len(tree')
  <2>1. CASE found
    <3>1. FirstNamed(at.node, segment) \in 1 .. m
      BY <1>1, <1>4, <2>1, FirstNamedIs
    <3> QED BY <1>1, <1>3, <1>4, <2>1, <3>1 DEF IsTree
  <2>2. CASE ~ found
    <3>1. WithChild(at.node, segment) \in Seq(TreeNodes(m + 1)) /\ Len(WithChild(at.node, segment)) = m + 1
      BY <1>1, <1>2, <1>4, WithChildIsTree
    <3>2. tree' = WithChild(at.node, segment) /\ at'.node = m + 1
      BY <1>3, <1>4, <2>2
    <3>3. m + 1 \in Nat /\ m + 1 >= m /\ m + 1 \in 1 .. m + 1
      OBVIOUS
    <3> QED BY <3>1, <3>2, <3>3
  <2> QED BY <2>1, <2>2
<1>6. IsTree'
  <2>1. \A k : TreeNodes(k)' = TreeNodes(k)
    BY <1>1 DEF TreeNodes, Packages
  <2>2. tree' # <<>>
    BY <1>4, <1>5, EmptySeq
  <2> QED BY <1>5, <2>1, <2>2 DEF IsTree
<1>7. DOMAIN tree' = 1 .. Len(tree') /\ DOMAIN tree \subseteq DOMAIN tree'
  BY <1>4, <1>5
<1>8. AttachInv'
  <2>1. at'.depth \in Nat
    BY <1>1, <1>3
  <2> QED BY <1>1, <1>5, <1>7, <2>1 DEF AttachInv, Packages
<1>9. EmitInv'
  BY <1>1, <1>7 DEF EmitInv, AreCalls, IsCall
<1> QED BY <1>1, <1>6, <1>8, <1>9 DEF TreeInv, CompressInv

\* The other steps change one node of the tree at most.
LEMMA NodeChanges ==
  ASSUME report \in Reports, IsTree, NEW n \in DOMAIN tree, NEW node \in TreeNodes(Len(tree)),
         tree' = [tree EXCEPT ![n] = node], report' = report
  PROVE  IsTree' /\ DOMAIN tree' = DOMAIN tree
<1>1. tree \in Seq(TreeNodes(Len(tree))) /\ n \in 1 .. Len(tree)
  BY TreeIs DEF IsTree
<1>2. PICK m \in Nat \ {0} : m = Len(tree) /\ DOMAIN tree = 1 .. m
  BY TreeIs
<1>3. tree' \in Seq(TreeNodes(m)) /\ Len(tree') = m
  BY <1>1, <1>2, ExceptSeq
<1>4. \A k : TreeNodes(k)' = TreeNodes(k)
  BY DEF TreeNodes, Packages
<1>5. tree' # <<>>
  BY <1>2, <1>3, EmptySeq
<1> QED BY <1>2, <1>3, <1>4, <1>5 DEF IsTree

LEMMA AttachKeepsTree == ASSUME TreeInv, Attach PROVE TreeInv'
<1>1. /\ report \in Reports /\ IsTree /\ EmitInv /\ phase = "attach" /\ todo # <<>>
      /\ todo \in Seq(DOMAIN Packages) /\ at.node \in DOMAIN tree
      /\ UNCHANGED <<report, phase, stack, summary, cells, pending, rows>>
      /\ todo' = Tail(todo) /\ at' = [node |-> Root, depth |-> 0]
      /\ tree' = [tree EXCEPT ![at.node].pkg = Head(todo)]
  BY DEF TreeInv, Attach, AttachInv
<1>2. PICK old \in TreeNodes(Len(tree)) : old = tree[at.node]
  BY <1>1, TreeIs
<1>3. Head(todo) \in 0 .. Len(Packages) /\ Tail(todo) \in Seq(DOMAIN Packages)
  <2>1. Head(todo) \in DOMAIN Packages /\ Tail(todo) \in Seq(DOMAIN Packages)
    BY <1>1, TailIs
  <2>2. DOMAIN Packages = 1 .. Len(Packages) /\ Len(Packages) \in Nat
    BY <1>1, ReportIs, ListIs
  <2> QED BY <2>1, <2>2
<1>4. PICK node : node = [old EXCEPT !.pkg = Head(todo)]
  OBVIOUS
<1>5. node \in TreeNodes(Len(tree))
  BY <1>2, <1>3, <1>4 DEF TreeNodes
<1>6. tree' = [tree EXCEPT ![at.node] = node]
  BY <1>1, <1>2, <1>4
<1>7. IsTree' /\ DOMAIN tree' = DOMAIN tree
  BY <1>1, <1>5, <1>6, NodeChanges
<1>8. AttachInv'
  <2>1. Root \in DOMAIN tree'
    BY <1>1, <1>7, TreeIs
  <2> QED BY <1>1, <1>3, <2>1 DEF AttachInv, Packages
<1>9. EmitInv'
  BY <1>1, <1>7 DEF EmitInv, AreCalls, IsCall
<1> QED BY <1>1, <1>7, <1>8, <1>9 DEF TreeInv, CompressInv

LEMMA AbsorbKeepsTree == ASSUME TreeInv, Absorb PROVE TreeInv'
<1> DEFINE n == Head(todo)
           c == tree[n].children[1]
<1>1. /\ report \in Reports /\ IsTree /\ EmitInv /\ phase = "compress" /\ todo # <<>>
      /\ todo \in Seq(DOMAIN tree) /\ Absorbs(n)
      /\ UNCHANGED <<report, phase, todo, at, stack, summary, cells, pending, rows>>
      /\ tree' = [tree EXCEPT ![n] = [tree[c] EXCEPT !.name = AbsorbedName(n, c)]]
  BY DEF TreeInv, Absorb, CompressInv
<1>2. n \in DOMAIN tree
  BY <1>1, TailIs
<1>3. c \in DOMAIN tree
  <2>1. DOMAIN tree[n].children = 1 .. Len(tree[n].children) /\ Len(tree[n].children) = 1
    BY <1>1, <1>2, TreeIs, ListIs DEF Absorbs
  <2>2. 1 \in DOMAIN tree[n].children
    BY <2>1
  <2> HIDE DEF n
  <2> QED BY <1>1, <1>2, <2>2, TreeIs
<1> HIDE DEF n, c
<1>4. PICK old \in TreeNodes(Len(tree)) : old = tree[c]
  BY <1>1, <1>3, TreeIs
<1>5. AbsorbedName(n, c) \in Names
  <2>1. PICK a \in TreeNodes(Len(tree)) : a = tree[n]
    BY <1>1, <1>2, TreeIs
  <2>2. a.name \in Names /\ old.name \in Names
    BY <1>4, <2>1 DEF TreeNodes
  <2>3. a.name \o old.name \in Names
    BY <2>2, ConcatProperties DEF Names
  <2> QED BY <1>4, <2>1, <2>3 DEF AbsorbedName
<1>6. PICK node : node = [old EXCEPT !.name = AbsorbedName(n, c)]
  OBVIOUS
<1>7. node \in TreeNodes(Len(tree))
  BY <1>4, <1>5, <1>6 DEF TreeNodes
<1>8. tree' = [tree EXCEPT ![n] = node]
  BY <1>1, <1>4, <1>6
<1>9. IsTree' /\ DOMAIN tree' = DOMAIN tree
  BY <1>1, <1>2, <1>7, <1>8, NodeChanges
<1>10. EmitInv' /\ CompressInv' /\ AttachInv'
  BY <1>1, <1>9 DEF EmitInv, AreCalls, IsCall, CompressInv, AttachInv
<1> QED BY <1>1, <1>9, <1>10 DEF TreeInv

LEMMA TreeStays ==
  ASSUME IsTree, UNCHANGED <<report, tree>> PROVE IsTree' /\ DOMAIN tree' = DOMAIN tree
<1>1. \A k : TreeNodes(k)' = TreeNodes(k)
  BY DEF TreeNodes, Packages
<1> QED BY <1>1 DEF IsTree

LEMMA DescendKeepsTree == ASSUME TreeInv, Descend PROVE TreeInv'
<1>1. /\ report \in Reports /\ IsTree /\ EmitInv /\ phase = "compress" /\ todo # <<>>
      /\ todo \in Seq(DOMAIN tree)
      /\ UNCHANGED <<report, phase, tree, at, stack, summary, cells, pending, rows>>
      /\ todo' = tree[Head(todo)].children \o Tail(todo)
  BY DEF TreeInv, Descend, CompressInv
<1>2. Head(todo) \in DOMAIN tree /\ Tail(todo) \in Seq(DOMAIN tree)
  BY <1>1, TailIs
<1>3. tree[Head(todo)].children \in Seq(DOMAIN tree)
  BY <1>1, <1>2, TreeIs DEF TreeNodes
<1>4. todo' \in Seq(DOMAIN tree)
  BY <1>1, <1>2, <1>3, ConcatProperties
<1>5. IsTree' /\ DOMAIN tree' = DOMAIN tree
  BY <1>1, TreeStays
<1> QED BY <1>1, <1>4, <1>5 DEF TreeInv, EmitInv, AreCalls, IsCall, CompressInv, AttachInv

LEMMA StartCompressKeepsTree == ASSUME TreeInv, StartCompress PROVE TreeInv'
<1>1. /\ report \in Reports /\ IsTree /\ EmitInv /\ todo' = tree[Root].children /\ phase' = "compress"
      /\ UNCHANGED <<report, tree, at, stack, summary, cells, pending, rows>>
  BY DEF TreeInv, StartCompress
<1>2. tree[Root].children \in Seq(DOMAIN tree)
  BY <1>1, TreeIs DEF TreeNodes
<1>3. IsTree' /\ DOMAIN tree' = DOMAIN tree
  BY <1>1, TreeStays
<1> QED BY <1>1, <1>2, <1>3 DEF TreeInv, EmitInv, AreCalls, IsCall, CompressInv, AttachInv

LEMMA AggregateKeepsTree ==
  ASSUME TreeInv, StartAggregate \/ Visit \/ Return \/ EndEmit \/ UNCHANGED tablevars PROVE TreeInv'
<1>1. /\ report \in Reports /\ IsTree /\ EmitInv
      /\ UNCHANGED <<report, tree, todo, at, pending, rows>>
      /\ phase' = phase \/ phase' \in {"aggregate", "done"}
  BY DEF TreeInv, StartAggregate, Visit, Return, EndEmit, tablevars
<1>2. IsTree' /\ DOMAIN tree' = DOMAIN tree
  BY <1>1, TreeStays
<1> QED BY <1>1, <1>2 DEF TreeInv, EmitInv, AreCalls, IsCall, CompressInv, AttachInv, Packages

LEMMA StartEmitKeepsTree == ASSUME TreeInv, StatsInv, HasSummary(Root), StartEmit PROVE TreeInv'
<1>1. /\ report \in Reports /\ IsTree /\ phase' = "emit" /\ rows' = ModuleRows /\ pending' = TopCalls
      /\ UNCHANGED <<report, tree, todo, at, stack, summary, cells>>
  BY DEF TreeInv, StartEmit
<1>2. Root \in DOMAIN tree
  BY <1>1, TreeIs
<1>3. AreRows(ModuleRows)
  <2>1. AreRows(TypeRows(Root, <<>>, Len(TypesOf(Root))))
    BY <1>1, <1>2, EmptyIsList, TypeRowsAre
  <2>2. AreRows(<<NodeRow(Root, <<>>, "")>>)
    BY <1>1, <1>2, EmptyIsList, NodeRowIs
  <2> QED BY <2>1, <2>2, RowsConcat, NoRows DEF ModuleRows
<1>4. AreCalls(TopCalls)
  BY <1>1, TopCallsAre
<1>5. IsTree' /\ DOMAIN tree' = DOMAIN tree
  BY <1>1, TreeStays
<1>6. EmitInv'
  BY <1>1, <1>3, <1>4, <1>5 DEF EmitInv, AreCalls, IsCall
<1> QED BY <1>1, <1>5, <1>6 DEF TreeInv, CompressInv, AttachInv

LEMMA EmitNodeKeepsTree ==
  ASSUME TreeInv, StatsInv, HasSummary(Head(pending).node), EmitNode PROVE TreeInv'
<1> DEFINE call == Head(pending)
           below == ChildIndent(call.prefix, call.connector)
           total == Len(TypesOf(call.node)) + Len(tree[call.node].children)
<1>1. /\ report \in Reports /\ IsTree /\ EmitInv /\ phase = "emit" /\ pending # <<>>
      /\ UNCHANGED <<report, phase, tree, todo, at, stack, summary, cells>>
      /\ rows' = rows \o call.gap \o <<NodeRow(call.node, call.prefix, call.connector)>>
                   \o TypeRows(call.node, below, total)
      /\ pending' = ChildCalls(call.node, below) \o Tail(pending)
  BY DEF TreeInv, EmitNode
<1>2. call.node \in DOMAIN tree /\ IsList(call.prefix) /\ AreRows(call.gap) /\ AreCalls(Tail(pending))
  <2>1. AreCalls(pending)
    BY <1>1 DEF EmitInv
  <2>2. IsCall(Head(pending)) /\ AreCalls(Tail(pending))
    BY <1>1, <2>1, CallsTail
  <2> QED BY <2>2 DEF IsCall
<1>3. IsList(below) /\ HasSummary(call.node)
  BY <1>2, ListAppend DEF ChildIndent
<1> HIDE DEF call, below, total
<1>4. AreCalls(ChildCalls(call.node, below) \o Tail(pending))
  BY <1>1, <1>2, <1>3, ChildCallsAre, CallsConcat
<1>5. AreRows(rows')
  <2>1. AreRows(TypeRows(call.node, below, total))
    BY <1>1, <1>2, <1>3, TypeRowsAre
  <2>2. AreRows(<<NodeRow(call.node, call.prefix, call.connector)>>)
    BY <1>1, <1>2, <1>3, NodeRowIs
  <2>3. AreRows(rows \o call.gap)
    BY <1>1, <1>2, RowsConcat DEF EmitInv
  <2>4. AreRows((rows \o call.gap) \o <<NodeRow(call.node, call.prefix, call.connector)>>)
    BY <2>2, <2>3, RowsConcat
  <2> QED BY <1>1, <2>1, <2>4, RowsConcat
<1>6. IsTree' /\ DOMAIN tree' = DOMAIN tree
  BY <1>1, TreeStays
<1>7. EmitInv'
  <2>1. PICK calls1 : calls1 = pending'
    OBVIOUS
  <2>2. AreCalls(calls1)
    BY <1>1, <1>4, <2>1
  <2> QED BY <1>5, <1>6, <2>1, <2>2 DEF EmitInv, AreCalls, IsCall
<1> QED BY <1>1, <1>6, <1>7 DEF TreeInv, CompressInv, AttachInv

\* Up to the summaries.
LEMMA BeforeSums ==
  ASSUME TableInv, Down \/ Attach \/ StartCompress \/ Absorb \/ Descend PROVE TableInv'
<1>1. TreeInv'
  BY DownKeepsTree, AttachKeepsTree, StartCompressKeepsTree, AbsorbKeepsTree, DescendKeepsTree DEF TableInv
<1>2. /\ phase \in {"attach", "compress"} /\ phase' \in {"attach", "compress"}
      /\ summary' = summary /\ cells' = cells
  BY DEF Down, Attach, StartCompress, Absorb, Descend
<1>3. summary' = <<>> /\ cells' = <<>>
  BY <1>2 DEF TableInv, BeforeInv
<1>4. DOMAIN <<>> = {} /\ <<>> \in Seq(Stats)
  OBVIOUS
<1>5. Stats' = Stats
  BY DEF Stats
<1>6. StatsInv'
  BY <1>3, <1>4, <1>5 DEF StatsInv
<1>7. BeforeInv' /\ StackInv' /\ PendingInv'
  BY <1>2, <1>3 DEF BeforeInv, StackInv, PendingInv
<1> QED BY <1>1, <1>6, <1>7 DEF TableInv

\* aggregateTree is entered for a node.
LEMMA EnterIs ==
  ASSUME report \in Reports, IsTree, StatsInv, NEW n \in DOMAIN tree, Enter(n), UNCHANGED tree
  PROVE  StatsInv' /\ DOMAIN summary' = DOMAIN summary \cup {n}
<1>1. cells' = CellsAfterEntering(n)
  BY DEF Enter
<1>2. summary' = [m \in DOMAIN summary \cup {n} |-> IF m = n THEN Entered(n) ELSE summary[m]]
  BY DEF Enter
<1>3. PICK self \in Stats : self = SelfStat(n)
  BY SelfStatIs
<1>4. cells \in Seq(Stats) /\ \A c \in DOMAIN cells : cells[c].count # 0
  BY DEF StatsInv
<1>5. PICK N \in Nat : N = Len(cells) /\ DOMAIN cells = 1 .. N
  BY <1>4
<1>6. cells' = IF self.count = 0 THEN cells ELSE Append(cells, self)
  BY <1>1, <1>3 DEF CellsAfterEntering
<1>7. Entered(n).stat = IF self.count = 0 THEN 0 ELSE N + 1
  BY <1>3, <1>5 DEF Entered
<1>8. /\ cells' \in Seq(Stats) /\ DOMAIN cells \subseteq DOMAIN cells'
      /\ \A c \in DOMAIN cells' : cells'[c].count # 0
      /\ Entered(n).stat = 0 \/ Entered(n).stat \in DOMAIN cells'
  <2>1. CASE self.count = 0
    BY <1>4, <1>6, <1>7, <2>1
  <2>2. CASE self.count # 0
    <3>1. PICK s \in Seq(Stats) : s = Append(cells, self) /\ Len(s) = N + 1
      BY <1>4, <1>5, AppendProperties
    <3>2. \A c \in 1 .. N : s[c] = cells[c]
      BY <1>4, <1>5, <3>1, AppendProperties
    <3>3. s[N + 1] = self
      BY <1>4, <1>5, <3>1, AppendProperties
    <3>4. DOMAIN s = 1 .. N + 1
      BY <3>1
    <3>5. \A c \in 1 .. N + 1 : c \in 1 .. N \/ c = N + 1
      OBVIOUS
    <3>6. N + 1 \in 1 .. N + 1 /\ 1 .. N \subseteq 1 .. N + 1
      OBVIOUS
    <3> QED BY <1>4, <1>5, <1>6, <1>7, <2>2, <3>1, <3>2, <3>3, <3>4, <3>5, <3>6
  <2> QED BY <2>1, <2>2
<1>9. Stats' = Stats
  BY DEF Stats
<1>10. \A m \in DOMAIN summary' : m \in DOMAIN tree /\ (summary'[m].stat = 0 \/ summary'[m].stat \in DOMAIN cells')
  BY <1>2, <1>8 DEF StatsInv
<1>11. StatsInv'
  BY <1>8, <1>9, <1>10 DEF StatsInv
<1>12. DOMAIN summary' = DOMAIN summary \cup {n}
  BY <1>2
<1> QED BY <1>11, <1>12

LEMMA StartAggregateSums == ASSUME TableInv, StartAggregate PROVE TableInv'
<1>1. /\ report \in Reports /\ IsTree /\ StatsInv /\ TreeInv'
  BY AggregateKeepsTree DEF TableInv, TreeInv
<1>2. /\ phase = "compress" /\ phase' = "aggregate" /\ stack' = <<[node |-> Root, next |-> 1]>>
      /\ Enter(Root) /\ UNCHANGED <<report, tree>>
  BY DEF StartAggregate
<1>3. Root \in DOMAIN tree
  BY <1>1, TreeIs
<1>4. StatsInv' /\ DOMAIN summary' = DOMAIN summary \cup {Root}
  BY <1>1, <1>2, <1>3, EnterIs
<1>5. DOMAIN summary' = {Root}
  <2>1. summary = <<>> /\ DOMAIN <<>> = {}
    BY <1>2 DEF TableInv, BeforeInv
  <2> QED BY <1>4, <2>1
<1>6. PICK f : f = [node |-> Root, next |-> 1]
  OBVIOUS
<1>7. f \in Frames' /\ f.node = Root /\ f.next = 1
  BY <1>2, <1>3, <1>6 DEF Frames
<1>8. <<f>> \in Seq(Frames') /\ <<f>> # <<>> /\ Len(<<f>>) = 1 /\ DOMAIN <<f>> = {1} /\ <<f>>[1] = f
  <2>1. <<f>> \in Seq(Frames')
    BY <1>7, OneInSeq
  <2> QED BY <2>1
<1>9. \A j \in DOMAIN tree[Root].children : ~ (j < 1)
  <2>1. PICK N \in Nat : DOMAIN tree[Root].children = 1 .. N
    BY <1>1, <1>3, TreeIs, ListIs
  <2> QED BY <2>1
<1>10. DoneBefore(f)'
  BY <1>2, <1>5, <1>6, <1>7, <1>9 DEF DoneBefore, HasSummary
<1>11. StackInv'
  BY <1>2, <1>5, <1>6, <1>7, <1>8, <1>10 DEF StackInv
<1>12. BeforeInv' /\ PendingInv'
  BY <1>2 DEF BeforeInv, PendingInv
<1> QED BY <1>1, <1>4, <1>11, <1>12 DEF TableInv

\* A call on top of the others, and the one on top returning to the next, which
\* goes on.
Pushed(t, f, s, L) == t = <<f>> \o s /\ Len(t) = L + 1 /\ t[1] = f /\ \A k \in 1 .. L : t[k + 1] = s[k]

LEMMA PushIs ==
  ASSUME NEW s, NEW L \in Nat \ {0}, Len(s) = L, s \in Seq(Frames), NEW f \in Frames
  PROVE  \E t \in Seq(Frames) : Pushed(t, f, s, L)
<1>1. <<f>> \in Seq(Frames) /\ Len(<<f>>) = 1 /\ <<f>>[1] = f
  BY OneInSeq
<1>2. PICK t \in Seq(Frames) : t = <<f>> \o s
  BY <1>1, ConcatProperties
<1>3. Len(t) = 1 + L
  BY <1>1, <1>2, ConcatProperties
<1>4. t[1] = f
  BY <1>1, <1>2
<1>5. \A k \in 1 .. L : t[k + 1] = s[k]
  BY <1>1, <1>2
<1>6. Len(t) = L + 1
  <2>1. 1 + L = L + 1
    OBVIOUS
  <2> QED BY <1>3, <2>1
<1>7. Pushed(t, f, s, L)
  BY <1>2, <1>4, <1>5, <1>6 DEF Pushed
<1> QED BY <1>7

LEMMA PopIs ==
  ASSUME NEW s, NEW L \in Nat, L > 1, Len(s) = L, s \in Seq(Frames)
  PROVE  \E t \in Seq(Frames) :
           /\ t = [Tail(s) EXCEPT ![1].next = @ + 1] /\ Len(t) = L - 1
           /\ t[1].next = s[2].next + 1
           /\ \A k \in 1 .. L - 1 : t[k].node = s[k + 1].node /\ (k # 1 => t[k] = s[k + 1])
<1>1. PICK r \in Seq(Frames) : r = Tail(s) /\ Len(r) = L - 1 /\ \A k \in 1 .. L - 1 : r[k] = s[k + 1]
  <2>1. s # <<>>
    OBVIOUS
  <2>2. PICK r \in Seq(Frames) : r = Tail(s) /\ Len(r) = Len(s) - 1
    BY <2>1, HeadTailProperties
  <2>3. \A k \in 1 .. Len(r) : r[k] = s[k + 1]
    BY <2>1, <2>2, HeadTailProperties
  <2> QED BY <2>2, <2>3
<1>2. 1 \in DOMAIN r /\ DOMAIN r = 1 .. L - 1 /\ r[1] = s[2] /\ r[1] \in Frames
  <2>1. DOMAIN r = 1 .. L - 1 /\ 1 \in 1 .. L - 1 /\ 1 + 1 = 2
    BY <1>1
  <2> QED BY <1>1, <2>1
<1>3. PICK g : g = [r[1] EXCEPT !.next = @ + 1]
  OBVIOUS
<1>4. g \in Frames /\ g.node = s[2].node /\ g.next = s[2].next + 1
  <2>1. PICK v \in Nat \ {0} : v = r[1].next
    BY <1>2 DEF Frames
  <2>2. v + 1 \in Nat \ {0}
    OBVIOUS
  <2> QED BY <1>2, <1>3, <2>1, <2>2 DEF Frames
<1>5. PICK t : t = [r EXCEPT ![1] = g]
  OBVIOUS
<1>6. t \in Seq(Frames) /\ Len(t) = L - 1
  BY <1>1, <1>2, <1>4, <1>5
<1>7. t[1] = g /\ \A k \in 1 .. L - 1 : k # 1 => t[k] = r[k]
  BY <1>2, <1>5
<1>8. t = [Tail(s) EXCEPT ![1].next = @ + 1]
  BY <1>1, <1>3, <1>5
<1>9. \A k \in 1 .. L - 1 : t[k].node = s[k + 1].node /\ (k # 1 => t[k] = s[k + 1])
  BY <1>1, <1>2, <1>4, <1>7
<1> QED BY <1>4, <1>6, <1>7, <1>8, <1>9

LEMMA VisitSums == ASSUME TableInv, Visit PROVE TableInv'
<1>1. report \in Reports /\ IsTree /\ StatsInv /\ TreeInv'
  BY AggregateKeepsTree DEF TableInv, TreeInv
<1>2. PICK top : top = Head(stack)
  OBVIOUS
<1>3. PICK c : c = tree[top.node].children[top.next]
  OBVIOUS
<1>4. /\ phase = "aggregate" /\ phase' = "aggregate" /\ stack # <<>> /\ UNCHANGED tree
      /\ top.next <= Len(tree[top.node].children)
      /\ Enter(c) /\ stack' = <<[node |-> c, next |-> 1]>> \o stack
  BY <1>2, <1>3 DEF Visit
<1>5. /\ stack \in Seq(Frames) /\ stack[Len(stack)].node = Root
      /\ \A k \in DOMAIN stack :
           /\ DoneBefore(stack[k])
           /\ k # 1 => tree[stack[k].node].children[stack[k].next] = stack[k - 1].node
      /\ \A n \in DOMAIN summary : AllDone(n) \/ \E k \in DOMAIN stack : stack[k].node = n
  BY <1>4 DEF TableInv, StackInv
<1>6. PICK L \in Nat \ {0} : L = Len(stack) /\ DOMAIN stack = 1 .. L
  BY <1>4, <1>5
<1>7. top \in Frames /\ top = stack[1]
  BY <1>2, <1>4, <1>5
<1>8. c \in DOMAIN tree
  <2>1. top.node \in DOMAIN tree
    BY <1>7 DEF Frames
  <2>2. PICK n \in Nat : n = Len(tree[top.node].children) /\ DOMAIN tree[top.node].children = 1 .. n
    BY <1>1, <2>1, TreeIs, ListIs
  <2>3. PICK i \in Nat \ {0} : i = top.next
    BY <1>7 DEF Frames
  <2>4. i \in 1 .. n
    BY <1>4, <2>2, <2>3
  <2> QED BY <1>1, <1>3, <2>1, <2>2, <2>3, <2>4, TreeIs
<1>9. StatsInv' /\ DOMAIN summary' = DOMAIN summary \cup {c}
  BY <1>1, <1>4, <1>8, EnterIs
<1>10. PICK f : f = [node |-> c, next |-> 1]
  OBVIOUS
<1>11. f \in Frames /\ f.node = c /\ f.next = 1
  BY <1>8, <1>10 DEF Frames
<1>12. PICK t \in Seq(Frames) : /\ t = <<f>> \o stack /\ Len(t) = L + 1 /\ t[1] = f
                                /\ \A k \in 1 .. L : t[k + 1] = stack[k]
  <2>1. stack \in Seq(Frames) /\ Len(stack) = L /\ f \in Frames
    BY <1>5, <1>6, <1>11
  <2>2. \E t \in Seq(Frames) : Pushed(t, f, stack, L)
    BY <2>1, L \in Nat \ {0}, PushIs, Zenon
  <2> QED BY <2>2, Zenon DEF Pushed
<1>13. stack' = t /\ DOMAIN t = 1 .. L + 1 /\ Frames' = Frames
  BY <1>4, <1>10, <1>12 DEF Frames
<1>14. \A k \in 1 .. L + 1 : k = 1 \/ (k - 1 \in 1 .. L /\ t[k] = stack[k - 1])
  <2>1. ASSUME NEW k \in 1 .. L + 1, k # 1 PROVE k - 1 \in 1 .. L /\ k - 1 + 1 = k
    BY <2>1
  <2> QED BY <1>12, <2>1
<1>15. \A n : HasSummary(n) => HasSummary(n)'
  BY <1>9 DEF HasSummary
<1>16. \A n : AllDone(n) => AllDone(n)'
  BY <1>4, <1>15 DEF AllDone
<1>17. \A g : DoneBefore(g) => DoneBefore(g)'
  BY <1>4, <1>15 DEF DoneBefore
<1>18. DoneBefore(f)'
  <2>1. PICK N \in Nat : DOMAIN tree[c].children = 1 .. N
    BY <1>1, <1>8, TreeIs, ListIs
  <2>2. \A j \in 1 .. N : ~ (j < 1)
    OBVIOUS
  <2>3. HasSummary(c)'
    BY <1>9 DEF HasSummary
  <2> QED BY <1>4, <1>11, <2>1, <2>2, <2>3 DEF DoneBefore
<1>19. \A k \in DOMAIN t : DoneBefore(t[k])'
  <2> SUFFICES ASSUME NEW k \in DOMAIN t PROVE DoneBefore(t[k])'
    OBVIOUS
  <2>1. CASE k = 1
    BY <1>12, <1>18, <2>1
  <2>2. CASE k # 1
    <3>1. k - 1 \in 1 .. L /\ t[k] = stack[k - 1]
      BY <1>13, <1>14, <2>2
    <3>2. DoneBefore(stack[k - 1])
      BY <1>5, <1>6, <3>1
    <3> QED BY <1>17, <3>1, <3>2
  <2> QED BY <2>1, <2>2
<1>20. \A k \in DOMAIN t : k # 1 => tree[t[k].node].children[t[k].next] = t[k - 1].node
  <2> SUFFICES ASSUME NEW k \in DOMAIN t, k # 1
               PROVE  tree[t[k].node].children[t[k].next] = t[k - 1].node
    OBVIOUS
  <2>1. PICK j \in 1 .. L : j = k - 1 /\ t[k] = stack[j]
    BY <1>13, <1>14
  <2>2. CASE j = 1
    BY <1>3, <1>7, <1>11, <1>12, <2>1, <2>2
  <2>3. CASE j # 1
    <3>1. j - 1 \in 1 .. L /\ j \in 1 .. L + 1
      BY <2>3
    <3>2. t[j] = stack[j - 1]
      BY <1>14, <2>3, <3>1
    <3> QED BY <1>5, <1>6, <2>1, <2>3, <3>1, <3>2
  <2> QED BY <2>2, <2>3
<1>21. t # <<>> /\ t[Len(t)].node = Root
  <2>1. L \in 1 .. L /\ L + 1 # 0
    OBVIOUS
  <2> QED BY <1>5, <1>6, <1>12, <2>1
<1>22. \A n \in DOMAIN summary' : AllDone(n)' \/ \E k \in DOMAIN t : t[k].node = n
  <2> SUFFICES ASSUME NEW n \in DOMAIN summary', ~ AllDone(n)' PROVE \E k \in DOMAIN t : t[k].node = n
    OBVIOUS
  <2>1. CASE n = c
    <3>1. 1 \in DOMAIN t
      BY <1>13
    <3> QED BY <1>11, <1>12, <2>1, <3>1
  <2>2. CASE n # c
    <3>1. PICK k \in DOMAIN stack : stack[k].node = n
      BY <1>5, <1>9, <1>16, <2>2
    <3>2. k + 1 \in 1 .. L + 1 /\ k \in 1 .. L
      BY <1>6
    <3> QED BY <1>12, <1>13, <3>1, <3>2
  <2> QED BY <2>1, <2>2
<1>23. StackInv'
  <2>1. stack' = t /\ tree' = tree /\ Frames' = Frames
    BY <1>4, <1>13
  <2>2. stack' \in Seq(Frames') /\ stack' # <<>> /\ stack'[Len(stack')].node = Root
    BY <1>12, <1>21, <2>1
  <2>3. \A k \in DOMAIN stack' : k # 1 => tree'[stack'[k].node].children[stack'[k].next] = stack'[k - 1].node
    BY <1>20, <2>1
  <2>4. \A k \in DOMAIN stack' : DoneBefore(stack[k])'
    BY <1>19, <2>1 DEF DoneBefore
  <2>5. \A n \in DOMAIN summary' : AllDone(n)' \/ \E k \in DOMAIN stack' : stack'[k].node = n
    BY <1>22, <2>1
  <2> QED BY <2>2, <2>3, <2>4, <2>5 DEF StackInv
<1>24. BeforeInv' /\ PendingInv'
  BY <1>4 DEF BeforeInv, PendingInv
<1> QED BY <1>1, <1>9, <1>23, <1>24 DEF TableInv

\* mergeOneStat leaves cells that count something.
LEMMA MergeIs ==
  ASSUME StatsInv, NEW dst, NEW src, dst = 0 \/ dst \in DOMAIN cells, src = 0 \/ src \in DOMAIN cells
  PROVE  LET merge == MergeStat(dst, src) IN
         /\ merge.cells \in Seq(Stats) /\ DOMAIN cells \subseteq DOMAIN merge.cells
         /\ \A c \in DOMAIN merge.cells : merge.cells[c].count # 0
         /\ merge.cell = 0 \/ merge.cell \in DOMAIN merge.cells
<1>1. PICK merge : merge = MergeStat(dst, src)
  OBVIOUS
<1>2. cells \in Seq(Stats) /\ \A c \in DOMAIN cells : cells[c].count # 0 /\ cells[c] \in Stats
  BY DEF StatsInv
<1>3. PICK N \in Nat : N = Len(cells) /\ DOMAIN cells = 1 .. N
  BY <1>2
<1>4. CASE src = 0
  <2>1. merge.cell = dst /\ merge.cells = cells
    BY <1>1, <1>4 DEF MergeStat
  <2> QED BY <1>1, <1>2, <2>1
<1>5. CASE src # 0 /\ dst = 0
  <2>1. PICK s \in Seq(Stats) : s = Append(cells, cells[src]) /\ Len(s) = N + 1
    BY <1>2, <1>3, <1>5, AppendProperties, ZenonT(40)
  <2>2. \A c \in 1 .. N : s[c] = cells[c]
    BY <1>2, <1>3, <1>5, <2>1, AppendProperties
  <2>3. s[N + 1] = cells[src]
    BY <1>2, <1>3, <1>5, <2>1, AppendProperties
  <2>4. DOMAIN s = 1 .. N + 1
    BY <2>1
  <2>5. N + 1 \in 1 .. N + 1 /\ 1 .. N \subseteq 1 .. N + 1 /\ \A c \in 1 .. N + 1 : c \in 1 .. N \/ c = N + 1
    OBVIOUS
  <2>6. merge.cell = N + 1 /\ merge.cells = s
    BY <1>1, <1>3, <1>5, <2>1 DEF MergeStat, FirstStat
  <2> QED BY <1>1, <1>2, <1>3, <1>5, <2>2, <2>3, <2>4, <2>5, <2>6
<1>6. CASE src # 0 /\ dst # 0
  <2>1. PICK both \in Stats : both = Merged(cells[dst], cells[src]) /\ both.count # 0
    BY <1>2, <1>6, MergedIs
  <2>2. merge.cell = dst /\ merge.cells = [cells EXCEPT ![dst] = both]
    BY <1>1, <1>6, <2>1 DEF MergeStat
  <2>3. PICK s : s = [cells EXCEPT ![dst] = both]
    OBVIOUS
  <2>4. s \in Seq(Stats) /\ DOMAIN s = DOMAIN cells /\ \A c \in DOMAIN s : s[c] = both \/ s[c] = cells[c]
    BY <1>2, <1>3, <1>6, <2>1, <2>3
  <2> QED BY <1>1, <1>2, <1>6, <2>1, <2>2, <2>3, <2>4
<1> QED BY <1>4, <1>5, <1>6

LEMMA ReturnSums == ASSUME TableInv, Return PROVE TableInv'
<1>1. report \in Reports /\ IsTree /\ StatsInv /\ TreeInv'
  BY AggregateKeepsTree DEF TableInv, TreeInv
<1>2. PICK c, n : c = Head(stack).node /\ n = stack[2].node
  OBVIOUS
<1>3. PICK merge : merge = MergeStat(summary[n].stat, summary[c].stat)
  OBVIOUS
<1>4. PICK sum : sum = [pkgs  |-> summary[n].pkgs + summary[c].pkgs,
                        types |-> summary[n].types + summary[c].types,
                        stat  |-> merge.cell]
  OBVIOUS
<1>5. /\ phase = "aggregate" /\ phase' = "aggregate" /\ Len(stack) > 1 /\ UNCHANGED tree
      /\ Head(stack).next > Len(tree[c].children)
      /\ summary' = [summary EXCEPT ![n] = sum] /\ cells' = merge.cells
      /\ stack' = [Tail(stack) EXCEPT ![1].next = @ + 1]
  BY <1>2, <1>3, <1>4 DEF Return
<1>6. /\ stack \in Seq(Frames) /\ stack[Len(stack)].node = Root
      /\ \A k \in DOMAIN stack :
           /\ DoneBefore(stack[k])
           /\ k # 1 => tree[stack[k].node].children[stack[k].next] = stack[k - 1].node
      /\ \A m \in DOMAIN summary : AllDone(m) \/ \E k \in DOMAIN stack : stack[k].node = m
  BY <1>5 DEF TableInv, StackInv
<1>7. PICK L \in Nat : L = Len(stack) /\ L > 1 /\ DOMAIN stack = 1 .. L
  BY <1>5, <1>6
<1>8. 1 \in 1 .. L /\ 2 \in 1 .. L /\ 2 - 1 = 1
  BY <1>7
<1>9. PICK top : top = stack[1] /\ top \in Frames /\ top = Head(stack) /\ top.node = c /\ DoneBefore(top)
  BY <1>2, <1>6, <1>7, <1>8
<1>10. PICK par : /\ par = stack[2] /\ par \in Frames /\ par.node = n /\ DoneBefore(par)
                  /\ tree[n].children[par.next] = c
  BY <1>2, <1>6, <1>7, <1>8, <1>9
<1>11. HasSummary(c) /\ HasSummary(n)
  BY <1>9, <1>10 DEF DoneBefore
<1>12. DOMAIN summary' = DOMAIN summary /\ summary'[n] = sum
       /\ \A m \in DOMAIN summary : m # n => summary'[m] = summary[m]
  BY <1>5, <1>11 DEF HasSummary
<1>13. StatsInv'
  <2>1. /\ summary[n].stat = 0 \/ summary[n].stat \in DOMAIN cells
        /\ summary[c].stat = 0 \/ summary[c].stat \in DOMAIN cells
    BY <1>1, <1>11 DEF StatsInv, HasSummary
  <2>2. /\ cells' \in Seq(Stats) /\ DOMAIN cells \subseteq DOMAIN cells'
        /\ \A k \in DOMAIN cells' : cells'[k].count # 0
        /\ merge.cell = 0 \/ merge.cell \in DOMAIN cells'
    BY <1>1, <1>3, <1>5, <2>1, MergeIs
  <2>3. sum.stat = merge.cell /\ Stats' = Stats
    BY <1>4 DEF Stats
  <2>4. \A m \in DOMAIN summary' : m \in DOMAIN tree' /\ (summary'[m].stat = 0 \/ summary'[m].stat \in DOMAIN cells')
    <3> SUFFICES ASSUME NEW m \in DOMAIN summary
                 PROVE  m \in DOMAIN tree /\ (summary'[m].stat = 0 \/ summary'[m].stat \in DOMAIN cells')
      BY <1>5, <1>12
    <3>1. m \in DOMAIN tree /\ (summary[m].stat = 0 \/ summary[m].stat \in DOMAIN cells)
      BY <1>1 DEF StatsInv
    <3> QED BY <1>12, <2>2, <2>3, <3>1
  <2> QED BY <2>2, <2>3, <2>4 DEF StatsInv
<1>14. PICK t \in Seq(Frames) :
         /\ t = [Tail(stack) EXCEPT ![1].next = @ + 1] /\ Len(t) = L - 1
         /\ t[1].next = stack[2].next + 1
         /\ \A k \in 1 .. L - 1 : t[k].node = stack[k + 1].node /\ (k # 1 => t[k] = stack[k + 1])
  BY <1>6, <1>7, PopIs
<1>15. stack' = t /\ DOMAIN t = 1 .. L - 1 /\ Frames' = Frames
  BY <1>5, <1>14 DEF Frames
<1>16. \A m : HasSummary(m)' <=> HasSummary(m)
  BY <1>12 DEF HasSummary
<1>17. \A m : AllDone(m)' <=> AllDone(m)
  BY <1>5, <1>16 DEF AllDone
<1>18. \A g : DoneBefore(g)' <=> DoneBefore(g)
  BY <1>5, <1>16 DEF DoneBefore
<1>19. DoneBefore(t[1])
  <2>1. t[1].node = n /\ t[1].next = par.next + 1
    <3>1. 1 \in 1 .. L - 1 /\ 1 + 1 = 2
      BY <1>7
    <3> QED BY <1>10, <1>14, <3>1
  <2>2. PICK p \in Nat : p = par.next
    BY <1>10 DEF Frames
  <2>3. ASSUME NEW j \in DOMAIN tree[n].children, j < p + 1 PROVE HasSummary(tree[n].children[j])
    <3>1. PICK N \in Nat : DOMAIN tree[n].children = 1 .. N
      BY <1>1, <1>10, TreeIs, ListIs DEF Frames
    <3>2. j < p \/ j = p
      BY <2>3, <3>1
    <3> QED BY <1>10, <1>11, <2>2, <3>2 DEF DoneBefore
  <2> QED BY <1>11, <2>1, <2>2, <2>3 DEF DoneBefore
<1>20. \A k \in DOMAIN t : DoneBefore(t[k])
  <2> SUFFICES ASSUME NEW k \in DOMAIN t, k # 1 PROVE DoneBefore(t[k])
    BY <1>19
  <2>1. k \in 1 .. L - 1 /\ k + 1 \in 1 .. L
    BY <1>7, <1>15
  <2> QED BY <1>6, <1>7, <1>14, <2>1
<1>21. \A k \in DOMAIN t : k # 1 => tree[t[k].node].children[t[k].next] = t[k - 1].node
  <2> SUFFICES ASSUME NEW k \in DOMAIN t, k # 1
               PROVE  tree[t[k].node].children[t[k].next] = t[k - 1].node
    OBVIOUS
  <2>1. k \in 1 .. L - 1 /\ k + 1 \in 1 .. L /\ k + 1 # 1 /\ k + 1 - 1 = k /\ k - 1 \in 1 .. L - 1 /\ k - 1 + 1 = k
    BY <1>7, <1>15
  <2>2. PICK j \in 1 .. L : j = k + 1 /\ j # 1 /\ j - 1 = k
    BY <2>1
  <2>3. t[k] = stack[j]
    BY <1>14, <2>1, <2>2
  <2>4. t[k - 1].node = stack[k].node
    BY <1>14, <2>1
  <2>5. tree[stack[j].node].children[stack[j].next] = stack[j - 1].node
    BY <1>6, <1>7, <2>2
  <2> QED BY <2>2, <2>3, <2>4, <2>5
<1>22. t # <<>> /\ t[Len(t)].node = Root
  <2>1. L - 1 \in 1 .. L - 1 /\ L - 1 + 1 = L /\ L - 1 # 0
    BY <1>7
  <2> QED BY <1>6, <1>7, <1>14, <2>1
<1>23. AllDone(c)
  <2>1. PICK N \in Nat : N = Len(tree[c].children) /\ DOMAIN tree[c].children = 1 .. N
    BY <1>1, <1>9, TreeIs, ListIs DEF Frames
  <2>2. PICK p \in Nat : p = top.next
    BY <1>9 DEF Frames
  <2>3. \A j \in 1 .. N : j < p
    BY <1>5, <1>9, <2>1, <2>2
  <2> QED BY <1>9, <2>1, <2>2, <2>3 DEF AllDone, DoneBefore
<1>24. \A m \in DOMAIN summary : AllDone(m) \/ \E k \in DOMAIN t : t[k].node = m
  <2> SUFFICES ASSUME NEW m \in DOMAIN summary, ~ AllDone(m) PROVE \E k \in DOMAIN t : t[k].node = m
    OBVIOUS
  <2>1. PICK k \in DOMAIN stack : stack[k].node = m
    BY <1>6
  <2>2. k # 1
    BY <1>9, <1>23, <2>1
  <2>3. k - 1 \in 1 .. L - 1 /\ k - 1 + 1 = k
    BY <1>7, <2>2
  <2> QED BY <1>14, <1>15, <2>1, <2>3
<1>25. StackInv'
  <2>1. stack' \in Seq(Frames') /\ stack' # <<>> /\ stack'[Len(stack')].node = Root
    BY <1>15, <1>22
  <2>2. \A k \in DOMAIN stack' :
          /\ DoneBefore(stack[k])'
          /\ k # 1 => tree'[stack'[k].node].children[stack'[k].next] = stack'[k - 1].node
    BY <1>5, <1>15, <1>18, <1>20, <1>21
  <2>3. \A m \in DOMAIN summary' : AllDone(m)' \/ \E k \in DOMAIN stack' : stack'[k].node = m
    BY <1>12, <1>15, <1>17, <1>24
  <2> QED BY <2>1, <2>2, <2>3 DEF StackInv
<1>26. BeforeInv' /\ PendingInv'
  BY <1>5 DEF BeforeInv, PendingInv
<1> QED BY <1>1, <1>13, <1>25, <1>26 DEF TableInv

\* Nothing about the summaries changes while the rows are written.
LEMMA SumsStay ==
  ASSUME StatsInv, UNCHANGED <<tree, summary, cells>>
  PROVE  /\ StatsInv' /\ \A n : AllDone(n)' <=> AllDone(n)
         /\ \A n : HasSummary(n)' <=> HasSummary(n)
<1>1. Stats' = Stats
  BY DEF Stats
<1> QED BY <1>1 DEF StatsInv, AllDone, HasSummary

LEMMA StartEmitSums == ASSUME TableInv, StartEmit PROVE TableInv'
<1>1. report \in Reports /\ IsTree /\ StatsInv /\ TreeInv
  BY DEF TableInv, TreeInv
<1>2. /\ phase = "aggregate" /\ phase' = "emit" /\ Len(stack) = 1
      /\ Head(stack).next > Len(tree[Root].children)
      /\ pending' = TopCalls /\ UNCHANGED <<tree, summary, cells>>
  BY DEF StartEmit
<1>3. /\ stack \in Seq(Frames) /\ stack[Len(stack)].node = Root
      /\ \A k \in DOMAIN stack : DoneBefore(stack[k])
      /\ \A n \in DOMAIN summary : AllDone(n) \/ \E k \in DOMAIN stack : stack[k].node = n
  BY <1>2 DEF TableInv, StackInv
<1>4. DOMAIN stack = {1} /\ Head(stack) = stack[1]
  BY <1>2, <1>3
<1>5. PICK top \in Frames : top = stack[1] /\ top = Head(stack)
  BY <1>3, <1>4
<1>6. top.node = Root /\ DoneBefore(top)
  BY <1>2, <1>3, <1>4, <1>5
<1>7. HasSummary(Root)
  BY <1>6 DEF DoneBefore
<1>8. AllDone(Root)
  <2>1. PICK N \in Nat : N = Len(tree[Root].children) /\ DOMAIN tree[Root].children = 1 .. N
    BY <1>1, TreeIs, ListIs
  <2>2. PICK p \in Nat : p = top.next
    BY DEF Frames
  <2>3. \A j \in 1 .. N : j < p
    BY <1>2, <1>5, <2>1, <2>2
  <2> QED BY <1>6, <2>1, <2>2, <2>3 DEF AllDone, DoneBefore
<1>9. \A n \in DOMAIN summary : AllDone(n)
  BY <1>3, <1>4, <1>5, <1>6, <1>8
<1>10. \A k \in DOMAIN TopCalls : HasSummary(TopCalls[k].node)
  <2>1. /\ DOMAIN TopCalls = DOMAIN tree[Root].children
        /\ \A k \in DOMAIN tree[Root].children : TopCalls[k].node = tree[Root].children[k]
    BY DEF TopCalls
  <2> QED BY <1>8, <2>1 DEF AllDone
<1>11. TreeInv'
  BY <1>1, <1>7, StartEmitKeepsTree
<1>12. StatsInv' /\ PendingInv'
  BY <1>1, <1>2, <1>9, <1>10, SumsStay DEF PendingInv
<1>13. BeforeInv' /\ StackInv'
  BY <1>2 DEF BeforeInv, StackInv
<1> QED BY <1>11, <1>12, <1>13 DEF TableInv

LEMMA EmitNodeSums == ASSUME TableInv, EmitNode PROVE TableInv'
<1>1. report \in Reports /\ IsTree /\ StatsInv /\ TreeInv /\ AreCalls(pending)
  BY DEF TableInv, TreeInv, EmitInv
<1>2. PICK call : call = Head(pending)
  OBVIOUS
<1>3. PICK new : new = ChildCalls(call.node, ChildIndent(call.prefix, call.connector))
  OBVIOUS
<1>4. PICK old : old = Tail(pending)
  OBVIOUS
<1>5. /\ phase = "emit" /\ phase' = "emit" /\ pending # <<>>
      /\ pending' = new \o old /\ UNCHANGED <<tree, summary, cells>>
  BY <1>2, <1>3, <1>4 DEF EmitNode
<1>6. (\A n \in DOMAIN summary : AllDone(n)) /\ \A k \in DOMAIN pending : HasSummary(pending[k].node)
  BY <1>5 DEF TableInv, PendingInv
<1>7. PICK N \in Nat : N = Len(pending) /\ N # 0 /\ DOMAIN pending = 1 .. N
  BY <1>1, <1>5, ListIs DEF AreCalls, IsList
<1>8. pending \in Seq(Range(pending))
  BY <1>1 DEF AreCalls, IsList
<1>9. call = pending[1] /\ old \in Seq(Range(pending)) /\ Range(pending) = {pending[k] : k \in DOMAIN pending}
  BY <1>2, <1>4, <1>5, <1>8, TailIs DEF Range
<1>10. HasSummary(call.node) /\ AllDone(call.node)
  <2>1. 1 \in 1 .. N
    BY <1>7
  <2> QED BY <1>6, <1>7, <1>9, <2>1 DEF HasSummary
<1>11. \A c \in Range(pending) : HasSummary(c.node)
  BY <1>6, <1>9
<1>12. call.node \in DOMAIN tree
  BY <1>1, <1>10 DEF StatsInv, HasSummary
<1>13. /\ DOMAIN new = DOMAIN tree[call.node].children
       /\ \A k \in DOMAIN new : new[k].node = tree[call.node].children[k]
       /\ new = [k \in DOMAIN tree[call.node].children |-> new[k]]
  BY <1>3 DEF ChildCalls
<1>14. IsList(new)
  BY <1>1, <1>12, <1>13, TreeIs, MappedIsList
<1>15. \A c \in Range(new) : HasSummary(c.node)
  BY <1>10, <1>13 DEF AllDone, Range
<1> DEFINE U == Range(new) \cup Range(pending)
<1>16. \A c \in U : HasSummary(c.node)
  BY <1>11, <1>15
<1>17. new \in Seq(U) /\ old \in Seq(U)
  <2>1. Range(new) \subseteq U /\ Range(pending) \subseteq U
    OBVIOUS
  <2> HIDE DEF U
  <2> QED BY <1>9, <1>14, <2>1 DEF IsList
<1> HIDE DEF U
<1>18. PICK s \in Seq(U) : s = new \o old
  BY <1>17, ConcatProperties
<1>19. \A k \in DOMAIN s : s[k] \in U
  OBVIOUS
<1>20. TreeInv'
  BY <1>1, <1>2, <1>10, EmitNodeKeepsTree
<1>21. StatsInv' /\ PendingInv'
  BY <1>1, <1>5, <1>6, <1>16, <1>18, <1>19, SumsStay DEF PendingInv
<1>22. BeforeInv' /\ StackInv'
  BY <1>5 DEF BeforeInv, StackInv
<1> QED BY <1>20, <1>21, <1>22 DEF TableInv

LEMMA EndSums == ASSUME TableInv, EndEmit \/ UNCHANGED tablevars PROVE TableInv'
<1>1. TreeInv'
  BY AggregateKeepsTree DEF TableInv
<1>2. StatsInv' /\ (\A n : AllDone(n)' <=> AllDone(n)) /\ \A n : HasSummary(n)' <=> HasSummary(n)
  BY SumsStay DEF TableInv, EndEmit, tablevars
<1>3. CASE EndEmit
  BY <1>1, <1>2, <1>3 DEF TableInv, EndEmit, BeforeInv, StackInv, PendingInv
<1>4. CASE UNCHANGED tablevars
  <2>1. UNCHANGED <<phase, tree, stack, summary, cells, pending>>
    BY <1>4 DEF tablevars
  <2>2. Frames' = Frames /\ \A g : DoneBefore(g)' <=> DoneBefore(g)
    BY <1>2, <2>1 DEF Frames, DoneBefore
  <2>3. StackInv'
    BY <1>2, <2>1, <2>2 DEF TableInv, StackInv
  <2>4. BeforeInv' /\ PendingInv'
    BY <1>2, <2>1 DEF TableInv, BeforeInv, PendingInv
  <2> QED BY <1>1, <1>2, <2>3, <2>4 DEF TableInv
<1> QED BY <1>3, <1>4

LEMMA TableStep == ASSUME TableInv, BuildTable \/ UNCHANGED tablevars PROVE TableInv'
  BY BeforeSums, StartAggregateSums, VisitSums, ReturnSums, StartEmitSums, EmitNodeSums, EndSums DEF BuildTable

LEMMA TableStarts == ASSUME TreeInit PROVE TableInv
<1>1. /\ report \in Reports /\ phase = "attach" /\ tree = <<NewNode(<<>>)>>
      /\ todo = [k \in DOMAIN Packages |-> k] /\ at = [node |-> Root, depth |-> 0]
      /\ pending = <<>> /\ rows = <<>> /\ summary = <<>> /\ cells = <<>>
  BY DEF TreeInit, Packages
<1>2. PICK p \in Nat : p = Len(Packages) /\ DOMAIN Packages = 1 .. p
  BY <1>1, ReportIs, ListIs
<1>3. NewNode(<<>>) \in TreeNodes(1)
  <2>1. <<>> \in Names /\ <<>> \in Seq(1 .. 1)
    BY DEF Names
  <2>2. 0 \in 0 .. p
    OBVIOUS
  <2> QED BY <1>2, <2>1, <2>2 DEF NewNode, TreeNodes
<1>4. PICK root : root = NewNode(<<>>)
  OBVIOUS
<1>5. tree \in Seq(TreeNodes(1)) /\ Len(tree) = 1 /\ tree # <<>> /\ DOMAIN tree = 1 .. 1
  <2>1. <<root>> \in Seq(TreeNodes(1))
    BY <1>3, <1>4, OneInSeq
  <2>2. Len(<<root>>) = 1 /\ <<root>> # <<>> /\ DOMAIN <<root>> = 1 .. 1
    OBVIOUS
  <2> QED BY <1>1, <1>4, <2>1, <2>2
<1>6. todo \in Seq(DOMAIN Packages)
  BY <1>1, <1>2
<1>7. Root \in DOMAIN tree
  BY <1>5 DEF Root
<1>8. EmitInv
  BY <1>1, NoRows DEF EmitInv
<1>9. TreeInv
  BY <1>1, <1>5, <1>6, <1>7, <1>8 DEF TreeInv, IsTree, AttachInv, CompressInv
<1>10. DOMAIN <<>> = {} /\ <<>> \in Seq(Stats)
  OBVIOUS
<1>11. StatsInv
  BY <1>1, <1>10 DEF StatsInv
<1>12. BeforeInv /\ StackInv /\ PendingInv
  BY <1>1 DEF BeforeInv, StackInv, PendingInv
<1> QED BY <1>9, <1>11, <1>12 DEF TableInv

-----------------------------------------------------------------------------
\* The page is the report's and the table's.
LEMMA PageStays ==
  /\ UNCHANGED <<report, how, rows>> => PageSize' = PageSize
  /\ UNCHANGED report => Len(TextHeader)' = Len(TextHeader)
  /\ UNCHANGED <<report, how>> => (how.format \in {"csv", "json", "web"} => PageSize' = PageSize)
<1>1. ASSUME UNCHANGED report
      PROVE  /\ Packages' = Packages /\ Len(CSVRecords)' = Len(CSVRecords)
             /\ Len(JSONReport)' = Len(JSONReport) /\ Len(WebPage)' = Len(WebPage)
             /\ Len(TextHeader)' = Len(TextHeader) /\ Notes' = Notes
  <2>1. Packages' = Packages
    BY <1>1 DEF Packages
  <2>2. CSVRecords' = CSVRecords
    BY <2>1 DEF CSVRecords
  <2>3. JSONReport' = JSONReport
    BY <2>1 DEF JSONReport
  <2>4. ReportPieces' = ReportPieces
    BY <2>1 DEF ReportPieces
  <2>5. WebPage' = WebPage
    BY <2>4 DEF WebPage
  <2>6. Notes' = Notes
    BY <2>1 DEF Notes
  <2>7. TextHeader' = TextHeader
    BY <1>1 DEF TextHeader
  <2> QED BY <2>1, <2>2, <2>3, <2>5, <2>6, <2>7
<1>2. ASSUME UNCHANGED <<report, how, rows>> PROVE Len(TextBody)' = Len(TextBody)
  <2>1. Legend' = Legend /\ TextTable' = TextTable
    BY <1>2 DEF Legend, SawNA, TextTable
  <2>2. how' = how
    BY <1>2
  <2>3. (TextTail(how.explain))' = TextTail(how.explain)
    BY <1>1, <1>2, <2>1, <2>2 DEF TextTail, Explanation
  <2>4. TextBody' = TextBody
    BY <1>1, <1>2, <2>1, <2>3 DEF TextBody
  <2> QED BY <2>4
<1>3. UNCHANGED <<report, how, rows>> => PageSize' = PageSize
  BY <1>1, <1>2 DEF PageSize
<1>4. ASSUME UNCHANGED <<report, how>>, how.format \in {"csv", "json", "web"} PROVE PageSize' = PageSize
  <2>1. CASE how.format = "csv"
    BY <1>1, <1>4, <2>1 DEF PageSize
  <2>2. CASE how.format = "json"
    BY <1>1, <1>4, <2>2 DEF PageSize
  <2>3. CASE how.format = "web"
    BY <1>1, <1>4, <2>3 DEF PageSize
  <2> QED BY <1>4, <2>1, <2>2, <2>3
<1> QED BY <1>1, <1>3, <1>4

\* bufio.Writer keeps no more than it is given.
LEMMA KeptIs ==
  ASSUME NEW h \in Nat, NEW n \in Nat
  PROVE  Kept(h, n) \in 0 .. (h + n) /\ (h + n > BufferSize => Kept(h, n) < h + n)
  BY WriteAssumption DEF Kept

\* What a Stream accepts is on the device or in its buffer; what it refuses is
\* missing there, or its buffer remembers.
Accepted(n, ok) ==
  /\ held' \in Nat /\ room' \in Nat /\ delivered' \in Nat /\ broken' \in BOOLEAN
  /\ delivered' >= delivered
  /\ how.sink = "file" => held' = 0 /\ ~ broken'
  /\ ok => ~ broken' /\ delivered' + held' = delivered + held + n
  /\ ~ ok => broken' \/ delivered' + held' < delivered + held + n

LEMMA StreamIs ==
  ASSUME held \in Nat, room \in Nat, delivered \in Nat, ~ broken, broken \in BOOLEAN,
         how.sink = "file" => held = 0,
         NEW n \in Nat, NEW ok \in BOOLEAN, StreamWrite(n, ok)
  PROVE  Accepted(n, ok)
<1>1. PICK d \in Nat, h \in Nat, r \in Nat : d = delivered /\ h = held /\ r = room
  OBVIOUS
<1>2. CASE how.sink = "file"
  <2>1. /\ ok = (n <= r) /\ held' = h /\ broken' = FALSE /\ h = 0
        /\ room' = r - (IF n <= r THEN n ELSE r)
        /\ delivered' = d + (IF n <= r THEN n ELSE r)
    BY <1>1, <1>2 DEF StreamWrite, WriteFile, Device
  <2>2. CASE n <= r
    <3>1. room' = r - n /\ delivered' = d + n /\ ok = TRUE
      BY <2>1, <2>2
    <3>2. room' \in Nat /\ delivered' \in Nat /\ delivered' >= d /\ delivered' + held' = d + h + n
      BY <2>1, <2>2, <3>1
    <3> QED BY <1>1, <2>1, <3>1, <3>2 DEF Accepted
  <2>3. CASE ~ (n <= r)
    <3>1. room' = 0 /\ delivered' = d + r /\ ok = FALSE
      BY <2>1, <2>3
    <3>2. room' \in Nat /\ delivered' \in Nat /\ delivered' >= d /\ delivered' + held' < d + h + n
      BY <2>1, <2>3, <3>1
    <3> QED BY <1>1, <2>1, <3>1, <3>2 DEF Accepted
  <2> QED BY <2>2, <2>3
<1>3. CASE how.sink # "file"
  <2>1. PICK k \in Nat : k = Kept(held, n) /\ k <= h + n
    <3>1. Kept(h, n) \in 0 .. (h + n)
      BY KeptIs
    <3> QED BY <1>1, <3>1
  <2>2. PICK pass \in Nat : pass = h + n - k
    BY <2>1
  <2>3. /\ ok = (pass <= r)
        /\ room' = r - (IF pass <= r THEN pass ELSE r)
        /\ delivered' = d + (IF pass <= r THEN pass ELSE r)
        /\ held' = (IF pass <= r THEN k ELSE h) /\ broken' = (pass > r)
    BY <1>1, <1>3, <2>1, <2>2 DEF StreamWrite, WriteStdout, Device
  <2>4. CASE pass <= r
    <3>1. room' = r - pass /\ delivered' = d + pass /\ ok = TRUE /\ held' = k
      BY <2>3, <2>4
    <3>2. broken' = FALSE
      BY <2>3, <2>4
    <3>3. room' \in Nat /\ delivered' \in Nat /\ delivered' >= d /\ delivered' + held' = d + h + n
      BY <2>1, <2>2, <2>4, <3>1
    <3> QED BY <1>1, <1>3, <3>1, <3>2, <3>3 DEF Accepted
  <2>5. CASE ~ (pass <= r)
    <3>1. room' = 0 /\ delivered' = d + r /\ ok = FALSE /\ held' = h
      BY <2>3, <2>5
    <3>2. broken' = TRUE
      <4>1. (pass > r) = TRUE
        BY <2>5
      <4>2. broken' = (pass > r)
        BY <2>3
      <4> QED BY <4>1, <4>2
    <3>3. room' \in Nat /\ delivered' \in Nat /\ delivered' >= d
      BY <2>5, <3>1
    <3> QED BY <1>1, <1>3, <3>1, <3>2, <3>3 DEF Accepted
  <2> QED BY <2>4, <2>5
<1> QED BY <1>2, <1>3

LEMMA ProducedIs ==
  ASSUME WriteTypes
  PROVE  /\ how.format \in {"text", "csv", "json", "web"} /\ how.sink \in {"file", "stdout"}
         /\ PageSize \in Nat /\ Produced \in Nat /\ Produced <= PageSize
<1>1. how.format \in {"text", "csv", "json", "web"} /\ how.sink \in {"file", "stdout"}
  <2>1. PICK job \in [report : Reports, format : {"text", "csv", "json", "web"}, sink : {"file", "stdout"},
                      explain : BOOLEAN, encodable : BOOLEAN, room : Nat] : job = how
    BY WriteAssumption DEF WriteTypes
  <2> QED BY <2>1
<1>2. report \in Reports /\ IsList(rows)
  BY DEF WriteTypes, TableInv, TreeInv, EmitInv, AreRows
<1>3. PICK h \in Nat, b \in Nat : h = Len(TextHeader) /\ b = Len(TextBody)
  BY <1>1, <1>2, PageIsCounted
<1>4. PICK p \in Nat : p = PageSize
  BY <1>1, <1>2, PageIsCounted
<1>5. how.format = "text" => p = h + b
  BY <1>1, <1>2, <1>3, <1>4, PageIsCounted
<1>6. how.format = "text" => h <= p
  BY <1>5
<1> QED BY <1>1, <1>3, <1>4, <1>6 DEF Produced

\* Nothing about the page changes while it is written or the sink is opened.
LEMMA SamePage ==
  ASSUME WriteTypes, UNCHANGED <<tablevars, how>>
  PROVE  TableInv' /\ how' \in Jobs /\ PageSize' = PageSize /\ Produced' = Produced
<1>1. TableInv'
  BY TableStep DEF WriteTypes
<1>2. how' = how /\ report' = report /\ rows' = rows /\ phase' = phase
  BY DEF tablevars
<1>3. PageSize' = PageSize /\ Len(TextHeader)' = Len(TextHeader)
  BY <1>2, PageStays
<1>4. Produced' = Produced
  BY <1>2, <1>3 DEF Produced
<1> QED BY <1>1, <1>2, <1>3, <1>4 DEF WriteTypes

SinkStep == [Sink!Next]_(Sink!sinkvars)

\* While the sink is open, what reaches the device makes the destination partial.
LEMMA OpenStep ==
  ASSUME sink = "open", sink' = "open", outcome' = outcome, how' = how,
         delivered \in Nat, delivered' \in Nat, delivered' >= delivered
  PROVE  SinkStep
<1>1. /\ Destination = IF delivered > 0 \/ how.sink = "file" THEN "partial" ELSE "untouched"
      /\ Destination' = IF delivered' > 0 \/ how.sink = "file" THEN "partial" ELSE "untouched"
  BY DEF Destination
<1>2. Destination' = "partial" \/ Destination' = Destination
  BY <1>1
<1> QED BY <1>2 DEF SinkStep, Sink!Next, Sink!Deliver, Sink!sinkvars

\* A renderer hands n pieces over.
LEMMA RenderWrite ==
  ASSUME WriteInv, stage = "render", NEW n \in Nat, NEW ok \in BOOLEAN,
         StreamWrite(n, ok), Continue(ok), UNCHANGED <<tablevars, how, sink, rendered, outcome>>,
         left' \in Nat, csvHeld' \in Nat, left' + csvHeld' + n = left + csvHeld,
         how.format # "csv" => csvHeld' = 0
  PROVE  WriteInv' /\ SinkStep
<1>1. /\ WriteTypes /\ sink = "open" /\ outcome = "none" /\ ~ rendered /\ ~ broken
      /\ delivered + held + csvHeld + left = Produced
  BY DEF WriteInv, RenderInv
<1>2. Accepted(n, ok)
  <2>1. held \in Nat /\ room \in Nat /\ delivered \in Nat /\ broken \in BOOLEAN /\ (how.sink = "file" => held = 0)
    BY <1>1 DEF WriteTypes
  <2> QED BY <1>1, <2>1, StreamIs
<1>3. TableInv' /\ how' \in Jobs /\ PageSize' = PageSize /\ Produced' = Produced
  BY <1>1, SamePage
<1>4. PICK d \in Nat, h \in Nat, c \in Nat, l \in Nat : d = delivered /\ h = held /\ c = csvHeld /\ l = left
  BY <1>1 DEF WriteTypes
<1>5. PICK d1 \in Nat, h1 \in Nat, c1 \in Nat, l1 \in Nat :
        d1 = delivered' /\ h1 = held' /\ c1 = csvHeld' /\ l1 = left'
  BY <1>2 DEF Accepted
<1>6. PICK p \in Nat, s \in Nat : p = Produced /\ s = PageSize /\ p <= s
  BY <1>1, ProducedIs
<1>7. /\ d1 >= d /\ l1 + c1 + n = l + c /\ d + h + c + l = p
      /\ ok => d1 + h1 = d + h + n
      /\ ~ ok => broken' \/ d1 + h1 < d + h + n
  BY <1>1, <1>2, <1>4, <1>5, <1>6 DEF Accepted
<1>8. ok => d1 + h1 + c1 + l1 = p
  BY <1>7
<1>9. ~ ok => broken' \/ d1 + h1 < s
  BY <1>6, <1>7
<1>10. stage' = (IF ok THEN "render" ELSE "close") /\ sink' = "open" /\ outcome' = "none" /\ ~ rendered' /\ how' = how
  BY <1>1 DEF Continue
<1>11. WriteTypes'
  BY <1>1, <1>2, <1>3, <1>10 DEF WriteTypes, Accepted
<1>12. RenderInv'
  BY <1>2, <1>3, <1>5, <1>6, <1>8, <1>10 DEF RenderInv, Accepted
<1>13. CloseInv'
  BY <1>3, <1>5, <1>6, <1>9, <1>10 DEF CloseInv
<1>14. OpenInv'
  BY <1>10 DEF OpenInv
<1>15. SinkStep
  BY <1>1, <1>4, <1>5, <1>7, <1>10, OpenStep
<1> QED BY <1>11, <1>12, <1>13, <1>14, <1>15 DEF WriteInv

LEMMA StepOfLine == ASSUME WriteInv, WriteLine PROVE WriteInv' /\ SinkStep
<1>1. PICK ok \in BOOLEAN : StreamWrite(1, ok) /\ Continue(ok)
  BY DEF WriteLine
<1>2. /\ stage = "render" /\ how.format = "text" /\ left > 0 /\ left' = left - 1
      /\ UNCHANGED <<tablevars, how, sink, rendered, csvHeld, outcome>>
  BY DEF WriteLine
<1>3. left \in Nat /\ csvHeld \in Nat /\ csvHeld = 0
  BY <1>2 DEF WriteInv, WriteTypes, RenderInv
<1>4. left' \in Nat /\ csvHeld' \in Nat /\ left' + csvHeld' + 1 = left + csvHeld /\ csvHeld' = 0
  BY <1>2, <1>3
<1> QED BY <1>1, <1>2, <1>4, RenderWrite

LEMMA StepOfFlush == ASSUME WriteInv, FlushRecords PROVE WriteInv' /\ SinkStep
<1>1. PICK ok \in BOOLEAN : StreamWrite(csvHeld, ok) /\ Continue(ok)
  BY DEF FlushRecords
<1>2. /\ stage = "render" /\ csvHeld' = 0 /\ left' = left
      /\ UNCHANGED <<tablevars, how, sink, rendered, outcome>>
  BY DEF FlushRecords
<1>3. left \in Nat /\ csvHeld \in Nat
  BY DEF WriteInv, WriteTypes
<1>4. left' \in Nat /\ csvHeld' \in Nat /\ left' + csvHeld' + csvHeld = left + csvHeld
  BY <1>2, <1>3
<1> QED BY <1>1, <1>2, <1>3, <1>4, RenderWrite

\* A record stays in csv's buffer, which gives nothing to the stream ...
LEMMA RecordStays ==
  ASSUME WriteInv, WriteRecord, csvHeld + 1 <= BufferSize PROVE WriteInv' /\ SinkStep
<1>1. /\ stage = "render" /\ how.format = "csv" /\ left > 0 /\ left' = left - 1
      /\ csvHeld' = Kept(csvHeld, 1) /\ stage' = stage /\ UNCHANGED streamvars
      /\ UNCHANGED <<tablevars, how, sink, rendered, outcome>>
  BY DEF WriteRecord
<1>2. /\ WriteTypes /\ sink = "open" /\ outcome = "none" /\ ~ rendered /\ ~ broken
      /\ delivered + held + csvHeld + left = Produced
  BY <1>1 DEF WriteInv, RenderInv
<1>3. PICK d \in Nat, h \in Nat, c \in Nat, l \in Nat : d = delivered /\ h = held /\ c = csvHeld /\ l = left
  BY <1>2 DEF WriteTypes
<1>4. TableInv' /\ how' \in Jobs /\ PageSize' = PageSize /\ Produced' = Produced
  BY <1>1, <1>2, SamePage
<1>5. csvHeld' = c + 1 /\ left' = l - 1 /\ l > 0
  BY <1>1, <1>3 DEF Kept
<1>6. csvHeld' \in Nat /\ left' \in Nat /\ d + h + csvHeld' + left' = d + h + c + l
  BY <1>5
<1>7. UNCHANGED <<held, broken, room, delivered>>
  BY <1>1 DEF streamvars
<1>8. WriteTypes'
  BY <1>1, <1>2, <1>4, <1>6, <1>7 DEF WriteTypes
<1>9. RenderInv'
  BY <1>1, <1>2, <1>3, <1>4, <1>6, <1>7 DEF RenderInv
<1>10. OpenInv' /\ CloseInv'
  BY <1>1 DEF OpenInv, CloseInv
<1>11. SinkStep
  BY <1>1, <1>2, <1>3, <1>7, OpenStep
<1> QED BY <1>8, <1>9, <1>10, <1>11 DEF WriteInv

\* ... or fills it up.
LEMMA StepOfRecord == ASSUME WriteInv, WriteRecord PROVE WriteInv' /\ SinkStep
<1>1. CASE ~ (csvHeld + 1 <= BufferSize)
  <2>1. PICK ok \in BOOLEAN : StreamWrite(csvHeld + 1 - Kept(csvHeld, 1), ok) /\ Continue(ok)
    BY <1>1 DEF WriteRecord
  <2>2. /\ stage = "render" /\ how.format = "csv" /\ left > 0 /\ left' = left - 1
        /\ csvHeld' = Kept(csvHeld, 1)
        /\ UNCHANGED <<tablevars, how, sink, rendered, outcome>>
    BY DEF WriteRecord
  <2>3. PICK c \in Nat, l \in Nat : c = csvHeld /\ l = left
    BY DEF WriteInv, WriteTypes
  <2>4. PICK k \in Nat : k = Kept(c, 1) /\ k <= c + 1
    <3>1. Kept(c, 1) \in 0 .. (c + 1)
      BY KeptIs
    <3> QED BY <3>1
  <2>5. PICK n \in Nat : n = c + 1 - k
    BY <2>4
  <2>6. /\ StreamWrite(n, ok) /\ left' \in Nat /\ csvHeld' \in Nat
        /\ left' + csvHeld' + n = left + csvHeld
    BY <2>1, <2>2, <2>3, <2>4, <2>5
  <2> QED BY <2>1, <2>2, <2>6, RenderWrite
<1> QED BY <1>1, RecordStays

LEMMA StepOfDocument == ASSUME WriteInv, WriteDocument PROVE WriteInv' /\ SinkStep
<1>1. /\ stage = "render" /\ how.format \in {"json", "web"} /\ left > 0 /\ left' = 0
      /\ UNCHANGED <<tablevars, how, sink, rendered, csvHeld, outcome>>
  BY DEF WriteDocument
<1>2. /\ WriteTypes /\ sink = "open" /\ outcome = "none" /\ ~ rendered /\ ~ broken /\ csvHeld = 0
      /\ delivered + held + csvHeld + left = Produced
  BY <1>1 DEF WriteInv, RenderInv
<1>3. PICK d \in Nat, h \in Nat, l \in Nat : d = delivered /\ h = held /\ l = left
  BY <1>2 DEF WriteTypes
<1>4. CASE how.encodable
  <2>1. PICK ok \in BOOLEAN : StreamWrite(l, ok) /\ Continue(ok)
    BY <1>3, <1>4 DEF WriteDocument
  <2>2. left' \in Nat /\ csvHeld' \in Nat /\ left' + csvHeld' + l = left + csvHeld /\ csvHeld' = 0
    BY <1>1, <1>2, <1>3
  <2> QED BY <1>1, <2>1, <2>2, RenderWrite
<1>5. CASE ~ how.encodable
  <2>1. stage' = "close" /\ UNCHANGED <<held, broken, room, delivered>>
    BY <1>5 DEF WriteDocument, streamvars
  <2>2. TableInv' /\ how' \in Jobs /\ PageSize' = PageSize /\ Produced' = Produced
    BY <1>1, <1>2, SamePage
  <2>3. PICK p \in Nat, s \in Nat : p = Produced /\ s = PageSize /\ p <= s
    BY <1>2, ProducedIs
  <2>4. d + h < s
    BY <1>1, <1>2, <1>3, <2>3
  <2>5. WriteTypes'
    BY <1>1, <1>2, <2>1, <2>2 DEF WriteTypes
  <2>6. CloseInv'
    BY <1>1, <1>2, <1>3, <2>1, <2>2, <2>3, <2>4 DEF CloseInv
  <2>7. OpenInv' /\ RenderInv'
    BY <2>1 DEF OpenInv, RenderInv
  <2>8. SinkStep
    BY <1>1, <1>2, <1>3, <2>1, OpenStep
  <2> QED BY <2>5, <2>6, <2>7, <2>8 DEF WriteInv
<1> QED BY <1>4, <1>5

\* The renderer has handed its page over: all of it is on its way.
LEMMA StepOfRendered == ASSUME WriteInv, Rendered PROVE WriteInv' /\ SinkStep
<1>1. /\ stage = "render" /\ stage' = "close" /\ rendered' = TRUE /\ left = 0 /\ csvHeld = 0
      /\ how.format = "text" => Packages = <<>> \/ phase = "done"
      /\ UNCHANGED <<tablevars, how, sink, left, csvHeld, outcome>>
      /\ UNCHANGED <<held, broken, room, delivered>>
  BY DEF Rendered, streamvars
<1>2. /\ WriteTypes /\ sink = "open" /\ outcome = "none" /\ delivered + held + csvHeld + left = Produced
  BY <1>1 DEF WriteInv, RenderInv
<1>3. PICK d \in Nat, h \in Nat : d = delivered /\ h = held
  BY <1>2 DEF WriteTypes
<1>4. TableInv' /\ how' \in Jobs /\ PageSize' = PageSize
  BY <1>1, <1>2, SamePage
<1>5. Produced = PageSize
  <2>1. report \in Reports /\ IsList(rows) /\ how.format \in {"text", "csv", "json", "web"}
    BY <1>2, ProducedIs DEF WriteTypes, TableInv, TreeInv, EmitInv, AreRows
  <2>2. PICK t \in Nat : t = Len(TextHeader)
    BY <2>1, PageIsCounted
  <2>3. how.format = "text" /\ Packages = <<>> => PageSize = t + 0
    BY <2>1, <2>2, PageIsCounted
  <2> QED BY <1>1, <2>2, <2>3 DEF Produced
<1>6. d + h = PageSize
  BY <1>1, <1>2, <1>3, <1>5
<1>7. WriteTypes'
  BY <1>1, <1>2, <1>4 DEF WriteTypes
<1>8. CloseInv'
  BY <1>1, <1>2, <1>3, <1>4, <1>6 DEF CloseInv
<1>9. OpenInv' /\ RenderInv'
  BY <1>1 DEF OpenInv, RenderInv
<1>10. SinkStep
  BY <1>1, <1>2, <1>3, OpenStep
<1> QED BY <1>7, <1>8, <1>9, <1>10 DEF WriteInv

\* The lengths of a text page, in this state and in the next one.
TextLengths ==
  /\ Len(TextHeader) \in Nat /\ Len(TextBody) \in Nat
  /\ how.format = "text" => PageSize = Len(TextHeader) + Len(TextBody)
LEMMA LengthsAreThere == how \in Jobs /\ TableInv => TextLengths
<1> SUFFICES ASSUME how \in Jobs, TableInv PROVE TextLengths
  OBVIOUS
<1>1. report \in Reports /\ IsList(rows)
  BY DEF TableInv, TreeInv, EmitInv, AreRows
<1>2. how.format \in {"text", "csv", "json", "web"}
  BY WriteAssumption
<1> QED BY <1>1, <1>2, PageIsCounted DEF TextLengths
LEMMA LengthsThen == (how \in Jobs /\ TableInv)' => TextLengths'
  BY LengthsAreThere, PTL

\* With the header out, the table is built; once it is there, so is the rest.
LEMMA StepOfBuild == ASSUME WriteInv, BuildStep PROVE WriteInv' /\ SinkStep
<1>1. /\ stage = "render" /\ how.format = "text" /\ left = 0 /\ BuildTable
      /\ UNCHANGED <<how, stage, sink, rendered, csvHeld, outcome>>
      /\ UNCHANGED <<held, broken, room, delivered>>
      /\ left' = IF phase' = "done" THEN Len(TextBody)' ELSE 0
  BY DEF BuildStep, streamvars
<1>2. /\ WriteTypes /\ sink = "open" /\ outcome = "none" /\ ~ rendered /\ ~ broken /\ csvHeld = 0
      /\ delivered + held + csvHeld + left = Produced
  BY <1>1 DEF WriteInv, RenderInv
<1>3. phase # "done" /\ report' = report
  BY <1>1, Zenon DEF BuildTable, Down, Attach, StartCompress, Absorb, Descend, StartAggregate, Visit, Return,
              StartEmit, EmitNode, EndEmit
<1>4. TableInv' /\ how' \in Jobs
  BY <1>1, <1>2, TableStep DEF WriteTypes
<1>5. TextLengths'
  BY <1>4, LengthsThen
<1>6. PICK t \in Nat : t = Len(TextHeader)
  BY <1>2, LengthsAreThere DEF WriteTypes, TextLengths
<1>7. PICK d \in Nat, h \in Nat : d = delivered /\ h = held
  BY <1>2 DEF WriteTypes
<1>8. d + h = t
  BY <1>1, <1>2, <1>3, <1>6, <1>7 DEF Produced
<1>9. Len(TextHeader)' = t
  BY <1>3, <1>6, PageStays
<1>10. PICK b \in Nat : b = Len(TextBody)'
  BY <1>5 DEF TextLengths
<1>11. PageSize' = t + b
  BY <1>1, <1>5, <1>9, <1>10 DEF TextLengths
<1>12. Produced' = IF phase' = "done" THEN t + b ELSE t
  BY <1>1, <1>9, <1>11 DEF Produced
<1>13. left' \in Nat /\ d + h + left' = Produced'
  <2>1. CASE phase' = "done"
    BY <1>1, <1>8, <1>10, <1>12, <2>1
  <2>2. CASE phase' # "done"
    BY <1>1, <1>8, <1>12, <2>2
  <2> QED BY <2>1, <2>2
<1>14. WriteTypes'
  BY <1>1, <1>2, <1>4, <1>13 DEF WriteTypes
<1>15. RenderInv'
  <2>1. delivered' = d /\ held' = h /\ csvHeld' = 0 /\ Produced' \in Nat
    BY <1>1, <1>2, <1>6, <1>7, <1>10, <1>12
  <2>2. delivered' + held' + csvHeld' + left' = Produced'
    <3>1. PICK l \in Nat : l = left'
      BY <1>13
    <3>2. d + h + 0 + l = d + h + l
      OBVIOUS
    <3> QED BY <1>13, <2>1, <3>1, <3>2
  <2>3. sink' = "open" /\ outcome' = "none" /\ rendered' = rendered /\ broken' = broken
    BY <1>1, <1>2
  <2> QED BY <1>2, <2>1, <2>2, <2>3 DEF RenderInv
<1>16. OpenInv' /\ CloseInv'
  BY <1>1 DEF OpenInv, CloseInv
<1>17. SinkStep
  BY <1>1, <1>2, <1>7, OpenStep
<1> QED BY <1>14, <1>15, <1>16, <1>17 DEF WriteInv

LEMMA StepOfOpening == ASSUME WriteInv, OpenFails \/ OpenSink PROVE WriteInv' /\ SinkStep
<1>1. /\ stage = "open" /\ UNCHANGED <<tablevars, how, rendered, csvHeld>>
      /\ UNCHANGED <<held, broken, room, delivered>>
  BY DEF OpenFails, OpenSink, streamvars
<1>2. /\ WriteTypes /\ sink = "unopened" /\ outcome = "none" /\ ~ rendered /\ ~ broken /\ phase = "attach"
      /\ delivered = 0 /\ held = 0 /\ csvHeld = 0
  BY <1>1 DEF WriteInv, OpenInv
<1>3. TableInv' /\ how' \in Jobs /\ PageSize' = PageSize /\ Produced' = Produced
  BY <1>1, <1>2, SamePage
<1>4. Destination = "untouched"
  BY <1>2 DEF Destination
<1>5. CASE OpenFails
  <2>1. stage' = "returned" /\ outcome' = "failed" /\ sink' = sink /\ left' = left
    BY <1>5 DEF OpenFails
  <2>2. WriteTypes'
    BY <1>1, <1>2, <1>3, <2>1 DEF WriteTypes
  <2>3. OpenInv' /\ RenderInv' /\ CloseInv'
    BY <2>1 DEF OpenInv, RenderInv, CloseInv
  <2>4. Destination' = "untouched"
    BY <1>1, <1>2, <2>1 DEF Destination
  <2>5. SinkStep
    BY <1>2, <1>4, <2>1, <2>4 DEF SinkStep, Sink!Next, Sink!OpenFails
  <2> QED BY <2>2, <2>3, <2>5 DEF WriteInv
<1>6. CASE OpenSink
  <2>1. /\ stage' = "render" /\ outcome' = outcome /\ sink' = "open"
        /\ left' = IF how.format = "text" THEN Len(TextHeader) ELSE PageSize
    BY <1>6 DEF OpenSink
  <2>2. left' = Produced /\ Produced \in Nat
    BY <1>2, <2>1, ProducedIs DEF Produced
  <2>3. WriteTypes'
    BY <1>1, <1>2, <1>3, <2>1, <2>2 DEF WriteTypes
  <2>4. OpenInv' /\ CloseInv'
    BY <2>1 DEF OpenInv, CloseInv
  <2>5. delivered' = 0 /\ held' = 0 /\ csvHeld' = 0 /\ left' = Produced'
    BY <1>1, <1>2, <1>3, <2>2
  <2>6. RenderInv'
    BY <1>1, <1>2, <1>3, <2>1, <2>2, <2>5 DEF RenderInv
  <2>7. Destination' \in {"untouched", "partial"}
    BY <2>1 DEF Destination
  <2>8. SinkStep
    BY <1>2, <1>4, <2>1, <2>7 DEF SinkStep, Sink!Next, Sink!Open
  <2> QED BY <2>3, <2>4, <2>6, <2>8 DEF WriteInv
<1> QED BY <1>5, <1>6

\* Closing succeeds, after a renderer that reached its end, exactly if all of the
\* page is there.
LEMMA StepOfClosing == ASSUME WriteInv, CloseSink PROVE WriteInv' /\ SinkStep
<1>1. PICK closed \in BOOLEAN :
        /\ IF how.sink = "file" THEN UNCHANGED streamvars
           ELSE IF broken THEN closed = FALSE /\ UNCHANGED streamvars
           ELSE closed = (held <= room) /\ Device(held) /\ held' = 0 /\ UNCHANGED broken
        /\ sink' = (IF closed THEN "closed" ELSE "closeFailed")
        /\ outcome' = Answer(closed)
  BY DEF CloseSink
<1>2. stage = "close" /\ stage' = "returned" /\ UNCHANGED <<tablevars, how, left, rendered, csvHeld>>
  BY DEF CloseSink
<1>3. /\ WriteTypes /\ sink = "open" /\ outcome = "none"
      /\ rendered => delivered + held = PageSize
      /\ ~rendered => broken \/ delivered + held < PageSize
  BY <1>2 DEF WriteInv, CloseInv
<1>4. TableInv' /\ how' \in Jobs /\ PageSize' = PageSize
  BY <1>2, <1>3, SamePage
<1>5. PICK d \in Nat, h \in Nat, r \in Nat, s \in Nat : d = delivered /\ h = held /\ r = room /\ s = PageSize
  BY <1>3, ProducedIs DEF WriteTypes
<1>6. /\ held' \in Nat /\ room' \in Nat /\ delivered' \in Nat /\ broken' = broken /\ delivered' >= d
      /\ how.sink = "file" => held' = 0
      /\ closed => ~ broken /\ delivered' = d + h
  <2>1. CASE how.sink = "file" \/ broken
    BY <1>1, <1>3, <1>5, <2>1 DEF streamvars, WriteTypes
  <2>2. CASE how.sink # "file" /\ ~ broken
    <3>1. /\ closed = (h <= r) /\ held' = 0 /\ broken' = broken
          /\ room' = r - (IF h <= r THEN h ELSE r)
          /\ delivered' = d + (IF h <= r THEN h ELSE r)
      BY <1>1, <1>5, <2>2 DEF Device
    <3>2. CASE h <= r
      BY <2>2, <3>1, <3>2
    <3>3. CASE ~ (h <= r)
      <4>1. closed = FALSE
        <5>1. (h <= r) = FALSE
          BY <3>3
        <5> QED BY <3>1, <5>1
      <4>2. room' = r - r /\ delivered' = d + r
        BY <3>1, <3>3
      <4>3. room' \in Nat /\ delivered' \in Nat /\ delivered' >= d
        BY <4>2
      <4> QED BY <2>2, <3>1, <4>1, <4>3
    <3> QED BY <3>2, <3>3
  <2> QED BY <2>1, <2>2
<1>7. PICK e \in Nat : e = delivered'
  BY <1>6
<1>8. e >= d /\ (closed => ~ broken /\ e = d + h)
  BY <1>6, <1>7
<1>9. Destination = IF d > 0 \/ how.sink = "file" THEN "partial" ELSE "untouched"
  BY <1>3, <1>5 DEF Destination
<1>10. Destination' = IF closed /\ e = s THEN "complete"
                      ELSE IF e > 0 \/ how.sink = "file" THEN "partial" ELSE "untouched"
  BY <1>1, <1>2, <1>4, <1>5, <1>7 DEF Destination
<1>11. SinkStep
  <2>1. CASE closed /\ rendered
    <3>1. e = s
      BY <1>3, <1>5, <1>8, <2>1
    <3>2. Destination' = "complete" /\ outcome' = "ok" /\ sink' = "closed"
      BY <1>1, <1>10, <2>1, <3>1 DEF Answer
    <3> QED BY <1>3, <3>2 DEF SinkStep, Sink!Next, Sink!CloseWell
  <2>2. CASE ~ (closed /\ rendered)
    <3>1. closed => e # s
      <4>1. CASE closed /\ ~ rendered
        <5>1. d + h < s
          BY <1>3, <1>5, <1>8, <4>1
        <5> QED BY <1>8, <4>1, <5>1
      <4> QED BY <2>2, <4>1
    <3>2. Destination' = "partial" \/ Destination' = Destination
      BY <1>8, <1>9, <1>10, <3>1
    <3>3. outcome' = "failed" /\ sink' \in {"closed", "closeFailed"}
      BY <1>1, <2>2 DEF Answer
    <3> QED BY <1>3, <3>2, <3>3 DEF SinkStep, Sink!Next, Sink!CloseBadly
  <2> QED BY <2>1, <2>2
<1>12. WriteTypes'
  BY <1>2, <1>3, <1>4, <1>6 DEF WriteTypes
<1>13. OpenInv' /\ RenderInv' /\ CloseInv'
  BY <1>2 DEF OpenInv, RenderInv, CloseInv
<1> QED BY <1>11, <1>12, <1>13 DEF WriteInv

LEMMA WriteStands == ASSUME WriteInv, UNCHANGED writevars PROVE WriteInv' /\ SinkStep
<1>1. /\ UNCHANGED <<tablevars, how, stage, sink, left, rendered, csvHeld, outcome>>
      /\ UNCHANGED <<held, broken, room, delivered>>
  BY DEF writevars, streamvars
<1>2. TableInv' /\ how' \in Jobs /\ PageSize' = PageSize /\ Produced' = Produced
  BY <1>1, SamePage DEF WriteInv
<1>3. WriteTypes'
  BY <1>1, <1>2 DEF WriteInv, WriteTypes
<1>4. OpenInv'
  BY <1>1 DEF WriteInv, OpenInv, tablevars
<1>5. RenderInv'
  BY <1>1, <1>2 DEF WriteInv, RenderInv
<1>6. CloseInv'
  BY <1>1, <1>2 DEF WriteInv, CloseInv
<1>7. Destination' = Destination
  BY <1>1, <1>2 DEF Destination
<1>8. SinkStep
  BY <1>1, <1>7 DEF SinkStep, Sink!sinkvars
<1> QED BY <1>3, <1>4, <1>5, <1>6, <1>8 DEF WriteInv

LEMMA StepOfWrite == ASSUME WriteInv, [WriteNext]_writevars PROVE WriteInv' /\ SinkStep
  BY StepOfOpening, StepOfLine, StepOfBuild, StepOfRecord, StepOfFlush, StepOfDocument,
     StepOfRendered, StepOfClosing, WriteStands DEF WriteNext

LEMMA WriteStarts == ASSUME WriteInit PROVE WriteInv /\ Sink!Init
<1>1. PICK job \in Jobs : how = job /\ room = job.room /\ report = job.report
  BY DEF WriteInit
<1>2. job.room \in Nat
  BY WriteAssumption
<1>3. /\ stage = "open" /\ sink = "unopened" /\ outcome = "none" /\ phase = "attach"
      /\ left = 0 /\ csvHeld = 0 /\ held = 0 /\ delivered = 0 /\ rendered = FALSE /\ broken = FALSE
  BY DEF WriteInit, TreeInit
<1>4. TableInv
  BY TableStarts DEF WriteInit
<1>5. WriteInv
  BY <1>1, <1>2, <1>3, <1>4 DEF WriteInv, WriteTypes, OpenInv, RenderInv, CloseInv
<1>6. Destination = "untouched"
  BY <1>3 DEF Destination
<1> QED BY <1>3, <1>5, <1>6 DEF Sink!Init

\* Writing keeps what the command relies on: whatever the format, the buffers in
\* between and the step that fails, the destination is opened once and closed,
\* and the answer is good exactly if every piece of the page is there.
THEOREM WriteIsSink == WriteSpec => ImplementsReportSink
<1>1. WriteInit => WriteInv /\ Sink!Init
  BY WriteStarts
<1>2. WriteInv /\ [WriteNext]_writevars => WriteInv' /\ [Sink!Next]_(Sink!sinkvars)
  BY StepOfWrite DEF SinkStep
<1> QED BY <1>1, <1>2, PTL DEF WriteSpec, ImplementsReportSink, Sink!Spec

-----------------------------------------------------------------------------
\* The width of a name is a number.
LEMMA NameWidthIs == ASSUME NEW name \in Names PROVE NameWidth(name) \in Int
<1> DEFINE N == Len(name)
           Is(f) == f = [k \in 0 .. N |-> IF k = 0 THEN -1 ELSE f[k - 1] + Runes[name[k]] + 1]
           step == [p \in (1 .. N) \X Int |-> p[2] + Runes[name[p[1]]] + 1]
<1>1. N \in Nat /\ \A k \in 1 .. N : Runes[name[k]] \in Nat
  BY RunesAssumption DEF Names
<1>2. step \in [(1 .. N) \X Int -> Int]
  <2> HIDE DEF N
  <2> QED BY <1>1
<1>3. \A k \in 1 .. N, v \in Int : step[<<k, v>>] = v + Runes[name[k]] + 1
  OBVIOUS
<1> HIDE DEF step, N
<1>4. PICK h : IsHistory(h, N, Int, -1, step)
  <2>1. PICK base \in Int : base = -1
    OBVIOUS
  <2>2. \E h : IsHistory(h, N, Int, base, step)
    BY <1>1, <1>2, Iteration
  <2> QED BY <2>1, <2>2
<1>5. PICK g : g = [k \in 0 .. N |-> h[k]]
  OBVIOUS
<1>6. Is(g)
  <2>1. /\ h \in [0 .. N -> Int] /\ h[0] = -1
        /\ \A k \in 1 .. N : h[k] = step[<<k, h[k - 1]>>]
    BY <1>4 DEF IsHistory
  <2>2. ASSUME NEW k \in 0 .. N, k # 0 PROVE g[k] = g[k - 1] + Runes[name[k]] + 1
    <3>1. k \in 1 .. N /\ k - 1 \in 0 .. N
      BY <1>1, <2>2
    <3>2. h[k - 1] \in Int
      BY <2>1, <3>1
    <3>3. h[k] = h[k - 1] + Runes[name[k]] + 1
      BY <1>3, <2>1, <3>1, <3>2
    <3> QED BY <1>5, <3>1, <3>3
  <2>3. g[0] = -1 /\ DOMAIN g = 0 .. N /\ g = [k \in 0 .. N |-> g[k]]
    BY <1>1, <1>5, <2>1
  <2> QED BY <2>2, <2>3
<1>7. PICK w : w = CHOOSE f : Is(f)
  OBVIOUS
<1>8. Is(w)
  BY <1>6, <1>7
<1>9. w[N] \in Int
  <2> DEFINE T == {k \in 0 .. N : w[k] \in Int}
  <2>1. 0 \in T
    BY <1>1, <1>8
  <2>2. ASSUME NEW k \in 0 .. N - 1, k \in T PROVE k + 1 \in T
    <3>1. k + 1 \in 0 .. N /\ k + 1 \in 1 .. N /\ k + 1 # 0 /\ k + 1 - 1 = k
      BY <1>1
    <3>2. w[k + 1] = w[k] + Runes[name[k + 1]] + 1
      <4>1. PICK j \in 0 .. N : j = k + 1 /\ j # 0 /\ j - 1 = k
        BY <3>1
      <4>2. w[j] = w[j - 1] + Runes[name[j]] + 1
        BY <1>8, <4>1
      <4> QED BY <4>1, <4>2
    <3>3. w[k] \in Int /\ Runes[name[k + 1]] \in Nat
      BY <1>1, <2>2, <3>1
    <3> QED BY <3>1, <3>2, <3>3
  <2>3. 0 .. N \subseteq T
    <3> HIDE DEF T
    <3> QED BY <1>1, <2>1, <2>2, UpTo
  <2>4. N \in 0 .. N
    BY <1>1
  <2> QED BY <2>3, <2>4
<1>10. NameWidth(name) = w[N]
  BY <1>7 DEF NameWidth, N
<1> QED BY <1>9, <1>10

LEMMA WidthsAre ==
  ASSUME NEW row, IsRow(row)
  PROVE  PrefixWidth(row) \in Int /\ TextWidth(row) \in Int
<1>1. Len(row.prefix) \in Nat
  BY ListIs DEF IsRow
<1>2. PICK l \in Nat : l = Len(row.prefix)
  BY <1>1
<1>3. 4 * (l - 1) + 1 \in Int /\ 4 * (l + 0) \in Int /\ 4 * (l + 1) \in Int
  OBVIOUS
<1>4. PrefixWidth(row) \in Int
  BY <1>2, <1>3 DEF PrefixWidth, GlyphRunes
<1>5. NameWidth(row.name) \in Int
  BY NameWidthIs DEF IsRow
<1>6. TextWidth(row) \in Int
  BY <1>5 DEF TextWidth
<1> QED BY <1>4, <1>6

\* Some number of a finite list, and of one more, is the largest.
LEMMA LargestIs ==
  ASSUME NEW n \in Nat, NEW a \in Int, NEW v \in [1 .. n -> Int]
  PROVE  \E x \in {a} \cup Range(v) : \A y \in {a} \cup Range(v) : x >= y
<1> DEFINE Upto(m) == {a} \cup {v[k] : k \in 1 .. m}
           T == {m \in 0 .. n : \E x \in Upto(m) : \A y \in Upto(m) : x >= y}
<1>1. 0 \in T
  OBVIOUS
<1>2. ASSUME NEW m \in 0 .. n - 1, m \in T PROVE m + 1 \in T
  <2>1. PICK x \in Upto(m) : \A y \in Upto(m) : x >= y
    BY <1>2
  <2>2. m + 1 \in 1 .. n /\ m + 1 \in 0 .. n
    OBVIOUS
  <2>3. PICK z \in Int : z = v[m + 1]
    BY <2>2
  <2>4. Upto(m + 1) = Upto(m) \cup {z}
    BY <2>3
  <2>5. Upto(m) \subseteq Int
    OBVIOUS
  <2> HIDE DEF Upto
  <2>6. \E w \in Upto(m) \cup {z} : \A y \in Upto(m) \cup {z} : w >= y
    <3>1. CASE x >= z
      BY <2>1, <3>1
    <3>2. CASE ~ (x >= z)
      BY <2>1, <2>5, <3>2
    <3> QED BY <3>1, <3>2
  <2> QED BY <2>2, <2>4, <2>6
<1>3. n \in T
  <2>1. 0 .. n \subseteq T
    <3> HIDE DEF T
    <3> QED BY <1>1, <1>2, UpTo
  <2>2. n \in 0 .. n
    OBVIOUS
  <2> QED BY <2>1, <2>2
<1>4. Upto(n) = {a} \cup Range(v)
  BY DEF Range
<1> QED BY <1>3, <1>4

\* measureTable's column is as wide as its widest row.
LEMMA ColumnIs ==
  ASSUME AreRows(rows)
  PROVE  NameColumn \in Int /\ \A i \in DOMAIN rows : NameColumn >= CellWidth(rows[i])
<1> DEFINE S == {HeaderWidth} \cup {CellWidth(row) : row \in Range(rows)}
<1>1. PICK n \in Nat : DOMAIN rows = 1 .. n
  BY ListIs DEF AreRows
<1>2. PICK v : v = [i \in 1 .. n |-> CellWidth(rows[i])]
  OBVIOUS
<1>3. v \in [1 .. n -> Int]
  <2>1. \A i \in 1 .. n : PrefixWidth(rows[i]) \in Int /\ TextWidth(rows[i]) \in Int
    BY <1>1, WidthsAre DEF AreRows
  <2>2. \A i \in 1 .. n : CellWidth(rows[i]) \in Int
    BY <2>1 DEF CellWidth
  <2> QED BY <1>2, <2>2
<1>4. S = {11} \cup Range(v)
  <2>1. Range(v) = {CellWidth(row) : row \in Range(rows)}
    BY <1>1, <1>2 DEF Range
  <2> QED BY <2>1 DEF HeaderWidth
<1>5. \E x \in S : \A y \in S : x >= y
  <2>1. \E x \in {11} \cup Range(v) : \A y \in {11} \cup Range(v) : x >= y
    <3>1. PICK header \in Int : header = 11
      OBVIOUS
    <3> QED BY <1>3, <3>1, LargestIs
  <2> HIDE DEF S
  <2> QED BY <1>4, <2>1
<1>6. NameColumn = CHOOSE x \in S : \A y \in S : x >= y
  BY DEF NameColumn, Max
<1> HIDE DEF S
<1>7. NameColumn \in S /\ \A y \in S : NameColumn >= y
  BY <1>5, <1>6
<1>8. NameColumn \in Int
  BY <1>3, <1>4, <1>7 DEF Range
<1>9. \A i \in DOMAIN rows : CellWidth(rows[i]) \in S
  BY DEF S, Range
<1> QED BY <1>7, <1>8, <1>9

\* In the text report all values stand in one column, at least two blanks to the
\* right of the longest name beneath its branches.
THEOREM ValuesLineUp == WriteSpec => []ColumnsLineUp
<1>1. WriteInit => WriteInv
  BY WriteStarts
<1>2. WriteInv /\ [WriteNext]_writevars => WriteInv'
  BY StepOfWrite
<1>3. WriteInv => ColumnsLineUp
  <2> SUFFICES ASSUME WriteInv, NEW i \in DOMAIN rows, rows[i].cells # <<>>
               PROVE  /\ Padding(rows[i]) >= 2
                      /\ PrefixWidth(rows[i]) + TextWidth(rows[i]) + Padding(rows[i]) = NameColumn + 2
    BY DEF ColumnsLineUp
  <2>1. AreRows(rows)
    BY DEF WriteInv, WriteTypes, TableInv, TreeInv, EmitInv
  <2>2. PICK p \in Int, t \in Int : p = PrefixWidth(rows[i]) /\ t = TextWidth(rows[i])
    BY <2>1, WidthsAre DEF AreRows
  <2>3. PICK c \in Int : c = NameColumn /\ c >= CellWidth(rows[i])
    BY <2>1, ColumnIs
  <2>4. CellWidth(rows[i]) = p + t
    BY <2>2 DEF CellWidth
  <2>5. Padding(rows[i]) = c - (p + t) + 2
    BY <2>3, <2>4 DEF Padding
  <2>6. c - (p + t) + 2 >= 2 /\ p + t + (c - (p + t) + 2) = c + 2
    BY <2>3, <2>4
  <2> QED BY <2>2, <2>3, <2>5, <2>6
<1> QED BY <1>1, <1>2, <1>3, PTL DEF WriteSpec

-----------------------------------------------------------------------------
\* The offsets of the sequences grow, and every place in their concatenation is a
\* place in one of them.
LEMMA OffsetsGrow ==
  ASSUME NEW O, NEW ss, NEW N \in Nat, Len(ss) = N, IsOffsets(O, ss),
         \A p \in 1 .. N : Len(ss[p]) \in Nat
  PROVE  \A q \in 0 .. N : \A p \in 0 .. q : O[p] <= O[q]
<1> DEFINE T == {q \in 0 .. N : \A p \in 0 .. q : O[p] <= O[q]}
<1>1. O \in [0 .. N -> Nat] /\ \A p \in 1 .. N : O[p] = O[p - 1] + Len(ss[p])
  BY DEF IsOffsets
<1>2. 0 \in T
  <2>1. O[0] \in Nat
    BY <1>1
  <2> QED BY <2>1
<1>3. ASSUME NEW q \in 0 .. N - 1, q \in T PROVE q + 1 \in T
  <2>1. q \in 0 .. N /\ q + 1 \in 0 .. N /\ q + 1 \in 1 .. N /\ q + 1 - 1 = q
    OBVIOUS
  <2>2. PICK a \in Nat, b \in Nat, l \in Nat : a = O[q] /\ b = O[q + 1] /\ l = Len(ss[q + 1])
    BY <1>1, <2>1
  <2>3. b = a + l
    BY <1>1, <2>1, <2>2
  <2>4. ASSUME NEW p \in 0 .. q + 1 PROVE O[p] <= b
    <3>1. CASE p = q + 1
      BY <2>2, <3>1
    <3>2. CASE p # q + 1
      <4>1. p \in 0 .. q /\ p \in 0 .. N
        BY <3>2
      <4>2. PICK c \in Nat : c = O[p] /\ c <= a
        BY <1>1, <1>3, <2>2, <4>1
      <4> QED BY <2>3, <4>2
    <3> QED BY <3>1, <3>2
  <2> QED BY <2>1, <2>2, <2>4
<1>4. 0 .. N \subseteq T
  <2> HIDE DEF T
  <2> QED BY <1>2, <1>3, UpTo
<1> QED BY <1>4

\* Every place of the whole is a place of one of its parts.
PartsOf(O, ss, N) == Len(ss) = N /\ IsOffsets(O, ss) /\ \A p \in 1 .. N : Len(ss[p]) \in Nat

Covered(O, ss, N) == \A j \in 1 .. O[N] : \E p \in 1 .. N : \E t \in 1 .. Len(ss[p]) : j = O[p - 1] + t

LEMMA OffsetsCover ==
  ASSUME NEW O, NEW ss, NEW N \in Nat, PartsOf(O, ss, N)
  PROVE  Covered(O, ss, N)
<1> DEFINE T == {q \in 0 .. N : \A i \in 1 .. O[q] :
                   \E p \in 1 .. N : \E t \in 1 .. Len(ss[p]) : i = O[p - 1] + t}
<1>0. \A p \in 1 .. N : Len(ss[p]) \in Nat
  BY DEF PartsOf
<1>1. O \in [0 .. N -> Nat] /\ O[0] = 0 /\ \A p \in 1 .. N : O[p] = O[p - 1] + Len(ss[p])
  BY DEF PartsOf, IsOffsets
<1>2. 0 \in T
  BY <1>1
<1>3. ASSUME NEW q \in 0 .. N - 1, q \in T PROVE q + 1 \in T
  <2>1. q \in 0 .. N /\ q + 1 \in 0 .. N /\ q + 1 \in 1 .. N /\ q + 1 - 1 = q
    OBVIOUS
  <2>2. PICK a \in Nat, b \in Nat, l \in Nat : a = O[q] /\ b = O[q + 1] /\ l = Len(ss[q + 1])
    BY <1>0, <1>1, <2>1
  <2>3. b = a + l
    BY <1>1, <2>1, <2>2
  <2>4. ASSUME NEW i \in 1 .. b
        PROVE  \E p \in 1 .. N : \E t \in 1 .. Len(ss[p]) : i = O[p - 1] + t
    <3>1. CASE i <= a
      <4>1. i \in 1 .. a
        BY <3>1
      <4> QED BY <1>3, <2>2, <4>1
    <3>2. CASE ~ (i <= a)
      <4>1. PICK t \in 1 .. l : i = a + t
        <5>1. i - a \in 1 .. l /\ i = a + (i - a)
          BY <2>3, <3>2
        <5> QED BY <5>1
      <4>2. PICK p \in 1 .. N : p = q + 1 /\ p - 1 = q
        BY <2>1
      <4> QED BY <2>2, <4>1, <4>2
    <3> QED BY <3>1, <3>2
  <2> QED BY <2>1, <2>2, <2>4
<1>4. N \in T
  <2>1. 0 .. N \subseteq T
    <3> HIDE DEF T
    <3> QED BY <1>2, <1>3, UpTo
  <2>2. N \in 0 .. N
    OBVIOUS
  <2> QED BY <2>1, <2>2
<1> QED BY <1>4 DEF Covered

\* The types collectNoteEntries keeps for a reason are those that have it; they
\* are all only if all have it.
LEMMA TypesWithAre ==
  ASSUME NEW pkg, IsList(pkg.types), NEW reason
  PROVE  /\ \A typ : typ \in Range(TypesWith(pkg, reason)) <=> typ \in Range(pkg.types) /\ typ.reason = reason
         /\ AllTypes(pkg, reason) => \A typ \in Range(pkg.types) : typ.reason = reason
<1> DEFINE T == {typ \in Range(pkg.types) : typ.reason = reason}
<1>1. PICK n, s : n \in Nat /\ s = pkg.types /\ n = Len(s) /\ s \in [1 .. n -> Range(pkg.types)]
  BY ListIs
<1>2. PICK kept : kept = Keep(s, T) /\ kept = TypesWith(pkg, reason)
  BY <1>1 DEF TypesWith
<1>3. IsKept(kept, s, n, T)
  BY <1>1, <1>2, KeepIs
<1>4. PICK N \in Nat : \E pos \in [1 .. N -> 1 .. n] :
        /\ kept = [i \in 1 .. N |-> s[pos[i]]]
        /\ \A i, j \in 1 .. N : i < j => pos[i] < pos[j]
        /\ \A m \in 1 .. n : s[m] \in T <=> \E i \in 1 .. N : pos[i] = m
  BY <1>3 DEF IsKept
<1>5. PICK pos \in [1 .. N -> 1 .. n] :
        /\ kept = [i \in 1 .. N |-> s[pos[i]]]
        /\ \A i, j \in 1 .. N : i < j => pos[i] < pos[j]
        /\ \A m \in 1 .. n : s[m] \in T <=> \E i \in 1 .. N : pos[i] = m
  BY <1>4
<1>6. Range(pkg.types) = {s[m] : m \in 1 .. n}
  BY <1>1 DEF Range
<1>7. DOMAIN kept = 1 .. N /\ \A i \in 1 .. N : kept[i] = s[pos[i]] /\ pos[i] \in 1 .. n
  BY <1>5
<1>8. Range(kept) = {kept[i] : i \in 1 .. N}
  BY <1>7 DEF Range
<1> HIDE DEF T
<1>9. \A typ \in T : typ \in Range(kept)
  <2> SUFFICES ASSUME NEW typ \in T PROVE typ \in Range(kept)
    OBVIOUS
  <2>1. PICK m \in 1 .. n : s[m] = typ
    BY <1>6 DEF T
  <2>2. PICK i \in 1 .. N : pos[i] = m
    BY <1>5, <2>1
  <2> QED BY <1>7, <1>8, <2>1, <2>2
<1>10. \A typ \in Range(kept) : typ \in T
  <2> SUFFICES ASSUME NEW i \in 1 .. N PROVE kept[i] \in T
    BY <1>8
  <2> QED BY <1>5, <1>7
<1>11. Len(kept) = N
  BY <1>5
<1>12. ASSUME AllTypes(pkg, reason) PROVE \A m \in 1 .. n : s[m] \in T
  <2>1. N = n
    BY <1>1, <1>2, <1>11, <1>12 DEF AllTypes
  <2>2. IsFiniteSet(1 .. n)
    BY <1>1, FS_Interval
  <2>3. \A i, j \in 1 .. n : pos[i] = pos[j] => i = j
    <3> SUFFICES ASSUME NEW i \in 1 .. n, NEW j \in 1 .. n, pos[i] = pos[j], i # j PROVE FALSE
      OBVIOUS
    <3>1. i < j \/ j < i
      OBVIOUS
    <3>2. PICK v \in 1 .. n : v = pos[i] /\ v = pos[j]
      BY <2>1
    <3>3. ~ (v < v)
      OBVIOUS
    <3> QED BY <1>5, <2>1, <3>1, <3>2, <3>3
  <2>4. pos \in Injection(1 .. n, 1 .. n)
    BY <2>1, <2>3 DEF Injection, IsInjective
  <2>5. pos \in Surjection(1 .. n, 1 .. n)
    BY <2>2, <2>4, FS_Injection
  <2>6. \A m \in 1 .. n : \E i \in 1 .. N : pos[i] = m
    BY <2>1, <2>5 DEF Surjection
  <2> QED BY <1>5, <2>6
<1>13. \A typ : typ \in T <=> typ \in Range(pkg.types) /\ typ.reason = reason
  BY DEF T
<1> QED
  BY <1>2, <1>6, <1>9, <1>10, <1>12, <1>13

\* A note is about the types with its reason.
Explains(note, typ) == note.all \/ typ.name \in note.who

LEMMA NoteIs ==
  ASSUME NEW pkg, IsList(pkg.types), NEW reason,
         \A a, b \in Range(pkg.types) : a.name = b.name => a = b,
         NEW typ \in Range(pkg.types)
  PROVE  Explains(Note(pkg, reason), typ) <=> typ.reason = reason
<1>1. PICK note : note = Note(pkg, reason)
  OBVIOUS
<1>2. CASE AllTypes(pkg, reason)
  <2>1. note.all
    BY <1>1, <1>2 DEF Note
  <2> QED BY <1>1, <1>2, <2>1, TypesWithAre DEF Explains
<1>3. CASE ~ AllTypes(pkg, reason)
  <2>1. PICK with : with = Range(TypesWith(pkg, reason))
    OBVIOUS
  <2>2. ~ note.all /\ note.who = {other.name : other \in with}
    BY <1>1, <1>3, <2>1 DEF Note
  <2>3. \A other : other \in with <=> other \in Range(pkg.types) /\ other.reason = reason
    BY <2>1, TypesWithAre
  <2> QED BY <1>1, <2>2, <2>3 DEF Explains
<1> QED BY <1>2, <1>3

\* A type's reason is given by one of the notes; a type without one is in none.
IsExplained(typ, notes) ==
  /\ typ.reason = "" => \A k \in DOMAIN notes : ~ Explains(notes[k], typ)
  /\ typ.reason # "" => \E k \in DOMAIN notes :
       notes[k].reason = typ.reason /\ \A l \in DOMAIN notes : Explains(notes[l], typ) <=> l = k

\* A package's notes: one per reason, each about the types with that reason.
LEMMA PackageNotesAre ==
  ASSUME NEW pkg, IsList(pkg.types),
         \A a, b \in Range(pkg.types) : a.name = b.name => a = b
  PROVE  /\ IsList(PackageNotes(pkg)) /\ Len(PackageNotes(pkg)) = Len(ReasonsOf(pkg))
         /\ \A k \in DOMAIN PackageNotes(pkg) : PackageNotes(pkg)[k].kind = "note"
         /\ \A typ \in Range(pkg.types) : IsExplained(typ, PackageNotes(pkg))
<1>1. PICK R : R = ReasonsOf(pkg)
  OBVIOUS
<1>2. /\ IsList(R) /\ Range(R) = {typ.reason : typ \in Range(pkg.types)} \ {""}
      /\ \A i, j \in DOMAIN R : R[i] = R[j] => i = j
  BY <1>1, ReasonsAre
<1>3. PICK g : g = PackageNotes(pkg)
  OBVIOUS
<1>4. DOMAIN g = DOMAIN R /\ (g = [k \in DOMAIN R |-> g[k]]) /\ \A k \in DOMAIN R : g[k] = Note(pkg, R[k])
  BY <1>1, <1>3 DEF PackageNotes
<1>5. IsList(g) /\ Len(g) = Len(R)
  BY <1>2, <1>4, MappedIsList
<1>6. \A k \in DOMAIN g : g[k].kind = "note" /\ g[k].reason = R[k]
  BY <1>4 DEF Note
<1>7. \A k \in DOMAIN g : \A typ \in Range(pkg.types) : Explains(g[k], typ) <=> typ.reason = R[k]
  BY <1>4, NoteIs
<1>8. \A k \in DOMAIN R : R[k] # ""
  BY <1>2 DEF Range
<1>9. ASSUME NEW typ \in Range(pkg.types), typ.reason # ""
      PROVE  \E k \in DOMAIN g : g[k].reason = typ.reason /\ \A l \in DOMAIN g : Explains(g[l], typ) <=> l = k
  <2>1. typ.reason \in Range(R)
    BY <1>2, <1>9
  <2>2. PICK k \in DOMAIN R : R[k] = typ.reason
    BY <2>1 DEF Range
  <2>3. \A l \in DOMAIN g : Explains(g[l], typ) <=> l = k
    BY <1>2, <1>4, <1>7, <2>2
  <2> QED BY <1>4, <1>6, <2>2, <2>3
<1>10. ASSUME NEW typ \in Range(pkg.types), typ.reason = "", NEW k \in DOMAIN g PROVE ~ Explains(g[k], typ)
  BY <1>4, <1>7, <1>8, <1>10
<1>11. IsList(g) /\ Len(g) = Len(R) /\ \A k \in DOMAIN g : g[k].kind = "note"
  BY <1>5, <1>6
<1>12. \A typ \in Range(pkg.types) : IsExplained(typ, g)
  BY <1>9, <1>10 DEF IsExplained
<1> QED BY <1>1, <1>3, <1>11, <1>12

-----------------------------------------------------------------------------
\* writeNotes' part for one package, and where it is.
Section(pkg) == IF ReasonsOf(pkg) = <<>> THEN <<>>
                ELSE <<[kind |-> "notes path", path |-> pkg.path]>> \o PackageNotes(pkg)

LEMMA DistinctIs ==
  ASSUME report \in Reports
  PROVE  /\ \A k, l \in DOMAIN Packages : Packages[k].path = Packages[l].path => k = l
         /\ \A k \in DOMAIN Packages : \A a, b \in Range(Packages[k].types) : a.name = b.name => a = b
  BY ReportTreeAssumption DEF Packages, Range

LEMMA SectionIs ==
  ASSUME NEW pkg, IsList(pkg.types),
         \A a, b \in Range(pkg.types) : a.name = b.name => a = b
  PROVE  \E L \in Nat :
           /\ L = Len(PackageNotes(pkg)) /\ DOMAIN PackageNotes(pkg) = 1 .. L
           /\ IsList(Section(pkg)) /\ Len(Section(pkg)) = IF L = 0 THEN 0 ELSE L + 1
           /\ L # 0 => Section(pkg)[1].kind = "notes path" /\ Section(pkg)[1].path = pkg.path
           /\ \A t \in 1 .. L : /\ Section(pkg)[t + 1] = PackageNotes(pkg)[t]
                                /\ Section(pkg)[t + 1].kind = "note"
<1>1. PICK g : g = PackageNotes(pkg)
  OBVIOUS
<1>2. IsList(g) /\ Len(g) = Len(ReasonsOf(pkg)) /\ \A k \in DOMAIN g : g[k].kind = "note"
  BY <1>1, PackageNotesAre
<1>3. PICK L \in Nat : L = Len(g) /\ DOMAIN g = 1 .. L
  BY <1>2, ListIs
<1>4. L = 0 <=> ReasonsOf(pkg) = <<>>
  <2>1. PICK R : R = ReasonsOf(pkg) /\ R \in Seq(Range(R))
    BY ReasonsAre DEF IsList
  <2>2. R = <<>> <=> Len(R) = 0
    BY <2>1, EmptySeq
  <2> QED BY <1>2, <1>3, <2>1, <2>2
<1>5. PICK head : head = [kind |-> "notes path", path |-> pkg.path]
  OBVIOUS
<1>6. head.kind = "notes path" /\ head.path = pkg.path
  BY <1>5
<1>7. PICK s : s = Section(pkg)
  OBVIOUS
<1>8. s = IF L = 0 THEN <<>> ELSE <<head>> \o g
  BY <1>1, <1>4, <1>5, <1>7 DEF Section
<1>9. CASE L = 0
  <2>1. IsList(s) /\ Len(s) = 0
    BY <1>8, <1>9, EmptyIsList
  <2>2. \A t \in 1 .. L : FALSE
    BY <1>9
  <2>3. \A t \in 1 .. L : s[t + 1] = g[t] /\ s[t + 1].kind = "note"
    BY <2>2
  <2> QED BY <1>1, <1>3, <1>7, <1>9, <2>1, <2>3, Zenon
<1>10. CASE L # 0
  <2> DEFINE U == Range(g) \cup {head}
  <2>1. <<head>> \in Seq(U) /\ Len(<<head>>) = 1 /\ <<head>>[1] = head
    <3>1. head \in U
      OBVIOUS
    <3> HIDE DEF U
    <3> QED BY <3>1, OneInSeq
  <2>2. g \in Seq(U)
    <3>1. Range(g) \subseteq U
      OBVIOUS
    <3> HIDE DEF U
    <3>2. g \in [1 .. L -> Range(g)]
      BY <1>2, <1>3, ListIs
    <3>3. g \in [1 .. L -> U]
      BY <3>1, <3>2
    <3> QED BY <3>3
  <2> HIDE DEF U
  <2>3. IsList(s) /\ Len(s) = 1 + L
    <3>1. s \in Seq(U) /\ Len(s) = Len(<<head>>) + Len(g)
      BY <1>8, <1>10, <2>1, <2>2, ConcatProperties
    <3> QED BY <1>3, <2>1, <3>1, SequenceIsList
  <2>4. s[1] = head
    BY <1>8, <1>10, <2>1, <2>2
  <2>5. ASSUME NEW t \in 1 .. L PROVE s[t + 1] = g[t]
    <3>1. t + 1 \in 1 .. 1 + L /\ ~ (t + 1 <= 1) /\ t + 1 - 1 = t
      OBVIOUS
    <3> QED BY <1>3, <1>8, <1>10, <2>1, <2>2, <3>1, ConcatProperties
  <2>6. Len(s) = L + 1
    <3>1. 1 + L = L + 1
      OBVIOUS
    <3> QED BY <2>3, <3>1
  <2>7. \A t \in 1 .. L : s[t + 1] = g[t] /\ s[t + 1].kind = "note"
    BY <1>2, <1>3, <2>5
  <2> QED BY <1>1, <1>3, <1>6, <1>7, <1>10, <2>3, <2>4, <2>6, <2>7
<1> QED BY <1>9, <1>10

\* The notes are the sections of the packages, one after the other, below a title.
LEMMA NotesAre ==
  ASSUME report \in Reports, NEW N \in Nat, N = Len(Packages)
  PROVE  \E O \in [0 .. N -> Nat] :
           /\ \A p \in 1 .. N : O[p] = O[p - 1] + Len(Section(Packages[p]))
           /\ \A q \in 0 .. N : \A p \in 0 .. q : O[p] <= O[q]
           /\ \A i \in 1 .. O[N] : \E p \in 1 .. N : \E t \in 1 .. Len(Section(Packages[p])) : i = O[p - 1] + t
           /\ DOMAIN Notes = IF O[N] = 0 THEN {} ELSE 1 .. 1 + O[N]
           /\ O[N] # 0 => Notes[1].kind = "notes title"
           /\ \A p \in 1 .. N : \A t \in 1 .. Len(Section(Packages[p])) :
                /\ O[p - 1] + t \in 1 .. O[N]
                /\ Notes[O[p - 1] + t + 1] = Section(Packages[p])[t]
<1>1. IsList(Packages) /\ DOMAIN Packages = 1 .. N /\ \A k \in 1 .. N : IsList(Section(Packages[k]))
  BY ReportIs, ListIs, DistinctIs, SectionIs
<1>2. PICK ss : ss = [k \in DOMAIN Packages |-> Section(Packages[k])]
  OBVIOUS
<1>3. DOMAIN ss = 1 .. N /\ \A k \in 1 .. N : ss[k] = Section(Packages[k]) /\ IsList(ss[k])
  BY <1>1, <1>2
<1>4. IsList(ss) /\ Len(ss) = N
  <2>1. ss = [k \in DOMAIN Packages |-> ss[k]]
    BY <1>2
  <2> QED BY <1>1, <1>3, <2>1, MappedIsList
<1>5. PICK body : body = FlattenSeq(ss)
  OBVIOUS
<1>6. PICK O, T : IsFlat(body, O, ss, T)
  BY <1>3, <1>4, <1>5, ListsFlatten
<1>7. IsOffsets(O, ss) /\ O \in [0 .. N -> Nat] /\ \A p \in 1 .. N : O[p] = O[p - 1] + Len(ss[p])
  BY <1>4, <1>6 DEF IsFlat, IsOffsets
<1>8. \A p \in 1 .. N : Len(ss[p]) \in Nat
  BY <1>3, ListIs
<1>9. /\ \A q \in 0 .. N : \A p \in 0 .. q : O[p] <= O[q]
      /\ \A i \in 1 .. O[N] : \E p \in 1 .. N : \E t \in 1 .. Len(ss[p]) : i = O[p - 1] + t
  <2>1. Len(ss) = N /\ IsOffsets(O, ss)
    BY <1>4, <1>7
  <2>2. \A q \in 0 .. N : \A p \in 0 .. q : O[p] <= O[q]
    BY <1>8, <2>1, OffsetsGrow
  <2>3. PartsOf(O, ss, N)
    BY <1>8, <2>1 DEF PartsOf
  <2>4. Covered(O, ss, N)
    BY <2>3, N \in Nat, OffsetsCover, Zenon
  <2> QED BY <2>2, <2>4 DEF Covered
<1>10. PICK n \in Nat : n = O[N]
  BY <1>7
<1>11. body \in Seq(T) /\ Len(body) = n
  BY <1>4, <1>6, <1>10 DEF IsFlat
<1>12. \A p \in 1 .. N : \A t \in 1 .. Len(ss[p]) : O[p - 1] + t \in 1 .. n /\ body[O[p - 1] + t] = ss[p][t]
  BY <1>4, <1>6, <1>10 DEF IsFlat
<1>13. PICK title : title = [kind |-> "notes title"]
  OBVIOUS
<1>14. PICK notes : notes = Notes
  OBVIOUS
<1>15. notes = IF body = <<>> THEN <<>> ELSE <<title>> \o body
  BY <1>2, <1>5, <1>13, <1>14 DEF Notes, Section
<1>16. /\ DOMAIN notes = IF n = 0 THEN {} ELSE 1 .. 1 + n
       /\ n # 0 => notes[1].kind = "notes title"
       /\ \A i \in 1 .. n : notes[i + 1] = body[i]
  <2>1. CASE n = 0
    <3>1. body = <<>>
      BY <1>11, <2>1
    <3>2. notes = <<>> /\ DOMAIN <<>> = {}
      BY <1>15, <3>1
    <3> QED BY <2>1, <3>2
  <2>2. CASE n # 0
    <3>1. body # <<>>
      BY <1>11, <2>2
    <3> DEFINE U == T \cup {title}
    <3>2. title \in U /\ T \subseteq U
      OBVIOUS
    <3> HIDE DEF U
    <3>3. <<title>> \in Seq(U) /\ Len(<<title>>) = 1 /\ <<title>>[1] = title
      BY <3>2, OneInSeq
    <3>4. body \in Seq(U)
      BY <1>11, <3>2
    <3>5. notes = <<title>> \o body
      BY <1>15, <3>1
    <3>6. notes \in Seq(U) /\ Len(notes) = Len(<<title>>) + Len(body)
      BY <3>3, <3>4, <3>5, ConcatProperties
    <3>7. DOMAIN notes = 1 .. 1 + n
      BY <1>11, <3>3, <3>6
    <3>8. notes[1] = title /\ title.kind = "notes title"
      <4>1. 1 \in 1 .. 1 + n /\ 1 <= 1
        OBVIOUS
      <4>2. notes[1] = <<title>>[1]
        BY <1>11, <3>3, <3>4, <3>5, <4>1, ConcatProperties
      <4> QED BY <1>13, <3>3, <4>2
    <3>9. ASSUME NEW i \in 1 .. n PROVE notes[i + 1] = body[i]
      <4>1. i + 1 \in 1 .. 1 + n /\ ~ (i + 1 <= 1) /\ i + 1 - 1 = i
        OBVIOUS
      <4> QED BY <1>11, <3>3, <3>4, <3>5, <4>1, ConcatProperties
    <3> QED BY <2>2, <3>7, <3>8, <3>9
  <2> QED BY <2>1, <2>2
<1>17. ASSUME NEW p \in 1 .. N, NEW t \in 1 .. Len(ss[p])
       PROVE  O[p - 1] + t \in 1 .. n /\ notes[O[p - 1] + t + 1] = ss[p][t]
  <2>1. PICK i \in 1 .. n : i = O[p - 1] + t /\ body[i] = ss[p][t]
    BY <1>12
  <2>2. notes[i + 1] = body[i]
    BY <1>16
  <2> QED BY <2>1, <2>2
<1>18. \A p \in 1 .. N : Section(Packages[p]) = ss[p]
  BY <1>3
<1>19. \A i \in 1 .. n : \E p \in 1 .. N : \E t \in 1 .. Len(ss[p]) : i = O[p - 1] + t
  BY <1>9, <1>10
<1> SUFFICES /\ \A p \in 1 .. N : O[p] = O[p - 1] + Len(Section(Packages[p]))
             /\ \A i \in 1 .. n : \E p \in 1 .. N : \E t \in 1 .. Len(Section(Packages[p])) : i = O[p - 1] + t
             /\ \A p \in 1 .. N : \A t \in 1 .. Len(Section(Packages[p])) :
                  /\ O[p - 1] + t \in 1 .. n
                  /\ notes[O[p - 1] + t + 1] = Section(Packages[p])[t]
  BY <1>7, <1>9, <1>10, <1>14, <1>16
<1>20. \A p \in 1 .. N : O[p] = O[p - 1] + Len(Section(Packages[p]))
  BY <1>7, <1>18
<1>21. \A i \in 1 .. n : \E p \in 1 .. N : \E t \in 1 .. Len(Section(Packages[p])) : i = O[p - 1] + t
  BY <1>18, <1>19
<1>22. \A p \in 1 .. N : \A t \in 1 .. Len(Section(Packages[p])) :
         O[p - 1] + t \in 1 .. n /\ notes[O[p - 1] + t + 1] = Section(Packages[p])[t]
  BY <1>17, <1>18
<1> QED BY <1>20, <1>21, <1>22

\* A reader's notes of a package: what stands beneath its path and above the next.
Beneath(path) ==
  {i \in DOMAIN Notes : \E j \in 1 .. i - 1 :
     /\ Notes[j].kind = "notes path" /\ Notes[j].path = path
     /\ \A l \in j + 1 .. i : Notes[l].kind = "note"}

LEMMA BeneathIs ==
  ASSUME report \in Reports, NEW k \in DOMAIN Packages
  PROVE  \E base \in Nat :
           /\ Beneath(Packages[k].path) = {base + t : t \in DOMAIN PackageNotes(Packages[k])}
           /\ \A t \in DOMAIN PackageNotes(Packages[k]) :
                Notes[base + t] = PackageNotes(Packages[k])[t]
<1>1. PICK N \in Nat : N = Len(Packages) /\ DOMAIN Packages = 1 .. N
  BY ReportIs, ListIs
<1>2. /\ \A p, q \in 1 .. N : Packages[p].path = Packages[q].path => p = q
      /\ \A p \in 1 .. N : /\ IsList(Packages[p].types)
                           /\ \A a, b \in Range(Packages[p].types) : a.name = b.name => a = b
  BY <1>1, ReportIs, DistinctIs
<1> DEFINE S(p) == Section(Packages[p])
<1>3. PICK O \in [0 .. N -> Nat] :
        /\ \A p \in 1 .. N : O[p] = O[p - 1] + Len(S(p))
        /\ \A q \in 0 .. N : \A p \in 0 .. q : O[p] <= O[q]
        /\ \A i \in 1 .. O[N] : \E p \in 1 .. N : \E t \in 1 .. Len(S(p)) : i = O[p - 1] + t
        /\ DOMAIN Notes = IF O[N] = 0 THEN {} ELSE 1 .. 1 + O[N]
        /\ O[N] # 0 => Notes[1].kind = "notes title"
        /\ \A p \in 1 .. N : \A t \in 1 .. Len(S(p)) :
             O[p - 1] + t \in 1 .. O[N] /\ Notes[O[p - 1] + t + 1] = S(p)[t]
  BY <1>1, NotesAre
<1>4. ASSUME NEW p \in 1 .. N
      PROVE  \E L \in Nat :
               /\ L = Len(PackageNotes(Packages[p])) /\ DOMAIN PackageNotes(Packages[p]) = 1 .. L
               /\ Len(S(p)) = IF L = 0 THEN 0 ELSE L + 1
               /\ L # 0 => S(p)[1].kind = "notes path" /\ S(p)[1].path = Packages[p].path
               /\ \A t \in 1 .. L : S(p)[t + 1] = PackageNotes(Packages[p])[t] /\ S(p)[t + 1].kind = "note"
  <2>1. PICK pkg : pkg = Packages[p]
    OBVIOUS
  <2>2. IsList(pkg.types) /\ \A a, b \in Range(pkg.types) : a.name = b.name => a = b
    BY <1>2, <2>1
  <2> QED BY <2>1, <2>2, SectionIs
<1> HIDE DEF S
<1>5. PICK n \in Nat : n = O[N]
  <2>1. N \in 0 .. N
    BY <1>1
  <2> QED BY <2>1
<1>6. k \in 1 .. N /\ k - 1 \in 0 .. N /\ k \in 0 .. N
  BY <1>1
<1>7. PICK a \in Nat : a = O[k - 1]
  BY <1>6
<1>8. PICK L \in Nat :
        /\ L = Len(PackageNotes(Packages[k])) /\ DOMAIN PackageNotes(Packages[k]) = 1 .. L
        /\ Len(S(k)) = IF L = 0 THEN 0 ELSE L + 1
        /\ L # 0 => S(k)[1].kind = "notes path" /\ S(k)[1].path = Packages[k].path
        /\ \A t \in 1 .. L : S(k)[t + 1] = PackageNotes(Packages[k])[t] /\ S(k)[t + 1].kind = "note"
  BY <1>4, <1>6
\* Where the lines of a section are.
<1>9. \A p \in 1 .. N : \A t \in 1 .. Len(S(p)) :
        O[p - 1] + t \in 1 .. n /\ Notes[O[p - 1] + t + 1] = S(p)[t]
  BY <1>3, <1>5
<1>10. DOMAIN Notes = (IF n = 0 THEN {} ELSE 1 .. 1 + n) /\ (n # 0 => Notes[1].kind = "notes title")
  BY <1>3, <1>5
<1>11. \A i \in 1 .. n : \E p \in 1 .. N : \E t \in 1 .. Len(S(p)) : i = O[p - 1] + t
  BY <1>3, <1>5
<1>12. ASSUME NEW t \in 1 .. L + 1, L # 0 PROVE a + t \in 1 .. n /\ Notes[a + t + 1] = S(k)[t]
  BY <1>6, <1>7, <1>8, <1>9, <1>12
<1>13. ASSUME NEW t \in 1 .. L
       PROVE  /\ a + 2 + t \in DOMAIN Notes /\ Notes[a + 2 + t] = PackageNotes(Packages[k])[t]
              /\ Notes[a + 2 + t].kind = "note"
  <2>1. L # 0 /\ t + 1 \in 1 .. L + 1 /\ a + (t + 1) + 1 = a + 2 + t
    OBVIOUS
  <2>2. a + (t + 1) \in 1 .. n /\ Notes[a + (t + 1) + 1] = S(k)[t + 1]
    BY <1>12, <2>1
  <2>3. n # 0 /\ a + 2 + t \in 1 .. 1 + n
    BY <2>1, <2>2, SMTT(30)
  <2> QED BY <1>8, <1>10, <2>1, <2>2, <2>3
<1>14. ASSUME L # 0
       PROVE  Notes[a + 2].kind = "notes path" /\ Notes[a + 2].path = Packages[k].path
  <2>1. 1 \in 1 .. L + 1 /\ a + 1 + 1 = a + 2
    OBVIOUS
  <2> QED BY <1>8, <1>12, <1>14, <2>1
<1>15. ASSUME NEW t \in 1 .. L PROVE a + 2 + t \in Beneath(Packages[k].path)
  <2>1. L # 0 /\ a + 2 \in 1 .. (a + 2 + t) - 1
    OBVIOUS
  <2>2. ASSUME NEW l \in (a + 2) + 1 .. a + 2 + t PROVE Notes[l].kind = "note"
    <3>1. l - (a + 2) \in 1 .. L /\ l = a + 2 + (l - (a + 2))
      OBVIOUS
    <3> QED BY <1>13, <3>1
  <2> QED BY <1>13, <1>14, <2>1, <2>2 DEF Beneath
\* Nothing else stands there: what has the path's line above it and no other path's
\* in between is in that section.
<1>16. ASSUME NEW i \in Beneath(Packages[k].path) PROVE \E t \in 1 .. L : i = a + 2 + t
  <2>1. PICK j \in 1 .. i - 1 : /\ Notes[j].kind = "notes path" /\ Notes[j].path = Packages[k].path
                                /\ \A l \in j + 1 .. i : Notes[l].kind = "note"
    BY DEF Beneath
  <2>2. i \in 1 .. 1 + n /\ n # 0
    BY <1>10 DEF Beneath
  <2>3. j # 1
    BY <1>10, <2>1, <2>2
  <2>4. j - 1 \in 1 .. n /\ i - 1 \in 1 .. n /\ i \in Nat /\ j \in Nat /\ j < i
    BY <2>2, <2>3
  <2>5. PICK p, t : p \in 1 .. N /\ t \in 1 .. Len(S(p)) /\ j - 1 = O[p - 1] + t
    BY <1>11, <2>4
  <2>6. p = k /\ j = a + 2 /\ L # 0
    <3>1. p - 1 \in 0 .. N
      BY <1>1, <2>5
    <3>2. PICK b \in Nat : b = O[p - 1]
      BY <3>1
    <3>3. PICK M \in Nat : /\ Len(S(p)) = IF M = 0 THEN 0 ELSE M + 1
                           /\ M # 0 => S(p)[1].kind = "notes path" /\ S(p)[1].path = Packages[p].path
                           /\ \A u \in 1 .. M : S(p)[u + 1].kind = "note"
      BY <1>4, <2>5
    <3>4. M # 0 /\ t \in 1 .. M + 1 /\ Len(S(p)) # 0
      <4>1. PICK l : l = IF M = 0 THEN 0 ELSE M + 1
        OBVIOUS
      <4>2. l = Len(S(p)) /\ l \in Nat
        <5>1. l \in Nat
          BY <4>1
        <5>2. Len(S(p)) = IF M = 0 THEN 0 ELSE M + 1
          BY <3>3, Zenon
        <5>3. l = Len(S(p))
          BY <4>1, <5>2, Zenon
        <5> QED BY <5>1, <5>3
      <4>3. t \in 1 .. l
        BY <2>5, <4>2
      <4>4. M # 0 /\ t \in 1 .. M + 1 /\ l # 0
        BY <4>1, <4>2, <4>3
      <4> QED BY <4>2, <4>4
    <3>5. Notes[b + t + 1] = S(p)[t]
      BY <1>9, <2>5, <3>2
    <3>6. b + t + 1 = j
      BY <2>4, <2>5, <3>2, <3>4
    <3>7. t = 1
      <4>1. CASE t # 1
        <5>1. t - 1 \in 1 .. M /\ t - 1 + 1 = t
          BY <3>4, <4>1
        <5> QED BY <2>1, <3>3, <3>5, <3>6, <5>1
      <4> QED BY <4>1
    <3>8. p = k
      <4>1. S(p)[1].path = Packages[k].path
        BY <2>1, <3>5, <3>6, <3>7
      <4>2. S(p)[1].path = Packages[p].path
        BY <3>3, <3>4
      <4> QED BY <1>2, <1>6, <2>5, <4>1, <4>2
    <3>9. a = b /\ L # 0
      <4>1. Len(S(k)) # 0
        BY <3>4, <3>8
      <4> QED BY <1>7, <1>8, <3>2, <3>8, <4>1
    <3> QED BY <3>6, <3>7, <3>8, <3>9
  <2>7. PICK q, u : q \in 1 .. N /\ u \in 1 .. Len(S(q)) /\ i - 1 = O[q - 1] + u
    BY <1>11, <2>4
  <2>8. q - 1 \in 0 .. N /\ q \in 0 .. N
    BY <1>1, <2>7
  <2>9. PICK b \in Nat, c \in Nat : b = O[q - 1] /\ c = O[q]
    BY <2>8
  <2>10. PICK m \in Nat : m = Len(S(q)) /\ u \in 1 .. m /\ c = b + m
    <3>1. Len(S(q)) \in Nat
      <4>1. PICK M \in Nat : Len(S(q)) = IF M = 0 THEN 0 ELSE M + 1
        BY <1>4, <2>7
      <4> QED BY <4>1
    <3> QED BY <1>3, <2>7, <2>9, <3>1
  <2>11. i = b + u + 1
    BY <2>2, <2>7, <2>9, <2>10
  <2>12. ~ (q < k)
    <3> SUFFICES ASSUME q < k PROVE FALSE
      OBVIOUS
    <3>1. q \in 0 .. k - 1
      BY <1>6, <2>7
    <3>2. c <= a
      BY <1>3, <1>6, <1>7, <2>9, <3>1
    <3>3. i \in Int /\ a + 2 <= i - 1
      BY <2>4, <2>6
    <3>4. PICK v \in 1 .. m : v = u
      BY <2>10
    <3>5. b + v + 1 <= b + m + 1
      OBVIOUS
    <3> QED BY <2>10, <2>11, <3>2, <3>3, <3>4, <3>5
  <2>13. ~ (k < q)
    <3> SUFFICES ASSUME k < q PROVE FALSE
      OBVIOUS
    <3>1. k \in 0 .. q - 1
      BY <1>6, <2>7
    <3>2. PICK e \in Nat : e = O[k] /\ e <= b
      BY <1>3, <1>6, <2>8, <2>9, <3>1
    <3>3. e = a + (L + 1)
      BY <1>3, <1>6, <1>7, <1>8, <2>6, <3>2
    <3>4. b + 1 + 1 \in j + 1 .. i
      BY <2>6, <2>10, <2>11, <3>2, <3>3
    <3>5. Notes[b + 1 + 1].kind = "note"
      BY <2>1, <3>4
    <3>6. 1 \in 1 .. m
      BY <2>10
    <3>7. Notes[b + 1 + 1] = S(q)[1]
      BY <1>9, <2>7, <2>9, <2>10, <3>6
    <3>8. S(q)[1].kind = "notes path"
      <4>1. PICK M \in Nat : /\ Len(S(q)) = IF M = 0 THEN 0 ELSE M + 1
                             /\ M # 0 => S(q)[1].kind = "notes path"
        BY <1>4, <2>7
      <4>2. m # 0
        BY <3>6
      <4> QED BY <2>10, <4>1, <4>2
    <3> QED BY <3>5, <3>7, <3>8
  <2>14. q = k
    BY <1>6, <2>7, <2>12, <2>13
  <2>15. a = b /\ m = L + 1
    BY <1>7, <1>8, <2>6, <2>9, <2>10, <2>14
  <2>16. u - 1 \in 1 .. L /\ i = a + 2 + (u - 1)
    <3>1. PICK v \in 1 .. m : v = u
      BY <2>10
    <3>2. i = a + v + 1 /\ a + 2 < i /\ m = L + 1
      BY <2>4, <2>6, <2>11, <2>15, <3>1
    <3>3. v - 1 \in 1 .. L /\ i = a + 2 + (v - 1)
      BY <3>2
    <3> QED BY <3>1, <3>3
  <2> QED BY <2>16
<1>17. Beneath(Packages[k].path) = {(a + 2) + t : t \in 1 .. L}
  BY <1>15, <1>16
<1>18. a + 2 \in Nat
  OBVIOUS
<1> QED BY <1>8, <1>13, <1>17, <1>18

\* The legend below the table is there exactly if the mark is in it.
LEMMA LegendIs ==
  ASSUME AreRows(rows)
  PROVE  (\E k \in DOMAIN TextTail(FALSE) : TextTail(FALSE)[k].kind = "legend")
           <=> \E i \in DOMAIN rows : \E c \in Range(rows[i].cells) : c.count = 0
<1>1. PICK legend : legend = [kind |-> "legend"]
  OBVIOUS
<1>2. PICK tail : tail = TextTail(FALSE)
  OBVIOUS
<1>3. tail = (IF SawNA THEN <<legend>> ELSE <<>>) \o <<>>
  BY <1>1, <1>2 DEF TextTail, Legend, Explanation
<1>4. SawNA <=> \E k \in DOMAIN tail : tail[k].kind = "legend"
  <2>1. legend.kind = "legend"
    BY <1>1
  <2>2. CASE SawNA
    <3>1. <<legend>> \in Seq({legend})
      OBVIOUS
    <3>2. tail = <<legend>>
      BY <1>3, <2>2, <3>1, ConcatEmptySeq
    <3>3. 1 \in DOMAIN <<legend>> /\ <<legend>>[1] = legend
      OBVIOUS
    <3> QED BY <2>1, <2>2, <3>2, <3>3
  <2>3. CASE ~ SawNA
    <3>1. <<>> \in Seq({legend}) /\ DOMAIN <<>> = {}
      OBVIOUS
    <3>2. tail = <<>>
      BY <1>3, <2>3, <3>1, ConcatEmptySeq
    <3> QED BY <2>3, <3>1, <3>2
  <2> QED BY <2>2, <2>3
<1>5. ASSUME NEW i \in DOMAIN rows
      PROVE  rows[i].cells = <<NoStat>> <=> \E c \in Range(rows[i].cells) : c.count = 0
  <2>1. PICK cs : cs = rows[i].cells
    OBVIOUS
  <2>2. CellsAre(cs)
    BY <2>1 DEF AreRows, IsRow
  <2>3. CASE cs = <<>>
    <3>1. Range(cs) = {} /\ cs # <<NoStat>>
      BY <2>3 DEF Range
    <3> QED BY <2>1, <3>1
  <2>4. ASSUME NEW stat, cs = <<stat>>, stat.count = 0 => stat = NoStat
        PROVE  cs = <<NoStat>> <=> \E c \in Range(cs) : c.count = 0
    <3>1. Range(cs) = {stat}
      BY <2>4 DEF Range
    <3>2. cs = <<NoStat>> => stat = NoStat
      BY <2>4
    <3> QED BY <2>4, <3>1, <3>2, NoStatIs
  <2> QED BY <2>1, <2>2, <2>3, <2>4 DEF CellsAre
<1> QED BY <1>2, <1>4, <1>5 DEF SawNA

\* The mark of a value that does not apply is explained: the legend is there
\* exactly if the mark is, and with -explain each type that has a reason is named
\* beneath its package, once, by the note with that reason and by no other.
THEOREM ReasonsAreExplained == WriteSpec => []NotesExplainNA
<1>1. WriteInit => WriteInv
  BY WriteStarts
<1>2. WriteInv /\ [WriteNext]_writevars => WriteInv'
  BY StepOfWrite
<1>3. WriteInv => NotesExplainNA
  <2> SUFFICES ASSUME WriteInv PROVE NotesExplainNA
    OBVIOUS
  <2>1. report \in Reports /\ AreRows(rows)
    BY DEF WriteInv, WriteTypes, TableInv, TreeInv, EmitInv
  <2>2. ASSUME NEW k \in DOMAIN Packages, NEW typ \in Range(Packages[k].types)
        PROVE  LET own == Beneath(Packages[k].path)
                   naming == {i \in own : Notes[i].all \/ typ.name \in Notes[i].who}
               IN IF typ.reason = "" THEN naming = {}
                  ELSE \E i \in own : naming = {i} /\ Notes[i].reason = typ.reason
    <3> DEFINE own == Beneath(Packages[k].path)
               naming == {i \in own : Notes[i].all \/ typ.name \in Notes[i].who}
    <3> HIDE DEF own, naming
    <3>0. PICK pkg : pkg = Packages[k]
      OBVIOUS
    <3>1. PICK g : g = PackageNotes(pkg)
      OBVIOUS
    <3>2. IsList(pkg.types) /\ typ \in Range(pkg.types) /\ \A a, b \in Range(pkg.types) : a.name = b.name => a = b
      BY <2>1, <3>0, ReportIs, DistinctIs
    <3>3. /\ typ.reason = "" => \A t \in DOMAIN g : ~ Explains(g[t], typ)
          /\ typ.reason # "" => \E t \in DOMAIN g :
               g[t].reason = typ.reason /\ \A l \in DOMAIN g : Explains(g[l], typ) <=> l = t
      <4>1. IsExplained(typ, g)
        BY <3>1, <3>2, PackageNotesAre
      <4> QED BY <4>1 DEF IsExplained
    <3>4. PICK L \in Nat : DOMAIN g = 1 .. L
      BY <3>1, <3>2, PackageNotesAre, ListIs
    <3>5. PICK base \in Nat : own = {base + t : t \in 1 .. L} /\ \A t \in 1 .. L : Notes[base + t] = g[t]
      BY <2>1, <3>0, <3>1, <3>4, BeneathIs DEF own
    <3>6. naming = {i \in own : Explains(Notes[i], typ)}
      BY DEF Explains, naming
    <3>7. CASE typ.reason = ""
      <4>1. \A t \in 1 .. L : ~ Explains(Notes[base + t], typ)
        BY <3>3, <3>4, <3>5, <3>7
      <4>2. naming = {}
        BY <3>5, <3>6, <4>1
      <4> QED BY <3>7, <4>2 DEF naming, own
    <3>8. CASE typ.reason # ""
      <4>1. PICK t \in DOMAIN g : g[t].reason = typ.reason /\ \A l \in DOMAIN g : Explains(g[l], typ) <=> l = t
        BY <3>3, <3>8
      <4>2. t \in 1 .. L /\ \A l \in 1 .. L : Explains(Notes[base + l], typ) <=> l = t
        BY <3>4, <3>5, <4>1
      <4>3. PICK i : i = base + t
        OBVIOUS
      <4>4. i \in own /\ Notes[i].reason = typ.reason
        BY <3>5, <4>1, <4>2, <4>3
      <4>5. naming = {i}
        BY <3>5, <3>6, <4>2, <4>3
      <4> QED BY <3>8, <4>4, <4>5 DEF naming, own
    <3> QED BY <3>7, <3>8
  <2>3. (\E k \in DOMAIN TextTail(FALSE) : TextTail(FALSE)[k].kind = "legend")
          <=> \E i \in DOMAIN rows : \E c \in Range(rows[i].cells) : c.count = 0
    BY <2>1, LegendIs
  <2> QED BY <2>2, <2>3 DEF NotesExplainNA, Beneath
<1> QED BY <1>1, <1>2, <1>3, PTL DEF WriteSpec

-----------------------------------------------------------------------------
(***************************************************************************)
(* The rows that emitNode and emitTreeRows append, and the calls that      *)
(* emitNode leaves, place by place.                                        *)
(***************************************************************************)
\* u is s, of length m, followed by t, of length n, place by place.
IsJoin(u, s, m, t, n) ==
  /\ IsList(u) /\ Len(u) = m + n
  /\ \A i \in 1 .. m : u[i] = s[i]
  /\ \A i \in 1 .. n : u[m + i] = t[i]

LEMMA PlacesOfConcat ==
  ASSUME NEW s, NEW t, IsList(s), IsList(t), NEW m \in Nat, NEW n \in Nat, Len(s) = m, Len(t) = n
  PROVE  IsJoin(s \o t, s, m, t, n)
<1> DEFINE U == Range(s) \cup Range(t)
<1>1. s \in [1 .. m -> U] /\ t \in [1 .. n -> U]
  BY ListIs
<1>2. IsList(s \o t) /\ Len(s \o t) = m + n
  BY ListConcat
<1> HIDE DEF U
<1>3. s \in Seq(U) /\ t \in Seq(U)
  BY <1>1
<1>4. \A i \in 1 .. m + n : (s \o t)[i] = IF i <= m THEN s[i] ELSE t[i - m]
  BY <1>3, ConcatProperties
<1>5. PICK u : u = s \o t
  OBVIOUS
<1>6. \A i \in 1 .. m : u[i] = s[i]
  BY <1>4, <1>5
<1>7. \A i \in 1 .. n : u[m + i] = t[i]
  BY <1>4, <1>5
<1> QED BY <1>2, <1>5, <1>6, <1>7 DEF IsJoin

\* The first call and those after it.
LEMMA PlacesOfTail ==
  ASSUME NEW s, IsList(s), s # <<>>
  PROVE  \E n \in Nat : /\ Len(s) = n + 1 /\ Head(s) = s[1]
                        /\ IsList(Tail(s)) /\ Len(Tail(s)) = n
                        /\ \A i \in 1 .. n : Tail(s)[i] = s[i + 1]
<1>1. s \in Seq(Range(s))
  BY DEF IsList
<1>2. Tail(s) \in Seq(Range(s)) /\ Len(Tail(s)) = Len(s) - 1 /\ Len(s) \in Nat \ {0}
  BY <1>1
<1>3. \A i \in 1 .. Len(s) - 1 : Tail(s)[i] = s[i + 1]
  BY <1>1
<1>4. IsList(Tail(s))
  BY <1>2, SequenceIsList
<1>5. PICK L \in Nat \ {0} : L = Len(s)
  BY <1>2
<1>6. Head(s) = s[1] /\ L - 1 \in Nat /\ L = (L - 1) + 1
  BY <1>1, <1>5
<1> QED BY <1>2, <1>3, <1>4, <1>5, <1>6

\* What emitNode appends to the rows.
LEMMA PlacesOfEmitted ==
  ASSUME NEW old, NEW gap, NEW one, NEW ts, IsList(old), IsList(gap), IsList(one), IsList(ts),
         NEW L \in Nat, NEW G \in Nat, NEW T \in Nat, NEW N \in Nat,
         Len(old) = L, Len(gap) = G, Len(one) = 1, Len(ts) = T, N = L + G + 1
  PROVE  \E a, b :
           /\ IsJoin(a, old, L, gap, G) /\ IsJoin(b, a, L + G, one, 1)
           /\ IsJoin(old \o gap \o one \o ts, b, N, ts, T)
<1>1. PICK M \in Nat, K \in Nat : M = L + G /\ K = 1
  OBVIOUS
<1>2. IsJoin(old \o gap, old, L, gap, G)
  BY PlacesOfConcat
<1>3. PICK a : a = old \o gap
  OBVIOUS
<1>4. IsJoin(a, old, L, gap, G) /\ IsList(a) /\ Len(a) = M
  <2>1. IsJoin(a, old, L, gap, G)
    BY <1>2, <1>3
  <2> QED BY <1>1, <2>1 DEF IsJoin
<1>5. IsJoin(a \o one, a, M, one, K)
  <2>1. Len(one) = K
    BY <1>1
  <2> QED BY <1>4, <2>1, PlacesOfConcat
<1>6. PICK b : b = a \o one
  OBVIOUS
<1>7. IsJoin(b, a, L + G, one, 1) /\ IsList(b) /\ Len(b) = N
  <2>1. IsJoin(b, a, M, one, K)
    BY <1>5, <1>6
  <2>2. IsList(b) /\ Len(b) = M + K
    BY <2>1 DEF IsJoin
  <2> QED BY <1>1, <2>1, <2>2
<1>8. IsJoin(b \o ts, b, N, ts, T)
  BY <1>7, PlacesOfConcat
<1> QED BY <1>3, <1>4, <1>6, <1>7, <1>8

\* The same, put together.
IsEmitted(new, old, L, gap, G, row, N, ts, T) ==
  /\ IsList(new) /\ Len(new) = N + T
  /\ \A i \in 1 .. L : new[i] = old[i]
  /\ \A i \in 1 .. G : new[L + i] = gap[i]
  /\ new[N] = row
  /\ \A i \in 1 .. T : new[N + i] = ts[i]

LEMMA EmittedIs ==
  ASSUME NEW old, NEW gap, NEW row, NEW ts, IsList(old), IsList(gap), IsList(ts),
         NEW L \in Nat, NEW G \in Nat, NEW T \in Nat, NEW N \in Nat,
         Len(old) = L, Len(gap) = G, Len(ts) = T, N = L + G + 1
  PROVE  IsEmitted(old \o gap \o <<row>> \o ts, old, L, gap, G, row, N, ts, T)
<1>1. PICK one : one = <<row>>
  OBVIOUS
<1>2. IsList(one) /\ Len(one) = 1 /\ one[1] = row
  BY <1>1, OneIsList
<1>3. PICK a, b : /\ IsJoin(a, old, L, gap, G) /\ IsJoin(b, a, L + G, one, 1)
                  /\ IsJoin(old \o gap \o one \o ts, b, N, ts, T)
  BY <1>2, PlacesOfEmitted
<1>4. PICK new : new = old \o gap \o one \o ts
  OBVIOUS
<1>5. IsJoin(new, b, N, ts, T)
  BY <1>3, <1>4
<1>6. ASSUME IsJoin(a, old, L, gap, G), IsJoin(b, a, L + G, one, 1), IsJoin(new, b, N, ts, T), one[1] = row
      PROVE  IsEmitted(new, old, L, gap, G, row, N, ts, T)
  <2>1. /\ \A i \in 1 .. L : i \in 1 .. L + G /\ i \in 1 .. N
        /\ \A i \in 1 .. G : L + i \in 1 .. L + G /\ L + i \in 1 .. N
        /\ N \in 1 .. N /\ N = L + G + 1 /\ 1 \in 1 .. 1
    OBVIOUS
  <2>2. \A i \in 1 .. L : new[i] = old[i]
    BY <1>6, <2>1 DEF IsJoin
  <2>3. \A i \in 1 .. G : new[L + i] = gap[i]
    BY <1>6, <2>1 DEF IsJoin
  <2>4. new[N] = row
    BY <1>6, <2>1 DEF IsJoin
  <2> QED BY <1>6, <2>2, <2>3, <2>4 DEF IsEmitted, IsJoin
<1> QED BY <1>1, <1>2, <1>3, <1>4, <1>5, <1>6

-----------------------------------------------------------------------------
(***************************************************************************)
(* The branch glyphs (BranchesAreClosed).  GlyphInv and GlyphsGrow of      *)
(* SharedLemmas say how one round of emitNode keeps them.                  *)
(***************************************************************************)
\* What one round of emitNode does, place by place: L rows and P + 1 calls are
\* there before, G rows separate the node's row in place N from them, its T types
\* follow, and its C children are called next.
Round(call, below, L, G, T, C, P, N) ==
  /\ N = L + G + 1 /\ C = Len(tree[call.node].children)
  /\ IsList(call.prefix) /\ IsList(below)
  /\ call.node \in DOMAIN tree /\ DOMAIN TypesOf(call.node) = 1 .. T /\ DOMAIN tree[call.node].children = 1 .. C
  /\ DOMAIN rows = 1 .. L /\ Len(rows) = L /\ DOMAIN call.gap = 1 .. G
  /\ DOMAIN rows' = 1 .. N + T /\ Len(rows') = N + T
  /\ \A i \in 1 .. L : rows'[i] = rows[i]
  /\ \A i \in 1 .. G : rows'[L + i] = call.gap[i]
  /\ rows'[N] = NodeRow(call.node, call.prefix, call.connector)
  /\ \A t \in 1 .. T : rows'[N + t] = TypeRow(call.node, t - 1, below, T + C)
  /\ DOMAIN pending = 1 .. P + 1 /\ DOMAIN pending' = 1 .. C + P
  /\ \A c \in 1 .. C : pending'[c] = ChildCalls(call.node, below)[c]
  /\ \A k \in 1 .. P : pending'[C + k] = pending[k + 1]
RoundOfEmit(L, G, T, C, P, N) ==
  Round(pending[1], ChildIndent(pending[1].prefix, pending[1].connector), L, G, T, C, P, N)

LEMMA RoundIs ==
  ASSUME TreeInv, EmitNode
  PROVE  \E L, G, T, C, P, N \in Nat : RoundOfEmit(L, G, T, C, P, N)
<1> DEFINE call == pending[1]
           below == ChildIndent(call.prefix, call.connector)
<1>1. /\ report \in Reports /\ IsTree /\ AreRows(rows) /\ AreCalls(pending) /\ IsList(pending) /\ pending # <<>>
  BY DEF TreeInv, EmitNode, EmitInv, AreCalls
<1>2. PICK P \in Nat : /\ Len(pending) = P + 1 /\ Head(pending) = pending[1]
                       /\ IsList(Tail(pending)) /\ Len(Tail(pending)) = P
                       /\ \A i \in 1 .. P : Tail(pending)[i] = pending[i + 1]
  BY <1>1, PlacesOfTail
<1>3. PICK total : total = Len(TypesOf(call.node)) + Len(tree[call.node].children)
  OBVIOUS
<1>4. /\ rows' = rows \o call.gap \o <<NodeRow(call.node, call.prefix, call.connector)>>
                   \o TypeRows(call.node, below, total)
      /\ pending' = ChildCalls(call.node, below) \o Tail(pending)
  BY <1>2, <1>3, Zenon DEF EmitNode
<1>5. call.node \in DOMAIN tree /\ IsList(call.prefix) /\ AreRows(call.gap)
  <2>1. IsCall(Head(pending))
    BY <1>1, CallsTail
  <2> QED BY <1>2, <2>1 DEF IsCall
<1>6. IsList(below)
  BY <1>5, ListAppend DEF ChildIndent
<1> HIDE DEF call, below
<1>7. PICK types : types = TypesOf(call.node)
  OBVIOUS
<1>8. PICK T \in Nat : Len(types) = T /\ DOMAIN types = 1 .. T
  BY <1>1, <1>5, <1>7, TypesOfAre, ListIs
<1>9. PICK C \in Nat : Len(tree[call.node].children) = C /\ DOMAIN tree[call.node].children = 1 .. C
  BY <1>1, <1>5, TreeIs, ListIs
<1>10. PICK L \in Nat : IsList(rows) /\ Len(rows) = L /\ DOMAIN rows = 1 .. L
  BY <1>1, ListIs DEF AreRows
<1>11. PICK G \in Nat : IsList(call.gap) /\ Len(call.gap) = G /\ DOMAIN call.gap = 1 .. G
  BY <1>5, ListIs DEF AreRows
<1>12. PICK ts : ts = TypeRows(call.node, below, total)
  OBVIOUS
<1>13. IsList(ts) /\ DOMAIN ts = 1 .. T /\ Len(ts) = T /\ \A t \in 1 .. T : ts[t] = TypeRow(call.node, t - 1, below, total)
  <2>1. AreRows(ts)
    BY <1>1, <1>5, <1>6, <1>12, TypeRowsAre
  <2>2. DOMAIN ts = 1 .. T /\ \A t \in 1 .. T : ts[t] = TypeRow(call.node, t - 1, below, total)
    BY <1>7, <1>8, <1>12 DEF TypeRows
  <2>3. Len(ts) \in Nat /\ DOMAIN ts = 1 .. Len(ts)
    BY <2>1, ListIs DEF AreRows
  <2>4. Len(ts) = T
    BY <2>2, <2>3
  <2> QED BY <2>1, <2>2, <2>4 DEF AreRows
<1>14. PICK calls1 : calls1 = ChildCalls(call.node, below)
  OBVIOUS
<1>15. IsList(calls1) /\ Len(calls1) = C
  <2>1. AreCalls(calls1)
    BY <1>1, <1>5, <1>6, <1>14, ChildCallsAre
  <2>2. DOMAIN calls1 = 1 .. C
    BY <1>9, <1>14 DEF ChildCalls
  <2>3. Len(calls1) \in Nat /\ DOMAIN calls1 = 1 .. Len(calls1)
    BY <2>1, ListIs DEF AreCalls
  <2> QED BY <2>1, <2>2, <2>3 DEF AreCalls
<1>16. PICK N \in Nat : N = L + G + 1
  OBVIOUS
<1>17. PICK row : row = NodeRow(call.node, call.prefix, call.connector)
  OBVIOUS
<1>18. PICK new : new = rows \o call.gap \o <<row>> \o ts
  OBVIOUS
<1>19. IsEmitted(new, rows, L, call.gap, G, row, N, ts, T)
  BY <1>10, <1>11, <1>13, <1>16, <1>18, EmittedIs
<1>20. PICK next : next = calls1 \o Tail(pending)
  OBVIOUS
<1>21. IsJoin(next, calls1, C, Tail(pending), P)
  BY <1>2, <1>15, <1>20, PlacesOfConcat
<1>22. rows' = new /\ pending' = next
  BY <1>4, <1>12, <1>14, <1>17, <1>18, <1>20
<1>23. DOMAIN new = 1 .. N + T /\ DOMAIN next = 1 .. C + P /\ DOMAIN pending = 1 .. P + 1
  <2>1. IsList(new) /\ Len(new) = N + T /\ IsList(next) /\ Len(next) = C + P
    BY <1>19, <1>21 DEF IsEmitted, IsJoin
  <2> QED BY <1>1, <1>2, <2>1, ListIs
<1>24. total = T + C
  BY <1>3, <1>7, <1>8, <1>9
<1>25. \A k \in 1 .. P : next[C + k] = pending[k + 1]
  BY <1>2, <1>21 DEF IsJoin
<1>26. \A t \in 1 .. T : new[N + t] = TypeRow(call.node, t - 1, below, T + C)
  BY <1>13, <1>19, <1>24 DEF IsEmitted
<1>27. Round(call, below, L, G, T, C, P, N)
  BY <1>5, <1>6, <1>7, <1>8, <1>9, <1>10, <1>11, <1>14, <1>16, <1>17, <1>19, <1>21, <1>22, <1>23, <1>25, <1>26
     DEF Round, IsEmitted, IsJoin
<1>28. RoundOfEmit(L, G, T, C, P, N)
  BY <1>27 DEF RoundOfEmit, call, below
<1> QED BY <1>28

\* The glyphs of the types and of the children of a node.
LEMMA GlyphOfType ==
  ASSUME NEW a \in Nat, NEW b \in Nat, NEW i \in 1 .. a, NEW glyph, glyph = BranchGlyph(i - 1, a + b)
  PROVE  glyph \in {"tee", "corner"} /\ (glyph = "corner" <=> i = a /\ b = 0)
<1>1. i - 1 = a + b - 1 <=> i = a /\ b = 0
  OBVIOUS
<1> QED BY <1>1 DEF BranchGlyph

LEMMA GlyphOfChild ==
  ASSUME NEW T \in Nat, NEW C \in Nat, NEW c \in 1 .. C, NEW glyph, glyph = BranchGlyph(T + c - 1, T + C)
  PROVE  glyph \in {"tee", "corner"} /\ (glyph = "corner" <=> c = C)
<1>1. T + c - 1 = T + C - 1 <=> c = C
  OBVIOUS
<1> QED BY <1>1 DEF BranchGlyph

\* How deep the branches of a node are.
LEMMA IndentIs ==
  ASSUME NEW call, IsList(call.prefix), HasGlyph(call)
  PROVE  DepthOf(call) \in Nat /\ Len(ChildIndent(call.prefix, call.connector)) = DepthOf(call)
<1>1. PICK n \in Nat : n = Len(call.prefix)
  BY ListIs
<1> DEFINE prefix == call.prefix
<1> HIDE DEF prefix
<1>2. \A x : Len(Append(prefix, x)) = n + 1
  <2> SUFFICES ASSUME NEW x PROVE Len(Append(prefix, x)) = n + 1
    OBVIOUS
  <2> DEFINE U == Range(prefix) \cup {x}
  <2>1. prefix \in [1 .. n -> U] /\ x \in U
    BY <1>1, ListIs DEF prefix
  <2> HIDE DEF U
  <2>2. prefix \in Seq(U)
    BY <2>1
  <2> QED BY <1>1, <2>1, <2>2, AppendProperties DEF prefix
<1>3. DepthOf(call) = IF IsBare(call) THEN n ELSE n + 1
  BY <1>1, n + 0 = n DEF DepthOf
<1>4. IsBare(call) => ChildIndent(call.prefix, call.connector) = prefix
  BY Zenon DEF IsBare, ChildIndent, prefix
<1>5. ~ IsBare(call) => call.connector = "tee" \/ call.connector = "corner"
  BY Zenon DEF IsBare, HasGlyph
<1>6. ~ IsBare(call) => Len(ChildIndent(call.prefix, call.connector)) = n + 1
  BY <1>2, <1>5 DEF ChildIndent, prefix
<1> QED BY <1>1, <1>3, <1>4, <1>6 DEF prefix

GlyphsRight == GlyphInv(rows, pending)

\* The rows and calls of such a round are those that GlyphsGrow is about.
RoundGrows(L, G, T, C, P, N) ==
  DepthOf(pending[1]) \in Nat /\ GrowsBy(rows, pending, rows', pending', L, G, T, C, P, N, DepthOf(pending[1]))

LEMMA EmitGrows ==
  ASSUME TreeInv, GlyphsRight, EmitNode,
         NEW L \in Nat, NEW G \in Nat, NEW T \in Nat, NEW C \in Nat, NEW P \in Nat, NEW N \in Nat,
         RoundOfEmit(L, G, T, C, P, N)
  PROVE  RoundGrows(L, G, T, C, P, N)
<1>1. RoundOfEmit(L, G, T, C, P, N)
  OBVIOUS
<1> DEFINE call == pending[1]
           below == ChildIndent(call.prefix, call.connector)
           d == DepthOf(call)
<1>2. 1 \in DOMAIN pending
  BY <1>1 DEF RoundOfEmit, Round
<1>3. CallsNest(pending)
  BY DEF GlyphsRight, GlyphInv
<1>4. /\ d \in Nat /\ HasGlyph(call)
      /\ \A g \in DOMAIN call.gap : call.gap[g].kind = "gap"
  BY <1>2, <1>3, Zenon DEF CallsNest
<1>5. Len(below) = d
  <2>1. IsList(call.prefix)
    BY <1>1 DEF RoundOfEmit, Round
  <2> QED BY <1>4, <2>1, IndentIs
<1> HIDE DEF call, below, d
<1>6. rows'[N].kind = "node" /\ DepthOf(rows'[N]) = d /\ rows'[N].connector = call.connector
  <2>1. rows'[N] = NodeRow(call.node, call.prefix, call.connector)
    BY <1>1 DEF RoundOfEmit, Round, call
  <2> QED BY <2>1 DEF NodeRow, DepthOf, IsBare, d
<1>7. ASSUME NEW t \in 1 .. T
      PROVE  /\ rows'[N + t].kind = "type" /\ DepthOf(rows'[N + t]) = d + 1
             /\ rows'[N + t].connector = "corner" <=> t = T /\ C = 0
  <2>1. rows'[N + t] = TypeRow(call.node, t - 1, below, T + C)
    BY <1>1 DEF RoundOfEmit, Round, call, below
  <2>2. PICK row : row = rows'[N + t]
    OBVIOUS
  <2>3. row.kind = "type" /\ row.prefix = below /\ row.connector = BranchGlyph(t - 1, T + C)
    BY <2>1, <2>2 DEF TypeRow
  <2>4. row.connector \in {"tee", "corner"} /\ (row.connector = "corner" <=> t = T /\ C = 0)
    <3>1. PICK glyph : glyph = row.connector
      OBVIOUS
    <3>2. glyph = BranchGlyph(t - 1, T + C)
      BY <2>3, <3>1
    <3>3. t - 1 = T + C - 1 <=> t = T /\ C = 0
      BY <1>4
    <3>4. glyph \in {"tee", "corner"} /\ (glyph = "corner" <=> t = T /\ C = 0)
      BY <3>2, <3>3 DEF BranchGlyph
    <3> QED BY <3>1, <3>4
  <2>5. ~ IsBare(row)
    BY <2>4, Zenon DEF IsBare
  <2> QED BY <1>5, <2>2, <2>3, <2>4, <2>5 DEF DepthOf
<1>8. ASSUME NEW c \in 1 .. C
      PROVE  /\ DepthOf(pending'[c]) = d + 1 /\ pending'[c].connector \in {"tee", "corner"}
             /\ \A g \in DOMAIN pending'[c].gap : pending'[c].gap[g].kind = "gap"
             /\ pending'[c].connector = "corner" <=> c = C
  <2>1. pending'[c] = ChildCalls(call.node, below)[c]
    BY <1>1 DEF RoundOfEmit, Round, call, below
  <2>2. PICK next : next = pending'[c]
    OBVIOUS
  <2>3. PICK gap : gap = <<Gap(Append(below, "bar"))>>
    OBVIOUS
  <2>4. next.prefix = below /\ next.connector = BranchGlyph(T + c - 1, T + C) /\ (next.gap = <<>> \/ next.gap = gap)
    <3>1. /\ DOMAIN tree[call.node].children = 1 .. C /\ Len(tree[call.node].children) = C
          /\ Len(TypesOf(call.node)) = T
      <4>1. report \in Reports /\ IsTree /\ call.node \in DOMAIN tree /\ DOMAIN TypesOf(call.node) = 1 .. T
        BY <1>1 DEF RoundOfEmit, Round, call, TreeInv
      <4>2. PICK n \in Nat : n = Len(TypesOf(call.node)) /\ DOMAIN TypesOf(call.node) = 1 .. n
        BY <4>1, TypesOfAre, ListIs
      <4>3. n = T
        BY <4>1, <4>2
      <4> QED BY <1>1, <4>2, <4>3 DEF RoundOfEmit, Round, call
    <3> QED BY <2>1, <2>2, <2>3, <3>1 DEF ChildCalls
  <2>5. next.connector \in {"tee", "corner"} /\ (next.connector = "corner" <=> c = C)
    BY <2>4, GlyphOfChild
  <2>6. DepthOf(next) = d + 1
    <3>1. ~ IsBare(next)
      BY <2>5, Zenon DEF IsBare
    <3> QED BY <1>5, <2>4, <3>1 DEF DepthOf
  <2>7. \A g \in DOMAIN next.gap : next.gap[g].kind = "gap"
    <3>1. DOMAIN gap = {1} /\ gap[1].kind = "gap"
      <4>1. PICK row : row = Gap(Append(below, "bar"))
        OBVIOUS
      <4>2. row.kind = "gap"
        BY <4>1 DEF Gap
      <4>3. gap = <<row>>
        BY <2>3, <4>1
      <4> QED BY <4>2, <4>3
    <3>2. DOMAIN <<>> = {}
      OBVIOUS
    <3> QED BY <2>4, <3>1, <3>2
  <2> QED BY <2>2, <2>5, <2>6, <2>7
<1>9. PICK s, q : s = rows' /\ q = pending'
  OBVIOUS
<1>10. NodeRows(s, N, T, C, d) /\ s[N].connector = pending[1].connector
  BY <1>6, <1>7, <1>9 DEF NodeRows, call
<1>11. ChildCallsFirst(q, C, d)
  BY <1>8, <1>9 DEF ChildCallsFirst
<1>12. \A i \in 1 .. G : s[L + i].kind = "gap"
  <2>1. DOMAIN call.gap = 1 .. G /\ \A i \in 1 .. G : s[L + i] = call.gap[i]
    BY <1>1, <1>9 DEF RoundOfEmit, Round, call
  <2> QED BY <1>4, <2>1
<1>13. /\ N = L + G + 1 /\ d = DepthOf(pending[1])
       /\ DOMAIN rows = 1 .. L /\ Len(rows) = L /\ DOMAIN pending = 1 .. P + 1
       /\ DOMAIN s = 1 .. N + T /\ Len(s) = N + T /\ DOMAIN q = 1 .. C + P
       /\ \A i \in 1 .. L : s[i] = rows[i]
       /\ \A k \in 1 .. P : q[C + k] = pending[k + 1]
  BY <1>1, <1>9 DEF RoundOfEmit, Round, d, call
<1>14. GrowsBy(rows, pending, s, q, L, G, T, C, P, N, d)
  BY <1>10, <1>11, <1>12, <1>13 DEF GrowsBy
<1> QED BY <1>4, <1>9, <1>13, <1>14 DEF RoundGrows

LEMMA EmitKeepsGlyphs == ASSUME TreeInv, GlyphsRight, EmitNode PROVE GlyphsRight'
<1>1. PICK L \in Nat, G \in Nat, T \in Nat, C \in Nat, P \in Nat, N \in Nat : RoundOfEmit(L, G, T, C, P, N)
  BY RoundIs
<1>2. RoundGrows(L, G, T, C, P, N)
  BY <1>1, EmitGrows
<1>3. PICK s, q : s = rows' /\ q = pending'
  OBVIOUS
<1>4. PICK d \in Nat : d = DepthOf(pending[1]) /\ GrowsBy(rows, pending, s, q, L, G, T, C, P, N, d)
  BY <1>2, <1>3 DEF RoundGrows
<1>5. GlyphInv(s, q)
  BY <1>4, GlyphsGrow DEF GlyphsRight
<1> QED BY <1>3, <1>5 DEF GlyphsRight

\* Calls for what is on top have no glyph.
IsTop(call) == IsBare(call) /\ HasGlyph(call) /\ DepthOf(call) = 0 /\ \A g \in DOMAIN call.gap : call.gap[g].kind = "gap"

LEMMA TopGlyphs ==
  ASSUME NEW p, NEW P \in Nat, DOMAIN p = 1 .. P, \A k \in 1 .. P : IsTop(p[k]) /\ p[k].connector # "corner"
  PROVE  GlyphInv(<<>>, p)
<1>1. DOMAIN <<>> = {}
  OBVIOUS
<1>2. RowsHang(<<>>) /\ CornersClose(<<>>, p)
  BY <1>1 DEF RowsHang, CornersClose
<1>3. CallsHang(<<>>, p)
  BY DEF CallsHang, IsTop
<1>4. CallsNest(p)
  <2> SUFFICES ASSUME NEW k \in DOMAIN p
               PROVE  /\ DepthOf(p[k]) \in Nat /\ HasGlyph(p[k]) /\ (DepthOf(p[k]) = 0 <=> IsBare(p[k]))
                      /\ \A g \in DOMAIN p[k].gap : p[k].gap[g].kind = "gap"
                      /\ \A l \in DOMAIN p : k < l => DepthOf(p[k]) >= DepthOf(p[l])
                      /\ p[k].connector = "corner" <=> DepthOf(p[k]) # 0 /\ \A l \in DOMAIN p : k < l => DepthOf(p[l]) # DepthOf(p[k])
    BY DEF CallsNest
  <2>1. IsTop(p[k]) /\ p[k].connector # "corner" /\ \A l \in DOMAIN p : DepthOf(p[l]) = 0
    BY DEF IsTop
  <2> QED BY <2>1 DEF IsTop
<1> QED BY <1>2, <1>3, <1>4 DEF GlyphInv

LEMMA TopCallsAreTop ==
  ASSUME report \in Reports, IsTree
  PROVE  \E P \in Nat : DOMAIN TopCalls = 1 .. P /\ \A k \in 1 .. P : IsTop(TopCalls[k]) /\ TopCalls[k].connector # "corner"
<1>1. PICK p : p = TopCalls
  OBVIOUS
<1>2. PICK P \in Nat : DOMAIN p = 1 .. P
  BY <1>1, TopCallsAre, ListIs DEF AreCalls
<1>3. ASSUME NEW k \in 1 .. P PROVE IsTop(p[k]) /\ p[k].connector # "corner"
  <2>1. PICK call : call = p[k]
    OBVIOUS
  <2>2. PICK row, gap : row = Gap(<<>>) /\ gap = <<row>>
    OBVIOUS
  <2>3. call.prefix = <<>> /\ call.connector = "" /\ (call.gap = <<>> \/ call.gap = gap)
    <3>1. k \in DOMAIN tree[Root].children
      BY <1>1, <1>2 DEF TopCalls
    <3> QED BY <1>1, <2>1, <2>2, <3>1, Zenon DEF TopCalls
  <2>4. IsBare(call) /\ HasGlyph(call) /\ call.connector # "corner"
    BY <2>3, Zenon DEF IsBare, HasGlyph
  <2>5. DepthOf(call) = 0
    <3>1. call.prefix = <<>>
      BY <2>3, Zenon
    <3>2. Len(<<>>) = 0 /\ 0 + 0 = 0
      OBVIOUS
    <3> QED BY <2>4, <3>1, <3>2 DEF DepthOf
  <2>6. \A g \in DOMAIN call.gap : call.gap[g].kind = "gap"
    <3>1. row.kind = "gap"
      BY <2>2, Zenon DEF Gap
    <3>2. DOMAIN gap = {1} /\ gap[1] = row
      BY <2>2
    <3>3. call.gap = <<>> \/ call.gap = gap
      BY <2>3, Zenon
    <3> QED BY <3>1, <3>2, <3>3
  <2> QED BY <2>1, <2>4, <2>5, <2>6 DEF IsTop
<1> QED BY <1>1, <1>2, <1>3

\* The module's own rows, place by place.
ModuleRowsAt(s, T) ==
  /\ DOMAIN TypesOf(Root) = 1 .. T /\ T = Len(TypesOf(Root)) /\ DOMAIN s = 1 .. 1 + T /\ Len(s) = 1 + T
  /\ s[1] = NodeRow(Root, <<>>, "") /\ \A t \in 1 .. T : s[1 + t] = TypeRow(Root, t - 1, <<>>, T)

LEMMA ModuleRowsAre ==
  ASSUME report \in Reports, IsTree, tree[Root].pkg # 0 PROVE \E T \in Nat : ModuleRowsAt(ModuleRows, T)
<1>1. Root \in DOMAIN tree
  BY TreeIs
<1>2. PICK T \in Nat : T = Len(TypesOf(Root)) /\ DOMAIN TypesOf(Root) = 1 .. T
  BY <1>1, TypesOfAre, ListIs
<1>3. PICK row, ts : row = NodeRow(Root, <<>>, "") /\ ts = TypeRows(Root, <<>>, T)
  OBVIOUS
<1>4. IsList(ts) /\ DOMAIN ts = 1 .. T /\ Len(ts) = T
  <2>1. IsList(ts)
    BY <1>1, <1>3, EmptyIsList, TypeRowsAre DEF AreRows
  <2>2. DOMAIN ts = 1 .. T
    BY <1>2, <1>3, Zenon DEF TypeRows
  <2>3. Len(ts) \in Nat /\ DOMAIN ts = 1 .. Len(ts)
    BY <2>1, ListIs
  <2> QED BY <2>1, <2>2, <2>3
<1>5. PICK one : one = <<row>>
  OBVIOUS
<1>6. IsList(one) /\ Len(one) = 1 /\ one[1] = row
  BY <1>5, OneIsList
<1>7. PICK s : s = ModuleRows
  OBVIOUS
<1>8. s = one \o ts
  BY <1>2, <1>3, <1>5, <1>7, Zenon DEF ModuleRows
<1>9. PICK K \in Nat : K = 1
  OBVIOUS
<1>10. IsJoin(s, one, K, ts, T)
  <2>1. Len(one) = K
    BY <1>6, <1>9
  <2>2. IsJoin(one \o ts, one, K, ts, T)
    BY <1>4, <1>6, <2>1, PlacesOfConcat
  <2> QED BY <1>8, <2>2
<1>11. s[1] = row /\ (\A t \in 1 .. T : s[1 + t] = ts[t]) /\ Len(s) = 1 + T /\ DOMAIN s = 1 .. 1 + T
  <2>1. s[1] = row /\ (\A t \in 1 .. T : s[1 + t] = ts[t]) /\ Len(s) = 1 + T /\ IsList(s)
    BY <1>6, <1>9, <1>10 DEF IsJoin
  <2> QED BY <2>1, ListIs
<1>12. \A t \in 1 .. T : s[1 + t] = TypeRow(Root, t - 1, <<>>, T)
  BY <1>2, <1>3, <1>11 DEF TypeRows
<1> QED BY <1>2, <1>3, <1>7, <1>11, <1>12, Zenon DEF ModuleRowsAt

LEMMA StartEmitGlyphs == ASSUME TreeInv, StartEmit PROVE GlyphsRight'
<1>1. report \in Reports /\ IsTree /\ rows' = ModuleRows /\ pending' = TopCalls /\ Root \in DOMAIN tree
  BY TreeIs DEF TreeInv, StartEmit
<1> PICK q : q = TopCalls
  OBVIOUS
<1>2. PICK P \in Nat : q = TopCalls /\ DOMAIN q = 1 .. P /\ \A k \in 1 .. P : IsTop(q[k]) /\ q[k].connector # "corner"
  BY <1>1, TopCallsAreTop
<1>3. CASE tree[Root].pkg = 0
  <2>1. rows' = <<>>
    BY <1>1, <1>3 DEF ModuleRows
  <2>2. GlyphInv(<<>>, q)
    BY <1>2, TopGlyphs
  <2> QED BY <1>1, <1>2, <2>1, <2>2 DEF GlyphsRight
<1>4. CASE tree[Root].pkg # 0
  <2>1. PICK s : s = ModuleRows /\ s = rows'
    BY <1>1
  <2>2. PICK T \in Nat : ModuleRowsAt(s, T)
    BY <1>1, <1>4, <2>1, ModuleRowsAre DEF TreeInv
  <2>3. /\ DOMAIN s = 1 .. 1 + T /\ Len(s) = 1 + T
        /\ \A t \in 1 .. T : s[1 + t] = TypeRow(Root, t - 1, <<>>, T)
    BY <2>2, Zenon DEF ModuleRowsAt
  <2>4. PICK row : row = s[1]
    OBVIOUS
  <2>10. row.kind = "node" /\ row.connector = "" /\ row.prefix = <<>>
    <3>1. row = NodeRow(Root, <<>>, "")
      BY <2>2, <2>4, Zenon DEF ModuleRowsAt
    <3> QED BY <3>1, Zenon DEF NodeRow
  <2>11. IsTop([prefix |-> <<>>, connector |-> "", gap |-> <<>>])
    <3>1. PICK call : call = [prefix |-> <<>>, connector |-> "", gap |-> <<>>]
      OBVIOUS
    <3>2. call.prefix = <<>> /\ call.connector = "" /\ call.gap = <<>>
      BY <3>1, Zenon
    <3>3. IsBare(call) /\ HasGlyph(call)
      BY <3>2, Zenon DEF IsBare, HasGlyph
    <3>4. DepthOf(call) = 0 /\ DOMAIN call.gap = {}
      <4>1. call.prefix = <<>> /\ call.gap = <<>>
        BY <3>2, Zenon
      <4>2. Len(<<>>) = 0 /\ 0 + 0 = 0 /\ DOMAIN <<>> = {}
        OBVIOUS
      <4> QED BY <3>3, <4>1, <4>2 DEF DepthOf
    <3> QED BY <3>1, <3>3, <3>4 DEF IsTop
  <2>12. PICK top : IsTop(top) /\ top.connector = ""
    <3>1. [prefix |-> <<>>, connector |-> "", gap |-> <<>>].connector = ""
      BY Zenon
    <3> QED BY <2>11, <3>1, Zenon
  <2> DEFINE p == [k \in 1 .. P + 1 |-> IF k = 1 THEN top ELSE q[k - 1]]
  <2>13. p[1] = top /\ DOMAIN p = 1 .. P + 1 /\ \A k \in 1 .. P : p[k + 1] = q[k]
    <3>1. \A k \in 1 .. P : k + 1 \in 1 .. P + 1 /\ k + 1 # 1 /\ (k + 1) - 1 = k
      OBVIOUS
    <3> QED BY <3>1
  <2>14. \A k \in 1 .. P + 1 : IsTop(p[k]) /\ p[k].connector # "corner"
    <3>1. top.connector # "corner"
      BY <2>12, Zenon
    <3>2. \A k \in 1 .. P + 1 : k # 1 => k - 1 \in 1 .. P
      OBVIOUS
    <3>3. IsTop(top)
      BY <2>12, Zenon
    <3> QED BY <1>2, <3>1, <3>2, <3>3
  <2> HIDE DEF p
  <2>15. GlyphInv(<<>>, p)
    <3>1. P + 1 \in Nat
      OBVIOUS
    <3> QED BY <2>13, <2>14, <3>1, TopGlyphs
  <2>16. NodeRows(s, 1, T, 0, 0)
    <3>1. IsBare(row)
      BY <2>10, Zenon DEF IsBare
    <3>2. row.kind = "node" /\ row.prefix = <<>>
      BY <2>10, Zenon
    <3>3. s[1].kind = "node" /\ DepthOf(s[1]) = 0
      <4>1. Len(<<>>) = 0 /\ 0 + 0 = 0
        OBVIOUS
      <4> QED BY <2>4, <3>1, <3>2, <4>1 DEF DepthOf
    <3>4. ASSUME NEW t \in 1 .. T
          PROVE  /\ s[1 + t].kind = "type" /\ DepthOf(s[1 + t]) = 0 + 1
                 /\ s[1 + t].connector = "corner" <=> t = T /\ 0 = 0
      <4>1. PICK own : own = s[1 + t]
        OBVIOUS
      <4>2. own = TypeRow(Root, t - 1, <<>>, T)
        BY <2>3, <4>1
      <4>3. own.kind = "type" /\ own.prefix = <<>> /\ own.connector = BranchGlyph(t - 1, T)
        BY <4>2 DEF TypeRow
      <4>4. own.connector \in {"tee", "corner"} /\ (own.connector = "corner" <=> t = T)
        <5>1. T + 0 = T
          OBVIOUS
        <5>2. PICK C \in Nat : C = 0
          OBVIOUS
        <5>3. PICK glyph : glyph = BranchGlyph(t - 1, T + C)
          OBVIOUS
        <5>4. glyph \in {"tee", "corner"} /\ (glyph = "corner" <=> t = T /\ C = 0)
          BY <5>3, GlyphOfType
        <5> QED BY <4>3, <5>1, <5>2, <5>3, <5>4
      <4>5. ~ IsBare(own)
        BY <4>4, Zenon DEF IsBare
      <4>6. DepthOf(own) = 0 + 1
        <5>1. Len(<<>>) = 0
          OBVIOUS
        <5> QED BY <4>3, <4>5, <5>1 DEF DepthOf
      <4> QED BY <4>1, <4>3, <4>4, <4>6
    <3> QED BY <3>3, <3>4 DEF NodeRows
  <2>17. s[1].connector = p[1].connector
    BY <2>4, <2>10, <2>12, <2>13, Zenon
  <2>18. ChildCallsFirst(q, 0, 0)
    BY DEF ChildCallsFirst
  <2>19. GrowsBy(<<>>, p, s, q, 0, 0, T, 0, P, 1, 0)
    <3>1. 1 = 0 + 0 + 1 /\ DOMAIN <<>> = 1 .. 0 /\ Len(<<>>) = 0 /\ 0 + P = P /\ \A k \in 1 .. P : 0 + k = k
      OBVIOUS
    <3>2. 0 = DepthOf(p[1])
      BY <2>12, <2>13, Zenon DEF IsTop
    <3>3. \A i \in 1 .. 0 : s[i] = <<>>[i] /\ s[0 + i].kind = "gap"
      OBVIOUS
    <3> QED BY <1>2, <2>3, <2>13, <2>16, <2>17, <2>18, <3>1, <3>2, <3>3 DEF GrowsBy
  <2>20. GlyphInv(s, q)
    <3>1. 0 \in Nat /\ 1 \in Nat
      OBVIOUS
    <3> QED BY <2>15, <2>19, <3>1, GlyphsGrow
  <2> QED BY <1>1, <1>2, <2>1, <2>20 DEF GlyphsRight
<1> QED BY <1>3, <1>4

-----------------------------------------------------------------------------
\* What the reader of the rows takes for the row that one hangs from is that row.
LEMMA DepthIs == ASSUME NEW i PROVE Depth(i) = DepthOf(rows[i])
  BY Zenon DEF Depth, DepthOf, IsBare

LEMMA ParentIs ==
  ASSUME IsList(rows), NEW i \in DOMAIN rows, NEW j \in DOMAIN rows, NEW d \in Int, DepthOf(rows[i]) = d,
         RowsHang(rows), HangsFrom(rows, i, d, j)
  PROVE  ParentRow(i) = j
<1> DEFINE above == {k \in NodeRowsOf : k < i /\ Depth(k) = Depth(i) - 1}
<1>1. PICK L \in Nat : DOMAIN rows = 1 .. L
  BY ListIs
<1>2. /\ j < i /\ rows[j].kind = "node" /\ DepthOf(rows[j]) = d - 1
      /\ \A m \in j + 1 .. i - 1 : IsBranch(rows[m]) => DepthOf(rows[m]) >= d
  BY DEF HangsFrom, NoneAbove
<1>3. \A k \in above : k \in DOMAIN rows /\ k < i /\ rows[k].kind = "node" /\ DepthOf(rows[k]) = d - 1
  BY DepthIs DEF NodeRowsOf
<1>4. j \in above
  BY <1>2, DepthIs DEF NodeRowsOf
<1>5. ASSUME NEW k \in above PROVE k <= j
  <2>1. k \in 1 .. L /\ k < i /\ rows[k].kind = "node" /\ DepthOf(rows[k]) = d - 1
    BY <1>1, <1>3
  <2>2. IsBranch(rows[k])
    BY <2>1 DEF IsBranch
  <2>3. j < k => k \in j + 1 .. i - 1
    BY <1>1, <2>1
  <2> HIDE DEF above
  <2> QED BY <1>1, <1>2, <2>1, <2>2, <2>3
<1>6. \A k \in above : k \in Int
  BY <1>1, <1>3
<1>7. ParentRow(i) = CHOOSE k \in above : \A l \in above : l <= k
  BY DEF ParentRow
<1> HIDE DEF above
<1>8. ParentRow(i) \in above /\ \A l \in above : l <= ParentRow(i)
  BY <1>4, <1>5, <1>7
<1> QED BY <1>4, <1>5, <1>6, <1>8

\* When no call is left, the corners are where the reader expects them.
LEMMA CornersAreRight ==
  ASSUME IsList(rows), GlyphInv(rows, <<>>), NEW i \in DOMAIN rows, rows[i].kind # "gap", Depth(i) > 0
  PROVE  (rows[i].connector = "corner") <=>
           ~ \E j \in DOMAIN rows :
               j > i /\ rows[j].kind # "gap" /\ Depth(j) = Depth(i) /\ ParentRow(j) = ParentRow(i)
<1>1. PICK L \in Nat : DOMAIN rows = 1 .. L
  BY ListIs
<1>2. RowsHang(rows) /\ CornersClose(rows, <<>>) /\ DOMAIN <<>> = {} /\ IsBranch(rows[i])
  BY DEF GlyphInv, IsBranch
<1>3. PICK d \in Nat : d = DepthOf(rows[i]) /\ d # 0 /\ d = Depth(i)
  BY <1>2, DepthIs DEF RowsHang
<1>4. PICK p \in 1 .. L : HangsFrom(rows, i, d, p)
  BY <1>1, <1>2, <1>3 DEF RowsHang
<1>5. ParentRow(i) = p
  <2>1. p \in DOMAIN rows /\ d \in Int /\ DepthOf(rows[i]) = d /\ RowsHang(rows)
    BY <1>1, <1>2, <1>3
  <2> QED BY <1>4, <2>1, ParentIs
<1>6. (rows[i].connector = "corner") <=> ~ \E j \in DOMAIN rows : Follows(rows, i, j)
  <2>1. ~ \E k \in DOMAIN <<>> : DepthOf(<<>>[k]) = DepthOf(rows[i])
    BY <1>2
  <2> QED BY <1>2, <1>3, <2>1 DEF CornersClose
<1>7. ASSUME NEW j \in 1 .. L, Follows(rows, i, j)
      PROVE  j > i /\ rows[j].kind # "gap" /\ Depth(j) = Depth(i) /\ ParentRow(j) = ParentRow(i)
  <2>1. /\ i < j /\ IsBranch(rows[j]) /\ DepthOf(rows[j]) = d
        /\ \A m \in i + 1 .. j : IsBranch(rows[m]) => DepthOf(rows[m]) >= d
    BY <1>3, <1>7 DEF Follows, NoneAbove
  <2>2. /\ p < i /\ rows[p].kind = "node" /\ DepthOf(rows[p]) = d - 1
        /\ \A m \in p + 1 .. i - 1 : IsBranch(rows[m]) => DepthOf(rows[m]) >= d
    BY <1>4 DEF HangsFrom, NoneAbove
  <2>3. ASSUME NEW m \in p + 1 .. j - 1, IsBranch(rows[m]) PROVE DepthOf(rows[m]) >= d
    <3>1. m \in p + 1 .. i - 1 \/ m = i \/ m \in i + 1 .. j
      BY <1>1
    <3>2. m \in p + 1 .. i - 1 => DepthOf(rows[m]) >= d
      BY <2>2, <2>3
    <3>3. m \in i + 1 .. j => DepthOf(rows[m]) >= d
      BY <2>1, <2>3
    <3>4. m = i => DepthOf(rows[m]) >= d
      <4>1. d >= d
        OBVIOUS
      <4> QED BY <1>3, <4>1, Zenon
    <3> QED BY <3>1, <3>2, <3>3, <3>4
  <2>4. p < j
    BY <1>1, <2>1, <2>2
  <2>5. HangsFrom(rows, j, d, p)
    BY <2>2, <2>3, <2>4 DEF HangsFrom, NoneAbove
  <2>6. ParentRow(j) = p
    <3>1. p \in DOMAIN rows /\ j \in DOMAIN rows /\ d \in Int /\ DepthOf(rows[j]) = d /\ RowsHang(rows)
      BY <1>1, <1>2, <2>1
    <3> QED BY <2>5, <3>1, ParentIs
  <2>7. Depth(j) = d /\ rows[j].kind # "gap"
    BY <2>1, DepthIs DEF IsBranch
  <2> QED BY <1>1, <1>3, <1>5, <2>1, <2>6, <2>7
<1>8. ASSUME NEW j \in 1 .. L, j > i, rows[j].kind # "gap", Depth(j) = Depth(i), ParentRow(j) = ParentRow(i)
      PROVE  Follows(rows, i, j)
  <2>1. IsBranch(rows[j]) /\ DepthOf(rows[j]) = d
    BY <1>3, <1>8, DepthIs DEF IsBranch
  <2>2. PICK q \in 1 .. L : HangsFrom(rows, j, d, q)
    BY <1>1, <1>2, <1>3, <2>1 DEF RowsHang
  <2>3. q = p
    <3>1. q \in DOMAIN rows /\ j \in DOMAIN rows /\ d \in Int /\ DepthOf(rows[j]) = d /\ RowsHang(rows)
      BY <1>1, <1>2, <2>1
    <3>2. ParentRow(j) = q
      BY <2>2, <3>1, ParentIs
    <3> QED BY <1>5, <1>8, <3>2
  <2>4. p < i /\ \A m \in p + 1 .. j - 1 : IsBranch(rows[m]) => DepthOf(rows[m]) >= d
    BY <1>4, <2>2, <2>3 DEF HangsFrom, NoneAbove
  <2>5. ASSUME NEW m \in i + 1 .. j, IsBranch(rows[m]) PROVE DepthOf(rows[m]) >= d
    <3>1. m = j \/ m \in p + 1 .. j - 1
      BY <1>1, <2>4
    <3> QED BY <1>3, <2>1, <2>4, <2>5, <3>1
  <2>6. i < j
    BY <1>1, <1>8
  <2> QED BY <1>3, <2>1, <2>5, <2>6 DEF Follows, NoneAbove
<1> QED BY <1>1, <1>6, <1>7, <1>8

-----------------------------------------------------------------------------
\* Where the table is in its making, and what is written by then.
PageInv ==
  /\ phase \in {"attach", "compress", "aggregate", "emit", "done"}
  /\ phase # "emit" => pending = <<>>
  /\ phase \notin {"emit", "done"} => rows = <<>>
  /\ Packages = <<>> => phase = "attach"
  /\ how.format = "text" /\ rendered => Packages = <<>> \/ phase = "done"

LEMMA PageStarts == ASSUME WriteInit PROVE PageInv
  BY DEF WriteInit, TreeInit, PageInv

\* Only buildTextTable changes the table.
LEMMA BuildsOrStays == ASSUME [WriteNext]_writevars PROVE BuildStep \/ UNCHANGED <<tablevars, how>>
  BY DEF WriteNext, OpenFails, OpenSink, WriteLine, WriteRecord, FlushRecords, WriteDocument,
         Rendered, CloseSink, writevars

LEMMA PageGoesOn == ASSUME PageInv, [WriteNext]_writevars PROVE PageInv'
<1>1. CASE BuildStep
  <2>1. Packages # <<>> /\ UNCHANGED <<how, rendered>> /\ report' = report
    BY <1>1, Zenon DEF BuildStep, BuildTable, Down, Attach, StartCompress, Absorb, Descend,
                StartAggregate, Visit, Return, StartEmit, EmitNode, EndEmit
  <2>2. BuildTable
    BY <1>1 DEF BuildStep
  <2>3. Packages' = Packages
    BY <2>1 DEF Packages
  <2>4. phase # "done"
    BY <2>2, ZenonT(60) DEF BuildTable, Down, Attach, StartCompress, Absorb, Descend,
                StartAggregate, Visit, Return, StartEmit, EmitNode, EndEmit
  <2>5. /\ phase' \in {"attach", "compress", "aggregate", "emit", "done"}
        /\ phase' # "emit" => pending' = <<>>
        /\ phase' \notin {"emit", "done"} => rows' = <<>>
    BY <2>2 DEF PageInv, BuildTable, Down, Attach, StartCompress, Absorb, Descend,
                StartAggregate, Visit, Return, StartEmit, EmitNode, EndEmit
  <2> QED BY <2>1, <2>3, <2>4, <2>5 DEF PageInv
<1>2. CASE UNCHANGED <<tablevars, how>>
  <2>1. UNCHANGED <<report, phase, pending, rows, how>> /\ Packages' = Packages
    BY <1>2 DEF tablevars, Packages
  <2>2. how.format = "text" /\ rendered' => rendered \/ (Packages = <<>> \/ phase = "done")
    BY <1>2, Zenon DEF WriteNext, OpenFails, OpenSink, WriteLine, BuildStep, WriteRecord, FlushRecords, WriteDocument,
                Rendered, CloseSink, writevars
  <2> QED BY <2>1, <2>2 DEF PageInv
<1> QED BY <1>1, <1>2, BuildsOrStays

\* A step of the table keeps the glyphs right.
LEMMA GlyphsGoOn ==
  ASSUME TableInv, GlyphsRight, BuildTable \/ UNCHANGED tablevars PROVE GlyphsRight'
<1>1. TreeInv
  BY DEF TableInv
<1>2. EmitNode \/ StartEmit \/ UNCHANGED <<rows, pending>>
  BY Zenon DEF BuildTable, Down, Attach, StartCompress, Absorb, Descend, StartAggregate, Visit, Return, EndEmit, tablevars
<1>3. ASSUME UNCHANGED <<rows, pending>> PROVE GlyphsRight'
  BY <1>3 DEF GlyphsRight
<1> QED BY <1>1, <1>2, <1>3, EmitKeepsGlyphs, StartEmitGlyphs

LEMMA GlyphsStart == ASSUME TreeInit PROVE GlyphsRight
<1>1. rows = <<>> /\ pending = <<>> /\ DOMAIN <<>> = {}
  BY DEF TreeInit
<1> QED BY <1>1 DEF GlyphsRight, GlyphInv, CallsNest, CallsHang, RowsHang, CornersClose

\* The glyphs are right: under one row, exactly the last branch is a corner.
THEOREM BranchesAreClosed == WriteSpec => []CornersCloseTheirBranch
<1> DEFINE Inv == WriteInv /\ PageInv /\ GlyphsRight
<1>1. WriteInit => Inv
  BY WriteStarts, PageStarts, GlyphsStart DEF WriteInit
<1>2. Inv /\ [WriteNext]_writevars => Inv'
  <2> SUFFICES ASSUME Inv, [WriteNext]_writevars PROVE Inv'
    OBVIOUS
  <2>1. WriteInv' /\ PageInv'
    BY StepOfWrite, PageGoesOn
  <2>2. TableInv /\ (BuildTable \/ UNCHANGED tablevars)
    BY BuildsOrStays DEF BuildStep, WriteInv, WriteTypes
  <2> QED BY <2>1, <2>2, GlyphsGoOn
<1>3. Inv => CornersCloseTheirBranch
  <2> SUFFICES ASSUME Inv, PageWritten, NEW i \in DOMAIN rows, rows[i].kind # "gap", Depth(i) > 0
               PROVE  (rows[i].connector = "corner") <=>
                        ~ \E j \in DOMAIN rows :
                            j > i /\ rows[j].kind # "gap" /\ Depth(j) = Depth(i) /\ ParentRow(j) = ParentRow(i)
    BY DEF CornersCloseTheirBranch
  <2>1. pending = <<>>
    BY DEF PageInv, PageWritten
  <2>2. IsList(rows)
    BY DEF WriteInv, WriteTypes, TableInv, TreeInv, EmitInv, AreRows
  <2> QED BY <2>1, <2>2, CornersAreRight DEF GlyphsRight
<1> QED BY <1>1, <1>2, <1>3, PTL DEF WriteSpec

-----------------------------------------------------------------------------
(***************************************************************************)
(* The tree of the paths.  While packages are attached and chains folded,  *)
(* a part of the nodes, the live ones, hangs from the root; each spells    *)
(* the path of the names down to it, no other live one spells the same,    *)
(* and each package is where its relative path is spelled.                 *)
(***************************************************************************)
IsChild(tr, n, c) == \E j \in DOMAIN tr[n].children : tr[n].children[j] = c

\* What is live hangs from the root, in one place ...
Family(tr, live) ==
  /\ live \subseteq DOMAIN tr /\ live \subseteq Nat \ {0} /\ Root \in live
  /\ \A n \in live : \A c : IsChild(tr, n, c) => c \in live /\ n < c
  /\ \A n \in live, m \in live : \A c : IsChild(tr, n, c) /\ IsChild(tr, m, c) => n = m
  /\ \A n \in live : \A i, j \in DOMAIN tr[n].children :
       tr[n].children[i] = tr[n].children[j] => i = j
  /\ \A c \in live : c # Root => \E n \in live : IsChild(tr, n, c)

\* ... spells its path ...
Spells(tr, live, path) ==
  /\ \A n \in live : path[n] \in Names /\ tr[n].name \in Names
  /\ tr[Root].name = <<>> /\ path[Root] = <<>>
  /\ \A n \in live : \A c : IsChild(tr, n, c) => path[c] = path[n] \o tr[c].name
  /\ \A n \in live, m \in live : path[n] = path[m] => n = m

\* ... and is where the packages are that are not in waiting.
Houses(tr, live, path, g, waiting) ==
  /\ \A n \in live : tr[n].pkg # 0 => tr[n].pkg \in DOMAIN g /\ path[n] = g[tr[n].pkg]
  /\ \A k \in DOMAIN g : k \in waiting \/ \E n \in live : tr[n].pkg = k

Goals == [k \in DOMAIN Packages |-> Rel(Packages[k].path)]

\* A node with a new child, or a new package, is what it was otherwise.
IsGrown(tr, t2, M, n, segment) ==
  /\ DOMAIN tr = 1 .. M /\ DOMAIN t2 = 1 .. M + 1 /\ n \in 1 .. M
  /\ \A m \in 1 .. M : t2[m].name = tr[m].name /\ t2[m].pkg = tr[m].pkg
  /\ \A m \in 1 .. M : m # n => t2[m].children = tr[m].children
  /\ t2[M + 1].name = <<segment>> /\ t2[M + 1].pkg = 0 /\ t2[M + 1].children = <<>>
  /\ \E C \in Nat : /\ DOMAIN tr[n].children = 1 .. C /\ DOMAIN t2[n].children = 1 .. C + 1
                    /\ \A j \in 1 .. C : t2[n].children[j] = tr[n].children[j]
                    /\ t2[n].children[C + 1] = M + 1

LEMMA GrownChildren ==
  ASSUME NEW tr, NEW t2, NEW M \in Nat, NEW n, NEW segment, IsGrown(tr, t2, M, n, segment)
  PROVE  /\ \A m \in 1 .. M : \A c : IsChild(t2, m, c) <=> IsChild(tr, m, c) \/ (m = n /\ c = M + 1)
         /\ \A c : ~ IsChild(t2, M + 1, c)
<1>1. PICK C \in Nat : /\ DOMAIN tr[n].children = 1 .. C /\ DOMAIN t2[n].children = 1 .. C + 1
                       /\ \A j \in 1 .. C : t2[n].children[j] = tr[n].children[j]
                       /\ t2[n].children[C + 1] = M + 1
  BY DEF IsGrown
<1>2. \A c : IsChild(t2, n, c) <=> IsChild(tr, n, c) \/ c = M + 1
  <2>1. \A j \in 1 .. C + 1 : j \in 1 .. C \/ j = C + 1
    OBVIOUS
  <2>2. C + 1 \in 1 .. C + 1 /\ \A j \in 1 .. C : j \in 1 .. C + 1
    OBVIOUS
  <2> QED BY <1>1, <2>1, <2>2 DEF IsChild
<1>3. \A m \in 1 .. M : \A c : m # n => (IsChild(t2, m, c) <=> IsChild(tr, m, c))
  BY DEF IsGrown, IsChild
<1>4. \A c : ~ IsChild(t2, M + 1, c)
  <2>1. DOMAIN t2[M + 1].children = {}
    BY DEF IsGrown
  <2> QED BY <2>1 DEF IsChild
<1>5. n \in 1 .. M
  BY DEF IsGrown
<1> QED BY <1>2, <1>3, <1>4, <1>5

LEMMA GrownFamily ==
  ASSUME NEW tr, NEW t2, NEW M \in Nat, NEW n, NEW segment, IsGrown(tr, t2, M, n, segment),
         Family(tr, 1 .. M)
  PROVE  Family(t2, 1 .. M + 1)
<1>1. /\ \A m \in 1 .. M : \A c : IsChild(t2, m, c) <=> IsChild(tr, m, c) \/ (m = n /\ c = M + 1)
      /\ \A c : ~ IsChild(t2, M + 1, c)
  BY GrownChildren
<1>2. /\ DOMAIN t2 = 1 .. M + 1 /\ n \in 1 .. M /\ Root \in 1 .. M
      /\ \A m \in 1 .. M : \A c : IsChild(tr, m, c) => c \in 1 .. M /\ m < c
      /\ \A m \in 1 .. M, l \in 1 .. M : \A c : IsChild(tr, m, c) /\ IsChild(tr, l, c) => m = l
      /\ \A c \in 1 .. M : c # Root => \E m \in 1 .. M : IsChild(tr, m, c)
  BY DEF IsGrown, Family
<1>3. \A m \in 1 .. M + 1 : m \in 1 .. M \/ m = M + 1
  OBVIOUS
<1>4. \A m \in 1 .. M : m \in 1 .. M + 1 /\ m < M + 1 /\ m # M + 1
  OBVIOUS
<1>5. \A m \in 1 .. M + 1 : \A c : IsChild(t2, m, c) => c \in 1 .. M + 1 /\ m < c
  BY <1>1, <1>2, <1>3, <1>4
<1>6. \A m \in 1 .. M + 1, l \in 1 .. M + 1 : \A c : IsChild(t2, m, c) /\ IsChild(t2, l, c) => m = l
  BY <1>1, <1>2, <1>3, <1>4
<1>7. \A c \in 1 .. M + 1 : c # Root => \E m \in 1 .. M + 1 : IsChild(t2, m, c)
  BY <1>1, <1>2, <1>3, <1>4
<1>8. ASSUME NEW m \in 1 .. M + 1
      PROVE  \A i, j \in DOMAIN t2[m].children : t2[m].children[i] = t2[m].children[j] => i = j
  <2>1. CASE m = M + 1
    <3>1. DOMAIN t2[m].children = {}
      BY <2>1 DEF IsGrown
    <3> QED BY <3>1
  <2>2. CASE m \in 1 .. M /\ m # n
    BY <2>2 DEF IsGrown, Family
  <2>3. CASE m = n
    <3>1. PICK C \in Nat : /\ DOMAIN tr[n].children = 1 .. C /\ DOMAIN t2[n].children = 1 .. C + 1
                           /\ \A j \in 1 .. C : t2[n].children[j] = tr[n].children[j]
                           /\ t2[n].children[C + 1] = M + 1
      BY DEF IsGrown
    <3>2. \A j \in 1 .. C : tr[n].children[j] # M + 1
      BY <1>2, <1>4, <3>1 DEF IsChild
    <3>3. \A i, j \in 1 .. C : tr[n].children[i] = tr[n].children[j] => i = j
      BY <1>2, <3>1 DEF Family
    <3>4. \A j \in 1 .. C + 1 : j \in 1 .. C \/ j = C + 1
      OBVIOUS
    <3>5. ASSUME NEW i \in 1 .. C + 1, NEW j \in 1 .. C + 1, t2[n].children[i] = t2[n].children[j]
          PROVE  i = j
      <4>1. CASE i \in 1 .. C /\ j \in 1 .. C
        BY <3>1, <3>3, <3>5, <4>1
      <4>2. CASE i = C + 1 \/ j = C + 1
        BY <3>1, <3>2, <3>4, <3>5, <4>2
      <4> QED BY <3>4, <4>1, <4>2
    <3> QED BY <2>3, <3>1, <3>5
  <2> QED BY <1>3, <2>1, <2>2, <2>3
<1>9. 1 .. M + 1 \subseteq DOMAIN t2 /\ 1 .. M + 1 \subseteq Nat \ {0} /\ Root \in 1 .. M + 1
  BY <1>2, <1>4
<1> QED BY <1>5, <1>6, <1>7, <1>8, <1>9 DEF Family

LEMMA NamesConcat ==
  ASSUME NEW a \in Names, NEW b \in Names
  PROVE  /\ a \o b \in Names /\ Len(a \o b) = Len(a) + Len(b)
         /\ \A c \in Names : (a \o b) \o c = a \o (b \o c)
<1> DEFINE U == DOMAIN Runes
<1>1. a \in Seq(U) /\ b \in Seq(U)
  BY DEF Names
<1>2. a \o b \in Seq(U) /\ Len(a \o b) = Len(a) + Len(b)
  BY <1>1, ConcatProperties
<1>3. ASSUME NEW c \in Seq(U) PROVE (a \o b) \o c = a \o (b \o c)
  BY <1>1, ConcatAssociative
<1> QED BY <1>2, <1>3 DEF Names

\* One segment more: where it leads, and where it comes from.
LEMMA OneSegment ==
  ASSUME NEW segment \in DOMAIN Runes
  PROVE  <<segment>> \in Names /\ Len(<<segment>>) = 1
  BY DEF Names

Extends(u, a, x) == a \in Names /\ x \in Names /\ Len(x) = 1 /\ u = a \o x

LEMMA SegmentsDiffer ==
  ASSUME NEW u, NEW a, NEW b, NEW x, NEW y, Extends(u, a, x), Extends(u, b, y)
  PROVE  a = b /\ x = y
<1> DEFINE U == DOMAIN Runes
<1>1. a \in Seq(U) /\ b \in Seq(U) /\ x \in Seq(U) /\ y \in Seq(U)
  BY DEF Names, Extends
<1> HIDE DEF U
<1>2. PICK m \in Nat, n \in Nat : m = Len(a) /\ n = Len(b)
  BY <1>1
<1>3. PICK K \in Nat : K = 1
  OBVIOUS
<1>4. IsJoin(a \o x, a, m, x, K) /\ IsJoin(b \o y, b, n, y, K)
  <2>1. IsList(a) /\ IsList(b) /\ IsList(x) /\ IsList(y)
    BY <1>1, SequenceIsList
  <2>2. Len(x) = K /\ Len(y) = K
    BY <1>3 DEF Extends
  <2> QED BY <1>2, <2>1, <2>2, PlacesOfConcat
<1>5. u = a \o x /\ u = b \o y
  BY DEF Extends
<1>6. IsJoin(u, a, m, x, K) /\ IsJoin(u, b, n, y, K)
  BY <1>4, <1>5
<1>7. m = n
  BY <1>3, <1>6 DEF IsJoin
<1>8. \A i \in 1 .. m : a[i] = b[i]
  BY <1>6, <1>7 DEF IsJoin
<1>9. x[1] = y[1]
  <2>1. 1 \in 1 .. K
    BY <1>3
  <2>2. u[m + 1] = x[1] /\ u[n + 1] = y[1]
    BY <1>6, <2>1 DEF IsJoin
  <2> QED BY <1>7, <2>2
<1>10. a = b
  <2>1. Len(a) = Len(b) /\ \A i \in 1 .. Len(a) : a[i] = b[i]
    BY <1>2, <1>7, <1>8
  <2> QED BY <1>1, <2>1, SeqEqual
<1>11. x = y
  BY <1>1, <1>9 DEF Extends
<1> QED BY <1>10, <1>11

\* The new node spells what no other does.
IsNew(tr, n, segment) == \A c : IsChild(tr, n, c) => tr[c].name # <<segment>>
OneSegmentEach(tr, M) == \A c \in 1 .. M : c # Root => Len(tr[c].name) = 1
IsGrownPath(path, path2, M, n, segment) ==
  path2[M + 1] = path[n] \o <<segment>> /\ \A c \in 1 .. M : path2[c] = path[c]

LEMMA GrownSpells ==
  ASSUME NEW tr, NEW t2, NEW M \in Nat, NEW n, NEW segment \in DOMAIN Runes, IsGrown(tr, t2, M, n, segment),
         Family(tr, 1 .. M), NEW path, Spells(tr, 1 .. M, path),
         OneSegmentEach(tr, M), IsNew(tr, n, segment),
         NEW path2, IsGrownPath(path, path2, M, n, segment)
  PROVE  Spells(t2, 1 .. M + 1, path2)
<1>0. /\ \A c \in 1 .. M : c # Root => Len(tr[c].name) = 1
      /\ \A c \in 1 .. M : IsChild(tr, n, c) => tr[c].name # <<segment>>
      /\ path2[M + 1] = path[n] \o <<segment>> /\ \A c \in 1 .. M : path2[c] = path[c]
  BY DEF OneSegmentEach, IsNew, IsGrownPath
<1>1. /\ \A m \in 1 .. M : \A c : IsChild(t2, m, c) <=> IsChild(tr, m, c) \/ (m = n /\ c = M + 1)
      /\ \A c : ~ IsChild(t2, M + 1, c)
  BY GrownChildren
<1>2. /\ n \in 1 .. M /\ Root \in 1 .. M
      /\ \A m \in 1 .. M : t2[m].name = tr[m].name
      /\ t2[M + 1].name = <<segment>>
      /\ \A m \in 1 .. M : \A c : IsChild(tr, m, c) => c \in 1 .. M
      /\ \A c \in 1 .. M : c # Root => \E m \in 1 .. M : IsChild(tr, m, c)
  BY DEF IsGrown, Family
<1>3. \A m \in 1 .. M + 1 : m \in 1 .. M \/ m = M + 1
  OBVIOUS
<1>4. \A m \in 1 .. M : m \in 1 .. M + 1 /\ m # M + 1
  OBVIOUS
<1>5. /\ \A m \in 1 .. M : path[m] \in Names /\ tr[m].name \in Names
      /\ tr[Root].name = <<>> /\ path[Root] = <<>>
      /\ \A m \in 1 .. M : \A c : IsChild(tr, m, c) => path[c] = path[m] \o tr[c].name
      /\ \A m \in 1 .. M, l \in 1 .. M : path[m] = path[l] => m = l
  BY DEF Spells
<1>6. PICK one : one = <<segment>> /\ one \in Names /\ Len(one) = 1
  BY OneSegment
<1>7. path[n] \o one \in Names /\ Len(path[n] \o one) = Len(path[n]) + 1
  BY <1>2, <1>5, <1>6, NamesConcat
<1>8. \A m \in 1 .. M + 1 : path2[m] \in Names /\ t2[m].name \in Names
  BY <1>0, <1>2, <1>3, <1>5, <1>6, <1>7
<1>9. ASSUME NEW c \in 1 .. M PROVE path[c] # path[n] \o one
  <2>1. CASE c = Root
    <3>1. Len(path[c]) = 0
      BY <1>5, <2>1, EmptyIsList
    <3>2. Len(path[n]) \in Nat
      BY <1>2, <1>5 DEF Names
    <3> QED BY <1>7, <3>1, <3>2
  <2>2. CASE c # Root
    <3>1. PICK m \in 1 .. M : IsChild(tr, m, c)
      BY <1>2, <2>2
    <3>2. path[c] = path[m] \o tr[c].name /\ path[m] \in Names /\ path[n] \in Names /\ tr[c].name \in Names /\ Len(tr[c].name) = 1
      BY <1>0, <1>2, <1>5, <2>2, <3>1
    <3>3. path[c] = path[n] \o one => path[m] = path[n] /\ tr[c].name = one
      <4>1. PICK u : u = path[c]
        OBVIOUS
      <4>2. Extends(u, path[m], tr[c].name)
        BY <3>2, <4>1 DEF Extends
      <4>3. path[c] = path[n] \o one => Extends(u, path[n], one)
        BY <1>6, <3>2, <4>1 DEF Extends
      <4> QED BY <3>2, <4>2, <4>3, SegmentsDiffer
    <3>4. path[m] = path[n] => m = n
      BY <1>2, <1>5
    <3> QED BY <1>0, <1>6, <3>1, <3>2, <3>3, <3>4
  <2> QED BY <2>1, <2>2
<1>10. \A m \in 1 .. M + 1 : \A c : IsChild(t2, m, c) => path2[c] = path2[m] \o t2[c].name
  <2>1. \A m \in 1 .. M : \A c : IsChild(tr, m, c) => path2[c] = path2[m] \o t2[c].name
    <3> SUFFICES ASSUME NEW m \in 1 .. M, NEW c, IsChild(tr, m, c) PROVE path2[c] = path2[m] \o t2[c].name
      OBVIOUS
    <3>1. c \in 1 .. M /\ path[c] = path[m] \o tr[c].name
      BY <1>2, <1>5
    <3>2. path2[c] = path[c] /\ path2[m] = path[m] /\ t2[c].name = tr[c].name
      BY <1>0, <1>2, <3>1
    <3> QED BY <3>1, <3>2
  <2>2. path2[M + 1] = path2[n] \o t2[M + 1].name
    BY <1>0, <1>2
  <2> QED BY <1>1, <1>3, <2>1, <2>2
<1>11. \A m \in 1 .. M + 1, l \in 1 .. M + 1 : path2[m] = path2[l] => m = l
  <2>1. path2[M + 1] = path[n] \o one
    BY <1>0, <1>6
  <2> QED BY <1>0, <1>3, <1>5, <1>9, <2>1
<1>12. t2[Root].name = <<>> /\ path2[Root] = <<>>
  BY <1>0, <1>2, <1>5
<1> QED BY <1>8, <1>10, <1>11, <1>12 DEF Spells

LEMMA GrownHouses ==
  ASSUME NEW tr, NEW t2, NEW M \in Nat, NEW n, NEW segment, IsGrown(tr, t2, M, n, segment),
         NEW path, NEW g, NEW waiting, Houses(tr, 1 .. M, path, g, waiting),
         NEW path2, \A c \in 1 .. M : path2[c] = path[c]
  PROVE  Houses(t2, 1 .. M + 1, path2, g, waiting)
<1>1. (\A m \in 1 .. M : t2[m].pkg = tr[m].pkg) /\ t2[M + 1].pkg = 0
  BY DEF IsGrown
<1>2. (\A m \in 1 .. M + 1 : m \in 1 .. M \/ m = M + 1) /\ \A m \in 1 .. M : m \in 1 .. M + 1
  OBVIOUS
<1> QED BY <1>1, <1>2 DEF Houses

\* A node with a package.
IsHoused(tr, t2, n, k) ==
  /\ DOMAIN t2 = DOMAIN tr /\ n \in DOMAIN tr /\ t2[n].pkg = k
  /\ \A m \in DOMAIN tr : t2[m].name = tr[m].name /\ t2[m].children = tr[m].children
  /\ \A m \in DOMAIN tr : m # n => t2[m].pkg = tr[m].pkg

LEMMA HousedKeeps ==
  ASSUME NEW tr, NEW t2, NEW n, NEW k, IsHoused(tr, t2, n, k),
         NEW live, NEW path, Family(tr, live), Spells(tr, live, path)
  PROVE  Family(t2, live) /\ Spells(t2, live, path)
<1>1. live \subseteq DOMAIN tr /\ Root \in live
  BY DEF Family
<1>2. \A m \in live : \A c : IsChild(t2, m, c) <=> IsChild(tr, m, c)
  BY <1>1 DEF IsHoused, IsChild
<1>3. Family(t2, live)
  <2>1. \A m \in live : t2[m].children = tr[m].children
    BY <1>1 DEF IsHoused
  <2>2. DOMAIN t2 = DOMAIN tr
    BY DEF IsHoused
  <2> QED BY <1>2, <2>1, <2>2 DEF Family
<1>4. Spells(t2, live, path)
  <2>1. \A m \in live : t2[m].name = tr[m].name
    BY <1>1 DEF IsHoused
  <2>2. ASSUME NEW m \in live, NEW c, IsChild(t2, m, c) PROVE path[c] = path[m] \o t2[c].name
    <3>1. IsChild(tr, m, c) /\ c \in live
      BY <1>2, <2>2 DEF Family
    <3>2. path[c] = path[m] \o tr[c].name /\ t2[c].name = tr[c].name
      BY <2>1, <3>1 DEF Spells
    <3> QED BY <3>2
  <2> QED BY <1>1, <2>1, <2>2 DEF Spells
<1> QED BY <1>3, <1>4

LEMMA HousedHouses ==
  ASSUME NEW tr, NEW t2, NEW n, NEW k, IsHoused(tr, t2, n, k),
         NEW live, NEW path, NEW g, NEW waiting, Houses(tr, live, path, g, waiting),
         live \subseteq DOMAIN tr, n \in live, k \in DOMAIN g, path[n] = g[k],
         \A l \in DOMAIN g : g[l] = g[k] => l = k,
         NEW rest, waiting \subseteq rest \cup {k}, 0 \notin DOMAIN g
  PROVE  Houses(t2, live, path, g, rest)
<1>1. \A m \in live : m # n => t2[m].pkg = tr[m].pkg
  BY DEF IsHoused
<1>2. t2[n].pkg = k
  BY DEF IsHoused
<1>3. \A m \in live : t2[m].pkg # 0 => t2[m].pkg \in DOMAIN g /\ path[m] = g[t2[m].pkg]
  BY <1>1, <1>2 DEF Houses
<1>4. ASSUME NEW l \in DOMAIN g, l \notin rest PROVE \E m \in live : t2[m].pkg = l
  <2>1. CASE l = k
    BY <1>2, <2>1
  <2>2. CASE l # k
    <3>1. l \notin waiting
      BY <1>4, <2>2
    <3>2. PICK m \in live : tr[m].pkg = l
      BY <1>4, <3>1 DEF Houses
    <3>3. path[m] = g[l]
      BY <1>4, <3>2 DEF Houses
    <3>4. m # n
      BY <1>4, <2>2, <3>3
    <3> QED BY <1>1, <3>2, <3>4
  <2> QED BY <2>1, <2>2
<1> QED BY <1>3, <1>4 DEF Houses

-----------------------------------------------------------------------------
\* A node n that took the place of its only child c.
IsFolded(tr, t2, n, c) ==
  /\ DOMAIN t2 = DOMAIN tr /\ n # Root /\ tr[n].pkg = 0
  /\ \A d : IsChild(tr, n, d) <=> d = c
  /\ t2[n].name = tr[n].name \o tr[c].name /\ t2[n].pkg = tr[c].pkg /\ t2[n].children = tr[c].children
  /\ \A m \in DOMAIN tr : m # n => t2[m] = tr[m]

LEMMA FoldedChildren ==
  ASSUME NEW tr, NEW t2, NEW n, NEW c, IsFolded(tr, t2, n, c), NEW live, Family(tr, live), n \in live
  PROVE  /\ c \in live \ {Root} /\ n < c /\ c # n
         /\ \A d : IsChild(t2, n, d) <=> IsChild(tr, c, d)
         /\ \A m \in live : m # n => \A d : IsChild(t2, m, d) <=> IsChild(tr, m, d)
         /\ \A m \in live : IsChild(tr, m, c) => m = n
         /\ \A m \in live : \A d : IsChild(tr, m, d) => d \in live
<1>1. IsChild(tr, n, c) /\ live \subseteq DOMAIN tr
  BY DEF IsFolded, Family
<1>2. /\ \A m \in live : \A d : IsChild(tr, m, d) => d \in live /\ m < d
      /\ \A m \in live, l \in live : \A d : IsChild(tr, m, d) /\ IsChild(tr, l, d) => m = l
  BY DEF Family
<1>3. \A d : IsChild(t2, n, d) <=> IsChild(tr, c, d)
  BY DEF IsFolded, IsChild
<1>4. \A m \in live : m # n => \A d : IsChild(t2, m, d) <=> IsChild(tr, m, d)
  BY <1>1 DEF IsFolded, IsChild
<1>5. c \in live /\ n < c
  BY <1>1, <1>2
<1>6. c # Root /\ c # n
  <2>1. c \in Nat \ {0} /\ n \in Nat \ {0}
    BY <1>5 DEF Family
  <2> QED BY <1>5, <2>1 DEF Root
<1> QED BY <1>1, <1>2, <1>3, <1>4, <1>5, <1>6

LEMMA FoldedFamily ==
  ASSUME NEW tr, NEW t2, NEW n, NEW c, IsFolded(tr, t2, n, c), NEW live, Family(tr, live), n \in live
  PROVE  Family(t2, live \ {c})
<1> DEFINE kept == live \ {c}
<1>1. /\ c \in live \ {Root} /\ n < c /\ c # n
      /\ \A d : IsChild(t2, n, d) <=> IsChild(tr, c, d)
      /\ \A m \in live : m # n => \A d : IsChild(t2, m, d) <=> IsChild(tr, m, d)
      /\ \A m \in live : IsChild(tr, m, c) => m = n
      /\ \A m \in live : \A d : IsChild(tr, m, d) => d \in live
  BY FoldedChildren
<1>2. /\ live \subseteq DOMAIN tr /\ live \subseteq Nat \ {0} /\ Root \in live
      /\ \A m \in live : \A d : IsChild(tr, m, d) => d \in live /\ m < d
      /\ \A m \in live, l \in live : \A d : IsChild(tr, m, d) /\ IsChild(tr, l, d) => m = l
      /\ \A d \in live : d # Root => \E m \in live : IsChild(tr, m, d)
      /\ \A m \in live : \A i, j \in DOMAIN tr[m].children : tr[m].children[i] = tr[m].children[j] => i = j
  BY DEF Family
<1>3. DOMAIN t2 = DOMAIN tr /\ n # Root /\ (\A d : IsChild(tr, n, d) <=> d = c) /\ t2[n].children = tr[c].children
      /\ \A m \in DOMAIN tr : m # n => t2[m] = tr[m]
  BY DEF IsFolded
<1>4. ASSUME NEW m \in kept, NEW d, IsChild(t2, m, d) PROVE d \in kept /\ m < d
  <2>1. CASE m = n
    <3>1. IsChild(tr, c, d)
      BY <1>1, <1>4, <2>1
    <3>2. d \in live /\ c < d
      BY <1>1, <1>2, <3>1
    <3>3. n \in Nat /\ c \in Nat /\ d \in Nat
      BY <1>1, <1>2, <3>2
    <3> QED BY <1>1, <2>1, <3>2, <3>3
  <2>2. CASE m # n
    <3>1. IsChild(tr, m, d)
      BY <1>1, <1>4, <2>2
    <3> QED BY <1>1, <1>2, <2>2, <3>1
  <2> QED BY <2>1, <2>2
<1>5. ASSUME NEW m \in kept, NEW l \in kept, NEW d, IsChild(t2, m, d), IsChild(t2, l, d) PROVE m = l
  <2>1. m = n \/ IsChild(tr, m, d)
    BY <1>1, <1>5
  <2>2. l = n \/ IsChild(tr, l, d)
    BY <1>1, <1>5
  <2>3. m = n => IsChild(tr, c, d)
    BY <1>1, <1>5
  <2>4. l = n => IsChild(tr, c, d)
    BY <1>1, <1>5
  <2> QED BY <1>1, <1>2, <2>1, <2>2, <2>3, <2>4
<1>6. ASSUME NEW d \in kept, d # Root PROVE \E m \in kept : IsChild(t2, m, d)
  <2>1. PICK m \in live : IsChild(tr, m, d)
    BY <1>2, <1>6
  <2>2. m # n
    BY <1>3, <1>6, <2>1
  <2>3. CASE m = c
    BY <1>1, <2>1, <2>3
  <2>4. CASE m # c
    BY <1>1, <2>1, <2>2, <2>4
  <2> QED BY <2>3, <2>4
<1>7. ASSUME NEW m \in kept
      PROVE  \A i, j \in DOMAIN t2[m].children : t2[m].children[i] = t2[m].children[j] => i = j
  <2>1. m = n \/ t2[m] = tr[m]
    BY <1>2, <1>3
  <2> QED BY <1>1, <1>2, <1>3, <2>1
<1>8. kept \subseteq DOMAIN t2 /\ kept \subseteq Nat \ {0} /\ Root \in kept
  BY <1>1, <1>2, <1>3
<1> QED BY <1>4, <1>5, <1>6, <1>7, <1>8 DEF Family

LEMMA FoldedSpells ==
  ASSUME NEW tr, NEW t2, NEW n, NEW c, IsFolded(tr, t2, n, c), NEW live, Family(tr, live), n \in live,
         NEW path, Spells(tr, live, path),
         NEW path2, path2[n] = path[c], \A m \in live : m # n => path2[m] = path[m]
  PROVE  Spells(t2, live \ {c}, path2)
<1> DEFINE kept == live \ {c}
<1>1. /\ c \in live \ {Root} /\ n < c /\ c # n
      /\ \A d : IsChild(t2, n, d) <=> IsChild(tr, c, d)
      /\ \A m \in live : m # n => \A d : IsChild(t2, m, d) <=> IsChild(tr, m, d)
      /\ \A m \in live : IsChild(tr, m, c) => m = n
      /\ \A m \in live : \A d : IsChild(tr, m, d) => d \in live
  BY FoldedChildren
<1>2. /\ live \subseteq DOMAIN tr /\ live \subseteq Nat \ {0} /\ Root \in live
      /\ \A m \in live : \A d : IsChild(tr, m, d) => d \in live /\ m < d
      /\ \A m \in live, l \in live : \A d : IsChild(tr, m, d) /\ IsChild(tr, l, d) => m = l
  BY DEF Family
<1>3. /\ n # Root /\ IsChild(tr, n, c) /\ t2[n].name = tr[n].name \o tr[c].name
      /\ \A m \in live : m # n => t2[m] = tr[m]
  BY <1>2 DEF IsFolded
<1>4. /\ \A m \in live : path[m] \in Names /\ tr[m].name \in Names
      /\ tr[Root].name = <<>> /\ path[Root] = <<>>
      /\ \A m \in live : \A d : IsChild(tr, m, d) => path[d] = path[m] \o tr[d].name
      /\ \A m \in live, l \in live : path[m] = path[l] => m = l
  BY DEF Spells
<1>5. \A m \in kept : path2[m] \in Names /\ t2[m].name \in Names
  <2>1. tr[n].name \o tr[c].name \in Names /\ path[c] \in Names
    BY <1>1, <1>4, NamesConcat
  <2> QED BY <1>3, <1>4, <2>1
<1>6. t2[Root].name = <<>> /\ path2[Root] = <<>>
  BY <1>2, <1>3, <1>4
<1>7. ASSUME NEW m \in kept, NEW d, IsChild(t2, m, d) PROVE path2[d] = path2[m] \o t2[d].name
  <2>1. CASE m = n
    <3>1. IsChild(tr, c, d) /\ d \in live
      BY <1>1, <1>2, <1>7, <2>1
    <3>2. d # n
      BY <1>1, <1>2, <3>1
    <3>3. path[d] = path[c] \o tr[d].name
      BY <1>1, <1>4, <3>1
    <3>4. path2[d] = path[d] /\ t2[d].name = tr[d].name
      BY <1>3, <3>1, <3>2
    <3> QED BY <2>1, <3>3, <3>4
  <2>2. CASE m # n
    <3>1. IsChild(tr, m, d) /\ d \in live
      BY <1>1, <1>7, <2>2
    <3>2. path[d] = path[m] \o tr[d].name /\ path2[m] = path[m]
      BY <1>4, <2>2, <3>1
    <3>3. CASE d # n
      <4>1. path2[d] = path[d] /\ t2[d].name = tr[d].name
        BY <1>3, <3>1, <3>3
      <4> QED BY <3>2, <4>1
    <3>4. CASE d = n
      <4>1. path[n] = path[m] \o tr[n].name
        BY <3>2, <3>4
      <4>2. path[c] = path[n] \o tr[c].name
        BY <1>3, <1>4
      <4>3. PICK a, b, e : a = path[m] /\ b = tr[n].name /\ e = tr[c].name
        OBVIOUS
      <4>4. a \in Names /\ b \in Names /\ e \in Names
        BY <1>1, <1>4, <4>3
      <4>5. (a \o b) \o e = a \o (b \o e)
        BY <4>4, NamesConcat
      <4>6. path2[d] = (a \o b) \o e
        BY <3>4, <4>1, <4>2, <4>3
      <4>7. t2[d].name = b \o e /\ path2[m] = a
        BY <1>3, <3>2, <3>4, <4>3
      <4> QED BY <4>5, <4>6, <4>7
    <3> QED BY <3>3, <3>4
  <2> QED BY <2>1, <2>2
<1>8. \A m \in kept, l \in kept : path2[m] = path2[l] => m = l
  <2> SUFFICES ASSUME NEW m \in kept, NEW l \in kept, path2[m] = path2[l] PROVE m = l
    OBVIOUS
  <2>1. m # n => path2[m] = path[m]
    OBVIOUS
  <2>2. l # n => path2[l] = path[l]
    OBVIOUS
  <2> QED BY <1>1, <1>4, <2>1, <2>2
<1> QED BY <1>5, <1>6, <1>7, <1>8 DEF Spells

LEMMA FoldedHouses ==
  ASSUME NEW tr, NEW t2, NEW n, NEW c, IsFolded(tr, t2, n, c), NEW live, Family(tr, live), n \in live,
         NEW path, NEW g, Houses(tr, live, path, g, {}),
         NEW path2, path2[n] = path[c], \A m \in live : m # n => path2[m] = path[m], 0 \notin DOMAIN g
  PROVE  Houses(t2, live \ {c}, path2, g, {})
<1>1. c \in live /\ c # n
  BY FoldedChildren
<1>2. tr[n].pkg = 0 /\ t2[n].pkg = tr[c].pkg /\ \A m \in live : m # n => t2[m] = tr[m]
  BY DEF IsFolded, Family
<1>3. \A m \in live \ {c} : t2[m].pkg # 0 => t2[m].pkg \in DOMAIN g /\ path2[m] = g[t2[m].pkg]
  BY <1>1, <1>2 DEF Houses
<1>4. ASSUME NEW k \in DOMAIN g PROVE \E m \in live \ {c} : t2[m].pkg = k
  <2>1. PICK m \in live : tr[m].pkg = k
    BY DEF Houses
  <2>2. m # n
    BY <1>2, <2>1
  <2>3. CASE m = c
    BY <1>1, <1>2, <2>1, <2>3
  <2>4. CASE m # c
    BY <1>2, <2>1, <2>2, <2>4
  <2> QED BY <2>3, <2>4
<1> QED BY <1>3, <1>4 DEF Houses

\* The nodes compressTree still has to look at hang from those it is done with,
\* and nothing below them is done.
Descends(tr, live, s, done) ==
  /\ done \subseteq live /\ Root \in done
  /\ \A n \in live : \A c : IsChild(tr, n, c) /\ c \in done => n \in done
  /\ \A k \in DOMAIN s :
       /\ s[k] \in live \ done
       /\ \A n \in live : IsChild(tr, n, s[k]) => n \in done
  /\ \A k, l \in DOMAIN s : s[k] = s[l] => k = l

LEMMA DescendStarts ==
  ASSUME NEW tr, NEW live, Family(tr, live)
  PROVE  Descends(tr, live, tr[Root].children, {Root})
<1>1. /\ live \subseteq Nat \ {0} /\ Root \in live
      /\ \A m \in live : \A d : IsChild(tr, m, d) => d \in live /\ m < d
      /\ \A m \in live, l \in live : \A d : IsChild(tr, m, d) /\ IsChild(tr, l, d) => m = l
      /\ \A i, j \in DOMAIN tr[Root].children : tr[Root].children[i] = tr[Root].children[j] => i = j
  BY DEF Family
<1>2. \A k \in DOMAIN tr[Root].children : IsChild(tr, Root, tr[Root].children[k])
  BY DEF IsChild
<1>3. \A m \in live : ~ IsChild(tr, m, Root)
  <2> SUFFICES ASSUME NEW m \in live, IsChild(tr, m, Root) PROVE FALSE
    OBVIOUS
  <2>1. m < Root /\ m \in Nat \ {0}
    BY <1>1
  <2> QED BY <2>1 DEF Root
<1>4. \A k \in DOMAIN tr[Root].children : tr[Root].children[k] \in live \ {Root}
  BY <1>1, <1>2, <1>3
<1> QED BY <1>1, <1>2, <1>3, <1>4 DEF Descends

LEMMA FoldedDescends ==
  ASSUME NEW tr, NEW t2, NEW n, NEW c, IsFolded(tr, t2, n, c), NEW live, Family(tr, live), n \in live,
         NEW s, NEW done, Descends(tr, live, s, done), 1 \in DOMAIN s, n = s[1]
  PROVE  Descends(t2, live \ {c}, s, done)
<1>1. /\ c \in live \ {Root} /\ c # n
      /\ \A d : IsChild(t2, n, d) <=> IsChild(tr, c, d)
      /\ \A m \in live : m # n => \A d : IsChild(t2, m, d) <=> IsChild(tr, m, d)
  BY FoldedChildren
<1>2. IsChild(tr, n, c)
  BY DEF IsFolded
<1>3. /\ done \subseteq live /\ Root \in done
      /\ \A m \in live : \A d : IsChild(tr, m, d) /\ d \in done => m \in done
      /\ \A k \in DOMAIN s : s[k] \in live \ done /\ \A m \in live : IsChild(tr, m, s[k]) => m \in done
      /\ \A k, l \in DOMAIN s : s[k] = s[l] => k = l
  BY DEF Descends
<1>4. n \notin done /\ c \notin done
  BY <1>2, <1>3
<1>5. \A k \in DOMAIN s : s[k] # c
  BY <1>2, <1>3, <1>4
<1>6. \A m \in live \ {c} : \A d : IsChild(t2, m, d) /\ d \in done => m \in done
  BY <1>1, <1>3, <1>4
<1>7. \A k \in DOMAIN s : \A m \in live \ {c} : IsChild(t2, m, s[k]) => m \in done
  BY <1>1, <1>3, <1>4
<1> QED BY <1>3, <1>4, <1>5, <1>6, <1>7 DEF Descends

LEMMA DescendGoesOn ==
  ASSUME NEW tr, NEW live, Family(tr, live), NEW s, NEW done, Descends(tr, live, s, done),
         NEW P \in Nat, NEW C \in Nat, DOMAIN s = 1 .. P + 1, DOMAIN tr[s[1]].children = 1 .. C,
         NEW q, DOMAIN q = 1 .. C + P,
         \A i \in 1 .. C : q[i] = tr[s[1]].children[i], \A i \in 1 .. P : q[C + i] = s[i + 1]
  PROVE  Descends(tr, live, q, done \cup {s[1]})
<1>1. PICK n : n = s[1]
  OBVIOUS
<1>2. /\ live \subseteq Nat \ {0}
      /\ \A m \in live : \A d : IsChild(tr, m, d) => d \in live /\ m < d
      /\ \A m \in live, l \in live : \A d : IsChild(tr, m, d) /\ IsChild(tr, l, d) => m = l
      /\ \A m \in live : \A i, j \in DOMAIN tr[m].children : tr[m].children[i] = tr[m].children[j] => i = j
  BY DEF Family
<1>3. /\ done \subseteq live /\ Root \in done
      /\ \A m \in live : \A d : IsChild(tr, m, d) /\ d \in done => m \in done
      /\ \A k \in 1 .. P + 1 : s[k] \in live \ done /\ \A m \in live : IsChild(tr, m, s[k]) => m \in done
      /\ \A k, l \in 1 .. P + 1 : s[k] = s[l] => k = l
  BY DEF Descends
<1>4. 1 \in 1 .. P + 1 /\ \A i \in 1 .. P : i + 1 \in 1 .. P + 1 /\ i + 1 # 1
  OBVIOUS
<1>5. n \in live \ done
  BY <1>1, <1>3, <1>4
<1>6. \A i \in 1 .. C : IsChild(tr, n, q[i])
  BY <1>1 DEF IsChild
<1>7. \A i \in 1 .. C : q[i] \in live /\ q[i] # n /\ q[i] \notin done
  <2> SUFFICES ASSUME NEW i \in 1 .. C PROVE q[i] \in live /\ q[i] # n /\ q[i] \notin done
    OBVIOUS
  <2>1. IsChild(tr, n, q[i]) /\ q[i] \in live /\ n < q[i]
    BY <1>2, <1>5, <1>6
  <2>2. PICK c \in Nat : c = q[i]
    BY <1>2, <2>1
  <2>3. c # n
    BY <1>2, <1>5, <2>1, <2>2
  <2> QED BY <1>3, <1>5, <2>1, <2>2, <2>3
<1>8. \A i \in 1 .. P : q[C + i] \in live \ done /\ q[C + i] # n
  BY <1>1, <1>3, <1>4
<1>9. \A k \in 1 .. C + P : k \in 1 .. C \/ \E i \in 1 .. P : k = C + i
  <2> SUFFICES ASSUME NEW k \in 1 .. C + P, k \notin 1 .. C PROVE \E i \in 1 .. P : k = C + i
    OBVIOUS
  <2>1. k - C \in 1 .. P /\ k = C + (k - C)
    OBVIOUS
  <2> QED BY <2>1
<1>10. \A k \in 1 .. C + P : q[k] \in live \ (done \cup {n})
  BY <1>7, <1>8, <1>9
<1>11. \A k \in 1 .. C + P : \A m \in live : IsChild(tr, m, q[k]) => m \in done \cup {n}
  <2> SUFFICES ASSUME NEW k \in 1 .. C + P, NEW m \in live, IsChild(tr, m, q[k]) PROVE m \in done \cup {n}
    OBVIOUS
  <2>1. CASE k \in 1 .. C
    BY <1>2, <1>5, <1>6, <2>1
  <2>2. ASSUME NEW i \in 1 .. P, k = C + i PROVE m \in done
    BY <1>3, <1>4, <2>2
  <2> QED BY <1>9, <2>1, <2>2
<1>12. \A k, l \in 1 .. C + P : q[k] = q[l] => k = l
  <2>1. \A i \in 1 .. C, j \in 1 .. C : q[i] = q[j] => i = j
    <3> SUFFICES ASSUME NEW i \in 1 .. C, NEW j \in 1 .. C, q[i] = q[j] PROVE i = j
      OBVIOUS
    <3>1. PICK kids : kids = tr[n].children
      OBVIOUS
    <3>2. DOMAIN kids = 1 .. C /\ kids[i] = q[i] /\ kids[j] = q[j]
      BY <1>1, <3>1
    <3>3. \A a, b \in DOMAIN kids : kids[a] = kids[b] => a = b
      BY <1>2, <1>5, <3>1
    <3> QED BY <3>2, <3>3
  <2>2. \A i \in 1 .. P, j \in 1 .. P : q[C + i] = q[C + j] => i = j
    <3> SUFFICES ASSUME NEW i \in 1 .. P, NEW j \in 1 .. P, q[C + i] = q[C + j] PROVE i = j
      OBVIOUS
    <3>1. i + 1 = j + 1
      BY <1>3, <1>4
    <3> QED BY <3>1
  <2>3. \A i \in 1 .. C, j \in 1 .. P : q[i] # q[C + j]
    BY <1>3, <1>4, <1>5, <1>6
  <2> SUFFICES ASSUME NEW k \in 1 .. C + P, NEW l \in 1 .. C + P, q[k] = q[l] PROVE k = l
    OBVIOUS
  <2>4. CASE k \in 1 .. C
    <3>1. l \in 1 .. C
      <4>1. ASSUME NEW j \in 1 .. P, l = C + j PROVE FALSE
        <5>1. q[k] # q[C + j]
          BY <2>3, <2>4
        <5> QED BY <4>1, <5>1
      <4> QED BY <1>9, <4>1
    <3> QED BY <2>1, <2>4, <3>1
  <2>5. CASE \E i \in 1 .. P : k = C + i
    <3>1. PICK i \in 1 .. P : k = C + i
      BY <2>5
    <3>2. \E j \in 1 .. P : l = C + j
      <4>1. l \notin 1 .. C
        BY <2>3, <3>1
      <4> QED BY <1>9, <4>1
    <3>3. PICK j \in 1 .. P : l = C + j
      BY <3>2
    <3> QED BY <2>2, <3>1, <3>3
  <2> QED BY <1>9, <2>4, <2>5
<1>13. \A m \in live : \A d : IsChild(tr, m, d) /\ d \in done \cup {n} => m \in done \cup {n}
  <2>1. \A m \in live : IsChild(tr, m, n) => m \in done
    BY <1>1, <1>3, <1>4
  <2> QED BY <1>3, <2>1
<1> QED BY <1>1, <1>3, <1>5, <1>10, <1>11, <1>12, <1>13 DEF Descends

-----------------------------------------------------------------------------
\* The paths the packages have in the report.
LEMMA GoalsAre ==
  ASSUME report \in Reports
  PROVE  /\ DOMAIN Goals = DOMAIN Packages /\ 0 \notin DOMAIN Goals
         /\ \A k \in DOMAIN Goals : Goals[k] \in Names /\ Goals[k] = Rel(Packages[k].path)
         /\ RelativePathsDiffer => \A k, l \in DOMAIN Goals : Goals[k] = Goals[l] => k = l
<1>1. DOMAIN Goals = DOMAIN Packages /\ \A k \in DOMAIN Goals : Goals[k] = Rel(Packages[k].path)
  BY DEF Goals
<1>2. IsList(Packages) /\ \A k \in DOMAIN Packages : Packages[k].path \in Names
  BY ReportIs DEF Names
<1>3. 0 \notin DOMAIN Packages
  <2>1. DOMAIN Packages = 1 .. Len(Packages) /\ Len(Packages) \in Nat
    BY <1>2, ListIs
  <2> QED BY <2>1
<1>4. \A k \in DOMAIN Packages : Rel(Packages[k].path) \in Names
  BY <1>2, RelIsPath
<1> QED BY <1>1, <1>3, <1>4 DEF RelativePathsDiffer

LEMMA PathsStay ==
  ASSUME report' = report PROVE Goals' = Goals /\ RelativePathsDiffer' = RelativePathsDiffer
  BY DEF Goals, RelativePathsDiffer, Packages, Rel

\* A path is walked down segment by segment.
LEMMA SegmentByName ==
  ASSUME NEW a \in Names, NEW d \in Nat, d < Len(a)
  PROVE  /\ a[d + 1] \in DOMAIN Runes
         /\ SubSeq(a, 1, d) \o <<a[d + 1]>> = SubSeq(a, 1, d + 1)
<1> DEFINE U == DOMAIN Runes
<1>1. a \in Seq(U)
  BY DEF Names
<1> HIDE DEF U
<1>2. Len(a) \in Nat /\ 1 \in 1 .. Len(a) /\ d + 1 \in 1 .. Len(a) /\ (d + 1) - 1 = d
  BY <1>1
<1>3. a[d + 1] \in U
  BY <1>1, <1>2
<1>4. SubSeq(a, 1, d + 1) = SubSeq(a, 1, (d + 1) - 1) \o <<a[d + 1]>>
  BY <1>1, <1>2, SubSeqRecursiveSecond
<1> QED BY <1>2, <1>3, <1>4 DEF U

LEMMA WholePath ==
  ASSUME NEW a \in Names PROVE SubSeq(a, 1, Len(a)) = a /\ SubSeq(a, 1, 0) = <<>> /\ 0 <= Len(a)
<1> DEFINE U == DOMAIN Runes
<1>1. a \in Seq(U)
  BY DEF Names
<1> HIDE DEF U
<1>2. SubSeq(a, 1, Len(a)) = a
  BY <1>1, SubSeqFull
<1>3. SubSeq(a, 1, 0) = <<>> /\ 0 <= Len(a)
  BY <1>1
<1> QED BY <1>2, <1>3

-----------------------------------------------------------------------------
\* Where attachPackage is.
AttachSpells(path) ==
  /\ todo # <<>> => /\ at.depth \in 0 .. Len(Goals[Head(todo)])
                    /\ path[at.node] = SubSeq(Goals[Head(todo)], 1, at.depth)
  /\ \A n \in DOMAIN tree : n # Root => Len(tree[n].name) = 1

Waiting == IF phase = "attach" THEN Range(todo) ELSE {}
PathsSpelled(live, path) ==
  /\ Family(tree, live) /\ Spells(tree, live, path) /\ Houses(tree, live, path, Goals, Waiting)
  /\ phase = "attach" => live = DOMAIN tree /\ AttachSpells(path)
  /\ phase = "compress" => \E done : Descends(tree, live, todo, done)
TreeSpelled == RelativePathsDiffer => \E live, path : PathsSpelled(live, path)

LEMMA SpellingStarts == ASSUME TreeInit PROVE TreeSpelled
<1> SUFFICES ASSUME RelativePathsDiffer PROVE \E live, path : PathsSpelled(live, path)
  BY DEF TreeSpelled
<1>1. /\ report \in Reports /\ phase = "attach" /\ todo = [k \in DOMAIN Packages |-> k]
      /\ at = [node |-> Root, depth |-> 0] /\ tree = <<NewNode(<<>>)>>
  BY DEF TreeInit, Packages
<1> DEFINE path == [n \in {1} |-> <<>>]
<1>2. PICK node : node = NewNode(<<>>) /\ node.name = <<>> /\ node.pkg = 0 /\ node.children = <<>>
  <2>1. PICK node : node = NewNode(<<>>)
    OBVIOUS
  <2>2. node.name = <<>> /\ node.pkg = 0 /\ node.children = <<>>
    BY <2>1 DEF NewNode
  <2> QED BY <2>1, <2>2
<1>3. DOMAIN tree = {1} /\ tree[1] = node
  BY <1>1, <1>2
<1>4. Root = 1 /\ <<>> \in Names
  BY DEF Root, Names
<1>5. \A n \in {1} : \A c : ~ IsChild(tree, n, c)
  <2>1. DOMAIN tree[1].children = {}
    BY <1>2, <1>3
  <2> QED BY <2>1 DEF IsChild
<1>6. Family(tree, {1})
  <2>1. DOMAIN tree[1].children = {}
    BY <1>2, <1>3
  <2> QED BY <1>3, <1>4, <1>5, <2>1 DEF Family
<1>7. Spells(tree, {1}, path)
  BY <1>2, <1>3, <1>4, <1>5 DEF Spells
<1>8. Houses(tree, {1}, path, Goals, Waiting)
  <2>1. \A k \in DOMAIN Goals : k \in Range(todo)
    BY <1>1, GoalsAre DEF Range
  <2> QED BY <1>1, <1>2, <1>3, <2>1 DEF Houses, Waiting
<1>9. AttachSpells(path)
  <2>1. \A n \in DOMAIN tree : n # Root => Len(tree[n].name) = 1
    BY <1>3, <1>4
  <2>2. ASSUME todo # <<>>
        PROVE  at.depth \in 0 .. Len(Goals[Head(todo)]) /\ path[at.node] = SubSeq(Goals[Head(todo)], 1, at.depth)
    <3>1. IsList(Packages)
      BY <1>1, ReportIs
    <3>2. PICK K \in Nat : DOMAIN Packages = 1 .. K
      BY <3>1, ListIs
    <3>3. todo \in Seq(1 .. K)
      BY <1>1, <3>2
    <3>4. Head(todo) \in DOMAIN Packages
      BY <2>2, <3>2, <3>3
    <3>5. PICK a \in Names : a = Goals[Head(todo)]
      BY <1>1, <3>4, GoalsAre
    <3>6. SubSeq(a, 1, 0) = <<>> /\ 0 <= Len(a) /\ Len(a) \in Nat
      BY WholePath DEF Names
    <3>7. at.depth = 0 /\ at.node = 1 /\ path[1] = <<>>
      BY <1>1, <1>4
    <3> HIDE DEF path
    <3> QED BY <3>5, <3>6, <3>7
  <2> QED BY <2>1, <2>2 DEF AttachSpells
<1>10. PathsSpelled({1}, path)
  BY <1>1, <1>3, <1>6, <1>7, <1>8, <1>9 DEF PathsSpelled
<1> QED BY <1>10

LEMMA WithChildGrows ==
  ASSUME IsTree, NEW M \in Nat, DOMAIN tree = 1 .. M, NEW n \in 1 .. M, NEW segment
  PROVE  IsGrown(tree, WithChild(n, segment), M, n, segment)
<1>1. PICK new : new = NewNode(<<segment>>)
  OBVIOUS
<1>2. new.name = <<segment>> /\ new.pkg = 0 /\ new.children = <<>>
  BY <1>1 DEF NewNode
<1>3. Len(tree) = M /\ tree \in Seq(TreeNodes(M))
  BY TreeIs DEF IsTree
<1> DEFINE U == TreeNodes(M) \cup {new}
<1>4. tree \in Seq(U) /\ new \in U
  <2>1. tree \in [1 .. M -> TreeNodes(M)]
    BY <1>3
  <2>2. tree \in [1 .. M -> U]
    BY <2>1
  <2> HIDE DEF U
  <2> QED BY <2>2 DEF U
<1> HIDE DEF U
<1>5. PICK grown : grown = Append(tree, new)
  OBVIOUS
<1>6. /\ DOMAIN grown = 1 .. M + 1 /\ grown[M + 1] = new
      /\ \A m \in 1 .. M : grown[m] = tree[m]
  BY <1>3, <1>4, <1>5
<1>7. PICK kids : kids = tree[n].children
  OBVIOUS
<1>8. kids \in Seq(1 .. M)
  BY <1>3, <1>7, TreeIs DEF TreeNodes
<1>9. PICK C \in Nat : C = Len(kids) /\ DOMAIN kids = 1 .. C
  BY <1>8
<1>10. PICK more : more = Append(kids, M + 1)
  OBVIOUS
<1>11. DOMAIN more = 1 .. C + 1 /\ more[C + 1] = M + 1 /\ \A j \in 1 .. C : more[j] = kids[j]
  <2>1. kids \in Seq(Int) /\ M + 1 \in Int
    BY <1>8
  <2> QED BY <1>9, <1>10, <2>1
<1>12. PICK t2 : t2 = WithChild(n, segment)
  OBVIOUS
<1>13. t2 = [grown EXCEPT ![n].children = more]
  BY <1>1, <1>3, <1>5, <1>6, <1>7, <1>10, <1>12 DEF WithChild
<1>14. DOMAIN t2 = 1 .. M + 1 /\ n \in 1 .. M + 1 /\ n # M + 1
  BY <1>6, <1>13
<1>15. \A m \in 1 .. M + 1 : m # n => t2[m] = grown[m]
  BY <1>6, <1>13
<1>16. t2[n].name = tree[n].name /\ t2[n].pkg = tree[n].pkg /\ t2[n].children = more
  <2>1. t2[n] = [grown[n] EXCEPT !.children = more] /\ grown[n] = tree[n]
    BY <1>6, <1>13, <1>14
  <2>2. PICK node \in TreeNodes(M) : node = tree[n]
    BY <1>3, TreeIs
  <2>3. t2[n] = [node EXCEPT !.children = more]
    BY <2>1, <2>2
  <2>4. node = [name |-> node.name, pkg |-> node.pkg, children |-> node.children]
    BY DEF TreeNodes
  <2> QED BY <2>2, <2>3, <2>4
<1>17. \A m \in 1 .. M : m \in 1 .. M + 1
  OBVIOUS
<1>18. \A m \in 1 .. M : t2[m].name = tree[m].name /\ t2[m].pkg = tree[m].pkg /\ (m # n => t2[m].children = tree[m].children)
  BY <1>6, <1>15, <1>16, <1>17
<1>19. t2[M + 1] = new
  BY <1>6, <1>14, <1>15
<1> QED BY <1>2, <1>7, <1>9, <1>11, <1>12, <1>14, <1>16, <1>18, <1>19 DEF IsGrown

\* The path that is being attached, and how far down it attachPackage is.
LEMMA AttachingIs ==
  ASSUME TreeInv, phase = "attach", todo # <<>>
  PROVE  /\ todo \in Seq(DOMAIN Packages) /\ Head(todo) \in DOMAIN Goals
         /\ Goals[Head(todo)] \in Names /\ AttachPath = Goals[Head(todo)]
         /\ at.node \in DOMAIN tree /\ at.depth \in Nat
<1>1. todo \in Seq(DOMAIN Packages) /\ at.node \in DOMAIN tree /\ at.depth \in Nat /\ report \in Reports
  BY DEF TreeInv, AttachInv
<1>2. Head(todo) \in DOMAIN Packages
  BY <1>1, TailIs
<1> QED BY <1>1, <1>2, GoalsAre DEF AttachPath

\* The first child of a name is one of that name.
LEMMA FirstNamedIsOne ==
  ASSUME IsTree, NEW n \in DOMAIN tree, NEW segment, Named(n, segment) # {}
  PROVE  IsChild(tree, n, FirstNamed(n, segment)) /\ tree[FirstNamed(n, segment)].name = <<segment>>
<1> DEFINE K == Named(n, segment)
<1>1. Len(tree[n].children) \in Nat /\ DOMAIN tree[n].children = 1 .. Len(tree[n].children)
  BY TreeIs, ListIs
<1>2. K \subseteq DOMAIN tree[n].children /\ \A k \in K : tree[tree[n].children[k]].name = <<segment>>
  BY DEF Named
<1>3. FirstNamed(n, segment) = tree[n].children[CHOOSE k \in K : \A l \in K : k <= l]
  BY DEF FirstNamed
<1> HIDE DEF K
<1>4. K \subseteq Nat
  BY <1>1, <1>2
<1>5. K # {}
  BY DEF K
<1>6. \E k \in K : \A l \in K : k <= l
  BY <1>4, <1>5, LeastElement
<1>7. PICK k \in K : k = CHOOSE i \in K : \A l \in K : i <= l
  BY <1>6
<1> QED BY <1>2, <1>3, <1>7 DEF IsChild

LEMMA DownSpells ==
  ASSUME TreeInv, RelativePathsDiffer, Down, NEW live, NEW path, PathsSpelled(live, path)
  PROVE  \E l2, p2 : PathsSpelled(l2, p2)'
<1>1. /\ phase = "attach" /\ todo # <<>> /\ at.depth < Len(AttachPath)
      /\ UNCHANGED <<report, phase, todo>>
  BY DEF Down
<1>2. PICK a \in Names, n \in DOMAIN tree, d \in Nat :
        a = Goals[Head(todo)] /\ a = AttachPath /\ n = at.node /\ d = at.depth
  BY <1>1, AttachingIs
<1>3. PICK segment : segment = a[d + 1]
  OBVIOUS
<1>4. segment \in DOMAIN Runes /\ SubSeq(a, 1, d) \o <<segment>> = SubSeq(a, 1, d + 1)
  BY <1>1, <1>2, <1>3, SegmentByName
<1>5. /\ tree' = IF Named(n, segment) # {} THEN tree ELSE WithChild(n, segment)
      /\ at'.node = IF Named(n, segment) # {} THEN FirstNamed(n, segment) ELSE Len(tree) + 1
      /\ at'.depth = d + 1
  BY <1>2, <1>3 DEF Down
<1>6. /\ live = DOMAIN tree /\ path[n] = SubSeq(a, 1, d)
      /\ \A m \in DOMAIN tree : m # Root => Len(tree[m].name) = 1
      /\ Family(tree, live) /\ Spells(tree, live, path) /\ Houses(tree, live, path, Goals, Waiting)
  BY <1>1, <1>2 DEF PathsSpelled, AttachSpells
<1>7. IsTree /\ Goals' = Goals /\ Waiting' = Waiting
  BY <1>1, PathsStay DEF Waiting, TreeInv
<1>8. d + 1 \in 0 .. Len(a)
  <2>1. Len(a) \in Nat
    BY DEF Names
  <2> QED BY <1>1, <1>2, <2>1
<1>9. ASSUME NEW p2, \A m \in DOMAIN tree' : m # Root => Len(tree'[m].name) = 1,
             p2[at'.node] = SubSeq(a, 1, d + 1)
      PROVE  AttachSpells(p2)'
  BY <1>1, <1>2, <1>5, <1>7, <1>8, <1>9 DEF AttachSpells
<1>10. CASE Named(n, segment) # {}
  <2>1. PICK c : c = FirstNamed(n, segment)
    OBVIOUS
  <2>2. IsChild(tree, n, c) /\ tree[c].name = <<segment>>
    BY <1>7, <1>10, <2>1, FirstNamedIsOne
  <2>3. path[c] = path[n] \o tree[c].name
    BY <1>6, <2>2 DEF Spells
  <2>4. path[at'.node] = SubSeq(a, 1, d + 1)
    BY <1>4, <1>5, <1>6, <1>10, <2>1, <2>2, <2>3
  <2>5. tree' = tree
    BY <1>5, <1>10
  <2>6. AttachSpells(path)'
    BY <1>6, <1>9, <2>4, <2>5
  <2>7. PathsSpelled(live, path)'
    BY <1>1, <1>6, <1>7, <2>5, <2>6 DEF PathsSpelled
  <2> QED BY <2>7
<1>11. CASE Named(n, segment) = {}
  <2>1. PICK M \in Nat : M = Len(tree) /\ DOMAIN tree = 1 .. M
    BY <1>7, TreeIs
  <2>2. tree' = WithChild(n, segment) /\ at'.node = M + 1
    BY <1>5, <1>11, <2>1
  <2>3. IsGrown(tree, tree', M, n, segment)
    BY <1>7, <2>1, <2>2, WithChildGrows
  <2> DEFINE p2 == [m \in 1 .. M + 1 |-> IF m = M + 1 THEN path[n] \o <<segment>> ELSE path[m]]
  <2>4. p2[M + 1] = path[n] \o <<segment>> /\ \A m \in 1 .. M : p2[m] = path[m]
    <3>1. M + 1 \in 1 .. M + 1 /\ \A m \in 1 .. M : m \in 1 .. M + 1 /\ m # M + 1
      OBVIOUS
    <3> QED BY <3>1
  <2> HIDE DEF p2
  <2>5. Family(tree', 1 .. M + 1)
    BY <1>6, <2>1, <2>3, GrownFamily
  <2>6. Spells(tree', 1 .. M + 1, p2)
    <3>1. IsNew(tree, n, segment)
      BY <1>11 DEF IsChild, Named, IsNew
    <3>2. OneSegmentEach(tree, M) /\ IsGrownPath(path, p2, M, n, segment)
      BY <1>6, <2>1, <2>4 DEF OneSegmentEach, IsGrownPath
    <3>3. Family(tree, 1 .. M) /\ Spells(tree, 1 .. M, path)
      BY <1>6, <2>1
    <3> QED BY <1>4, <2>3, <3>1, <3>2, <3>3, GrownSpells
  <2>7. Houses(tree', 1 .. M + 1, p2, Goals, Waiting)
    BY <1>6, <2>1, <2>3, <2>4, GrownHouses
  <2>8. \A m \in DOMAIN tree' : m # Root => Len(tree'[m].name) = 1
    <3>1. /\ DOMAIN tree' = 1 .. M + 1 /\ tree'[M + 1].name = <<segment>>
          /\ \A m \in 1 .. M : tree'[m].name = tree[m].name
      BY <2>3 DEF IsGrown
    <3>2. \A m \in 1 .. M + 1 : m \in 1 .. M \/ m = M + 1
      OBVIOUS
    <3>3. Len(<<segment>>) = 1
      OBVIOUS
    <3> QED BY <1>6, <2>1, <3>1, <3>2, <3>3
  <2>9. AttachSpells(p2)'
    BY <1>4, <1>6, <1>9, <2>2, <2>4, <2>8
  <2>10. DOMAIN tree' = 1 .. M + 1
    BY <2>3 DEF IsGrown
  <2>11. PathsSpelled(1 .. M + 1, p2)'
    BY <1>1, <1>7, <2>5, <2>6, <2>7, <2>9, <2>10 DEF PathsSpelled
  <2> QED BY <2>11, SMTT(30)
<1> QED BY <1>10, <1>11

\* attachPackage puts a package where its path ends.
LEMMA AttachHouses ==
  ASSUME TreeInv, RelativePathsDiffer, Attach, NEW live, NEW path, PathsSpelled(live, path)
  PROVE  PathsSpelled(live, path)'
<1>1. /\ phase = "attach" /\ todo # <<>> /\ at.depth = Len(AttachPath)
      /\ tree' = [tree EXCEPT ![at.node].pkg = Head(todo)]
      /\ todo' = Tail(todo) /\ at'.node = Root /\ at'.depth = 0 /\ UNCHANGED <<report, phase>>
  BY DEF Attach
<1>2. PICK n \in DOMAIN tree, a \in Names, k \in DOMAIN Goals :
        n = at.node /\ k = Head(todo) /\ a = Goals[k] /\ a = AttachPath
  BY <1>1, AttachingIs
<1>3. /\ live = DOMAIN tree /\ path[n] = SubSeq(a, 1, at.depth)
      /\ \A m \in DOMAIN tree : m # Root => Len(tree[m].name) = 1
      /\ Family(tree, live) /\ Spells(tree, live, path) /\ Houses(tree, live, path, Goals, Range(todo))
  BY <1>1, <1>2 DEF PathsSpelled, AttachSpells, Waiting
<1>4. path[n] = a
  BY <1>1, <1>2, <1>3, WholePath
<1>5. IsHoused(tree, tree', n, k)
  <2>1. IsTree
    BY DEF TreeInv
  <2>2. PICK old \in TreeNodes(Len(tree)) : old = tree[n]
    BY <2>1, TreeIs
  <2>3. PICK node : node = [old EXCEPT !.pkg = k]
    OBVIOUS
  <2>4. node.name = old.name /\ node.children = old.children /\ node.pkg = k
    BY <2>3 DEF TreeNodes
  <2>5. tree' = [tree EXCEPT ![n] = node]
    BY <1>1, <1>2, <2>2, <2>3
  <2>6. DOMAIN tree' = DOMAIN tree /\ tree'[n] = node /\ \A m \in DOMAIN tree : m # n => tree'[m] = tree[m]
    BY <2>5
  <2> QED BY <2>2, <2>4, <2>6 DEF IsHoused
<1>6. Family(tree', live) /\ Spells(tree', live, path)
  BY <1>3, <1>5, HousedKeeps
<1>7. todo \in Seq(DOMAIN Packages) /\ Tail(todo) \in Seq(DOMAIN Packages) /\ report \in Reports
  BY <1>1, AttachingIs, TailIs DEF TreeInv
<1>8. PICK rest : rest = Range(Tail(todo))
  OBVIOUS
<1>9. Range(todo) \subseteq rest \cup {k}
  <2>1. IsList(todo)
    BY <1>7, SequenceIsList
  <2>2. PICK N \in Nat : /\ Len(todo) = N + 1 /\ Head(todo) = todo[1]
                         /\ IsList(Tail(todo)) /\ Len(Tail(todo)) = N
                         /\ \A i \in 1 .. N : Tail(todo)[i] = todo[i + 1]
    BY <1>1, <2>1, PlacesOfTail
  <2>3. DOMAIN todo = 1 .. N + 1 /\ DOMAIN Tail(todo) = 1 .. N
    BY <2>1, <2>2, ListIs
  <2>4. \A i \in 1 .. N + 1 : i = 1 \/ (i - 1 \in 1 .. N /\ i = (i - 1) + 1)
    OBVIOUS
  <2>5. \A i \in 1 .. N + 1 : todo[i] = k \/ todo[i] \in rest
    <3> SUFFICES ASSUME NEW i \in 1 .. N + 1, i # 1 PROVE todo[i] \in rest
      BY <1>2, <2>2
    <3>1. PICK j \in 1 .. N : i = j + 1
      BY <2>4
    <3> QED BY <1>8, <2>2, <2>3, <3>1 DEF Range
  <2> QED BY <2>3, <2>5 DEF Range
<1>10. 0 \notin DOMAIN Goals /\ \A l \in DOMAIN Goals : Goals[l] = Goals[k] => l = k
  BY <1>7, GoalsAre
<1>11. Houses(tree', live, path, Goals, rest)
  <2>1. live \subseteq DOMAIN tree /\ n \in live /\ path[n] = Goals[k]
    BY <1>2, <1>3, <1>4
  <2> QED BY <1>3, <1>5, <1>9, <1>10, <2>1, HousedHouses
<1>12. Goals' = Goals /\ Waiting' = rest
  BY <1>1, <1>8, PathsStay DEF Waiting
<1>13. AttachSpells(path)'
  <2>1. \A m \in DOMAIN tree' : m # Root => Len(tree'[m].name) = 1
    BY <1>3, <1>5 DEF IsHoused
  <2>2. ASSUME todo' # <<>>
        PROVE  at'.depth \in 0 .. Len(Goals[Head(todo')]) /\ path[at'.node] = SubSeq(Goals[Head(todo')], 1, at'.depth)
    <3>1. Head(todo') \in DOMAIN Packages
      BY <1>1, <1>7, <2>2, TailIs
    <3>2. PICK b \in Names : b = Goals[Head(todo')]
      BY <1>7, <3>1, GoalsAre
    <3>3. SubSeq(b, 1, 0) = <<>> /\ 0 <= Len(b) /\ Len(b) \in Nat
      BY WholePath DEF Names
    <3>4. path[Root] = <<>>
      BY <1>3 DEF Spells
    <3> QED BY <1>1, <3>2, <3>3, <3>4
  <2> QED BY <1>12, <2>1, <2>2 DEF AttachSpells
<1>14. live = DOMAIN tree'
  BY <1>3, <1>5 DEF IsHoused
<1> QED BY <1>1, <1>6, <1>11, <1>12, <1>13, <1>14 DEF PathsSpelled

\* compressTree starts below the root: by then every package has its place.
LEMMA CompressingStarts ==
  ASSUME StartCompress, NEW live, NEW path, PathsSpelled(live, path)
  PROVE  PathsSpelled(live, path)'
<1>1. phase = "attach" /\ todo = <<>> /\ phase' = "compress" /\ todo' = tree[Root].children /\ UNCHANGED <<report, tree>>
  BY DEF StartCompress
<1>2. Waiting = {} /\ Waiting' = {} /\ Goals' = Goals
  BY <1>1, PathsStay DEF Waiting, Range
<1>3. Family(tree, live) /\ Spells(tree, live, path) /\ Houses(tree, live, path, Goals, Waiting)
  BY DEF PathsSpelled
<1>4. Descends(tree, live, todo', {Root})
  BY <1>1, <1>3, DescendStarts
<1> QED BY <1>1, <1>2, <1>3, <1>4 DEF PathsSpelled

\* absorbOnlyChild puts the only child in the node's place.
IsMoved(tr, t2, n, c) ==
  /\ DOMAIN t2 = DOMAIN tr /\ n \in DOMAIN tr /\ c \in DOMAIN tr /\ tr[n].pkg = 0
  /\ \A d : IsChild(tr, n, d) <=> d = c
  /\ t2[n].name = tr[n].name \o tr[c].name /\ t2[n].pkg = tr[c].pkg /\ t2[n].children = tr[c].children
  /\ \A m \in DOMAIN tr : m # n => t2[m] = tr[m]

LEMMA AbsorbMoves ==
  ASSUME TreeInv, Absorb
  PROVE  \E n, c : n = Head(todo) /\ n = todo[1] /\ 1 \in DOMAIN todo /\ IsMoved(tree, tree', n, c)
<1> DEFINE n == Head(todo)
           c == tree[n].children[1]
<1>1. /\ phase = "compress" /\ todo # <<>> /\ Absorbs(n)
      /\ tree' = [tree EXCEPT ![n] = [tree[c] EXCEPT !.name = AbsorbedName(n, c)]]
      /\ IsTree /\ todo \in Seq(DOMAIN tree)
  BY DEF TreeInv, Absorb, CompressInv
<1>2. n \in DOMAIN tree /\ 1 \in DOMAIN todo /\ n = todo[1]
  <2>1. Len(todo) \in Nat \ {0} /\ DOMAIN todo = 1 .. Len(todo) /\ n = todo[1]
    BY <1>1
  <2> QED BY <1>1, <2>1, TailIs
<1>3. DOMAIN tree[n].children = {1}
  <2>1. DOMAIN tree[n].children = 1 .. Len(tree[n].children) /\ Len(tree[n].children) = 1
    BY <1>1, <1>2, TreeIs, ListIs DEF Absorbs
  <2> QED BY <2>1
<1>4. c \in DOMAIN tree
  BY <1>1, <1>2, <1>3, TreeIs
<1> HIDE DEF n, c
<1>5. PICK old \in TreeNodes(Len(tree)) : old = tree[c]
  BY <1>1, <1>4, TreeIs
<1>6. PICK node : node = [old EXCEPT !.name = AbsorbedName(n, c)]
  OBVIOUS
<1>7. node.name = AbsorbedName(n, c) /\ node.children = old.children /\ node.pkg = old.pkg
  BY <1>6 DEF TreeNodes
<1>8. tree' = [tree EXCEPT ![n] = node]
  BY <1>1, <1>5, <1>6
<1>9. DOMAIN tree' = DOMAIN tree /\ tree'[n] = node /\ \A m \in DOMAIN tree : m # n => tree'[m] = tree[m]
  BY <1>2, <1>8
<1>10. IsMoved(tree, tree', n, c)
  <2>1. tree[n].pkg = 0
    BY <1>1 DEF Absorbs
  <2>2. \A d : IsChild(tree, n, d) <=> d = c
    BY <1>3 DEF IsChild, c
  <2>3. tree'[n].name = tree[n].name \o tree[c].name
    BY <1>7, <1>9 DEF AbsorbedName
  <2> QED BY <1>2, <1>4, <1>5, <1>7, <1>9, <2>1, <2>2, <2>3 DEF IsMoved
<1> QED BY <1>2, <1>10 DEF n

\* A node that takes its only child's place spells what the child did.
LEMMA AbsorbSpells ==
  ASSUME TreeInv, Absorb, NEW live, NEW path, PathsSpelled(live, path)
  PROVE  \E l2, p2 : PathsSpelled(l2, p2)'
<1>1. phase = "compress" /\ todo # <<>> /\ UNCHANGED <<report, phase, todo>> /\ report \in Reports
  BY DEF TreeInv, Absorb
<1>2. PICK n, c : n = todo[1] /\ 1 \in DOMAIN todo /\ IsMoved(tree, tree', n, c)
  BY AbsorbMoves
<1>10. PICK done : Descends(tree, live, todo, done)
  BY <1>1 DEF PathsSpelled
<1>11. Family(tree, live) /\ Spells(tree, live, path) /\ Houses(tree, live, path, Goals, {})
  BY <1>1 DEF PathsSpelled, Waiting
<1>12. n \in live /\ n # Root
  BY <1>2, <1>10 DEF Descends
<1>13. IsFolded(tree, tree', n, c)
  BY <1>2, <1>12 DEF IsMoved, IsFolded
<1> DEFINE p2 == [m \in live |-> IF m = n THEN path[c] ELSE path[m]]
<1>14. p2[n] = path[c] /\ \A m \in live : m # n => p2[m] = path[m]
  BY <1>12
<1> HIDE DEF p2
<1>15. Family(tree', live \ {c})
  BY <1>11, <1>12, <1>13, FoldedFamily
<1>16. Spells(tree', live \ {c}, p2)
  BY <1>11, <1>12, <1>13, <1>14, FoldedSpells
<1>17. Houses(tree', live \ {c}, p2, Goals, {})
  <2>1. 0 \notin DOMAIN Goals
    BY <1>1, GoalsAre
  <2> QED BY <1>11, <1>12, <1>13, <1>14, <2>1, FoldedHouses
<1>18. Descends(tree', live \ {c}, todo, done)
  BY <1>2, <1>10, <1>11, <1>12, <1>13, FoldedDescends
<1>19. Goals' = Goals /\ Waiting' = {}
  BY <1>1, PathsStay DEF Waiting
<1>20. PICK l2, q2 : l2 = live \ {c} /\ q2 = p2
  OBVIOUS
<1>21. Family(tree', l2) /\ Spells(tree', l2, q2) /\ Houses(tree', l2, q2, Goals, {}) /\ Descends(tree', l2, todo, done)
  BY <1>15, <1>16, <1>17, <1>18, <1>20
<1>22. PathsSpelled(l2, q2)'
  BY <1>1, <1>19, <1>21 DEF PathsSpelled
<1> QED BY <1>22

LEMMA DescendSpells ==
  ASSUME TreeInv, Descend, NEW live, NEW path, PathsSpelled(live, path)
  PROVE  PathsSpelled(live, path)'
<1>1. /\ phase = "compress" /\ todo # <<>> /\ UNCHANGED <<report, phase, tree>>
      /\ todo' = tree[Head(todo)].children \o Tail(todo) /\ IsTree /\ todo \in Seq(DOMAIN tree)
  BY DEF TreeInv, Descend, CompressInv
<1>2. IsList(todo)
  BY <1>1, SequenceIsList
<1>3. PICK P \in Nat : /\ Len(todo) = P + 1 /\ Head(todo) = todo[1]
                       /\ IsList(Tail(todo)) /\ Len(Tail(todo)) = P
                       /\ \A i \in 1 .. P : Tail(todo)[i] = todo[i + 1]
  BY <1>1, <1>2, PlacesOfTail
<1>4. PICK n : n = todo[1]
  OBVIOUS
<1>5. n \in DOMAIN tree
  BY <1>1, <1>3, <1>4, TailIs
<1>6. PICK kids : kids = tree[n].children
  OBVIOUS
<1>7. IsList(kids)
  BY <1>1, <1>5, <1>6, TreeIs
<1>8. PICK C \in Nat : C = Len(kids) /\ DOMAIN kids = 1 .. C
  BY <1>7, ListIs
<1>9. PICK q : q = kids \o Tail(todo)
  OBVIOUS
<1>10. todo' = q
  BY <1>1, <1>3, <1>4, <1>6, <1>9
<1>11. IsJoin(q, kids, C, Tail(todo), P)
  BY <1>3, <1>7, <1>8, <1>9, PlacesOfConcat
<1>12. DOMAIN q = 1 .. C + P /\ (\A i \in 1 .. C : q[i] = kids[i]) /\ \A i \in 1 .. P : q[C + i] = todo[i + 1]
  <2>1. IsList(q) /\ Len(q) = C + P
    BY <1>11 DEF IsJoin
  <2>2. DOMAIN q = 1 .. C + P
    BY <2>1, ListIs
  <2> QED BY <1>3, <1>11, <2>2 DEF IsJoin
<1>13. DOMAIN todo = 1 .. P + 1
  BY <1>2, <1>3, ListIs
<1>14. PICK done : Descends(tree, live, todo, done)
  BY <1>1 DEF PathsSpelled
<1>15. Family(tree, live)
  BY DEF PathsSpelled
<1>16. Descends(tree, live, q, done \cup {todo[1]})
  <2>1. DOMAIN tree[todo[1]].children = 1 .. C /\ \A i \in 1 .. C : q[i] = tree[todo[1]].children[i]
    BY <1>4, <1>6, <1>8, <1>12
  <2> QED BY <1>12, <1>13, <1>14, <1>15, <2>1, DescendGoesOn
<1>17. Goals' = Goals /\ Waiting' = Waiting
  BY <1>1, PathsStay DEF Waiting
<1> QED BY <1>1, <1>10, <1>16, <1>17 DEF PathsSpelled

\* From then on the tree stays.
LEMMA SpellingStays ==
  ASSUME UNCHANGED <<report, tree>>, NEW live, NEW path, PathsSpelled(live, path),
         phase' \notin {"attach", "compress"}, phase = "attach" => todo = <<>>
  PROVE  PathsSpelled(live, path)'
<1>1. Goals' = Goals /\ Waiting' = {} /\ Waiting = {}
  BY PathsStay DEF Waiting, Range
<1> QED BY <1>1 DEF PathsSpelled

LEMMA SpellingGoesOn == ASSUME TreeInv, TreeSpelled, BuildTable \/ UNCHANGED tablevars PROVE TreeSpelled'
<1>1. report' = report /\ RelativePathsDiffer' = RelativePathsDiffer
  <2>1. report' = report
    BY Zenon DEF BuildTable, Down, Attach, StartCompress, Absorb, Descend,
           StartAggregate, Visit, Return, StartEmit, EmitNode, EndEmit, tablevars
  <2> QED BY <2>1, PathsStay
<1> SUFFICES ASSUME RelativePathsDiffer PROVE \E l2, p2 : PathsSpelled(l2, p2)'
  BY <1>1 DEF TreeSpelled
<1>2. PICK live, path : PathsSpelled(live, path)
  BY DEF TreeSpelled
<1>3. CASE Down
  BY <1>2, <1>3, DownSpells
<1>4. CASE Attach
  BY <1>2, <1>4, AttachHouses
<1>5. CASE StartCompress
  BY <1>2, <1>5, CompressingStarts
<1>6. CASE Absorb
  BY <1>2, <1>6, AbsorbSpells
<1>7. CASE Descend
  BY <1>2, <1>7, DescendSpells
<1>8. CASE StartAggregate \/ Visit \/ Return \/ StartEmit \/ EmitNode \/ EndEmit
  <2>1. UNCHANGED <<report, tree>> /\ phase' \notin {"attach", "compress"} /\ phase # "attach"
    BY <1>8, ZenonT(60) DEF StartAggregate, Visit, Return, StartEmit, EmitNode, EndEmit
  <2> QED BY <1>2, <2>1, SpellingStays
<1>9. CASE UNCHANGED tablevars
  <2>1. UNCHANGED <<report, tree, phase, todo, at>>
    BY <1>9 DEF tablevars
  <2>2. Goals' = Goals /\ Waiting' = Waiting
    BY <2>1, PathsStay DEF Waiting
  <2>3. PathsSpelled(live, path)'
    BY <1>2, <2>1, <2>2 DEF PathsSpelled, AttachSpells
  <2> QED BY <2>3
<1> QED BY <1>3, <1>4, <1>5, <1>6, <1>7, <1>8, <1>9 DEF BuildTable

-----------------------------------------------------------------------------
(***************************************************************************)
(* The rows and the nodes.  of tells the node of a row, w what a node's    *)
(* rows show: the row of a node spells its path, its types follow it, and  *)
(* every node below one that has its row has its own or is called.         *)
(***************************************************************************)
NodesAt(r) == {i \in DOMAIN r : r[i].kind = "node"}
ShowsNode(row, face) == row.kind = "node" /\ row.name = face.name /\ row.cells = face.cells
ShowsType(row, face) == row.kind = "type" /\ row.name = face.name /\ row.cells = face.cells

\* In place i at depth d the node's path is spelled.
SpelledAt(w, path, of, r, i, d, n) ==
  /\ d = 0 => path[n] = w[n].name
  /\ d # 0 => \E j \in NodesAt(r) : HangsFrom(r, i, d, j) /\ path[n] = path[of[j]] \o w[n].name

Printed(r, of, n) == \E i \in NodesAt(r) : of[i] = n
Called(p, n) == \E k \in DOMAIN p : p[k].node = n

RowShows(w, live, path, r, of, i) ==
  /\ of[i] \in live /\ ShowsNode(r[i], w[of[i]]) /\ SpelledAt(w, path, of, r, i, DepthOf(r[i]), of[i])
  /\ \A t \in DOMAIN w[of[i]].types :
       i + t \in DOMAIN r /\ ShowsType(r[i + t], w[of[i]].types[t]) /\ HangsFrom(r, i + t, DepthOf(r[i + t]), i)
RowsShow(w, live, path, r, of) ==
  /\ \A i \in NodesAt(r) : RowShows(w, live, path, r, of, i)
  /\ \A i \in DOMAIN r : r[i].kind = "type" => \E j \in NodesAt(r) : \E t \in DOMAIN w[of[j]].types : i = j + t
  /\ \A i \in NodesAt(r), j \in NodesAt(r) : of[i] = of[j] => i = j
CallsShow(w, live, path, r, p, of) ==
  /\ \A k \in DOMAIN p : /\ p[k].node \in live \ {Root} /\ ~ Printed(r, of, p[k].node)
                         /\ SpelledAt(w, path, of, r, Len(r) + 1, DepthOf(p[k]), p[k].node)
  /\ \A k, l \in DOMAIN p : p[k].node = p[l].node => k = l
AllReached(tr, live, r, p, of) ==
  /\ \A n \in live : n = Root \/ Printed(r, of, n) => \A c : IsChild(tr, n, c) => Printed(r, of, c) \/ Called(p, c)
  /\ \A n \in live : \A c : IsChild(tr, n, c) /\ (Printed(r, of, c) \/ Called(p, c)) => n = Root \/ Printed(r, of, n)
  /\ tr[Root].pkg # 0 => Printed(r, of, Root)
ListInv(tr, w, live, path, r, p, of) ==
  RowsShow(w, live, path, r, of) /\ CallsShow(w, live, path, r, p, of) /\ AllReached(tr, live, r, p, of)

\* What a round adds, beyond its glyphs.
ShowsBy(tr, w, s, q, T, C, N, n) ==
  /\ ShowsNode(s[N], w[n]) /\ DOMAIN w[n].types = 1 .. T
  /\ \A t \in 1 .. T : ShowsType(s[N + t], w[n].types[t])
  /\ DOMAIN tr[n].children = 1 .. C /\ \A c \in 1 .. C : q[c].node = tr[n].children[c]
OfGrows(of, of2, L, N, n) == of2[N] = n /\ \A i \in 1 .. L : of2[i] = of[i]

LEMMA SpelledStill ==
  ASSUME NEW w, NEW path, NEW of, NEW r, NEW i, NEW d, NEW n, SpelledAt(w, path, of, r, i, d, n),
         NEW of2, NEW s, NEW i2, \A j \in NodesAt(r) : HangsFrom(r, i, d, j) => HangsFrom(s, i2, d, j),
         \A j \in NodesAt(r) : j \in NodesAt(s) /\ of2[j] = of[j]
  PROVE  SpelledAt(w, path, of2, s, i2, d, n)
  BY DEF SpelledAt

\* Where the branches hang after a round.
LEMMA HangsStill ==
  ASSUME NEW r, NEW p, NEW s, NEW q,
         NEW L \in Nat, NEW G \in Nat, NEW T \in Nat, NEW C \in Nat, NEW P \in Nat, NEW N \in Nat, NEW d \in Nat,
         GrowsBy(r, p, s, q, L, G, T, C, P, N, d)
  PROVE  /\ \A e : \A i \in 1 .. L + 1, j \in 1 .. L : HangsFrom(r, i, e, j) => HangsFrom(s, i, e, j)
         /\ \A e \in Nat, j \in 1 .. L : e <= d /\ HangsFrom(r, L + 1, e, j) =>
              HangsFrom(s, N, e, j) /\ HangsFrom(s, N + T + 1, e, j)
         /\ \A i \in N + 1 .. N + T + 1 : HangsFrom(s, i, d + 1, N)
<1>1. /\ N = L + G + 1 /\ \A i \in 1 .. L : s[i] = r[i]
      /\ \A i \in 1 .. G : s[L + i].kind = "gap"
      /\ s[N].kind = "node" /\ DepthOf(s[N]) = d
      /\ \A t \in 1 .. T : s[N + t].kind = "type" /\ DepthOf(s[N + t]) = d + 1
  BY DEF GrowsBy, NodeRows
<1>2. ASSUME NEW i \in 1 .. L + 1, NEW e, NEW j \in 1 .. L, HangsFrom(r, i, e, j) PROVE HangsFrom(s, i, e, j)
  <2>1. \A m \in j + 1 .. i - 1 : m \in 1 .. L
    OBVIOUS
  <2> QED BY <1>1, <1>2, <2>1 DEF HangsFrom, NoneAbove
<1>3. \A m \in L + 1 .. N - 1 : ~ IsBranch(s[m])
  <2> SUFFICES ASSUME NEW m \in L + 1 .. N - 1 PROVE s[m].kind = "gap"
    BY DEF IsBranch
  <2>1. m - L \in 1 .. G /\ L + (m - L) = m
    BY <1>1
  <2> QED BY <1>1, <2>1
<1>4. \A m \in N + 1 .. N + T : DepthOf(s[m]) = d + 1
  <2> SUFFICES ASSUME NEW m \in N + 1 .. N + T PROVE DepthOf(s[m]) = d + 1
    OBVIOUS
  <2>1. m - N \in 1 .. T /\ N + (m - N) = m
    OBVIOUS
  <2> QED BY <1>1, <2>1
<1>5. ASSUME NEW e \in Nat, NEW j \in 1 .. L, e <= d, HangsFrom(r, L + 1, e, j)
      PROVE  HangsFrom(s, N, e, j) /\ HangsFrom(s, N + T + 1, e, j)
  <2>1. /\ r[j].kind = "node" /\ DepthOf(r[j]) = e - 1
        /\ \A m \in j + 1 .. L : IsBranch(r[m]) => DepthOf(r[m]) >= e
    <3>1. (L + 1) - 1 = L
      OBVIOUS
    <3> QED BY <1>5, <3>1 DEF HangsFrom, NoneAbove
  <2>2. \A m \in j + 1 .. L : IsBranch(s[m]) => DepthOf(s[m]) >= e
    <3>1. \A m \in j + 1 .. L : m \in 1 .. L
      OBVIOUS
    <3> QED BY <1>1, <2>1, <3>1
  <2>3. d >= e /\ d + 1 >= e
    BY <1>5
  <2>4. \A m \in j + 1 .. N - 1 : IsBranch(s[m]) => DepthOf(s[m]) >= e
    <3>1. \A m \in j + 1 .. N - 1 : m \in j + 1 .. L \/ m \in L + 1 .. N - 1
      OBVIOUS
    <3> QED BY <1>3, <2>2, <3>1
  <2>5. \A m \in j + 1 .. N + T : IsBranch(s[m]) => DepthOf(s[m]) >= e
    <3>1. \A m \in j + 1 .. N + T : m \in j + 1 .. N - 1 \/ m = N \/ m \in N + 1 .. N + T
      OBVIOUS
    <3> QED BY <1>1, <1>4, <2>3, <2>4, <3>1
  <2>6. j < N /\ j < N + T + 1 /\ (N + T + 1) - 1 = N + T
    BY <1>1
  <2> QED BY <1>1, <2>1, <2>4, <2>5, <2>6 DEF HangsFrom, NoneAbove
<1>6. ASSUME NEW i \in N + 1 .. N + T + 1 PROVE HangsFrom(s, i, d + 1, N)
  <2>1. \A m \in N + 1 .. i - 1 : m \in N + 1 .. N + T
    OBVIOUS
  <2>2. d + 1 >= d + 1 /\ (d + 1) - 1 = d /\ N < i
    OBVIOUS
  <2> QED BY <1>1, <1>4, <2>1, <2>2 DEF HangsFrom, NoneAbove
<1> QED BY <1>2, <1>5, <1>6

\* The node rows of a round are those before it and its own.
RowsTaken(r, s, L, T, N) ==
  /\ NodesAt(s) = NodesAt(r) \cup {N} /\ NodesAt(r) \subseteq 1 .. L /\ N \notin 1 .. L
  /\ DOMAIN r = 1 .. L /\ Len(r) = L /\ DOMAIN s = 1 .. N + T /\ Len(s) = N + T
  /\ \A i \in 1 .. L : i \in 1 .. N + T /\ s[i] = r[i]
  /\ N \in 1 .. N + T /\ \A t \in 1 .. T : N + t \in 1 .. N + T
  /\ \A i \in 1 .. N + T : s[i].kind = "type" => (i \in 1 .. L \/ \E t \in 1 .. T : i = N + t)

LEMMA NodesGrowBy ==
  ASSUME NEW r, NEW p, NEW s, NEW q,
         NEW L \in Nat, NEW G \in Nat, NEW T \in Nat, NEW C \in Nat, NEW P \in Nat, NEW N \in Nat, NEW d \in Nat,
         GrowsBy(r, p, s, q, L, G, T, C, P, N, d)
  PROVE  RowsTaken(r, s, L, T, N)
<1>1. /\ N = L + G + 1 /\ \A i \in 1 .. L : s[i] = r[i]
      /\ DOMAIN r = 1 .. L /\ Len(r) = L /\ DOMAIN s = 1 .. N + T /\ Len(s) = N + T
      /\ \A i \in 1 .. G : s[L + i].kind = "gap"
      /\ s[N].kind = "node"
      /\ \A t \in 1 .. T : s[N + t].kind = "type"
  BY DEF GrowsBy, NodeRows
<1>2. \A m \in 1 .. N + T : m \in 1 .. L \/ (\E g \in 1 .. G : m = L + g) \/ m = N \/ \E t \in 1 .. T : m = N + t
  <2> SUFFICES ASSUME NEW m \in 1 .. N + T
               PROVE  m \in 1 .. L \/ (\E g \in 1 .. G : m = L + g) \/ m = N \/ \E t \in 1 .. T : m = N + t
    OBVIOUS
  <2>1. m \in 1 .. L \/ m - L \in 1 .. G \/ m = N \/ m - N \in 1 .. T
    BY <1>1, SMTT(30)
  <2>2. m = L + (m - L) /\ m = N + (m - N)
    OBVIOUS
  <2> QED BY <2>1, <2>2
<1>3. N \in 1 .. N + T /\ (\A t \in 1 .. T : N + t \in 1 .. N + T) /\ N \notin 1 .. L /\ \A i \in 1 .. L : i \in 1 .. N + T
  BY <1>1
<1>4. \A m \in 1 .. N + T : s[m].kind = "node" => m \in 1 .. L \/ m = N
  <2>1. "gap" # "node" /\ "type" # "node"
    OBVIOUS
  <2> QED BY <1>1, <1>2, <2>1, ZenonT(40)
<1>5. \A m \in 1 .. N + T : s[m].kind = "type" => m \in 1 .. L \/ \E t \in 1 .. T : m = N + t
  <2>1. "gap" # "type" /\ "node" # "type"
    OBVIOUS
  <2> QED BY <1>1, <1>2, <2>1
<1>6. NodesAt(s) = NodesAt(r) \cup {N}
  BY <1>1, <1>3, <1>4 DEF NodesAt
<1> QED BY <1>1, <1>3, <1>5, <1>6 DEF NodesAt, RowsTaken

IsListRound(tr, w, live, path, r, p, of, s, q, of2, L, G, T, C, P, N, d, n) ==
  /\ GlyphInv(r, p) /\ GrowsBy(r, p, s, q, L, G, T, C, P, N, d) /\ ShowsBy(tr, w, s, q, T, C, N, n)
  /\ p[1].node = n /\ OfGrows(of, of2, L, N, n)
  /\ Family(tr, live) /\ Spells(tr, live, path) /\ \A m \in live : w[m].name = tr[m].name
  /\ ListInv(tr, w, live, path, r, p, of)

\* What a round leaves as it was, and what it takes up.
TakesUp(tr, w, live, path, r, p, of, s, q, of2, L, C, P, d, n) ==
  /\ n \in live \ {Root} /\ ~ Printed(r, of, n) /\ SpelledAt(w, path, of, r, L + 1, d, n)
  /\ \A m : Printed(s, of2, m) <=> Printed(r, of, m) \/ m = n
  /\ \A m : Called(q, m) <=> IsChild(tr, n, m) \/ (Called(p, m) /\ m # n)
  /\ \A m : Called(p, m) => m \in live \ {Root} /\ ~ Printed(r, of, m)
  /\ DOMAIN p = 1 .. P + 1 /\ DOMAIN q = 1 .. C + P /\ 1 \in 1 .. P + 1 /\ p[1].node = n
  /\ \A k \in 1 .. P + 1 : DepthOf(p[k]) \in Nat /\ DepthOf(p[k]) <= d
  /\ \A k \in 1 .. C : DepthOf(q[k]) = d + 1 /\ q[k].node = tr[n].children[k] /\ IsChild(tr, n, q[k].node)
  /\ \A k \in 1 .. P : q[C + k] = p[k + 1] /\ k + 1 \in 1 .. P + 1 /\ p[k + 1].node # n
  /\ \A k \in 1 .. C + P : k \in 1 .. C \/ \E i \in 1 .. P : k = C + i

LEMMA ListRoundIs ==
  ASSUME NEW tr, NEW w, NEW live, NEW path, NEW r, NEW p, NEW of, NEW s, NEW q, NEW of2,
         NEW L \in Nat, NEW G \in Nat, NEW T \in Nat, NEW C \in Nat, NEW P \in Nat, NEW N \in Nat, NEW d \in Nat, NEW n,
         IsListRound(tr, w, live, path, r, p, of, s, q, of2, L, G, T, C, P, N, d, n)
  PROVE  TakesUp(tr, w, live, path, r, p, of, s, q, of2, L, C, P, d, n)
<1>1. /\ GlyphInv(r, p) /\ GrowsBy(r, p, s, q, L, G, T, C, P, N, d) /\ ShowsBy(tr, w, s, q, T, C, N, n)
      /\ p[1].node = n /\ OfGrows(of, of2, L, N, n) /\ CallsShow(w, live, path, r, p, of)
  BY DEF IsListRound, ListInv
<1>2. /\ NodesAt(s) = NodesAt(r) \cup {N} /\ NodesAt(r) \subseteq 1 .. L /\ N \notin 1 .. L /\ Len(r) = L
  <2>1. RowsTaken(r, s, L, T, N)
    BY <1>1, NodesGrowBy
  <2> QED BY <2>1 DEF RowsTaken
<1>3. /\ DOMAIN p = 1 .. P + 1 /\ DOMAIN q = 1 .. C + P /\ d = DepthOf(p[1])
      /\ (\A k \in 1 .. P : q[C + k] = p[k + 1]) /\ \A k \in 1 .. C : DepthOf(q[k]) = d + 1
  BY <1>1 DEF GrowsBy, ChildCallsFirst
<1>4. 1 \in 1 .. P + 1 /\ \A k \in 1 .. P : k + 1 \in 1 .. P + 1 /\ k + 1 # 1
  OBVIOUS
<1>5. /\ \A k \in 1 .. P + 1 : p[k].node \in live \ {Root} /\ ~ Printed(r, of, p[k].node)
                               /\ SpelledAt(w, path, of, r, L + 1, DepthOf(p[k]), p[k].node)
      /\ \A k, l \in 1 .. P + 1 : p[k].node = p[l].node => k = l
  BY <1>1, <1>2, <1>3 DEF CallsShow
<1>6. n \in live \ {Root} /\ ~ Printed(r, of, n) /\ SpelledAt(w, path, of, r, L + 1, d, n)
  BY <1>1, <1>3, <1>4, <1>5
<1>7. \A m : Printed(s, of2, m) <=> Printed(r, of, m) \/ m = n
  BY <1>1, <1>2 DEF Printed, OfGrows
<1>8. \A k \in 1 .. C : q[k].node = tr[n].children[k] /\ IsChild(tr, n, q[k].node)
  BY <1>1 DEF ShowsBy, IsChild
<1>9. \A k \in 1 .. P : p[k + 1].node # n
  BY <1>1, <1>4, <1>5
<1>10. \A k \in 1 .. C + P : k \in 1 .. C \/ \E i \in 1 .. P : k = C + i
  <2> SUFFICES ASSUME NEW k \in 1 .. C + P, k \notin 1 .. C PROVE \E i \in 1 .. P : k = C + i
    OBVIOUS
  <2>1. k - C \in 1 .. P /\ k = C + (k - C)
    OBVIOUS
  <2> QED BY <2>1
<1>11. \A k \in 1 .. P + 1 : k = 1 \/ \E i \in 1 .. P : k = i + 1
  <2> SUFFICES ASSUME NEW k \in 1 .. P + 1, k # 1 PROVE \E i \in 1 .. P : k = i + 1
    OBVIOUS
  <2>1. k - 1 \in 1 .. P /\ k = (k - 1) + 1
    OBVIOUS
  <2> QED BY <2>1
<1>12. ASSUME NEW m PROVE Called(q, m) <=> IsChild(tr, n, m) \/ (Called(p, m) /\ m # n)
  <2>1. ASSUME Called(q, m) PROVE IsChild(tr, n, m) \/ (Called(p, m) /\ m # n)
    <3>1. PICK k \in 1 .. C + P : q[k].node = m
      BY <1>3, <2>1 DEF Called
    <3>2. CASE k \in 1 .. C
      BY <1>8, <3>1, <3>2
    <3>3. ASSUME NEW i \in 1 .. P, k = C + i PROVE Called(p, m) /\ m # n
      BY <1>3, <1>4, <1>9, <3>1, <3>3 DEF Called
    <3> QED BY <1>10, <3>2, <3>3
  <2>2. ASSUME IsChild(tr, n, m) PROVE Called(q, m)
    <3>1. PICK k \in 1 .. C : tr[n].children[k] = m
      BY <1>1, <2>2 DEF ShowsBy, IsChild
    <3>2. k \in 1 .. C + P
      OBVIOUS
    <3> QED BY <1>3, <1>8, <3>1, <3>2 DEF Called
  <2>3. ASSUME Called(p, m), m # n PROVE Called(q, m)
    <3>1. PICK k \in 1 .. P + 1 : p[k].node = m
      BY <1>3, <2>3 DEF Called
    <3>2. PICK i \in 1 .. P : k = i + 1
      BY <1>1, <1>11, <2>3, <3>1
    <3>3. C + i \in 1 .. C + P
      OBVIOUS
    <3> QED BY <1>3, <3>1, <3>2, <3>3 DEF Called
  <2> QED BY <2>1, <2>2, <2>3
<1>13. \A m : Called(p, m) => m \in live \ {Root} /\ ~ Printed(r, of, m)
  BY <1>3, <1>5 DEF Called
<1>14. \A k \in 1 .. P + 1 : DepthOf(p[k]) \in Nat /\ DepthOf(p[k]) <= d
  <2> SUFFICES ASSUME NEW k \in 1 .. P + 1 PROVE DepthOf(p[k]) \in Nat /\ DepthOf(p[k]) <= d
    OBVIOUS
  <2>1. CallsNest(p)
    BY <1>1 DEF GlyphInv
  <2>2. DepthOf(p[k]) \in Nat /\ (1 < k => d >= DepthOf(p[k]))
    BY <1>3, <1>4, <2>1, Zenon DEF CallsNest
  <2>3. k = 1 => DepthOf(p[k]) = d
    BY <1>3
  <2> QED BY <2>2, <2>3
<1> QED BY <1>1, <1>3, <1>4, <1>6, <1>7, <1>8, <1>9, <1>10, <1>12, <1>13, <1>14 DEF TakesUp

LEMMA RowsListed ==
  ASSUME NEW tr, NEW w, NEW live, NEW path, NEW r, NEW p, NEW of, NEW s, NEW q, NEW of2,
         NEW L \in Nat, NEW G \in Nat, NEW T \in Nat, NEW C \in Nat, NEW P \in Nat, NEW N \in Nat, NEW d \in Nat, NEW n,
         IsListRound(tr, w, live, path, r, p, of, s, q, of2, L, G, T, C, P, N, d, n)
  PROVE  RowsShow(w, live, path, s, of2)
<1>1. /\ GrowsBy(r, p, s, q, L, G, T, C, P, N, d) /\ ShowsBy(tr, w, s, q, T, C, N, n)
      /\ OfGrows(of, of2, L, N, n) /\ RowsShow(w, live, path, r, of)
  BY DEF IsListRound, ListInv
<1>2. /\ NodesAt(s) = NodesAt(r) \cup {N} /\ NodesAt(r) \subseteq 1 .. L /\ N \notin 1 .. L
      /\ DOMAIN r = 1 .. L /\ DOMAIN s = 1 .. N + T
      /\ \A i \in 1 .. L : i \in 1 .. N + T /\ s[i] = r[i]
      /\ N \in 1 .. N + T /\ \A t \in 1 .. T : N + t \in 1 .. N + T
      /\ \A i \in 1 .. N + T : s[i].kind = "type" => (i \in 1 .. L \/ \E t \in 1 .. T : i = N + t)
  <2>1. RowsTaken(r, s, L, T, N)
    BY <1>1, NodesGrowBy
  <2> QED BY <2>1 DEF RowsTaken
<1>3. /\ n \in live \ {Root} /\ ~ Printed(r, of, n) /\ SpelledAt(w, path, of, r, L + 1, d, n)
  <2>1. TakesUp(tr, w, live, path, r, p, of, s, q, of2, L, C, P, d, n)
    BY ListRoundIs
  <2> QED BY <2>1 DEF TakesUp
<1>4. of2[N] = n /\ \A i \in 1 .. L : of2[i] = of[i]
  BY <1>1 DEF OfGrows
<1>5. /\ \A e : \A i \in 1 .. L + 1, j \in 1 .. L : HangsFrom(r, i, e, j) => HangsFrom(s, i, e, j)
      /\ \A e \in Nat, j \in 1 .. L : e <= d /\ HangsFrom(r, L + 1, e, j) => HangsFrom(s, N, e, j)
      /\ \A i \in N + 1 .. N + T + 1 : HangsFrom(s, i, d + 1, N)
  BY <1>1, HangsStill
<1>6. \A j \in NodesAt(r) : j \in NodesAt(s) /\ of2[j] = of[j]
  BY <1>2, <1>4
<1>7. ASSUME NEW i \in NodesAt(r) PROVE RowShows(w, live, path, s, of2, i)
  <2>1. RowShows(w, live, path, r, of, i) /\ i \in 1 .. L /\ of2[i] = of[i] /\ s[i] = r[i]
    BY <1>1, <1>2, <1>4 DEF RowsShow
  <2>2. SpelledAt(w, path, of2, s, i, DepthOf(r[i]), of[i])
    <3>1. \A j \in NodesAt(r) : HangsFrom(r, i, DepthOf(r[i]), j) => HangsFrom(s, i, DepthOf(r[i]), j)
      <4>1. i \in 1 .. L + 1
        BY <2>1
      <4>2. PICK e : e = DepthOf(r[i])
        OBVIOUS
      <4>3. \A j \in 1 .. L : HangsFrom(r, i, e, j) => HangsFrom(s, i, e, j)
        BY <1>5, <4>1, Zenon
      <4> QED BY <1>2, <4>2, <4>3
    <3>2. SpelledAt(w, path, of, r, i, DepthOf(r[i]), of[i])
      BY <2>1 DEF RowShows
    <3> QED BY <1>6, <3>1, <3>2, SpelledStill
  <2>3. ASSUME NEW t \in DOMAIN w[of[i]].types
        PROVE  i + t \in DOMAIN s /\ ShowsType(s[i + t], w[of[i]].types[t]) /\ HangsFrom(s, i + t, DepthOf(s[i + t]), i)
    <3>1. i + t \in 1 .. L /\ ShowsType(r[i + t], w[of[i]].types[t]) /\ HangsFrom(r, i + t, DepthOf(r[i + t]), i)
      BY <1>2, <2>1 DEF RowShows
    <3>2. i + t \in 1 .. L + 1 /\ s[i + t] = r[i + t]
      BY <1>2, <3>1
    <3>3. HangsFrom(s, i + t, DepthOf(r[i + t]), i)
      <4>1. PICK e : \E m \in 1 .. L + 1 : e = DepthOf(r[i + t]) /\ m = i + t
        BY <3>2
      <4>2. PICK m \in 1 .. L + 1 : e = DepthOf(r[i + t]) /\ m = i + t
        BY <4>1
      <4>3. HangsFrom(r, m, e, i)
        BY <3>1, <4>2
      <4>4. HangsFrom(s, m, e, i)
        BY <1>5, <2>1, <4>3, Zenon
      <4> QED BY <4>2, <4>4
    <3> QED BY <1>2, <3>1, <3>2, <3>3
  <2>4. of[i] \in live /\ ShowsNode(r[i], w[of[i]])
    BY <2>1 DEF RowShows
  <2> QED BY <2>1, <2>2, <2>3, <2>4 DEF RowShows
<1>8. RowShows(w, live, path, s, of2, N)
  <2>1. DepthOf(s[N]) = d /\ \A t \in 1 .. T : DepthOf(s[N + t]) = d + 1
    BY <1>1 DEF GrowsBy, NodeRows
  <2>2. /\ ShowsNode(s[N], w[n]) /\ DOMAIN w[n].types = 1 .. T
        /\ \A t \in 1 .. T : ShowsType(s[N + t], w[n].types[t])
    BY <1>1 DEF ShowsBy
  <2>3. SpelledAt(w, path, of2, s, N, d, n)
    <3>1. \A j \in NodesAt(r) : HangsFrom(r, L + 1, d, j) => HangsFrom(s, N, d, j)
      <4>1. d <= d
        OBVIOUS
      <4> QED BY <1>2, <1>5, <4>1
    <3> QED BY <1>3, <1>6, <3>1, SpelledStill
  <2>4. \A t \in 1 .. T : N + t \in 1 .. N + T /\ HangsFrom(s, N + t, d + 1, N)
    <3>1. \A t \in 1 .. T : N + t \in N + 1 .. N + T + 1
      OBVIOUS
    <3> QED BY <1>2, <1>5, <3>1
  <2> QED BY <1>2, <1>3, <1>4, <2>1, <2>2, <2>3, <2>4 DEF RowShows
<1>9. ASSUME NEW i \in DOMAIN s, s[i].kind = "type"
      PROVE  \E j \in NodesAt(s) : \E t \in DOMAIN w[of2[j]].types : i = j + t
  <2>1. CASE i \in 1 .. L
    <3>1. PICK j \in NodesAt(r) : \E t \in DOMAIN w[of[j]].types : i = j + t
      BY <1>1, <1>2, <1>9, <2>1 DEF RowsShow
    <3> QED BY <1>6, <3>1
  <2>2. ASSUME NEW t \in 1 .. T, i = N + t
        PROVE  \E j \in NodesAt(s) : \E u \in DOMAIN w[of2[j]].types : i = j + u
    <3>1. DOMAIN w[n].types = 1 .. T
      BY <1>1 DEF ShowsBy
    <3> QED BY <1>2, <1>4, <2>2, <3>1
  <2> QED BY <1>2, <1>9, <2>1, <2>2
<1>10. \A i \in NodesAt(s), j \in NodesAt(s) : of2[i] = of2[j] => i = j
  <2>1. \A i \in NodesAt(r), j \in NodesAt(r) : of[i] = of[j] => i = j
    BY <1>1 DEF RowsShow
  <2>2. \A i \in NodesAt(r) : of[i] # n
    BY <1>3 DEF Printed
  <2> QED BY <1>2, <1>4, <1>6, <2>1, <2>2
<1>11. \A i \in NodesAt(s) : RowShows(w, live, path, s, of2, i)
  BY <1>2, <1>7, <1>8
<1> QED BY <1>9, <1>10, <1>11 DEF RowsShow

LEMMA CallsListed ==
  ASSUME NEW tr, NEW w, NEW live, NEW path, NEW r, NEW p, NEW of, NEW s, NEW q, NEW of2,
         NEW L \in Nat, NEW G \in Nat, NEW T \in Nat, NEW C \in Nat, NEW P \in Nat, NEW N \in Nat, NEW d \in Nat, NEW n,
         IsListRound(tr, w, live, path, r, p, of, s, q, of2, L, G, T, C, P, N, d, n)
  PROVE  CallsShow(w, live, path, s, q, of2) /\ AllReached(tr, live, s, q, of2)
<1>1. /\ GrowsBy(r, p, s, q, L, G, T, C, P, N, d) /\ CallsShow(w, live, path, r, p, of)
      /\ OfGrows(of, of2, L, N, n) /\ AllReached(tr, live, r, p, of)
      /\ Family(tr, live) /\ Spells(tr, live, path) /\ \A m \in live : w[m].name = tr[m].name
  BY DEF IsListRound, ListInv
<1>2. /\ NodesAt(s) = NodesAt(r) \cup {N} /\ NodesAt(r) \subseteq 1 .. L
      /\ Len(r) = L /\ Len(s) = N + T
  <2>1. RowsTaken(r, s, L, T, N)
    BY <1>1, NodesGrowBy
  <2> QED BY <2>1 DEF RowsTaken
<1>3. /\ n \in live \ {Root} /\ ~ Printed(r, of, n)
      /\ \A m : Printed(s, of2, m) <=> Printed(r, of, m) \/ m = n
      /\ \A m : Called(q, m) <=> IsChild(tr, n, m) \/ (Called(p, m) /\ m # n)
      /\ \A m : Called(p, m) => m \in live \ {Root} /\ ~ Printed(r, of, m)
      /\ DOMAIN p = 1 .. P + 1 /\ DOMAIN q = 1 .. C + P /\ 1 \in 1 .. P + 1 /\ p[1].node = n
      /\ \A k \in 1 .. P + 1 : DepthOf(p[k]) \in Nat /\ DepthOf(p[k]) <= d
      /\ \A k \in 1 .. C : DepthOf(q[k]) = d + 1 /\ q[k].node = tr[n].children[k] /\ IsChild(tr, n, q[k].node)
      /\ \A k \in 1 .. P : q[C + k] = p[k + 1] /\ k + 1 \in 1 .. P + 1 /\ p[k + 1].node # n
      /\ \A k \in 1 .. C + P : k \in 1 .. C \/ \E i \in 1 .. P : k = C + i
  <2>1. TakesUp(tr, w, live, path, r, p, of, s, q, of2, L, C, P, d, n)
    BY ListRoundIs
  <2> QED BY <2>1 DEF TakesUp
<1>4. of2[N] = n /\ \A j \in NodesAt(r) : j \in NodesAt(s) /\ of2[j] = of[j]
  BY <1>1, <1>2 DEF OfGrows
<1>5. /\ \A e \in Nat, j \in 1 .. L : e <= d /\ HangsFrom(r, L + 1, e, j) => HangsFrom(s, N + T + 1, e, j)
      /\ HangsFrom(s, N + T + 1, d + 1, N)
  <2>1. N + T + 1 \in N + 1 .. N + T + 1
    OBVIOUS
  <2> QED BY <1>1, <2>1, HangsStill
<1>6. /\ \A m \in live : \A c : IsChild(tr, m, c) => c \in live /\ m < c /\ path[c] = path[m] \o tr[c].name
      /\ \A m \in live, l \in live : \A c : IsChild(tr, m, c) /\ IsChild(tr, l, c) => m = l
      /\ live \subseteq Nat \ {0}
  BY <1>1 DEF Family, Spells
<1>7. \A c : IsChild(tr, n, c) => c \in live \ {Root} /\ c # n /\ ~ Printed(r, of, c) /\ ~ Called(p, c)
  <2> SUFFICES ASSUME NEW c, IsChild(tr, n, c)
               PROVE  c \in live \ {Root} /\ c # n /\ ~ Printed(r, of, c) /\ ~ Called(p, c)
    OBVIOUS
  <2>1. c \in live /\ n < c
    BY <1>3, <1>6
  <2>2. c \in Nat \ {0} /\ n \in Nat \ {0}
    BY <1>3, <1>6, <2>1
  <2>3. c # n /\ c # Root
    BY <2>1, <2>2 DEF Root
  <2>4. Printed(r, of, c) \/ Called(p, c) => n = Root \/ Printed(r, of, n)
    BY <1>1, <1>3 DEF AllReached
  <2> QED BY <1>3, <2>1, <2>3, <2>4
<1>8. ASSUME NEW k \in 1 .. C
      PROVE  /\ q[k].node \in live \ {Root} /\ ~ Printed(s, of2, q[k].node)
             /\ SpelledAt(w, path, of2, s, Len(s) + 1, DepthOf(q[k]), q[k].node)
  <2>1. PICK c : c = q[k].node
    OBVIOUS
  <2>2. IsChild(tr, n, c) /\ c \in live \ {Root} /\ c # n /\ ~ Printed(r, of, c)
    BY <1>3, <1>7, <2>1
  <2>3. path[c] = path[of2[N]] \o w[c].name
    <3>1. path[c] = path[n] \o tr[c].name
      BY <1>3, <1>6, <2>2
    <3>2. w[c].name = tr[c].name
      BY <1>1, <2>2
    <3> QED BY <1>4, <3>1, <3>2
  <2>4. d + 1 # 0 /\ N \in NodesAt(s)
    BY <1>2
  <2>5. SpelledAt(w, path, of2, s, N + T + 1, d + 1, c)
    BY <1>5, <2>3, <2>4 DEF SpelledAt
  <2> QED BY <1>2, <1>3, <2>1, <2>2, <2>5
<1>9. ASSUME NEW i \in 1 .. P
      PROVE  /\ q[C + i].node \in live \ {Root} /\ ~ Printed(s, of2, q[C + i].node)
             /\ SpelledAt(w, path, of2, s, Len(s) + 1, DepthOf(q[C + i]), q[C + i].node)
  <2>1. PICK k \in 1 .. P + 1 : k = i + 1 /\ q[C + i] = p[k] /\ p[k].node # n
    BY <1>3
  <2>2. PICK e \in Nat : e = DepthOf(p[k]) /\ e <= d
    BY <1>3
  <2>3. p[k].node \in live \ {Root} /\ ~ Printed(r, of, p[k].node) /\ SpelledAt(w, path, of, r, L + 1, e, p[k].node)
    BY <1>1, <1>2, <1>3, <2>2 DEF CallsShow
  <2>4. SpelledAt(w, path, of2, s, N + T + 1, e, p[k].node)
    <3>1. \A j \in NodesAt(r) : HangsFrom(r, L + 1, e, j) => HangsFrom(s, N + T + 1, e, j)
      BY <1>2, <1>5, <2>2
    <3> QED BY <1>4, <2>3, <3>1, SpelledStill
  <2> QED BY <1>2, <1>3, <2>1, <2>2, <2>3, <2>4
<1>10. ASSUME NEW k \in 1 .. C + P, NEW l \in 1 .. C + P, q[k].node = q[l].node PROVE k = l
  <2>1. ASSUME NEW a \in 1 .. C, NEW b \in 1 .. P PROVE q[a].node # q[C + b].node
    <3>1. IsChild(tr, n, q[a].node)
      BY <1>3
    <3>2. Called(p, q[C + b].node)
      <4>1. b + 1 \in 1 .. P + 1 /\ q[C + b] = p[b + 1] /\ DOMAIN p = 1 .. P + 1
        BY <1>3
      <4> QED BY <4>1 DEF Called
    <3> QED BY <1>7, <3>1, <3>2
  <2>2. ASSUME NEW a \in 1 .. C, NEW b \in 1 .. C, q[a].node = q[b].node PROVE a = b
    <3>1. PICK kids : kids = tr[n].children
      OBVIOUS
    <3>2. DOMAIN kids = 1 .. C
      BY <3>1 DEF IsListRound, ShowsBy
    <3>3. \A i, j \in DOMAIN kids : kids[i] = kids[j] => i = j
      BY <1>1, <1>3, <3>1 DEF Family
    <3>4. kids[a] = kids[b]
      BY <1>3, <2>2, <3>1
    <3> QED BY <3>2, <3>3, <3>4
  <2>3. ASSUME NEW a \in 1 .. P, NEW b \in 1 .. P, q[C + a].node = q[C + b].node PROVE a = b
    <3>1. a + 1 = b + 1
      <4>1. a + 1 \in 1 .. P + 1 /\ b + 1 \in 1 .. P + 1 /\ p[a + 1].node = p[b + 1].node
        BY <1>3, <2>3
      <4> QED BY <1>1, <1>3, <4>1 DEF CallsShow
    <3> QED BY <3>1
  <2>4. CASE k \in 1 .. C
    <3>1. \A i \in 1 .. P : l # C + i
      BY <1>10, <2>1, <2>4
    <3>2. l \in 1 .. C
      BY <1>3, <3>1
    <3> QED BY <1>10, <2>2, <2>4, <3>2
  <2>5. ASSUME NEW i \in 1 .. P, k = C + i PROVE k = l
    <3>1. l \notin 1 .. C
      BY <1>10, <2>1, <2>5
    <3>2. PICK j \in 1 .. P : l = C + j
      BY <1>3, <3>1
    <3>3. q[C + i].node = q[C + j].node
      BY <1>10, <2>5, <3>2
    <3> QED BY <2>3, <2>5, <3>2, <3>3
  <2> QED BY <1>3, <2>4, <2>5
<1>11. CallsShow(w, live, path, s, q, of2)
  <2>1. ASSUME NEW k \in 1 .. C + P
        PROVE  /\ q[k].node \in live \ {Root} /\ ~ Printed(s, of2, q[k].node)
               /\ SpelledAt(w, path, of2, s, Len(s) + 1, DepthOf(q[k]), q[k].node)
    <3>1. CASE k \in 1 .. C
      BY <1>8, <3>1, Zenon
    <3>2. ASSUME NEW i \in 1 .. P, k = C + i
          PROVE  /\ q[k].node \in live \ {Root} /\ ~ Printed(s, of2, q[k].node)
                 /\ SpelledAt(w, path, of2, s, Len(s) + 1, DepthOf(q[k]), q[k].node)
      BY <1>9, <3>2, Zenon
    <3>3. k \in 1 .. C \/ \E i \in 1 .. P : k = C + i
      BY <1>3
    <3> QED BY <3>1, <3>2, <3>3, Zenon
  <2>2. DOMAIN q = 1 .. C + P
    BY <1>3
  <2>3. \A k \in DOMAIN q : /\ q[k].node \in live \ {Root} /\ ~ Printed(s, of2, q[k].node)
                           /\ SpelledAt(w, path, of2, s, Len(s) + 1, DepthOf(q[k]), q[k].node)
    BY <2>1, <2>2, Zenon
  <2>4. \A k, l \in DOMAIN q : q[k].node = q[l].node => k = l
    BY <1>10, <2>2, Zenon
  <2> QED BY <2>3, <2>4, Zenon DEF CallsShow
<1>12. AllReached(tr, live, s, q, of2)
  <2>1. ASSUME NEW m \in live, m = Root \/ Printed(s, of2, m), NEW c, IsChild(tr, m, c)
        PROVE  Printed(s, of2, c) \/ Called(q, c)
    <3>1. CASE m = n
      BY <1>3, <2>1, <3>1
    <3>2. CASE m # n
      <4>1. Printed(r, of, c) \/ Called(p, c)
        BY <1>1, <1>3, <2>1, <3>2 DEF AllReached
      <4> QED BY <1>3, <4>1
    <3> QED BY <3>1, <3>2
  <2>2. ASSUME NEW m \in live, NEW c, IsChild(tr, m, c), Printed(s, of2, c) \/ Called(q, c)
        PROVE  m = Root \/ Printed(s, of2, m)
    <3>1. CASE IsChild(tr, n, c)
      BY <1>3, <1>6, <2>2, <3>1
    <3>2. CASE ~ IsChild(tr, n, c)
      <4>1. Printed(r, of, c) \/ Called(p, c)
        <5>1. Called(p, n)
          BY <1>3 DEF Called
        <5> QED BY <1>3, <2>2, <3>2, <5>1
      <4>2. m = Root \/ Printed(r, of, m)
        BY <1>1, <2>2, <4>1 DEF AllReached
      <4> QED BY <1>3, <4>2
    <3> QED BY <3>1, <3>2
  <2>3. tr[Root].pkg # 0 => Printed(s, of2, Root)
    BY <1>1, <1>3 DEF AllReached
  <2> QED BY <2>1, <2>2, <2>3 DEF AllReached
<1> QED BY <1>11, <1>12

-----------------------------------------------------------------------------
\* What the rows of a node show.
TypesShown(n) ==
  [t \in DOMAIN TypesOf(n) |->
    [name  |-> <<TypesOf(n)[t].name>>,
     cells |-> <<IF TypesOf(n)[t].applicable THEN AddStat(NoStat, TypesOf(n)[t].value) ELSE NoStat>>]]
Shown == [n \in DOMAIN tree |-> [name |-> tree[n].name, cells |-> NodeCells(n), types |-> TypesShown(n)]]

Listed(live, path, of) ==
  /\ Family(tree, live) /\ Spells(tree, live, path) /\ Houses(tree, live, path, Goals, {})
  /\ ListInv(tree, Shown, live, path, rows, pending, of)
PageLists ==
  RelativePathsDiffer /\ phase \in {"emit", "done"} => \E live, path, of : Listed(live, path, of)

LEMMA ShownIs ==
  ASSUME NEW n \in DOMAIN tree
  PROVE  /\ Shown[n].name = tree[n].name /\ Shown[n].cells = NodeCells(n)
         /\ DOMAIN Shown[n].types = DOMAIN TypesOf(n)
         /\ \A prefix, connector : ShowsNode(NodeRow(n, prefix, connector), Shown[n])
         /\ \A prefix, total : \A t \in DOMAIN TypesOf(n) :
              t \in Nat => ShowsType(TypeRow(n, t - 1, prefix, total), Shown[n].types[t])
<1>1. PICK face : face = Shown[n]
  OBVIOUS
<1>2. face.name = tree[n].name /\ face.cells = NodeCells(n) /\ face.types = TypesShown(n)
  BY <1>1 DEF Shown
<1>3. DOMAIN face.types = DOMAIN TypesOf(n)
  BY <1>2 DEF TypesShown
<1>4. ASSUME NEW prefix, NEW connector PROVE ShowsNode(NodeRow(n, prefix, connector), face)
  BY <1>2 DEF ShowsNode, NodeRow
<1>5. ASSUME NEW t \in DOMAIN TypesOf(n), t \in Nat, NEW prefix, NEW total
      PROVE  ShowsType(TypeRow(n, t - 1, prefix, total), face.types[t])
  <2>1. (t - 1) + 1 = t
    BY <1>5
  <2>2. PICK typ : typ = TypesOf(n)[t]
    OBVIOUS
  <2>3. PICK stat : stat = IF typ.applicable THEN AddStat(NoStat, typ.value) ELSE NoStat
    OBVIOUS
  <2>4. PICK name, cell : name = <<typ.name>> /\ cell = <<stat>>
    OBVIOUS
  <2>5. PICK own : own = face.types[t]
    OBVIOUS
  <2>6. own.name = name /\ own.cells = cell
    BY <1>2, <2>2, <2>3, <2>4, <2>5 DEF TypesShown
  <2>7. PICK row : row = TypeRow(n, t - 1, prefix, total)
    OBVIOUS
  <2>8. row.kind = "type" /\ row.name = name /\ row.cells = cell
    BY <2>1, <2>2, <2>3, <2>4, <2>7 DEF TypeRow
  <2> QED BY <2>5, <2>6, <2>7, <2>8 DEF ShowsType
<1> QED BY <1>1, <1>2, <1>3, <1>4, <1>5

LEMMA ShowsItsNode ==
  ASSUME NEW n \in DOMAIN tree, NEW prefix, NEW connector, NEW row, row = NodeRow(n, prefix, connector), NEW w, w = Shown
  PROVE  ShowsNode(row, w[n])
  BY ShownIs

LEMMA ShowsItsType ==
  ASSUME NEW n \in DOMAIN tree, NEW t \in DOMAIN TypesOf(n), t \in Nat, NEW prefix, NEW total,
         NEW row, row = TypeRow(n, t - 1, prefix, total), NEW w, w = Shown
  PROVE  ShowsType(row, w[n].types[t])
  BY ShownIs

LEMMA ShownStays ==
  ASSUME UNCHANGED <<report, tree, summary, cells>> PROVE Shown' = Shown /\ Goals' = Goals
<1>1. Packages' = Packages
  BY DEF Packages
<1>2. \A n : TypesOf(n)' = TypesOf(n) /\ NodeCells(n)' = NodeCells(n)
  BY <1>1 DEF TypesOf, NodeCells
<1>3. \A n : TypesShown(n)' = TypesShown(n)
  BY <1>2 DEF TypesShown
<1> QED BY <1>2, <1>3, PathsStay DEF Shown

\* emitTreeRows starts the list, with the calls for what is on top.
LEMMA ListStarts ==
  ASSUME TreeInv, StartEmit, NEW live, NEW path, PathsSpelled(live, path)
  PROVE  \E of : Listed(live, path, of)'
<1>1. /\ phase = "aggregate" /\ rows' = ModuleRows /\ pending' = TopCalls
      /\ UNCHANGED <<report, tree, summary, cells>> /\ report \in Reports /\ IsTree
  BY DEF StartEmit, TreeInv
<1>2. Family(tree, live) /\ Spells(tree, live, path) /\ Houses(tree, live, path, Goals, {})
  BY <1>1 DEF PathsSpelled, Waiting
<1>3. Shown' = Shown /\ Goals' = Goals
  BY <1>1, ShownStays
<1>4. PICK of : of = [i \in {1} |-> Root]
  OBVIOUS
<1>5. PICK s, q, w : s = rows' /\ q = TopCalls /\ w = Shown
  OBVIOUS
<1>6. PICK P \in Nat : DOMAIN q = 1 .. P /\ \A k \in 1 .. P : IsTop(q[k])
  BY <1>1, <1>5, TopCallsAreTop
<1>7. DOMAIN tree[Root].children = 1 .. P /\ \A k \in 1 .. P : q[k].node = tree[Root].children[k]
  <2>1. DOMAIN q = DOMAIN tree[Root].children
    BY <1>5 DEF TopCalls
  <2>2. \A k \in DOMAIN tree[Root].children : q[k].node = tree[Root].children[k]
    BY <1>5 DEF TopCalls
  <2> QED BY <1>6, <2>1, <2>2
<1>8. /\ live \subseteq DOMAIN tree /\ Root \in live /\ live \subseteq Nat \ {0}
      /\ \A n \in live : \A c : IsChild(tree, n, c) => c \in live /\ n < c
      /\ \A n \in live, m \in live : \A c : IsChild(tree, n, c) /\ IsChild(tree, m, c) => n = m
      /\ \A i, j \in DOMAIN tree[Root].children : tree[Root].children[i] = tree[Root].children[j] => i = j
  BY <1>2 DEF Family
<1>9. \A c : Called(q, c) <=> IsChild(tree, Root, c)
  BY <1>6, <1>7 DEF Called, IsChild
<1>10. \A c : IsChild(tree, Root, c) => c \in live \ {Root} /\ path[c] = w[c].name
  <2> SUFFICES ASSUME NEW c, IsChild(tree, Root, c) PROVE c \in live \ {Root} /\ path[c] = w[c].name
    OBVIOUS
  <2>1. c \in live /\ Root < c /\ c \in Nat
    BY <1>8
  <2>2. path[c] = <<>> \o tree[c].name /\ tree[c].name \in Names
    BY <1>2, <1>8, <2>1 DEF Spells
  <2>3. path[c] = tree[c].name
    BY <2>2, ConcatEmptySeq DEF Names
  <2>4. w[c].name = tree[c].name
    BY <1>5, <1>8, <2>1, ShownIs
  <2> QED BY <2>1, <2>3, <2>4 DEF Root
<1>11. NodesAt(s) \subseteq {1} /\ (tree[Root].pkg # 0 => NodesAt(s) = {1}) /\ RowsShow(w, live, path, s, of)
  <2>1. CASE tree[Root].pkg = 0
    <3>1. DOMAIN s = {}
      BY <1>1, <1>5, <2>1 DEF ModuleRows
    <3> QED BY <2>1, <3>1 DEF NodesAt, RowsShow
  <2>2. CASE tree[Root].pkg # 0
    <3>1. PICK T \in Nat : ModuleRowsAt(s, T)
      BY <1>1, <1>5, <2>2, ModuleRowsAre
    <3>2. PICK row : row = s[1]
      OBVIOUS
    <3>3. row = NodeRow(Root, <<>>, "")
      BY <3>1, <3>2, Zenon DEF ModuleRowsAt
    <3>4. /\ DOMAIN TypesOf(Root) = 1 .. T /\ DOMAIN s = 1 .. 1 + T
          /\ \A t \in 1 .. T : s[1 + t] = TypeRow(Root, t - 1, <<>>, T)
      BY <3>1, Zenon DEF ModuleRowsAt
    <3>5. row.kind = "node" /\ IsBare(row) /\ row.prefix = <<>>
      BY <3>3, Zenon DEF NodeRow, IsBare
    <3>6. DepthOf(s[1]) = 0
      <4>1. Len(<<>>) = 0 /\ 0 + 0 = 0
        OBVIOUS
      <4> QED BY <3>2, <3>5, <4>1 DEF DepthOf
    <3>7. ShowsNode(s[1], w[Root])
      <4>1. Root \in DOMAIN tree /\ w = Shown
        BY <1>5, <1>8
      <4>2. ShowsNode(row, w[Root])
        BY <3>3, <4>1, ShowsItsNode, Zenon
      <4> QED BY <3>2, <4>2
    <3>8. \A t \in 1 .. T : ShowsType(s[1 + t], w[Root].types[t])
      <4> SUFFICES ASSUME NEW t \in 1 .. T PROVE ShowsType(s[1 + t], w[Root].types[t])
        OBVIOUS
      <4>1. PICK own : own = s[1 + t]
        OBVIOUS
      <4>2. own = TypeRow(Root, t - 1, <<>>, T)
        BY <3>4, <4>1
      <4>3. Root \in DOMAIN tree /\ w = Shown /\ t \in DOMAIN TypesOf(Root) /\ t \in Nat
        BY <1>5, <1>8, <3>4
      <4>4. ShowsType(own, w[Root].types[t])
        BY <4>2, <4>3, ShowsItsType, Zenon
      <4> QED BY <4>1, <4>4
    <3>9. \A t \in 1 .. T : DepthOf(s[1 + t]) = 1
      <4> SUFFICES ASSUME NEW t \in 1 .. T PROVE DepthOf(s[1 + t]) = 1
        OBVIOUS
      <4>1. PICK own : own = s[1 + t]
        OBVIOUS
      <4>2. own.prefix = <<>> /\ own.connector = BranchGlyph(t - 1, T)
        <5>1. own = TypeRow(Root, t - 1, <<>>, T)
          BY <3>4, <4>1
        <5> QED BY <5>1, Zenon DEF TypeRow
      <4>3. own.connector \in {"tee", "corner"}
        BY <4>2 DEF BranchGlyph
      <4>4. ~ IsBare(own)
        BY <4>3, Zenon DEF IsBare
      <4>5. Len(<<>>) = 0 /\ 0 + 1 = 1
        OBVIOUS
      <4> QED BY <4>1, <4>2, <4>4, <4>5 DEF DepthOf
    <3>10. \A t \in 1 .. T : s[1 + t].kind = "type"
      BY <3>8 DEF ShowsType
    <3>11. \A i \in 1 .. 1 + T : i = 1 \/ \E t \in 1 .. T : i = 1 + t
      <4> SUFFICES ASSUME NEW i \in 1 .. 1 + T, i # 1 PROVE \E t \in 1 .. T : i = 1 + t
        OBVIOUS
      <4>1. i - 1 \in 1 .. T /\ i = 1 + (i - 1)
        OBVIOUS
      <4> QED BY <4>1
    <3>12. NodesAt(s) = {1}
      <4>1. 1 \in 1 .. 1 + T /\ "type" # "node"
        OBVIOUS
      <4> QED BY <3>2, <3>4, <3>5, <3>10, <3>11, <4>1 DEF NodesAt
    <3>13. \A t \in 1 .. T : HangsFrom(s, 1 + t, 1, 1)
      <4> SUFFICES ASSUME NEW t \in 1 .. T PROVE HangsFrom(s, 1 + t, 1, 1)
        OBVIOUS
      <4>1. \A m \in 1 + 1 .. (1 + t) - 1 : m - 1 \in 1 .. T /\ m = 1 + (m - 1)
        OBVIOUS
      <4>2. \A m \in 1 + 1 .. (1 + t) - 1 : DepthOf(s[m]) = 1
        BY <3>9, <4>1
      <4>3. 1 >= 1 /\ 1 < 1 + t /\ 0 = 1 - 1
        OBVIOUS
      <4> QED BY <3>2, <3>5, <3>6, <4>2, <4>3 DEF HangsFrom, NoneAbove
    <3>14. of[1] = Root /\ w[Root].name = tree[Root].name /\ DOMAIN w[Root].types = 1 .. T
      BY <1>4, <1>5, <1>8, <3>4, ShownIs
    <3>15. SpelledAt(w, path, of, s, 1, 0, Root)
      BY <1>2, <3>14 DEF SpelledAt, Spells
    <3>16. RowShows(w, live, path, s, of, 1)
      <4>1. \A t \in 1 .. T : 1 + t \in 1 .. 1 + T
        OBVIOUS
      <4> QED BY <1>8, <3>4, <3>6, <3>7, <3>8, <3>9, <3>13, <3>14, <3>15, <4>1 DEF RowShows
    <3>17. ASSUME NEW i \in DOMAIN s, s[i].kind = "type"
           PROVE  \E j \in NodesAt(s) : \E t \in DOMAIN w[of[j]].types : i = j + t
      <4>1. i # 1
        <5>1. "node" # "type"
          OBVIOUS
        <5> QED BY <3>2, <3>5, <3>17, <5>1
      <4> QED BY <3>4, <3>11, <3>12, <3>14, <3>17, <4>1
    <3>18. RowsShow(w, live, path, s, of)
      BY <3>12, <3>16, <3>17 DEF RowsShow
    <3> QED BY <3>12, <3>18
  <2> QED BY <2>1, <2>2
<1>12. of[1] = Root
  BY <1>4
<1>13. \A n : Printed(s, of, n) => n = Root
  BY <1>11, <1>12 DEF Printed
<1>14. CallsShow(w, live, path, s, q, of)
  <2>1. \A k \in 1 .. P : IsChild(tree, Root, q[k].node) /\ DepthOf(q[k]) = 0
    BY <1>6, <1>7 DEF IsChild, IsTop
  <2>2. \A k \in 1 .. P : SpelledAt(w, path, of, s, Len(s) + 1, DepthOf(q[k]), q[k].node)
    BY <1>10, <2>1 DEF SpelledAt
  <2>3. \A k \in 1 .. P : q[k].node \in live \ {Root} /\ ~ Printed(s, of, q[k].node)
    BY <1>10, <1>13, <2>1
  <2>4. \A k, l \in 1 .. P : q[k].node = q[l].node => k = l
    <3>1. PICK kids : kids = tree[Root].children
      OBVIOUS
    <3>2. DOMAIN kids = 1 .. P /\ (\A i, j \in DOMAIN kids : kids[i] = kids[j] => i = j)
          /\ \A k \in 1 .. P : q[k].node = kids[k]
      BY <1>7, <1>8, <3>1
    <3> QED BY <3>2
  <2> QED BY <1>6, <2>2, <2>3, <2>4 DEF CallsShow
<1>15. AllReached(tree, live, s, q, of)
  <2>1. ASSUME NEW n \in live, n = Root \/ Printed(s, of, n), NEW c, IsChild(tree, n, c)
        PROVE  Printed(s, of, c) \/ Called(q, c)
    BY <1>9, <1>13, <2>1
  <2>2. ASSUME NEW n \in live, NEW c, IsChild(tree, n, c), Printed(s, of, c) \/ Called(q, c) PROVE n = Root
    <3>1. c # Root
      <4>1. n < c /\ n \in Nat \ {0} /\ c \in Nat
        BY <1>8, <2>2
      <4> QED BY <4>1 DEF Root
    <3>2. IsChild(tree, Root, c)
      BY <1>9, <1>13, <2>2, <3>1
    <3> QED BY <1>8, <2>2, <3>2
  <2>3. tree[Root].pkg # 0 => Printed(s, of, Root)
    BY <1>11, <1>12 DEF Printed
  <2> QED BY <2>1, <2>2, <2>3 DEF AllReached
<1>16. ListInv(tree, w, live, path, s, q, of)
  BY <1>11, <1>14, <1>15 DEF ListInv
<1>17. Listed(live, path, of)'
  BY <1>1, <1>2, <1>3, <1>5, <1>16 DEF Listed
<1> QED BY <1>17

\* A round of emitNode goes on with the list.
LEMMA EmitLists ==
  ASSUME TreeInv, GlyphsRight, EmitNode, NEW live, NEW path, NEW of, Listed(live, path, of)
  PROVE  \E of2 : Listed(live, path, of2)'
<1>1. UNCHANGED <<report, tree, summary, cells>>
  BY DEF EmitNode
<1>2. Shown' = Shown /\ Goals' = Goals
  BY <1>1, ShownStays
<1>3. PICK L \in Nat, G \in Nat, T \in Nat, C \in Nat, P \in Nat, N \in Nat : RoundOfEmit(L, G, T, C, P, N)
  BY RoundIs
<1>4. RoundGrows(L, G, T, C, P, N)
  BY <1>3, EmitGrows
<1>5. PICK s, q, w, n : s = rows' /\ q = pending' /\ w = Shown /\ n = pending[1].node
  OBVIOUS
<1>6. PICK d \in Nat : GrowsBy(rows, pending, s, q, L, G, T, C, P, N, d)
  BY <1>4, <1>5 DEF RoundGrows
<1>7. PICK call, below : call = pending[1] /\ below = ChildIndent(call.prefix, call.connector)
  OBVIOUS
<1>8. Round(call, below, L, G, T, C, P, N)
  BY <1>3, <1>7, Zenon DEF RoundOfEmit
<1>9. call.node = n /\ n \in DOMAIN tree
  BY <1>5, <1>7, <1>8 DEF Round
<1>10. ShowsBy(tree, w, s, q, T, C, N, n)
  <2>1. /\ s[N] = NodeRow(n, call.prefix, call.connector)
        /\ \A t \in 1 .. T : s[N + t] = TypeRow(n, t - 1, below, T + C)
        /\ DOMAIN TypesOf(n) = 1 .. T /\ DOMAIN tree[n].children = 1 .. C
        /\ \A c \in 1 .. C : q[c] = ChildCalls(n, below)[c]
    BY <1>5, <1>8, <1>9 DEF Round
  <2>2. ShowsNode(s[N], w[n]) /\ DOMAIN w[n].types = 1 .. T
    <3>1. w = Shown /\ s[N] = NodeRow(n, call.prefix, call.connector)
      BY <1>5, <2>1
    <3>2. ShowsNode(s[N], w[n])
      BY <1>9, <3>1, ShowsItsNode, Zenon
    <3>3. DOMAIN w[n].types = DOMAIN TypesOf(n)
      BY <1>9, <3>1, ShownIs
    <3> QED BY <2>1, <3>2, <3>3
  <2>3. ASSUME NEW t \in 1 .. T PROVE ShowsType(s[N + t], w[n].types[t])
    <3>1. \A prefix, total : ShowsType(TypeRow(n, t - 1, prefix, total), Shown[n].types[t])
      <4>1. t \in Nat
        OBVIOUS
      <4> QED BY <1>9, <2>1, <4>1, ShownIs, Zenon
    <3> QED BY <1>5, <2>1, <3>1, Zenon
  <2>4. ASSUME NEW c \in 1 .. C PROVE q[c].node = tree[n].children[c]
    <3>1. PICK next : next = ChildCalls(n, below)[c]
      OBVIOUS
    <3>2. next.node = tree[n].children[c]
      BY <2>1, <3>1 DEF ChildCalls
    <3> QED BY <2>1, <3>1, <3>2
  <2> QED BY <2>1, <2>2, <2>3, <2>4 DEF ShowsBy
<1>11. PICK of2 : of2 = [i \in 1 .. N |-> IF i = N THEN n ELSE of[i]]
  OBVIOUS
<1>12. OfGrows(of, of2, L, N, n)
  <2>1. N = L + G + 1
    BY <1>6 DEF GrowsBy
  <2>2. N \in 1 .. N /\ \A i \in 1 .. L : i \in 1 .. N /\ i # N
    BY <2>1
  <2> QED BY <1>11, <2>2 DEF OfGrows
<1>13. /\ Family(tree, live) /\ Spells(tree, live, path) /\ Houses(tree, live, path, Goals, {})
       /\ ListInv(tree, w, live, path, rows, pending, of)
  BY <1>5 DEF Listed
<1>14. \A m \in live : w[m].name = tree[m].name
  <2>1. live \subseteq DOMAIN tree
    BY <1>13 DEF Family
  <2> QED BY <1>5, <2>1, ShownIs
<1>15. IsListRound(tree, w, live, path, rows, pending, of, s, q, of2, L, G, T, C, P, N, d, n)
  BY <1>5, <1>6, <1>10, <1>12, <1>13, <1>14 DEF IsListRound, GlyphsRight
<1>16. RowsShow(w, live, path, s, of2)
  BY <1>15, RowsListed
<1>17. CallsShow(w, live, path, s, q, of2) /\ AllReached(tree, live, s, q, of2)
  BY <1>15, CallsListed
<1>18. ListInv(tree, w, live, path, s, q, of2)
  BY <1>16, <1>17 DEF ListInv
<1>19. Listed(live, path, of2)'
  BY <1>1, <1>2, <1>5, <1>13, <1>18 DEF Listed
<1> QED BY <1>19

LEMMA ListingStarts == ASSUME TreeInit PROVE PageLists
  BY DEF TreeInit, PageLists

LEMMA ListingGoesOn ==
  ASSUME TreeInv, TreeSpelled, GlyphsRight, PageLists, BuildTable \/ UNCHANGED tablevars PROVE PageLists'
<1>1. report' = report /\ RelativePathsDiffer' = RelativePathsDiffer
  <2>1. report' = report
    BY Zenon DEF BuildTable, Down, Attach, StartCompress, Absorb, Descend,
           StartAggregate, Visit, Return, StartEmit, EmitNode, EndEmit, tablevars
  <2> QED BY <2>1, PathsStay
<1> SUFFICES ASSUME RelativePathsDiffer, phase' \in {"emit", "done"} PROVE \E live, path, of : Listed(live, path, of)'
  BY <1>1 DEF PageLists
<1>2. CASE StartEmit
  <2>1. PICK live, path : PathsSpelled(live, path)
    BY DEF TreeSpelled
  <2> QED BY <1>2, <2>1, ListStarts
<1>3. ASSUME EmitNode \/ EndEmit \/ UNCHANGED tablevars PROVE \E live, path, of : Listed(live, path, of)
  <2>1. phase \in {"emit", "done"}
    BY <1>3, Zenon DEF EmitNode, EndEmit, tablevars
  <2> QED BY <2>1 DEF PageLists
<1>4. CASE EmitNode
  BY <1>3, <1>4, EmitLists
<1>5. CASE EndEmit \/ UNCHANGED tablevars
  <2>1. UNCHANGED <<report, tree, summary, cells, rows, pending>>
    BY <1>5 DEF EndEmit, tablevars
  <2>2. Shown' = Shown /\ Goals' = Goals
    BY <2>1, ShownStays
  <2>3. PICK live, path, of : Listed(live, path, of)
    BY <1>3, <1>5
  <2>4. Listed(live, path, of)'
    BY <2>1, <2>2, <2>3 DEF Listed
  <2> QED BY <2>4
<1>6. ASSUME Down \/ Attach \/ StartCompress \/ Absorb \/ Descend \/ StartAggregate \/ Visit \/ Return PROVE FALSE
  BY <1>6, Zenon DEF Down, Attach, StartCompress, Absorb, Descend, StartAggregate, Visit, Return
<1> QED BY <1>2, <1>4, <1>5, <1>6 DEF BuildTable

-----------------------------------------------------------------------------
\* When no call is left, every node below the root has its row ...
LEMMA AllPrinted ==
  ASSUME NEW tr, NEW live, NEW r, NEW of, Family(tr, live), AllReached(tr, live, r, <<>>, of),
         NEW n \in live, n # Root \/ tr[Root].pkg # 0
  PROVE  Printed(r, of, n)
<1>1. CASE n = Root
  BY <1>1 DEF AllReached
<1>2. CASE n # Root
  <2> DEFINE Missing == {m \in live : m # Root /\ ~ Printed(r, of, m)}
  <2> SUFFICES ASSUME n \in Missing PROVE FALSE
    BY <1>2
  <2>1. Missing \subseteq Nat /\ Missing # {}
    BY DEF Family
  <2> HIDE DEF Missing
  <2>2. PICK c \in Missing : \A m \in Missing : c <= m
    BY <2>1, LeastElement
  <2>3. c \in live /\ c # Root /\ ~ Printed(r, of, c) /\ c \in Nat
    BY <2>1, <2>2 DEF Missing
  <2>4. PICK m \in live : IsChild(tr, m, c)
    BY <2>3 DEF Family
  <2>5. m < c /\ m \in Nat
    BY <2>4 DEF Family
  <2>6. m = Root \/ Printed(r, of, m)
    <3>1. m \notin Missing
      BY <2>2, <2>3, <2>5
    <3> QED BY <3>1 DEF Missing
  <2>7. ~ Called(<<>>, c)
    BY DEF Called
  <2> QED BY <2>3, <2>4, <2>6, <2>7 DEF AllReached
<1> QED BY <1>1, <1>2

\* ... and the reader of the rows finds its path there.
LEMMA ParentIsNode ==
  ASSUME IsList(rows), RowsHang(rows), NEW i \in DOMAIN rows, IsBranch(rows[i]), NEW j \in NodesAt(rows),
         HangsFrom(rows, i, DepthOf(rows[i]), j)
  PROVE  ParentRow(i) = j /\ j < i
<1>1. PICK d \in Nat : d = DepthOf(rows[i])
  BY DEF RowsHang
<1>2. j \in DOMAIN rows /\ d \in Int /\ DepthOf(rows[i]) = d /\ HangsFrom(rows, i, d, j)
  BY <1>1 DEF NodesAt
<1> QED BY <1>2, ParentIs DEF HangsFrom

LEMMA PathsRead ==
  ASSUME IsList(rows), RowsHang(rows), NEW w, NEW live, NEW path, NEW of, RowsShow(w, live, path, rows, of)
  PROVE  \A i \in NodeRowsOf : PathOf[i] = path[of[i]]
<1> DEFINE Step(f, i) == IF Depth(i) = 0 THEN rows[i].name ELSE f[ParentRow(i)] \o rows[i].name
           Is(f) == f = [i \in NodeRowsOf |-> Step(f, i)]
<1>1. NodeRowsOf = NodesAt(rows) /\ NodeRowsOf \subseteq Nat
  <2>1. PICK L \in Nat : DOMAIN rows = 1 .. L
    BY ListIs
  <2> QED BY <2>1 DEF NodeRowsOf, NodesAt
<1>2. PICK g : g = [i \in NodeRowsOf |-> path[of[i]]]
  OBVIOUS
<1>3. ASSUME NEW i \in NodeRowsOf, Depth(i) # 0
      PROVE  \E j \in NodeRowsOf : ParentRow(i) = j /\ j < i /\ path[of[i]] = path[of[j]] \o rows[i].name
  <2>1. i \in DOMAIN rows /\ IsBranch(rows[i]) /\ DepthOf(rows[i]) # 0
    BY <1>3, DepthIs DEF NodeRowsOf, IsBranch
  <2>2. RowShows(w, live, path, rows, of, i)
    BY <1>1, <1>3 DEF RowsShow
  <2>3. SpelledAt(w, path, of, rows, i, DepthOf(rows[i]), of[i]) /\ rows[i].name = w[of[i]].name
    BY <2>2 DEF RowShows, ShowsNode
  <2>4. PICK j \in NodesAt(rows) :
          HangsFrom(rows, i, DepthOf(rows[i]), j) /\ path[of[i]] = path[of[j]] \o w[of[i]].name
    BY <2>1, <2>3 DEF SpelledAt
  <2>5. ParentRow(i) = j /\ j < i
    BY <2>1, <2>4, ParentIsNode
  <2> QED BY <1>1, <2>3, <2>4, <2>5
<1>4. ASSUME NEW i \in NodeRowsOf, Depth(i) = 0 PROVE path[of[i]] = rows[i].name
  <2>1. RowShows(w, live, path, rows, of, i)
    BY <1>1, <1>4 DEF RowsShow
  <2>2. SpelledAt(w, path, of, rows, i, DepthOf(rows[i]), of[i]) /\ rows[i].name = w[of[i]].name
    BY <2>1 DEF RowShows, ShowsNode
  <2>3. DepthOf(rows[i]) = 0
    BY <1>4, DepthIs
  <2> QED BY <2>2, <2>3 DEF SpelledAt
<1>5. Is(g)
  <2>1. ASSUME NEW i \in NodeRowsOf PROVE g[i] = Step(g, i)
    <3>1. CASE Depth(i) = 0
      BY <1>2, <1>4, <3>1
    <3>2. CASE Depth(i) # 0
      <4>1. PICK j \in NodeRowsOf : ParentRow(i) = j /\ path[of[i]] = path[of[j]] \o rows[i].name
        BY <1>3, <3>2
      <4>2. g[i] = path[of[i]] /\ g[j] = path[of[j]]
        BY <1>2
      <4> QED BY <3>2, <4>1, <4>2
    <3> QED BY <3>1, <3>2
  <2>2. DOMAIN g = NodeRowsOf /\ g = [i \in NodeRowsOf |-> g[i]]
    BY <1>2
  <2> HIDE DEF Step
  <2> QED BY <2>1, <2>2
<1>6. PathOf = CHOOSE f : Is(f)
  BY DEF PathOf
<1>7. Is(PathOf)
  <2> HIDE DEF Is
  <2> QED BY <1>5, <1>6
<1>8. \A i \in NodeRowsOf : PathOf[i] = Step(PathOf, i)
  <2> HIDE DEF Step
  <2> QED BY <1>7
<1> DEFINE Wrong == {i \in NodeRowsOf : PathOf[i] # path[of[i]]}
<1> SUFFICES ASSUME Wrong # {} PROVE FALSE
  OBVIOUS
<1>9. PICK i \in Wrong : \A j \in Wrong : i <= j
  <2>1. Wrong \subseteq Nat
    BY <1>1
  <2> HIDE DEF Wrong
  <2> QED BY <2>1, LeastElement
<1>10. i \in NodeRowsOf /\ PathOf[i] # path[of[i]] /\ PathOf[i] = Step(PathOf, i) /\ i \in Nat
  BY <1>1, <1>8, <1>9
<1>11. Depth(i) # 0
  BY <1>4, <1>10
<1>12. PICK j \in NodeRowsOf : ParentRow(i) = j /\ j < i /\ path[of[i]] = path[of[j]] \o rows[i].name
  BY <1>3, <1>10, <1>11
<1>13. j \notin Wrong
  <2>1. j \in Nat
    BY <1>1, <1>12
  <2> HIDE DEF Wrong
  <2> QED BY <1>9, <1>10, <1>12, <2>1
<1> QED BY <1>10, <1>11, <1>12, <1>13

\* What the reader of the whole table learns.
TypeRead(n, i, t) ==
  /\ i + t \in DOMAIN rows /\ rows[i + t].kind = "type" /\ ParentRow(i + t) = i
  /\ rows[i + t].name = <<TypesOf(n)[t].name>> /\ rows[i + t].cells = Shown[n].types[t].cells
TableRead(of) ==
  /\ \A i \in NodeRowsOf : of[i] \in DOMAIN tree /\ (tree[of[i]].pkg # 0 => PathOf[i] = Goals[tree[of[i]].pkg])
  /\ \A i, j \in NodeRowsOf : PathOf[i] = PathOf[j] => i = j
  /\ \A i \in NodeRowsOf : \A t \in DOMAIN TypesOf(of[i]) : TypeRead(of[i], i, t)
  /\ \A j \in DOMAIN rows : rows[j].kind = "type" => \E i \in NodeRowsOf : \E t \in DOMAIN TypesOf(of[i]) : j = i + t
  /\ \A k \in DOMAIN Packages : \E i \in NodeRowsOf : tree[of[i]].pkg = k

LEMMA ReadsTable ==
  ASSUME report \in Reports, IsList(rows), RowsHang(rows), pending = <<>>,
         NEW live, NEW path, NEW of, Listed(live, path, of)
  PROVE  TableRead(of)
<1>1. PICK w : w = Shown
  OBVIOUS
<1>2. /\ Family(tree, live) /\ Spells(tree, live, path) /\ Houses(tree, live, path, Goals, {})
      /\ RowsShow(w, live, path, rows, of) /\ AllReached(tree, live, rows, <<>>, of)
  BY <1>1 DEF Listed, ListInv
<1>3. NodeRowsOf = NodesAt(rows)
  BY DEF NodeRowsOf, NodesAt
<1>4. \A i \in NodeRowsOf : of[i] \in live /\ RowShows(w, live, path, rows, of, i)
  BY <1>2, <1>3 DEF RowsShow, RowShows
<1>5. live \subseteq DOMAIN tree
  BY <1>2 DEF Family
<1>6. \A i \in NodeRowsOf : PathOf[i] = path[of[i]]
  BY <1>2, PathsRead
<1>7. ASSUME NEW i \in NodeRowsOf, tree[of[i]].pkg # 0 PROVE PathOf[i] = Goals[tree[of[i]].pkg]
  BY <1>2, <1>4, <1>6, <1>7 DEF Houses
<1>8. ASSUME NEW i \in NodeRowsOf, NEW j \in NodeRowsOf, PathOf[i] = PathOf[j] PROVE i = j
  <2>1. of[i] = of[j]
    BY <1>2, <1>4, <1>6, <1>8 DEF Spells
  <2> QED BY <1>2, <1>3, <2>1 DEF RowsShow
<1>9. \A i \in NodeRowsOf : DOMAIN w[of[i]].types = DOMAIN TypesOf(of[i])
  BY <1>1, <1>4, <1>5, ShownIs
<1>10. ASSUME NEW i \in NodeRowsOf, NEW t \in DOMAIN TypesOf(of[i]) PROVE TypeRead(of[i], i, t)
  <2>1. PICK n : n = of[i]
    OBVIOUS
  <2>2. /\ i + t \in DOMAIN rows /\ ShowsType(rows[i + t], w[n].types[t])
        /\ HangsFrom(rows, i + t, DepthOf(rows[i + t]), i)
    BY <1>4, <1>9, <2>1 DEF RowShows
  <2>3. PICK face : face = w[n].types[t]
    OBVIOUS
  <2>4. face.name = <<TypesOf(n)[t].name>>
    <3>1. n \in DOMAIN tree /\ t \in DOMAIN TypesOf(n)
      BY <1>4, <1>5, <2>1
    <3>2. PICK name : name = <<TypesOf(n)[t].name>>
      OBVIOUS
    <3>3. w[n].types = TypesShown(n)
      BY <1>1, <3>1 DEF Shown
    <3>4. PICK typ : typ = TypesOf(n)[t]
      OBVIOUS
    <3>5. PICK cells0 : cells0 = <<IF typ.applicable THEN AddStat(NoStat, typ.value) ELSE NoStat>>
      OBVIOUS
    <3>6. TypesShown(n)[t] = [name |-> name, cells |-> cells0]
      BY <3>1, <3>2, <3>4, <3>5, Zenon DEF TypesShown
    <3>7. face.name = name
      BY <2>3, <3>3, <3>6
    <3> QED BY <3>2, <3>7
  <2>5. PICK m : m = i + t
    OBVIOUS
  <2>6. m \in DOMAIN rows /\ rows[m].kind = "type" /\ rows[m].name = face.name /\ rows[m].cells = face.cells
    BY <2>2, <2>3, <2>5 DEF ShowsType
  <2>7. IsBranch(rows[m])
    BY <2>6 DEF IsBranch
  <2>8. ParentRow(m) = i
    BY <1>3, <2>2, <2>5, <2>6, <2>7, ParentIsNode
  <2> QED BY <1>1, <2>1, <2>3, <2>4, <2>5, <2>6, <2>8, Zenon DEF TypeRead
<1>11. ASSUME NEW j \in DOMAIN rows, rows[j].kind = "type"
       PROVE  \E i \in NodeRowsOf : \E t \in DOMAIN TypesOf(of[i]) : j = i + t
  BY <1>2, <1>3, <1>9, <1>11 DEF RowsShow
<1>12. ASSUME NEW k \in DOMAIN Packages PROVE \E i \in NodeRowsOf : tree[of[i]].pkg = k
  <2>1. k # 0 /\ k \in DOMAIN Goals
    BY GoalsAre
  <2>2. PICK n \in live : tree[n].pkg = k
    BY <1>2, <2>1 DEF Houses
  <2>3. n # Root \/ tree[Root].pkg # 0
    BY <2>1, <2>2
  <2>4. Printed(rows, of, n)
    BY <1>2, <2>3, AllPrinted
  <2> QED BY <1>3, <2>2, <2>4 DEF Printed
<1> QED BY <1>4, <1>5, <1>7, <1>8, <1>10, <1>11, <1>12 DEF TableRead

LEMMA PackageIsListed ==
  ASSUME report \in Reports, IsList(rows), NEW of, TableRead(of), NEW k \in DOMAIN Packages
  PROVE  \E i \in NodeRowsOf : /\ IsRowOf(i, Packages[k])
                               /\ \A j \in NodeRowsOf : PathOf[j] = Rel(Packages[k].path) => j = i
<1>1. PICK i \in NodeRowsOf : tree[of[i]].pkg = k
  BY DEF TableRead
<1>2. PICK n : n = of[i] /\ n \in DOMAIN tree
  BY DEF TableRead
<1>3. k # 0 /\ Goals[k] = Rel(Packages[k].path)
  BY GoalsAre
<1>4. PathOf[i] = Rel(Packages[k].path)
  BY <1>1, <1>3 DEF TableRead
<1>5. PICK types : types = Packages[k].types /\ types = TypesOf(n)
  BY <1>1, <1>2, <1>3 DEF TypesOf
<1>6. PICK T \in Nat : T = Len(types) /\ DOMAIN types = 1 .. T
  BY <1>5, ReportIs, ListIs
<1>7. ASSUME NEW t \in DOMAIN types PROVE TypeRead(n, i, t)
  BY <1>2, <1>5, <1>7 DEF TableRead
<1>8. ASSUME NEW j \in DOMAIN rows, rows[j].kind = "type", ParentRow(j) = i PROVE j \in i + 1 .. i + T
  <2>1. PICK m \in NodeRowsOf : \E t \in DOMAIN TypesOf(of[m]) : j = m + t
    BY <1>8 DEF TableRead
  <2>2. PICK t \in DOMAIN TypesOf(of[m]) : j = m + t
    BY <2>1
  <2>3. TypeRead(of[m], m, t)
    BY DEF TableRead
  <2>4. ParentRow(j) = m
    BY <2>2, <2>3 DEF TypeRead
  <2>5. m = i /\ t \in 1 .. T
    BY <1>2, <1>5, <1>6, <1>8, <2>4
  <2>6. i \in Int
    BY ListIs DEF NodeRowsOf
  <2> QED BY <2>2, <2>5, <2>6
<1>9. IsRowOf(i, Packages[k])
  <2>1. \A t \in DOMAIN types :
          i + t \in DOMAIN rows /\ rows[i + t].kind = "type" /\ ParentRow(i + t) = i
            /\ rows[i + t].name = <<types[t].name>>
    BY <1>5, <1>7, Zenon DEF TypeRead
  <2> QED BY <1>4, <1>5, <1>6, <1>8, <2>1, Zenon DEF IsRowOf
<1>10. ASSUME NEW j \in NodeRowsOf, PathOf[j] = Rel(Packages[k].path) PROVE j = i
  BY <1>4, <1>10 DEF TableRead
<1> QED BY <1>9, <1>10

\* The invariant of a text page: its pieces, its glyphs, what the nodes spell and
\* what the rows printed so far list.
PageRead == WriteInv /\ PageInv /\ GlyphsRight /\ TreeSpelled /\ PageLists

LEMMA PageReadStarts == ASSUME WriteInit PROVE PageRead
  BY WriteStarts, PageStarts, GlyphsStart, SpellingStarts, ListingStarts DEF WriteInit, PageRead

LEMMA PageReadStays == ASSUME PageRead, [WriteNext]_writevars PROVE PageRead'
<1>1. WriteInv' /\ PageInv'
  BY StepOfWrite, PageGoesOn DEF PageRead
<1>2. TableInv /\ TreeInv /\ (BuildTable \/ UNCHANGED tablevars)
  BY BuildsOrStays DEF BuildStep, WriteInv, WriteTypes, PageRead, TableInv
<1> QED BY <1>1, <1>2, GlyphsGoOn, SpellingGoesOn, ListingGoesOn DEF PageRead

LEMMA WrittenIsRead ==
  ASSUME PageRead, PageWritten, RelativePathsDiffer, Packages # <<>> PROVE \E of : TableRead(of)
<1>1. phase = "done" /\ pending = <<>>
  BY DEF PageRead, PageInv, PageWritten
<1>2. report \in Reports /\ IsList(rows)
  BY DEF PageRead, WriteInv, WriteTypes, TableInv, TreeInv, EmitInv, AreRows
<1>3. PICK live, path, of : Listed(live, path, of)
  BY <1>1 DEF PageRead, PageLists
<1>4. RowsHang(rows)
  BY DEF PageRead, GlyphsRight, GlyphInv
<1> QED BY <1>1, <1>2, <1>3, <1>4, ReadsTable

\* Every package of the report has its row, with its types beneath it, and no
\* other row spells its path, provided the packages' relative paths differ.
THEOREM PackagesAreListed == WriteSpec => []DistinctPackagesAreListed
<1>1. PageRead => DistinctPackagesAreListed
  <2> SUFFICES ASSUME PageRead, PageWritten, RelativePathsDiffer, NEW k \in DOMAIN Packages
               PROVE  \E i \in NodeRowsOf : /\ IsRowOf(i, Packages[k])
                                            /\ \A j \in NodeRowsOf : PathOf[j] = Rel(Packages[k].path) => j = i
    BY DEF DistinctPackagesAreListed
  <2>1. Packages # <<>>
    OBVIOUS
  <2>2. PICK of : TableRead(of)
    BY <2>1, WrittenIsRead
  <2>3. report \in Reports /\ IsList(rows)
    BY DEF PageRead, WriteInv, WriteTypes, TableInv, TreeInv, EmitInv, AreRows
  <2> QED BY <2>2, <2>3, PackageIsListed
<1> QED BY <1>1, PageReadStarts, PageReadStays, PTL DEF WriteSpec

-----------------------------------------------------------------------------
\* What lists hold when they are put one after the other, and how much.
LEMMA FlatHolds ==
  ASSUME NEW ss, IsList(ss), \A k \in DOMAIN ss : IsList(ss[k])
  PROVE  \A x : x \in Range(FlattenSeq(ss)) <=> \E k \in DOMAIN ss : \E t \in DOMAIN ss[k] : ss[k][t] = x
<1>1. PICK N \in Nat : N = Len(ss) /\ DOMAIN ss = 1 .. N
  BY ListIs
<1>2. \A k \in 1 .. N : Len(ss[k]) \in Nat /\ DOMAIN ss[k] = 1 .. Len(ss[k])
  BY <1>1, ListIs
<1>3. PICK flat, O, T : flat = FlattenSeq(ss) /\ IsFlat(flat, O, ss, T)
  BY ListsFlatten
<1>4. /\ IsOffsets(O, ss) /\ flat \in Seq(T) /\ Len(flat) = O[N]
      /\ \A p \in 1 .. N : \A t \in 1 .. Len(ss[p]) : O[p - 1] + t \in 1 .. O[N] /\ flat[O[p - 1] + t] = ss[p][t]
  BY <1>1, <1>3 DEF IsFlat
<1>5. DOMAIN flat = 1 .. O[N]
  BY <1>4
<1>6. ASSUME NEW x, x \in Range(flat) PROVE \E k \in DOMAIN ss : \E t \in DOMAIN ss[k] : ss[k][t] = x
  <2>1. PICK i \in 1 .. O[N] : flat[i] = x
    BY <1>5, <1>6 DEF Range
  <2>2. \A j \in 1 .. O[N] : \E p \in 1 .. N : \E t \in 1 .. Len(ss[p]) : j = O[p - 1] + t
    <3>1. PartsOf(O, ss, N)
      BY <1>1, <1>2, <1>4 DEF PartsOf
    <3>2. Covered(O, ss, N)
      BY <3>1, N \in Nat, OffsetsCover, Zenon
    <3> QED BY <3>2 DEF Covered
  <2>3. PICK p \in 1 .. N : \E t \in 1 .. Len(ss[p]) : i = O[p - 1] + t
    BY <2>2
  <2>4. PICK t \in 1 .. Len(ss[p]) : i = O[p - 1] + t
    BY <2>3
  <2>5. ss[p][t] = x
    BY <1>4, <2>1, <2>4
  <2> QED BY <1>1, <1>2, <2>5
<1>7. ASSUME NEW k \in DOMAIN ss, NEW t \in DOMAIN ss[k] PROVE ss[k][t] \in Range(flat)
  <2>1. PICK i \in 1 .. O[N] : flat[i] = ss[k][t]
    BY <1>1, <1>2, <1>4
  <2> QED BY <1>5, <2>1 DEF Range
<1> QED BY <1>3, <1>6, <1>7

LEMMA FlatLengths ==
  ASSUME NEW ss, IsList(ss), \A k \in DOMAIN ss : IsList(ss[k]),
         NEW tt, IsList(tt), \A k \in DOMAIN tt : IsList(tt[k]),
         DOMAIN ss = DOMAIN tt, \A k \in DOMAIN ss : DOMAIN ss[k] = DOMAIN tt[k]
  PROVE  Len(FlattenSeq(ss)) = Len(FlattenSeq(tt))
<1>1. PICK N \in Nat : N = Len(ss) /\ DOMAIN ss = 1 .. N
  BY ListIs
<1>2. N = Len(tt)
  <2>1. PICK M \in Nat : M = Len(tt) /\ DOMAIN tt = 1 .. M
    BY ListIs, SMTT(30)
  <2>2. 1 .. N = 1 .. M
    BY <1>1, <2>1
  <2>3. N = M
    BY <2>2
  <2> QED BY <2>1, <2>3
<1>3. \A k \in 1 .. N : Len(ss[k]) \in Nat /\ Len(tt[k]) = Len(ss[k])
  <2> SUFFICES ASSUME NEW k \in 1 .. N PROVE Len(ss[k]) \in Nat /\ Len(tt[k]) = Len(ss[k])
    OBVIOUS
  <2>1. PICK a \in Nat, b \in Nat : a = Len(ss[k]) /\ DOMAIN ss[k] = 1 .. a /\ b = Len(tt[k]) /\ DOMAIN tt[k] = 1 .. b
    BY <1>1, ListIs
  <2>2. 1 .. a = 1 .. b
    BY <1>1, <2>1
  <2>3. a = b
    BY <2>2
  <2> QED BY <2>1, <2>3
<1>4. PICK O, T : IsFlat(FlattenSeq(ss), O, ss, T)
  BY ListsFlatten
<1>5. PICK Q, U : IsFlat(FlattenSeq(tt), Q, tt, U)
  BY ListsFlatten
<1>6. /\ O \in [0 .. N -> Nat] /\ O[0] = 0 /\ \A p \in 1 .. N : O[p] = O[p - 1] + Len(ss[p])
      /\ Len(FlattenSeq(ss)) = O[N]
  BY <1>1, <1>4 DEF IsFlat, IsOffsets
<1>7. /\ Q \in [0 .. N -> Nat] /\ Q[0] = 0 /\ \A p \in 1 .. N : Q[p] = Q[p - 1] + Len(tt[p])
      /\ Len(FlattenSeq(tt)) = Q[N]
  BY <1>2, <1>5 DEF IsFlat, IsOffsets
<1> DEFINE Same == {p \in 0 .. N : O[p] = Q[p]}
<1>8. 0 \in Same
  BY <1>6, <1>7
<1>9. ASSUME NEW p \in 0 .. N - 1, p \in Same PROVE p + 1 \in Same
  <2>1. p + 1 \in 1 .. N /\ p + 1 \in 0 .. N /\ (p + 1) - 1 = p
    OBVIOUS
  <2>2. O[p + 1] = O[p] + Len(ss[p + 1]) /\ Q[p + 1] = Q[p] + Len(tt[p + 1])
    BY <1>6, <1>7, <2>1
  <2> QED BY <1>3, <1>9, <2>1, <2>2
<1>10. N \in Same
  <2>1. 0 .. N \subseteq Same
    <3> HIDE DEF Same
    <3> QED BY <1>8, <1>9, UpTo
  <2> QED BY <2>1
<1> QED BY <1>6, <1>7, <1>10

\* The entries of all formats but the table.
AllEntries ==
  UNION {{CSVRecord(Packages[k], Packages[k].types[j]) : j \in DOMAIN Packages[k].types} : k \in DOMAIN Packages}

LEMMA EntryOf ==
  ASSUME NEW e PROVE e \in AllEntries <=> \E k \in DOMAIN Packages : \E j \in DOMAIN Packages[k].types :
                                           e = CSVRecord(Packages[k], Packages[k].types[j])
<1> DEFINE Entries(k) == {CSVRecord(Packages[k], Packages[k].types[j]) : j \in DOMAIN Packages[k].types}
<1>1. AllEntries = UNION {Entries(k) : k \in DOMAIN Packages}
  BY DEF AllEntries
<1>2. \A k \in DOMAIN Packages : e \in Entries(k) <=> \E j \in DOMAIN Packages[k].types : e = CSVRecord(Packages[k], Packages[k].types[j])
  OBVIOUS
<1> HIDE DEF Entries
<1>3. e \in AllEntries <=> \E k \in DOMAIN Packages : e \in Entries(k)
  BY <1>1
<1> QED BY <1>2, <1>3

LEMMA RecordsHold ==
  ASSUME report \in Reports PROVE Range(CSVRecords) = AllEntries /\ Len(CSVRecords) = Len(ReportPieces)
<1> DEFINE f == [k \in DOMAIN Packages |->
                  [j \in DOMAIN Packages[k].types |-> CSVRecord(Packages[k], Packages[k].types[j])]]
           g == [k \in DOMAIN Packages |-> [j \in DOMAIN Packages[k].types |-> Packages[k].types[j].name]]
<1>1. IsList(Packages) /\ \A k \in DOMAIN Packages : IsList(Packages[k].types)
  BY ReportIs
<1>2. /\ DOMAIN f = DOMAIN Packages /\ f = [k \in DOMAIN Packages |-> f[k]]
      /\ DOMAIN g = DOMAIN Packages /\ g = [k \in DOMAIN Packages |-> g[k]]
  OBVIOUS
<1>3. ASSUME NEW k \in DOMAIN Packages
      PROVE  /\ IsList(f[k]) /\ IsList(g[k])
             /\ DOMAIN f[k] = DOMAIN Packages[k].types /\ DOMAIN g[k] = DOMAIN Packages[k].types
             /\ \A j \in DOMAIN Packages[k].types : f[k][j] = CSVRecord(Packages[k], Packages[k].types[j])
  <2>1. PICK a : a = [j \in DOMAIN Packages[k].types |-> CSVRecord(Packages[k], Packages[k].types[j])]
    OBVIOUS
  <2>2. PICK b : b = [j \in DOMAIN Packages[k].types |-> Packages[k].types[j].name]
    OBVIOUS
  <2>3. IsList(a) /\ IsList(b)
    BY <1>1, <2>1, <2>2, MappedIsList
  <2>4. f[k] = a /\ g[k] = b
    BY <2>1, <2>2
  <2> HIDE DEF f, g
  <2> QED BY <2>1, <2>2, <2>3, <2>4
<1>4. CSVRecords = FlattenSeq(f) /\ ReportPieces = FlattenSeq(g)
  BY DEF CSVRecords, ReportPieces
<1> HIDE DEF f, g
<1>5. IsList(f) /\ IsList(g)
  BY <1>1, <1>2, MappedIsList
<1>6. Len(CSVRecords) = Len(ReportPieces)
  BY <1>2, <1>3, <1>4, <1>5, FlatLengths
<1>7. \A x : x \in Range(CSVRecords) <=> \E k \in DOMAIN f : \E t \in DOMAIN f[k] : f[k][t] = x
  BY <1>2, <1>3, <1>4, <1>5, FlatHolds
<1>8. \A x : x \in Range(CSVRecords) <=> x \in AllEntries
  <2> SUFFICES ASSUME NEW x PROVE x \in Range(CSVRecords) <=> x \in AllEntries
    OBVIOUS
  <2>1. x \in Range(CSVRecords) <=> \E k \in DOMAIN Packages : \E j \in DOMAIN Packages[k].types :
                                      x = CSVRecord(Packages[k], Packages[k].types[j])
    BY <1>2, <1>3, <1>7
  <2> QED BY <2>1, EntryOf
<1> QED BY <1>6, <1>8

LEMMA DocumentHolds == ASSUME report \in Reports PROVE JSONEntries = AllEntries
<1> DEFINE EntryJSON(p, t) == [pkg |-> p.path, name |-> t.name, value |-> t.value]
<1>1. ASSUME NEW k \in DOMAIN Packages, NEW j \in DOMAIN Packages[k].types
      PROVE  /\ DOMAIN JSONReport[k].types = DOMAIN Packages[k].types
             /\ EntryJSON(JSONReport[k], JSONReport[k].types[j]) = CSVRecord(Packages[k], Packages[k].types[j])
  <2>1. PICK p, typ : p = JSONReport[k] /\ typ = Packages[k].types[j]
    OBVIOUS
  <2>2. /\ p.path = Packages[k].path /\ DOMAIN p.types = DOMAIN Packages[k].types
        /\ p.types[j] = [name |-> typ.name, value |-> MetricJSON(typ)]
    BY <2>1, Zenon DEF JSONReport
  <2>3. PICK t : t = p.types[j] /\ t.name = typ.name /\ t.value = MetricJSON(typ)
    BY <2>2
  <2>4. MetricJSON(typ) = IF typ.applicable THEN <<typ.value>> ELSE NA
    BY DEF MetricJSON
  <2>5. EntryJSON(p, t) = [pkg |-> Packages[k].path, name |-> typ.name, value |-> MetricJSON(typ)]
    BY <2>2, <2>3
  <2>6. CSVRecord(Packages[k], typ) = [pkg |-> Packages[k].path, name |-> typ.name, value |-> MetricJSON(typ)]
    BY <2>4, Zenon DEF CSVRecord, Entry
  <2> QED BY <2>1, <2>2, <2>3, <2>5, <2>6
<1>2. DOMAIN JSONReport = DOMAIN Packages /\ \A k \in DOMAIN Packages : DOMAIN JSONReport[k].types = DOMAIN Packages[k].types
  <2>1. DOMAIN JSONReport = DOMAIN Packages
    BY Zenon DEF JSONReport
  <2>2. ASSUME NEW k \in DOMAIN Packages PROVE DOMAIN JSONReport[k].types = DOMAIN Packages[k].types
    <3>1. PICK p : p = JSONReport[k]
      OBVIOUS
    <3>2. PICK types : types = [j \in DOMAIN Packages[k].types |->
                  [name |-> Packages[k].types[j].name, value |-> MetricJSON(Packages[k].types[j])]]
      OBVIOUS
    <3>3. p = [path |-> Packages[k].path, types |-> types]
      BY <3>1, <3>2, Zenon DEF JSONReport
    <3>4. p.types = types
      BY <3>3
    <3>5. DOMAIN types = DOMAIN Packages[k].types
      BY <3>2, Zenon
    <3> QED BY <3>1, <3>4, <3>5
  <2> QED BY <2>1, <2>2
<1>3. PICK doc : doc = JSONReport
  OBVIOUS
<1>4. \A x : x \in JSONEntries <=> \E k \in DOMAIN doc : \E j \in DOMAIN doc[k].types : x = EntryJSON(doc[k], doc[k].types[j])
  <2>1. JSONEntries = UNION {{EntryJSON(p, t) : t \in Range(p.types)} : p \in Range(doc)}
    BY <1>3, Zenon DEF JSONEntries
  <2>2. \A x : x \in JSONEntries <=> \E p \in Range(doc) : \E t \in Range(p.types) : x = EntryJSON(p, t)
    <3> DEFINE Entries(p) == {EntryJSON(p, t) : t \in Range(p.types)}
    <3>1. JSONEntries = UNION {Entries(p) : p \in Range(doc)}
      BY <2>1
    <3>2. \A p, x : x \in Entries(p) <=> \E t \in Range(p.types) : x = EntryJSON(p, t)
      <4> HIDE DEF EntryJSON
      <4> QED OBVIOUS
    <3> HIDE DEF Entries, EntryJSON
    <3>3. \A x : x \in JSONEntries <=> \E p \in Range(doc) : x \in Entries(p)
      BY <3>1
    <3> QED BY <3>2, <3>3
  <2>3. \A p : p \in Range(doc) <=> \E k \in DOMAIN doc : p = doc[k]
    BY DEF Range
  <2>4. \A types, t : t \in Range(types) <=> \E j \in DOMAIN types : t = types[j]
    BY DEF Range
  <2> HIDE DEF EntryJSON
  <2> SUFFICES ASSUME NEW x
               PROVE  x \in JSONEntries <=> \E k \in DOMAIN doc : \E j \in DOMAIN doc[k].types : x = EntryJSON(doc[k], doc[k].types[j])
    OBVIOUS
  <2>5. ASSUME x \in JSONEntries PROVE \E k \in DOMAIN doc : \E j \in DOMAIN doc[k].types : x = EntryJSON(doc[k], doc[k].types[j])
    <3>1. PICK p \in Range(doc) : \E t \in Range(p.types) : x = EntryJSON(p, t)
      BY <2>2, <2>5
    <3>4. PICK t \in Range(p.types) : x = EntryJSON(p, t)
      BY <3>1
    <3>2. PICK k \in DOMAIN doc : p = doc[k]
      BY <2>3
    <3>3. PICK j \in DOMAIN p.types : t = p.types[j]
      BY <2>4
    <3> QED BY <3>2, <3>3, <3>4
  <2>6. ASSUME NEW k \in DOMAIN doc, NEW j \in DOMAIN doc[k].types, x = EntryJSON(doc[k], doc[k].types[j]) PROVE x \in JSONEntries
    <3>1. doc[k] \in Range(doc) /\ doc[k].types[j] \in Range(doc[k].types)
      BY DEF Range
    <3> QED BY <2>2, <2>6, <3>1
  <2> QED BY <2>5, <2>6
<1> HIDE DEF EntryJSON
<1>5. \A x : x \in JSONEntries <=> x \in AllEntries
  <2> SUFFICES ASSUME NEW x PROVE x \in JSONEntries <=> x \in AllEntries
    OBVIOUS
  <2>1. x \in JSONEntries <=> \E k \in DOMAIN Packages : \E j \in DOMAIN Packages[k].types :
                                x = CSVRecord(Packages[k], Packages[k].types[j])
    BY <1>1, <1>2, <1>3, <1>4
  <2> QED BY <2>1, EntryOf
<1> QED BY <1>5

\* The guide is put in before the report, whose pieces nobody looks at again.
StandsAt(page, placeholder, i) ==
  /\ IsList(page) /\ i \in DOMAIN page /\ page[i] = placeholder
  /\ \A j \in DOMAIN page : page[j] = placeholder => j = i

LEMMA InjectsAt ==
  ASSUME NEW page, NEW placeholder, NEW pieces, NEW i, StandsAt(page, placeholder, i)
  PROVE  Inject(page, placeholder, pieces) = SubSeq(page, 1, i - 1) \o pieces \o SubSeq(page, i + 1, Len(page))
<1> USE DEF StandsAt
<1> DEFINE First(x) == page[x] = placeholder /\ \A j \in 1 .. x - 1 : page[j] # placeholder
<1>1. PICK M \in Nat : M = Len(page) /\ DOMAIN page = 1 .. M
  BY ListIs
<1>2. First(i)
  <2>1. \A j \in 1 .. i - 1 : j \in 1 .. M /\ j # i
    BY <1>1
  <2> QED BY <1>1, <2>1
<1>3. PICK first : first = CHOOSE x \in DOMAIN page : First(x)
  OBVIOUS
<1>4. first \in DOMAIN page /\ page[first] = placeholder
  <2>1. first \in DOMAIN page /\ First(first)
    <3> HIDE DEF First
    <3> QED BY <1>2, <1>3
  <2> QED BY <2>1
<1>5. first = i
  BY <1>4
<1>6. placeholder \in Range(page)
  BY DEF Range
<1>7. Inject(page, placeholder, pieces)
        = SubSeq(page, 1, first - 1) \o pieces \o SubSeq(page, first + 1, Len(page))
  BY <1>3, <1>6, Zenon DEF Inject
<1> QED BY <1>5, <1>7

IsPart(U, s, m, n, y) ==
  /\ s \in Seq(U) /\ m \in 1 .. Len(s) /\ n \in m .. Len(s)
  /\ y \in Seq(U) /\ Len(y) = n - m + 1 /\ \A i \in 1 .. n - m + 1 : y[i] = s[m + i - 1]
IsJoined(U, s, t, y) ==
  /\ s \in Seq(U) /\ t \in Seq(U) /\ y \in Seq(U) /\ Len(y) = Len(s) + Len(t)
  /\ \A i \in 1 .. Len(s) : y[i] = s[i]
  /\ \A i \in 1 .. Len(t) : y[Len(s) + i] = t[i]

LEMMA PartIs ==
  ASSUME NEW U, NEW s, NEW m, NEW n, NEW y, IsPart(U, s, m, n, y) PROVE SubSeq(s, m, n) = y
<1> USE DEF IsPart
<1>1. m \in Int /\ n \in Int /\ m <= n /\ \A i \in m .. n : s[i] \in U
  OBVIOUS
<1>2. PICK x : x = SubSeq(s, m, n)
  OBVIOUS
<1>3. x \in Seq(U) /\ Len(x) = n - m + 1 /\ \A i \in 1 .. n - m + 1 : x[i] = s[m + i - 1]
  BY <1>1, <1>2, SubSeqProperties
<1>4. x = y
  <2>1. y \in Seq(U) /\ Len(x) = Len(y) /\ \A i \in 1 .. Len(x) : x[i] = y[i]
    BY <1>3
  <2> QED BY <1>3, <2>1, SeqEqual
<1> QED BY <1>2, <1>4

LEMMA JoinedIs ==
  ASSUME NEW U, NEW s, NEW t, NEW y, IsJoined(U, s, t, y) PROVE s \o t = y
<1> USE DEF IsJoined
<1>1. PICK a \in Nat, b \in Nat : a = Len(s) /\ b = Len(t)
  OBVIOUS
<1>2. PICK x : x = s \o t
  OBVIOUS
<1>3. x \in Seq(U) /\ Len(x) = a + b /\ \A i \in 1 .. a + b : x[i] = IF i <= a THEN s[i] ELSE t[i - a]
  BY <1>1, <1>2, ConcatProperties
<1>4. ASSUME NEW i \in 1 .. a + b PROVE x[i] = y[i]
  <2>1. CASE i <= a
    BY <1>1, <1>3, <2>1
  <2>2. CASE ~ (i <= a)
    <3>1. PICK k \in 1 .. b : k = i - a /\ i = a + k
      <4>1. i - a \in 1 .. b /\ i = a + (i - a)
        BY <2>2
      <4> QED BY <4>1
    <3>2. y[i] = t[k]
      BY <1>1, <3>1
    <3>3. x[i] = t[k]
      BY <1>3, <2>2, <3>1
    <3> QED BY <3>2, <3>3
  <2> QED BY <2>1, <2>2
<1>5. x = y
  BY <1>1, <1>3, <1>4, SeqEqual
<1> QED BY <1>2, <1>5

FivePiecesAre(s, a, b, c, d, e) ==
  /\ IsList(s) /\ DOMAIN s = 1 .. 5 /\ Len(s) = 5
  /\ SubSeq(s, 1, 3) = <<a, b, c>> /\ SubSeq(s, 5, 5) = <<e>>
  /\ SubSeq(s, 1, 1) = <<a>> /\ SubSeq(s, 3, 5) = <<c, d, e>>
  /\ <<a, b, c>> \o <<d>> \o <<e>> = s

LEMMA FivePieces ==
  ASSUME NEW a, NEW b, NEW c, NEW d, NEW e, NEW s, s = <<a, b, c, d, e>> PROVE FivePiecesAre(s, a, b, c, d, e)
<1>2. PICK U : U = {a, b, c, d, e}
  OBVIOUS
<1>3. s \in Seq(U) /\ Len(s) = 5 /\ DOMAIN s = 1 .. 5
      /\ s[1] = a /\ s[2] = b /\ s[3] = c /\ s[4] = d /\ s[5] = e
  BY <1>2
<1>4. IsList(s)
  BY <1>3, SequenceIsList
<1>5. \A i \in 1 .. 3 : i = 1 \/ i = 2 \/ i = 3
  OBVIOUS
<1>6. SubSeq(s, 1, 3) = <<a, b, c>>
  <2>1. PICK y : y = <<a, b, c>>
    OBVIOUS
  <2>2. y \in Seq(U) /\ Len(y) = 3 /\ y[1] = a /\ y[2] = b /\ y[3] = c
    BY <1>2, <2>1
  <2>3. 1 \in 1 .. 5 /\ 3 \in 1 .. 5 /\ 3 - 1 + 1 = 3 /\ \A i \in 1 .. 3 : 1 + i - 1 = i
    OBVIOUS
  <2>4. \A i \in 1 .. 3 : y[i] = s[1 + i - 1]
    BY <1>3, <1>5, <2>2, <2>3
  <2>5. IsPart(U, s, 1, 3, y)
    BY <1>3, <2>2, <2>3, <2>4 DEF IsPart
  <2>6. SubSeq(s, 1, 3) = y
    BY <2>5, PartIs, Zenon
  <2> QED BY <2>1, <2>6
<1>7. SubSeq(s, 3, 5) = <<c, d, e>>
  <2>1. PICK y : y = <<c, d, e>>
    OBVIOUS
  <2>2. y \in Seq(U) /\ Len(y) = 3 /\ y[1] = c /\ y[2] = d /\ y[3] = e
    BY <1>2, <2>1
  <2>3. 3 \in 1 .. 5 /\ 5 \in 3 .. 5 /\ 5 - 3 + 1 = 3 /\ 3 + 1 - 1 = 3 /\ 3 + 2 - 1 = 4 /\ 3 + 3 - 1 = 5
    OBVIOUS
  <2>4. \A i \in 1 .. 3 : y[i] = s[3 + i - 1]
    BY <1>3, <1>5, <2>2, <2>3
  <2>5. IsPart(U, s, 3, 5, y)
    BY <1>3, <2>2, <2>3, <2>4 DEF IsPart
  <2>6. SubSeq(s, 3, 5) = y
    BY <2>5, PartIs, Zenon
  <2> QED BY <2>1, <2>6
<1>8. ASSUME NEW k \in {1, 5} PROVE SubSeq(s, k, k) = <<s[k]>>
  <2>1. PICK y : y = <<s[k]>>
    OBVIOUS
  <2>2. s[k] \in U
    BY <1>3
  <2>3. y \in Seq(U) /\ Len(y) = 1 /\ y[1] = s[k]
    BY <2>1, <2>2
  <2>4. k \in 1 .. 5 /\ k \in k .. 5 /\ k - k + 1 = 1 /\ \A i \in 1 .. 1 : i = 1 /\ k + i - 1 = k
    OBVIOUS
  <2>5. IsPart(U, s, k, k, y)
    BY <1>3, <2>3, <2>4 DEF IsPart
  <2> QED BY <2>1, <2>5, PartIs, Zenon
<1>9. <<a, b, c>> \o <<d>> = <<a, b, c, d>>
  <2>1. PICK x, y, z : x = <<a, b, c>> /\ y = <<d>> /\ z = <<a, b, c, d>>
    OBVIOUS
  <2>2. /\ x \in Seq(U) /\ y \in Seq(U) /\ z \in Seq(U) /\ Len(x) = 3 /\ Len(y) = 1 /\ Len(z) = 4
        /\ x[1] = a /\ x[2] = b /\ x[3] = c /\ y[1] = d /\ z[1] = a /\ z[2] = b /\ z[3] = c /\ z[4] = d
    BY <1>2, <2>1
  <2>3. 3 + 1 = 4 /\ \A i \in 1 .. 1 : i = 1
    OBVIOUS
  <2>4. \A i \in 1 .. 3 : z[i] = x[i]
    BY <1>5, <2>2
  <2>5. IsJoined(U, x, y, z)
    BY <2>2, <2>3, <2>4 DEF IsJoined
  <2> QED BY <2>1, <2>5, JoinedIs, Zenon
<1>10. <<a, b, c, d>> \o <<e>> = s
  <2>1. PICK x, y : x = <<a, b, c, d>> /\ y = <<e>>
    OBVIOUS
  <2>2. /\ x \in Seq(U) /\ y \in Seq(U) /\ Len(x) = 4 /\ Len(y) = 1
        /\ x[1] = a /\ x[2] = b /\ x[3] = c /\ x[4] = d /\ y[1] = e
    BY <1>2, <2>1
  <2>3. 4 + 1 = 5 /\ (\A i \in 1 .. 1 : i = 1) /\ \A i \in 1 .. 4 : i = 1 \/ i = 2 \/ i = 3 \/ i = 4
    OBVIOUS
  <2>4. \A i \in 1 .. 4 : s[i] = x[i]
    BY <1>3, <2>2, <2>3
  <2>5. IsJoined(U, x, y, s)
    BY <1>3, <2>2, <2>3, <2>4 DEF IsJoined
  <2> QED BY <2>1, <2>5, JoinedIs, Zenon
<1>11. SubSeq(s, 1, 1) = <<a>> /\ SubSeq(s, 5, 5) = <<e>>
  BY <1>3, <1>8
<1>12. <<a, b, c>> \o <<d>> \o <<e>> = s
  BY <1>9, <1>10
<1> QED BY <1>3, <1>4, <1>6, <1>7, <1>11, <1>12, Zenon DEF FivePiecesAre

LEMMA PageHolds == WebPage = <<"<report>">> \o ReportPieces \o <<"<docs>", "guide", "<end>">>
<1>1. PICK a, b, c, d, e, g : /\ a = "<report>" /\ b = "__REPORT_DATA__" /\ c = "<docs>" /\ d = "__DOCS_DATA__"
                              /\ e = "<end>" /\ g = "guide"
  OBVIOUS
<1>2. a # b /\ c # b /\ d # b /\ e # b /\ a # d /\ c # d /\ e # d /\ g # b
  BY <1>1
<1>3. PICK s, t : s = <<a, b, c, d, e>> /\ t = <<a, b, c, g, e>>
  OBVIOUS
<1>4. s[1] = a /\ s[2] = b /\ s[3] = c /\ s[4] = d /\ s[5] = e
  BY <1>3
<1>5. t[1] = a /\ t[2] = b /\ t[3] = c /\ t[4] = g /\ t[5] = e
  BY <1>3
<1>6. FivePiecesAre(s, a, b, c, d, e) /\ FivePiecesAre(t, a, b, c, g, e)
  BY <1>3, FivePieces, Zenon
<1>7. /\ IsList(s) /\ DOMAIN s = 1 .. 5 /\ SubSeq(s, 1, 3) = <<a, b, c>> /\ SubSeq(s, 5, 5) = <<e>> /\ Len(s) = 5
      /\ IsList(t) /\ DOMAIN t = 1 .. 5 /\ SubSeq(t, 1, 1) = <<a>> /\ SubSeq(t, 3, 5) = <<c, g, e>> /\ Len(t) = 5
      /\ <<a, b, c>> \o <<g>> \o <<e>> = t
  BY <1>6, Zenon DEF FivePiecesAre
<1>8. Inject(s, d, <<g>>) = <<a, b, c>> \o <<g>> \o <<e>>
  <2>1. 4 \in 1 .. 5 /\ (\A j \in 1 .. 5 : s[j] = d => j = 4) /\ 4 - 1 = 3 /\ 4 + 1 = 5
    BY <1>2, <1>4
  <2>2. StandsAt(s, d, 4)
    BY <1>4, <1>7, <2>1 DEF StandsAt
  <2>3. Inject(s, d, <<g>>) = SubSeq(s, 1, 4 - 1) \o <<g>> \o SubSeq(s, 4 + 1, Len(s))
    BY <2>2, InjectsAt, Zenon
  <2> QED BY <1>7, <2>1, <2>3
<1>9. Inject(s, d, <<g>>) = t
  BY <1>7, <1>8, Zenon
<1>10. PICK pieces : pieces = ReportPieces
  OBVIOUS
<1>11. Inject(t, b, pieces) = <<a>> \o pieces \o <<c, g, e>>
  <2>1. 2 \in 1 .. 5 /\ (\A j \in 1 .. 5 : t[j] = b => j = 2) /\ 2 - 1 = 1 /\ 2 + 1 = 3
    BY <1>2, <1>5
  <2>2. StandsAt(t, b, 2)
    BY <1>5, <1>7, <2>1 DEF StandsAt
  <2>3. Inject(t, b, pieces) = SubSeq(t, 1, 2 - 1) \o pieces \o SubSeq(t, 2 + 1, Len(t))
    BY <2>2, InjectsAt, Zenon
  <2> QED BY <1>7, <2>1, <2>3
<1>12. WebTemplate = s
  BY <1>1, <1>3, Zenon DEF WebTemplate
<1>13. WebPage = Inject(Inject(s, d, <<g>>), b, pieces)
  BY <1>1, <1>10, <1>12, Zenon DEF WebPage
<1> QED BY <1>1, <1>9, <1>10, <1>11, <1>13

\* What the table tells of a type is its record, with the relative path.
TableEntry(i) ==
  [pkg |-> PathOf[ParentRow(i)], name |-> rows[i].name[1],
   value |-> IF rows[i].cells[1].count = 0 THEN NA ELSE <<rows[i].cells[1].sum>>]
RelativeRecord(k, j) == [CSVRecord(Packages[k], Packages[k].types[j]) EXCEPT !.pkg = Rel(@)]

LEMMA TypeTells ==
  ASSUME report \in Reports, NEW of, TableRead(of), NEW i \in NodeRowsOf, NEW t \in DOMAIN TypesOf(of[i]),
         NEW k, k = tree[of[i]].pkg, k # 0, k \in DOMAIN Packages
  PROVE  t \in DOMAIN Packages[k].types /\ TableEntry(i + t) = RelativeRecord(k, t)
<1>1. PICK n, m : n = of[i] /\ m = i + t /\ n \in DOMAIN tree
  BY DEF TableRead
<1>2. TypeRead(n, i, t) /\ PathOf[i] = Goals[k]
  BY <1>1 DEF TableRead
<1>3. PICK pkg : pkg = Packages[k]
  OBVIOUS
<1>4. TypesOf(n) = pkg.types
  BY <1>1, <1>3 DEF TypesOf
<1>5. PICK typ : typ = pkg.types[t] /\ t \in DOMAIN pkg.types
  BY <1>1, <1>4
<1>6. typ.applicable \in BOOLEAN /\ typ.value \in Int
  BY <1>3, <1>5, ReportIs DEF Range
<1>7. PICK stat : stat = IF typ.applicable THEN AddStat(NoStat, typ.value) ELSE NoStat
  OBVIOUS
<1>8. stat.count = (IF typ.applicable THEN 1 ELSE 0) /\ (typ.applicable => stat.sum = typ.value)
  <2>1. NoStat.count = 0
    BY DEF NoStat
  <2>2. AddStat(NoStat, typ.value) = [sum |-> typ.value, count |-> 1, minimum |-> typ.value, maximum |-> typ.value]
    BY <2>1 DEF AddStat
  <2> QED BY <1>6, <1>7, <2>1, <2>2
<1>9. PICK row, name, cell : row = rows[m] /\ name = <<typ.name>> /\ cell = <<stat>>
  OBVIOUS
<1>10. ParentRow(m) = i /\ row.name = name /\ row.cells = cell
  <2>1. PICK face : face = Shown[n].types[t]
    OBVIOUS
  <2>2. Shown[n].types = TypesShown(n)
    BY <1>1 DEF Shown
  <2>3. face.cells = cell
    BY <1>4, <1>5, <1>7, <1>9, <2>1, <2>2 DEF TypesShown
  <2> QED BY <1>1, <1>2, <1>4, <1>5, <1>9, <2>1, <2>3, Zenon DEF TypeRead
<1>11. name[1] = typ.name /\ cell[1] = stat
  BY <1>9
<1>12. PICK value : value = IF typ.applicable THEN <<typ.value>> ELSE NA
  OBVIOUS
<1>13. value = IF stat.count = 0 THEN NA ELSE <<stat.sum>>
  BY <1>6, <1>8, <1>12
<1>14. TableEntry(m) = [pkg |-> Goals[k], name |-> typ.name, value |-> value]
  BY <1>2, <1>9, <1>10, <1>11, <1>13, Zenon DEF TableEntry
<1>15. PICK e : e = CSVRecord(pkg, typ)
  OBVIOUS
<1>16. e = [pkg |-> pkg.path, name |-> typ.name, value |-> value]
  BY <1>12, <1>15, Zenon DEF CSVRecord, Entry
<1>17. [e EXCEPT !.pkg = Rel(@)] = [pkg |-> Rel(pkg.path), name |-> typ.name, value |-> value]
  BY <1>16
<1>18. Rel(pkg.path) = Goals[k]
  BY <1>3, GoalsAre
<1> QED BY <1>1, <1>3, <1>5, <1>14, <1>15, <1>17, <1>18 DEF RelativeRecord

LEMMA TableHolds ==
  ASSUME report \in Reports, IsTree, NEW of, TableRead(of) PROVE TableEntries = Relative(AllEntries)
<1>1. \A x : x \in TableEntries <=> \E i \in DOMAIN rows : rows[i].kind = "type" /\ x = TableEntry(i)
  <2>1. TableEntries = {TableEntry(i) : i \in {j \in DOMAIN rows : rows[j].kind = "type"}}
    BY Zenon DEF TableEntries, TableEntry
  <2> QED BY <2>1, Zenon
<1>2. \A x : x \in Relative(AllEntries) <=> \E k \in DOMAIN Packages : \E j \in DOMAIN Packages[k].types : x = RelativeRecord(k, j)
  <2>1. \A x : x \in Relative(AllEntries) <=> \E e \in AllEntries : x = [e EXCEPT !.pkg = Rel(@)]
    BY Zenon DEF Relative
  <2>2. \A k, j : RelativeRecord(k, j) = [CSVRecord(Packages[k], Packages[k].types[j]) EXCEPT !.pkg = Rel(@)]
    BY Zenon DEF RelativeRecord
  <2>3. ASSUME NEW x, x \in Relative(AllEntries)
        PROVE  \E k \in DOMAIN Packages : \E j \in DOMAIN Packages[k].types : x = RelativeRecord(k, j)
    <3>1. PICK e \in AllEntries : x = [e EXCEPT !.pkg = Rel(@)]
      BY <2>1, <2>3
    <3>2. PICK k \in DOMAIN Packages : \E j \in DOMAIN Packages[k].types : e = CSVRecord(Packages[k], Packages[k].types[j])
      BY EntryOf
    <3> QED BY <2>2, <3>1, <3>2
  <2>4. ASSUME NEW k \in DOMAIN Packages, NEW j \in DOMAIN Packages[k].types
        PROVE  RelativeRecord(k, j) \in Relative(AllEntries)
    <3>1. CSVRecord(Packages[k], Packages[k].types[j]) \in AllEntries
      BY EntryOf
    <3> QED BY <2>1, <2>2, <3>1, Zenon
  <2> QED BY <2>3, <2>4
<1>3. ASSUME NEW m \in DOMAIN rows, rows[m].kind = "type"
      PROVE  \E k \in DOMAIN Packages : \E j \in DOMAIN Packages[k].types : TableEntry(m) = RelativeRecord(k, j)
  <2>1. PICK i \in NodeRowsOf : \E t \in DOMAIN TypesOf(of[i]) : m = i + t
    BY <1>3 DEF TableRead
  <2>2. PICK t \in DOMAIN TypesOf(of[i]) : m = i + t
    BY <2>1
  <2>3. PICK n, k : n = of[i] /\ k = tree[n].pkg /\ n \in DOMAIN tree
    BY DEF TableRead
  <2>4. k # 0
    <3>1. DOMAIN <<>> = {}
      OBVIOUS
    <3> QED BY <2>3, <3>1 DEF TypesOf
  <2>5. k \in DOMAIN Packages
    <3>1. k \in 0 .. Len(Packages)
      BY <2>3, TreeIs DEF TreeNodes
    <3>2. Len(Packages) \in Nat /\ DOMAIN Packages = 1 .. Len(Packages)
      BY ReportIs, ListIs
    <3> QED BY <2>4, <3>1, <3>2
  <2> QED BY <2>2, <2>3, <2>4, <2>5, TypeTells
<1>4. ASSUME NEW k \in DOMAIN Packages, NEW j \in DOMAIN Packages[k].types
      PROVE  \E m \in DOMAIN rows : rows[m].kind = "type" /\ TableEntry(m) = RelativeRecord(k, j)
  <2>1. PICK i \in NodeRowsOf : tree[of[i]].pkg = k
    BY DEF TableRead
  <2>2. k # 0
    BY GoalsAre
  <2>3. j \in DOMAIN TypesOf(of[i])
    BY <2>1, <2>2 DEF TypesOf
  <2>4. TypeRead(of[i], i, j)
    BY <2>3 DEF TableRead
  <2>5. TableEntry(i + j) = RelativeRecord(k, j)
    BY <2>1, <2>2, <2>3, TypeTells
  <2> QED BY <2>4, <2>5 DEF TypeRead
<1>5. \A x : x \in TableEntries <=> x \in Relative(AllEntries)
  BY <1>1, <1>2, <1>3, <1>4
<1> QED BY <1>5

\* A report without packages has no rows.
LEMMA NothingHeld ==
  ASSUME PageInv, Packages = <<>> PROVE TableEntries = Relative(AllEntries)
<1>1. rows = <<>> /\ DOMAIN <<>> = {}
  BY DEF PageInv
<1>2. TableEntries = {}
  BY <1>1, Zenon DEF TableEntries
<1>3. AllEntries = {}
  BY <1>1, Zenon DEF AllEntries
<1> QED BY <1>2, <1>3, Zenon DEF Relative

\* The formats agree: whoever reads the table, the records or the document learns
\* of the same types of the same packages and of the same values, and the web
\* page holds the guide and the report each in its place, whatever the names
\* spell.
THEOREM FormatsAgree == WriteSpec => []EveryFormatTellsTheSame
<1>1. PageRead => EveryFormatTellsTheSame
  <2> SUFFICES ASSUME PageRead, PageWritten PROVE EveryFormatTellsTheSame
    BY DEF EveryFormatTellsTheSame
  <2>1. report \in Reports /\ IsTree /\ PageInv
    BY DEF PageRead, WriteInv, WriteTypes, TableInv, TreeInv
  <2>2. /\ Range(CSVRecords) = AllEntries /\ Len(CSVRecords) = Len(ReportPieces) /\ JSONEntries = AllEntries
        /\ WebPage = <<"<report>">> \o ReportPieces \o <<"<docs>", "guide", "<end>">>
    BY <2>1, RecordsHold, DocumentHolds, PageHolds
  <2>3. ASSUME RelativePathsDiffer PROVE TableEntries = Relative(AllEntries)
    <3>1. CASE Packages = <<>>
      BY <2>1, <3>1, NothingHeld
    <3>2. CASE Packages # <<>>
      <4>1. PICK of : TableRead(of)
        BY <2>3, <3>2, WrittenIsRead
      <4> QED BY <2>1, <4>1, TableHolds
    <3> QED BY <3>1, <3>2
  <2> QED BY <2>2, <2>3 DEF EveryFormatTellsTheSame
<1> QED BY <1>1, PageReadStarts, PageReadStays, PTL DEF WriteSpec

-----------------------------------------------------------------------------
(***************************************************************************)
(* The sums of the table are sums of the values of the types.              *)
(***************************************************************************)
\* MapThenSumSet, which takes the elements as they come, is such a sum.
Adds(it, S) ==
  it = [s \in SUBSET S |-> IF s = {} THEN 0
                           ELSE LET x == CHOOSE y \in s : TRUE IN ValueOf(x) + it[s \ {x}]]

SummedUp(S) == MapThenSumSet(ValueOf, S)
WeighsValues(w, All) == w \in [All -> Int] /\ \A v \in All : w[v] = ValueOf(v)

LEMMA MapThenSumIs ==
  ASSUME NEW All, NEW w, NEW f, WeighsValues(w, All), IsSumOver(f, All, w)
  PROVE  \A S \in SUBSET All : IsFiniteSet(S) => SummedUp(S) = f[S]
<1> SUFFICES ASSUME NEW S \in SUBSET All, IsFiniteSet(S) PROVE SummedUp(S) = f[S]
  OBVIOUS
<1> USE DEF WeighsValues
<1>1. SummedUp(S) = (CHOOSE g : Adds(g, S))[S]
  BY DEF SummedUp, MapThenSumSet, MapThenFoldSet, Adds
<1>2. /\ f[{}] = 0
      /\ \A s \in SUBSET All : \A x \in s : f[s] = w[x] + f[s \ {x}]
  BY SumIs
<1> DEFINE sum == [s \in SUBSET S |-> f[s]]
<1>3. Adds(sum, S)
  <2>1. ASSUME NEW s \in SUBSET S, s # {}
        PROVE  f[s] = LET x == CHOOSE y \in s : TRUE IN ValueOf(x) + sum[s \ {x}]
    <3>1. PICK x : x = CHOOSE y \in s : TRUE
      OBVIOUS
    <3>2. x \in s
      BY <2>1, <3>1
    <3>3. x \in All /\ s \ {x} \in SUBSET S /\ s \in SUBSET All
      BY <3>2
    <3>4. sum[s \ {x}] = f[s \ {x}] /\ w[x] = ValueOf(x)
      BY <3>3
    <3> HIDE DEF sum
    <3> QED BY <1>2, <3>1, <3>2, <3>3, <3>4
  <2> QED BY <1>2, <2>1 DEF Adds
<1> HIDE DEF sum
<1>4. PICK it : it = CHOOSE g : Adds(g, S)
  OBVIOUS
<1>5. Adds(it, S)
  BY <1>3, <1>4
<1> DEFINE Bad == {n \in Nat : \E s \in SUBSET S : Cardinality(s) = n /\ it[s] # f[s]}
<1>6. ASSUME NEW s \in SUBSET S PROVE IsFiniteSet(s) /\ Cardinality(s) \in Nat
  BY FS_Subset, FS_CardinalityType
<1>7. Bad = {}
  <2> SUFFICES ASSUME Bad # {} PROVE FALSE
    OBVIOUS
  <2>1. PICK n \in Bad : \A m \in Bad : n <= m
    BY LeastElement
  <2>2. PICK s \in SUBSET S : Cardinality(s) = n /\ it[s] # f[s]
    BY <2>1
  <2>3. CASE s = {}
    BY <1>2, <1>5, <2>2, <2>3 DEF Adds
  <2>4. CASE s # {}
    <3>1. PICK x : x = CHOOSE y \in s : TRUE
      OBVIOUS
    <3>2. x \in s
      BY <2>4, <3>1
    <3>3. PICK r \in SUBSET S : r = s \ {x}
      BY <3>2
    <3>4. it[s] = ValueOf(x) + it[r]
      BY <1>5, <2>4, <3>1, <3>3 DEF Adds
    <3>5. x \in All /\ s \in SUBSET All /\ w[x] = ValueOf(x)
      BY <3>2
    <3>6. f[s] = ValueOf(x) + f[r]
      BY <1>2, <3>2, <3>3, <3>5
    <3>7. Cardinality(r) \in Nat /\ Cardinality(r) < n
      <4>1. IsFiniteSet(s) /\ Cardinality(r) = Cardinality(s) - 1
        BY <1>6, <3>2, <3>3, FS_RemoveElement
      <4> QED BY <1>6, <2>2, <4>1
    <3>8. it[r] # f[r]
      BY <2>2, <3>4, <3>6
    <3>9. Cardinality(r) \in Bad
      BY <3>7, <3>8
    <3> QED BY <2>1, <3>7, <3>9
  <2> QED BY <2>3, <2>4
<1>8. it[S] = f[S]
  <2>1. Cardinality(S) \in Nat
    BY <1>6
  <2> QED BY <1>7, <2>1
<1> QED BY <1>1, <1>4, <1>8

\* The values that count, package by package; a statistic tells those of a set.
PackageValues(k) == {<<k, j>> : j \in {i \in DOMAIN Packages[k].types : Packages[k].types[i].applicable}}
AllValues == UNION {PackageValues(k) : k \in DOMAIN Packages}
Weights == [v \in AllValues |-> ValueOf(v)]
IsTotal(f) == IsSumOver(f, AllValues, Weights)
Tells(f, stat, S) ==
  /\ stat.count = Cardinality(S) /\ stat.sum = f[S]
  /\ \A v \in S : ValueOf(v) \in stat.minimum .. stat.maximum

LEMMA ValuesAre ==
  ASSUME report \in Reports
  PROVE  /\ IsFiniteSet(AllValues) /\ Weights \in [AllValues -> Int]
         /\ \A k \in DOMAIN Packages : PackageValues(k) \in SUBSET AllValues
         /\ \A v \in AllValues : Weights[v] = ValueOf(v) /\ ValueOf(v) \in Int
<1>1. /\ IsList(Packages) /\ \A k \in DOMAIN Packages : IsList(Packages[k].types)
      /\ \A k \in DOMAIN Packages : \A typ \in Range(Packages[k].types) : typ.value \in Int
  BY ReportIs
<1>2. ASSUME NEW v \in AllValues PROVE ValueOf(v) \in Int
  <2>1. PICK k \in DOMAIN Packages : v \in PackageValues(k)
    BY DEF AllValues
  <2>2. PICK j \in DOMAIN Packages[k].types : v = <<k, j>>
    BY <2>1 DEF PackageValues
  <2>3. Packages[k].types[j] \in Range(Packages[k].types)
    BY DEF Range
  <2>4. ValueOf(v) = Packages[k].types[j].value
    BY <2>2 DEF ValueOf
  <2> QED BY <1>1, <2>3, <2>4
<1>3. Weights \in [AllValues -> Int] /\ \A v \in AllValues : Weights[v] = ValueOf(v)
  BY <1>2 DEF Weights
<1>4. \A k \in DOMAIN Packages : PackageValues(k) \in SUBSET AllValues
  BY DEF AllValues
<1>5. ASSUME NEW k \in DOMAIN Packages PROVE IsFiniteSet(PackageValues(k))
  <2>1. PICK n \in Nat : DOMAIN Packages[k].types = 1 .. n
    BY <1>1, ListIs
  <2>2. IsFiniteSet(1 .. n) /\ IsFiniteSet({k})
    <3>1. IsFiniteSet(1 .. n)
      BY FS_Interval
    <3> QED BY <3>1, FS_Singleton
  <2>3. IsFiniteSet({k} \X (1 .. n))
    BY <2>2, FS_Product
  <2>4. PackageValues(k) \in SUBSET ({k} \X (1 .. n))
    BY <2>1 DEF PackageValues
  <2> QED BY <2>3, <2>4, FS_Subset
<1>6. IsFiniteSet(AllValues)
  <2> DEFINE sets == {PackageValues(k) : k \in DOMAIN Packages}
             of == [k \in DOMAIN Packages |-> PackageValues(k)]
  <2>1. PICK n \in Nat : DOMAIN Packages = 1 .. n
    BY <1>1, ListIs
  <2>2. IsFiniteSet(1 .. n)
    BY FS_Interval
  <2>3. of \in Surjection(1 .. n, sets)
    BY <2>1 DEF Surjection
  <2>4. IsFiniteSet(sets)
    BY <2>2, <2>3, FS_Surjection
  <2>5. \A T \in sets : IsFiniteSet(T)
    BY <1>5
  <2> HIDE DEF sets
  <2>6. IsFiniteSet(UNION sets)
    BY <2>4, <2>5, FS_UNION
  <2> QED BY <2>6 DEF sets, AllValues
<1> QED BY <1>2, <1>3, <1>4, <1>6

LEMMA TotalIs ==
  ASSUME report \in Reports, NEW f, IsTotal(f)
  PROVE  /\ f[{}] = 0
         /\ \A S \in SUBSET AllValues : f[S] \in Int /\ IsFiniteSet(S) /\ Cardinality(S) \in Nat
         /\ \A v \in AllValues : f[{v}] = ValueOf(v)
         /\ \A S, T \in SUBSET AllValues : S \cap T = {} =>
              f[S \cup T] = f[S] + f[T] /\ Cardinality(S \cup T) = Cardinality(S) + Cardinality(T)
<1>1. IsFiniteSet(AllValues) /\ Weights \in [AllValues -> Int] /\ \A v \in AllValues : Weights[v] = ValueOf(v)
  BY ValuesAre
<1>2. f[{}] = 0
  BY <1>1, SumIs DEF IsTotal
<1>3. /\ f \in [SUBSET AllValues -> Int]
      /\ \A v \in AllValues : f[{v}] = Weights[v]
      /\ \A S, T \in SUBSET AllValues : S \cap T = {} => f[S \cup T] = f[S] + f[T]
  BY DEF IsTotal, IsSumOver
<1>4. \A S \in SUBSET AllValues : IsFiniteSet(S) /\ Cardinality(S) \in Nat
  BY <1>1, FS_Subset, FS_CardinalityType
<1>5. ASSUME NEW S \in SUBSET AllValues, NEW T \in SUBSET AllValues, S \cap T = {}
      PROVE  Cardinality(S \cup T) = Cardinality(S) + Cardinality(T)
  <2>1. Cardinality(S \cup T) = Cardinality(S) + Cardinality(T) - Cardinality({})
    BY <1>4, <1>5, FS_Union
  <2>2. Cardinality({}) = 0
    BY FS_EmptySet
  <2> QED BY <1>4, <2>1, <2>2
<1> QED BY <1>1, <1>2, <1>3, <1>4, <1>5

\* Nothing is told by a statistic that counts nothing.
LEMMA NoneTold ==
  ASSUME report \in Reports, NEW f, IsTotal(f)
  PROVE  /\ Tells(f, NoStat, {})
         /\ \A S \in SUBSET AllValues : \A stat : Tells(f, stat, S) => (stat.count = 0 <=> S = {})
<1>1. Cardinality({}) = 0 /\ f[{}] = 0
  BY TotalIs, FS_EmptySet
<1>2. Tells(f, NoStat, {})
  BY <1>1 DEF Tells, NoStat
<1>3. ASSUME NEW S \in SUBSET AllValues, NEW stat, Tells(f, stat, S) PROVE stat.count = 0 <=> S = {}
  <2>1. IsFiniteSet(S)
    BY TotalIs
  <2> QED BY <1>3, <2>1, FS_EmptySet DEF Tells
<1> QED BY <1>2, <1>3

LEMMA AddedTells ==
  ASSUME report \in Reports, NEW f, IsTotal(f), NEW stat \in Stats, NEW S \in SUBSET AllValues,
         Tells(f, stat, S), NEW v \in AllValues, v \notin S
  PROVE  Tells(f, AddStat(stat, ValueOf(v)), S \cup {v})
<1>1. PICK x \in Int : x = ValueOf(v)
  BY ValuesAre
<1>2. {v} \in SUBSET AllValues /\ S \cap {v} = {} /\ Cardinality({v}) = 1 /\ f[{v}] = x
  <2>1. Cardinality({v}) = 1
    BY FS_Singleton
  <2> QED BY <1>1, <2>1, TotalIs
<1>3. f[S \cup {v}] = f[S] + x /\ Cardinality(S \cup {v}) = Cardinality(S) + 1
  BY <1>2, TotalIs
<1>4. PICK c \in Nat, s \in Int, a \in Int, b \in Int :
        c = stat.count /\ s = stat.sum /\ a = stat.minimum /\ b = stat.maximum
  BY DEF Stats
<1>5. c = Cardinality(S) /\ s = f[S] /\ \A u \in S : ValueOf(u) \in a .. b
  BY <1>4 DEF Tells
<1>6. CASE c = 0
  <2>1. S = {} /\ f[{}] = 0
    BY <1>4, <1>6, NoneTold, TotalIs
  <2>2. AddStat(stat, x) = [sum |-> x, count |-> 1, minimum |-> x, maximum |-> x]
    BY <1>4, <1>6 DEF AddStat
  <2>3. Cardinality(S \cup {v}) = 1 /\ f[S \cup {v}] = x /\ \A u \in S \cup {v} : ValueOf(u) \in x .. x
    BY <1>1, <1>2, <2>1
  <2> QED BY <1>1, <2>2, <2>3 DEF Tells
<1>7. CASE c # 0
  <2>1. PICK low \in Int, high \in Int :
          low = (IF x < a THEN x ELSE a) /\ high = (IF x > b THEN x ELSE b)
    BY <1>1, <1>4
  <2>2. AddStat(stat, x) = [sum |-> s + x, count |-> c + 1, minimum |-> low, maximum |-> high]
    BY <1>4, <1>7, <2>1 DEF AddStat
  <2>3. ASSUME NEW u \in S \cup {v} PROVE ValueOf(u) \in low .. high
    <3>1. CASE u = v
      BY <1>1, <1>4, <2>1, <3>1
    <3>2. CASE u \in S
      <4>1. PICK y \in Int : y = ValueOf(u) /\ y \in a .. b
        BY <1>5, <3>2, ValuesAre
      <4>2. y \in low .. high
        BY <1>4, <2>1, <4>1
      <4> QED BY <4>1, <4>2
    <3> QED BY <3>1, <3>2
  <2>4. c + 1 = Cardinality(S \cup {v}) /\ s + x = f[S \cup {v}]
    BY <1>3, <1>5
  <2> QED BY <1>1, <2>2, <2>3, <2>4 DEF Tells
<1> QED BY <1>6, <1>7

LEMMA MergedTells ==
  ASSUME report \in Reports, NEW f, IsTotal(f), NEW p \in Stats, NEW q \in Stats,
         NEW S \in SUBSET AllValues, NEW T \in SUBSET AllValues, S \cap T = {}, Tells(f, p, S), Tells(f, q, T)
  PROVE  Tells(f, Merged(p, q), S \cup T)
<1>1. f[S \cup T] = f[S] + f[T] /\ Cardinality(S \cup T) = Cardinality(S) + Cardinality(T)
  BY TotalIs
<1>2. PICK a \in Int, b \in Int, c \in Int, d \in Int :
        a = p.minimum /\ b = p.maximum /\ c = q.minimum /\ d = q.maximum
  BY DEF Stats
<1>3. PICK low \in Int, high \in Int :
        low = (IF c < a THEN c ELSE a) /\ high = (IF d > b THEN d ELSE b)
  BY <1>2
<1>4. Merged(p, q) = [sum |-> f[S] + f[T], count |-> Cardinality(S) + Cardinality(T),
                      minimum |-> low, maximum |-> high]
  BY <1>2, <1>3 DEF Merged, Tells
<1>5. ASSUME NEW u \in S \cup T PROVE ValueOf(u) \in low .. high
  <2>1. PICK y \in Int : y = ValueOf(u)
    BY ValuesAre
  <2>2. y \in a .. b \/ y \in c .. d
    BY <1>2, <2>1 DEF Tells
  <2>3. y \in low .. high
    BY <1>2, <1>3, <2>2
  <2> QED BY <2>1, <2>3
<1> QED BY <1>1, <1>4, <1>5 DEF Tells

\* collectPackageStats tells the values of its package.
LEMMA PackageTells ==
  ASSUME report \in Reports, NEW f, IsTotal(f), NEW k \in DOMAIN Packages
  PROVE  Tells(f, PackageStat(Packages[k]), PackageValues(k))
<1> DEFINE pkg == Packages[k]
           N == Len(pkg.types)
           First(m) == {<<k, j>> : j \in {i \in 1 .. m : pkg.types[i].applicable}}
<1>1. IsList(pkg.types) /\ \A typ \in Range(pkg.types) : typ.applicable \in BOOLEAN /\ typ.value \in Int
  BY ReportIs
<1>2. N \in Nat /\ DOMAIN pkg.types = 1 .. N
  BY <1>1, ListIs
<1>3. PICK w : StatRuns(pkg, w, N) /\ PackageStat(pkg) = w[N]
  BY <1>1, PackageStatRuns
<1>4. PackageValues(k) = First(N)
  BY <1>2 DEF PackageValues
<1>5. PackageValues(k) \in SUBSET AllValues
  BY ValuesAre
<1>6. \A j \in 1 .. N : ValueOf(<<k, j>>) = pkg.types[j].value
  BY DEF ValueOf
<1> DEFINE Told == {m \in 0 .. N : Tells(f, w[m], First(m))}
<1>7. 0 \in Told
  <2>1. First(0) = {}
    OBVIOUS
  <2>2. w[0] = NoStat
    BY <1>3 DEF StatRuns
  <2>3. Tells(f, NoStat, {})
    BY NoneTold
  <2> HIDE DEF First, N
  <2> QED BY <1>2, <2>1, <2>2, <2>3
<1>8. ASSUME NEW m \in 0 .. N - 1, m \in Told PROVE m + 1 \in Told
  <2>1. PICK n \in 1 .. N : n = m + 1 /\ n - 1 = m /\ n \in 0 .. N
    BY <1>2
  <2>2. w[n] = NextStat(pkg, n, w[m]) /\ w[m] \in Stats
    BY <1>2, <1>3, <2>1 DEF StatRuns
  <2>3. First(m) \in SUBSET AllValues
    BY <1>2, <1>4, <1>5
  <2>4. CASE pkg.types[n].applicable
    <3>1. w[n] = AddStat(w[m], ValueOf(<<k, n>>))
      BY <1>6, <2>2, <2>4 DEF NextStat
    <3>2. First(n) = First(m) \cup {<<k, n>>} /\ <<k, n>> \notin First(m)
      BY <1>2, <2>1, <2>4
    <3>3. <<k, n>> \in AllValues
      BY <1>4, <1>5, <2>4
    <3>4. Tells(f, w[m], First(m))
      BY <1>8
    <3> HIDE DEF First
    <3>5. Tells(f, w[n], First(n))
      BY <2>2, <2>3, <3>1, <3>2, <3>3, <3>4, AddedTells
    <3> QED BY <2>1, <3>5
  <2>5. CASE ~ pkg.types[n].applicable
    <3>1. w[n] = w[m]
      BY <2>2, <2>5 DEF NextStat
    <3>2. First(n) = First(m)
      BY <1>2, <2>1, <2>5
    <3> HIDE DEF First
    <3> QED BY <1>8, <2>1, <3>1, <3>2
  <2> QED BY <2>4, <2>5
<1>9. 0 .. N \subseteq Told
  <2> HIDE DEF Told, N
  <2> QED BY <1>2, <1>7, <1>8, UpTo
<1>10. N \in 0 .. N
  BY <1>2
<1> QED BY <1>3, <1>4, <1>9, <1>10

(***************************************************************************)
(* What is below a node.  The names of a node's children begin with        *)
(* different segments, so of all nodes only those on the way to another    *)
(* spell the beginning of what it spells.                                  *)
(***************************************************************************)
SiblingsDiffer(tr) ==
  \A n \in DOMAIN tr : \A c, d : IsChild(tr, n, c) /\ IsChild(tr, n, d) =>
    Len(tr[c].name) >= 1 /\ (tr[c].name[1] = tr[d].name[1] => c = d)
ShortNames(tr) == \A n \in DOMAIN tr : \A c : IsChild(tr, n, c) => Len(tr[c].name) = 1
BranchInv == SiblingsDiffer(tree) /\ (phase = "attach" => ShortNames(tree))

LEMMA GrownSiblings ==
  ASSUME NEW tr, NEW t2, NEW M \in Nat, NEW n, NEW segment, IsGrown(tr, t2, M, n, segment), IsNew(tr, n, segment),
         \A m \in 1 .. M : \A c : IsChild(tr, m, c) => c \in 1 .. M,
         \A m \in 1 .. M : tr[m].name \in Names, segment \in DOMAIN Runes,
         SiblingsDiffer(tr), ShortNames(tr)
  PROVE  SiblingsDiffer(t2) /\ ShortNames(t2)
<1>1. /\ \A m \in 1 .. M : \A c : IsChild(t2, m, c) <=> IsChild(tr, m, c) \/ (m = n /\ c = M + 1)
      /\ \A c : ~ IsChild(t2, M + 1, c)
  BY GrownChildren
<1>2. /\ DOMAIN tr = 1 .. M /\ DOMAIN t2 = 1 .. M + 1 /\ n \in 1 .. M
      /\ \A m \in 1 .. M : t2[m].name = tr[m].name
      /\ t2[M + 1].name = <<segment>>
  BY DEF IsGrown
<1>3. (\A m \in 1 .. M + 1 : m \in 1 .. M \/ m = M + 1) /\ \A m \in 1 .. M : m # M + 1
  OBVIOUS
<1>4. Len(<<segment>>) = 1 /\ <<segment>>[1] = segment
  OBVIOUS
<1>5. ASSUME NEW c, IsChild(tr, n, c) PROVE tr[c].name[1] # segment
  <2>1. PICK a \in Seq(DOMAIN Runes) : a = tr[c].name /\ Len(a) = 1
    BY <1>2, <1>5 DEF Names, ShortNames
  <2>2. a = <<a[1]>>
    BY <2>1
  <2> QED BY <1>5, <2>1, <2>2 DEF IsNew
<1>6. ShortNames(t2)
  <2> SUFFICES ASSUME NEW m \in DOMAIN t2, NEW c, IsChild(t2, m, c) PROVE Len(t2[c].name) = 1
    BY DEF ShortNames
  <2>1. m \in 1 .. M
    BY <1>1, <1>2, <1>3
  <2>2. CASE IsChild(tr, m, c)
    <3>1. c \in 1 .. M /\ Len(tr[c].name) = 1
      BY <1>2, <2>1, <2>2 DEF ShortNames
    <3> QED BY <1>2, <3>1
  <2>3. CASE c = M + 1
    BY <1>2, <1>4, <2>3
  <2> QED BY <1>1, <2>1, <2>2, <2>3
<1>7. ASSUME NEW m \in DOMAIN t2, NEW c, NEW d, IsChild(t2, m, c), IsChild(t2, m, d)
      PROVE  Len(t2[c].name) >= 1 /\ (t2[c].name[1] = t2[d].name[1] => c = d)
  <2>1. m \in 1 .. M
    BY <1>1, <1>2, <1>3, <1>7
  <2>2. Len(t2[c].name) >= 1
    <3>1. Len(t2[c].name) = 1
      BY <1>6, <1>7 DEF ShortNames
    <3> QED BY <3>1
  <2>3. CASE IsChild(tr, m, c) /\ IsChild(tr, m, d)
    <3>1. t2[c].name = tr[c].name /\ t2[d].name = tr[d].name
      BY <1>2, <2>1, <2>3
    <3> QED BY <1>2, <2>1, <2>2, <2>3, <3>1 DEF SiblingsDiffer
  <2>4. CASE IsChild(tr, m, c) /\ m = n /\ d = M + 1
    <3>1. t2[c].name = tr[c].name /\ t2[d].name[1] = segment
      BY <1>2, <1>4, <2>1, <2>4
    <3> QED BY <1>5, <2>2, <2>4, <3>1
  <2>5. CASE IsChild(tr, m, d) /\ m = n /\ c = M + 1
    <3>1. t2[d].name = tr[d].name /\ t2[c].name[1] = segment
      BY <1>2, <1>4, <2>1, <2>5
    <3> QED BY <1>5, <2>2, <2>5, <3>1
  <2>6. CASE c = M + 1 /\ d = M + 1
    BY <2>2, <2>6
  <2> QED BY <1>1, <1>7, <2>1, <2>3, <2>4, <2>5, <2>6
<1> QED BY <1>6, <1>7 DEF SiblingsDiffer

LEMMA MovedSiblings ==
  ASSUME NEW tr, NEW t2, NEW n, NEW c, IsMoved(tr, t2, n, c), SiblingsDiffer(tr),
         \A m \in DOMAIN tr : tr[m].name \in Names,
         \A m \in DOMAIN tr : \A d : IsChild(tr, m, d) => d \in DOMAIN tr
  PROVE  SiblingsDiffer(t2)
<1>1. /\ DOMAIN t2 = DOMAIN tr /\ n \in DOMAIN tr /\ c \in DOMAIN tr
      /\ t2[n].name = tr[n].name \o tr[c].name /\ t2[n].children = tr[c].children
      /\ \A m \in DOMAIN tr : m # n => t2[m] = tr[m]
  BY DEF IsMoved
<1>2. ASSUME NEW m \in DOMAIN t2 PROVE \E l \in DOMAIN tr : \A d : IsChild(t2, m, d) <=> IsChild(tr, l, d)
  BY <1>1 DEF IsChild
<1>3. ASSUME NEW l \in DOMAIN tr, NEW d, IsChild(tr, l, d)
      PROVE  Len(t2[d].name) >= 1 /\ t2[d].name[1] = tr[d].name[1]
  <2>1. d \in DOMAIN tr /\ Len(tr[d].name) >= 1
    BY <1>3 DEF SiblingsDiffer
  <2>2. CASE d # n
    BY <1>1, <2>1, <2>2
  <2>3. CASE d = n
    <3>1. PICK a \in Seq(DOMAIN Runes), b \in Seq(DOMAIN Runes) : a = tr[n].name /\ b = tr[c].name
      BY <1>1 DEF Names
    <3>2. (a \o b)[1] = a[1] /\ Len(a \o b) >= 1
      <4>1. Len(a) >= 1 /\ Len(a) \in Nat /\ Len(b) \in Nat
        BY <2>1, <2>3, <3>1
      <4>2. Len(a \o b) = Len(a) + Len(b) /\ 1 \in 1 .. Len(a) + Len(b)
        BY <4>1, ConcatProperties
      <4>3. (a \o b)[1] = a[1]
        BY <4>1, <4>2, ConcatProperties
      <4> QED BY <4>1, <4>2, <4>3
    <3> QED BY <1>1, <2>3, <3>1, <3>2
  <2> QED BY <2>2, <2>3
<1>4. ASSUME NEW m \in DOMAIN t2, NEW d, NEW e, IsChild(t2, m, d), IsChild(t2, m, e)
      PROVE  Len(t2[d].name) >= 1 /\ (t2[d].name[1] = t2[e].name[1] => d = e)
  <2>1. PICK l \in DOMAIN tr : IsChild(tr, l, d) /\ IsChild(tr, l, e)
    BY <1>2, <1>4
  <2>2. /\ Len(t2[d].name) >= 1 /\ t2[d].name[1] = tr[d].name[1]
        /\ t2[e].name[1] = tr[e].name[1]
    BY <1>3, <2>1
  <2> QED BY <2>1, <2>2 DEF SiblingsDiffer
<1> QED BY <1>4 DEF SiblingsDiffer

LEMMA ChildrenAreNodes ==
  ASSUME IsTree
  PROVE  /\ \A n \in DOMAIN tree : tree[n].name \in Names
         /\ \A n \in DOMAIN tree : \A c : IsChild(tree, n, c) => c \in DOMAIN tree
<1>1. \A n \in DOMAIN tree : /\ tree[n] \in TreeNodes(Len(tree))
                             /\ \A k \in DOMAIN tree[n].children : tree[n].children[k] \in DOMAIN tree
  BY TreeIs
<1> QED BY <1>1 DEF TreeNodes, IsChild

LEMMA BranchesStart == ASSUME TreeInit PROVE BranchInv
<1>1. tree = <<NewNode(<<>>)>>
  BY DEF TreeInit
<1>2. NewNode(<<>>).children = <<>>
  BY DEF NewNode
<1>3. \A n \in DOMAIN tree : DOMAIN tree[n].children = {}
  BY <1>1, <1>2
<1> QED BY <1>3 DEF BranchInv, SiblingsDiffer, ShortNames, IsChild

LEMMA DownBranches == ASSUME TreeInv, BranchInv, Down PROVE BranchInv'
<1>1. phase = "attach" /\ todo # <<>> /\ at.depth < Len(AttachPath) /\ phase' = phase
  BY DEF Down
<1>2. PICK a \in Names, n \in DOMAIN tree, d \in Nat : a = AttachPath /\ n = at.node /\ d = at.depth
  BY <1>1, AttachingIs
<1>3. PICK segment : segment = a[d + 1]
  OBVIOUS
<1>4. segment \in DOMAIN Runes
  BY <1>1, <1>2, <1>3, SegmentByName
<1>5. tree' = IF Named(n, segment) # {} THEN tree ELSE WithChild(n, segment)
  BY <1>2, <1>3 DEF Down
<1>6. IsTree
  BY DEF TreeInv
<1>7. CASE tree' = tree
  BY <1>1, <1>7 DEF BranchInv
<1>8. CASE tree' = WithChild(n, segment) /\ Named(n, segment) = {}
  <2>1. PICK M \in Nat : M = Len(tree) /\ DOMAIN tree = 1 .. M
    BY <1>6, TreeIs
  <2>2. IsGrown(tree, tree', M, n, segment)
    BY <1>6, <1>8, <2>1, WithChildGrows
  <2>3. IsNew(tree, n, segment)
    BY <1>8 DEF IsChild, Named, IsNew
  <2>4. SiblingsDiffer(tree) /\ ShortNames(tree)
    BY <1>1 DEF BranchInv
  <2>5. /\ \A m \in 1 .. M : \A c : IsChild(tree, m, c) => c \in 1 .. M
        /\ \A m \in 1 .. M : tree[m].name \in Names
    BY <1>6, <2>1, ChildrenAreNodes
  <2>6. SiblingsDiffer(tree') /\ ShortNames(tree')
    BY <1>4, <2>2, <2>3, <2>4, <2>5, GrownSiblings
  <2> QED BY <2>6, SMTT(30) DEF BranchInv
<1> QED BY <1>5, <1>7, <1>8

LEMMA AttachBranches == ASSUME TreeInv, BranchInv, Attach PROVE BranchInv'
<1>1. /\ phase = "attach" /\ todo # <<>> /\ phase' = phase
      /\ tree' = [tree EXCEPT ![at.node].pkg = Head(todo)] /\ IsTree
  BY DEF Attach, TreeInv
<1>2. at.node \in DOMAIN tree
  BY <1>1, AttachingIs
<1>3. PICK old \in TreeNodes(Len(tree)) : old = tree[at.node]
  BY <1>1, <1>2, TreeIs
<1>4. PICK node : node = [old EXCEPT !.pkg = Head(todo)]
  OBVIOUS
<1>5. node.name = old.name /\ node.children = old.children
  BY <1>4 DEF TreeNodes
<1>6. tree' = [tree EXCEPT ![at.node] = node]
  BY <1>1, <1>3, <1>4
<1>7. /\ DOMAIN tree' = DOMAIN tree
      /\ \A m \in DOMAIN tree : tree'[m].name = tree[m].name /\ tree'[m].children = tree[m].children
  BY <1>2, <1>3, <1>5, <1>6
<1>8. \A m \in DOMAIN tree : \A c : IsChild(tree', m, c) => IsChild(tree, m, c) /\ c \in DOMAIN tree
  BY <1>1, <1>7, ChildrenAreNodes DEF IsChild
<1>9. SiblingsDiffer(tree) /\ ShortNames(tree)
  BY <1>1 DEF BranchInv
<1>10. SiblingsDiffer(tree')
  <2> SUFFICES ASSUME NEW m \in DOMAIN tree', NEW c, NEW d, IsChild(tree', m, c), IsChild(tree', m, d)
               PROVE  Len(tree'[c].name) >= 1 /\ (tree'[c].name[1] = tree'[d].name[1] => c = d)
    BY DEF SiblingsDiffer
  <2>1. m \in DOMAIN tree /\ IsChild(tree, m, c) /\ IsChild(tree, m, d) /\ c \in DOMAIN tree /\ d \in DOMAIN tree
    BY <1>7, <1>8
  <2>2. tree'[c].name = tree[c].name /\ tree'[d].name = tree[d].name
    BY <1>7, <2>1
  <2> QED BY <1>9, <2>1, <2>2 DEF SiblingsDiffer
<1>11. ShortNames(tree')
  <2> SUFFICES ASSUME NEW m \in DOMAIN tree', NEW c, IsChild(tree', m, c) PROVE Len(tree'[c].name) = 1
    BY DEF ShortNames
  <2>1. m \in DOMAIN tree /\ IsChild(tree, m, c) /\ c \in DOMAIN tree
    BY <1>7, <1>8
  <2> QED BY <1>7, <1>9, <2>1 DEF ShortNames
<1> QED BY <1>10, <1>11 DEF BranchInv

LEMMA BranchesStay == ASSUME TreeInv, BranchInv, BuildTable \/ UNCHANGED tablevars PROVE BranchInv'
<1>1. CASE Down
  BY <1>1, DownBranches
<1>2. CASE Attach
  BY <1>2, AttachBranches
<1>3. CASE Absorb
  <2>1. PICK n, c : IsMoved(tree, tree', n, c)
    BY <1>3, AbsorbMoves
  <2>2. IsTree /\ SiblingsDiffer(tree)
    BY DEF TreeInv, BranchInv
  <2>3. SiblingsDiffer(tree')
    BY <2>1, <2>2, ChildrenAreNodes, MovedSiblings
  <2>4. phase' # "attach"
    BY <1>3 DEF Absorb
  <2> QED BY <2>3, <2>4 DEF BranchInv
<1>4. CASE StartCompress \/ Descend \/ StartAggregate \/ Visit \/ Return \/ StartEmit \/ EmitNode \/ EndEmit
  <2>1. tree' = tree /\ phase' # "attach"
    BY <1>4, ZenonT(60) DEF StartCompress, Descend, StartAggregate, Visit, Return, StartEmit, EmitNode, EndEmit
  <2> QED BY <2>1 DEF BranchInv
<1>5. CASE UNCHANGED tablevars
  BY <1>5 DEF tablevars, BranchInv
<1> QED BY <1>1, <1>2, <1>3, <1>4, <1>5 DEF BuildTable

-----------------------------------------------------------------------------
\* One path begins with another.
Begins(a, b) == Len(a) <= Len(b) /\ \A i \in 1 .. Len(a) : a[i] = b[i]

LEMMA PrefixBegins ==
  ASSUME NEW a \in Names, NEW b \in Names
  PROVE  IsPrefix(a, b) <=> Begins(a, b)
<1> DEFINE U == DOMAIN Runes
<1>1. a \in Seq(U) /\ b \in Seq(U)
  BY DEF Names
<1> HIDE DEF U
<1>2. PICK m \in Nat, n \in Nat : m = Len(a) /\ n = Len(b)
  BY <1>1
<1>3. SubSeq(a, 1, m) = a
  BY <1>1, <1>2, SubSeqFull
<1>4. IsPrefix(a, b) <=> m <= n /\ a = SubSeq(b, 1, m)
  BY <1>2, <1>3 DEF IsPrefix
<1>5. ASSUME m <= n PROVE a = SubSeq(b, 1, m) <=> \A i \in 1 .. m : a[i] = b[i]
  <2>1. PICK s : s = SubSeq(b, 1, m)
    OBVIOUS
  <2>2. s \in Seq(U) /\ Len(s) = m /\ \A i \in 1 .. m : s[i] = b[i]
    BY <1>1, <1>2, <1>5, <2>1
  <2>3. a = s <=> \A i \in 1 .. m : a[i] = s[i]
    BY <1>1, <1>2, <2>2, SeqEqual
  <2> QED BY <2>1, <2>2, <2>3
<1> QED BY <1>2, <1>4, <1>5 DEF Begins

LEMMA BeginsIs ==
  /\ \A a \in Names : Begins(a, a)
  /\ \A a, b, c \in Names : Begins(a, b) /\ Begins(b, c) => Begins(a, c)
  /\ \A a, b \in Names : Begins(a, b) /\ Begins(b, a) => a = b
  /\ \A a, b, c \in Names : Begins(a, c) /\ Begins(b, c) => Begins(a, b) \/ Begins(b, a)
  /\ \A a \in Names : Begins(a, <<>>) => a = <<>>
<1> DEFINE U == DOMAIN Runes
<1>1. \A a \in Names : a \in Seq(U) /\ Len(a) \in Nat
  BY DEF Names
<1> HIDE DEF U
<1>2. ASSUME NEW a \in Names PROVE Begins(a, a)
  BY <1>1 DEF Begins
<1>3. ASSUME NEW a \in Names, NEW b \in Names, NEW c \in Names, Begins(a, b), Begins(b, c) PROVE Begins(a, c)
  BY <1>1, <1>3 DEF Begins
<1>4. ASSUME NEW a \in Names, NEW b \in Names, Begins(a, b), Begins(b, a) PROVE a = b
  <2>1. Len(a) = Len(b) /\ \A i \in 1 .. Len(a) : a[i] = b[i]
    BY <1>1, <1>4 DEF Begins
  <2>2. a \in Seq(U) /\ b \in Seq(U)
    BY <1>1
  <2> QED BY <2>1, <2>2, SeqEqual
<1>5. ASSUME NEW a \in Names, NEW b \in Names, NEW c \in Names, Begins(a, c), Begins(b, c)
      PROVE  Begins(a, b) \/ Begins(b, a)
  <2>1. Len(a) <= Len(b) \/ Len(b) <= Len(a)
    BY <1>1
  <2> QED BY <1>1, <1>5, <2>1 DEF Begins
<1>6. ASSUME NEW a \in Names, Begins(a, <<>>) PROVE a = <<>>
  <2>1. Len(a) = 0
    BY <1>1, <1>6 DEF Begins
  <2> QED BY <1>1, <2>1
<1> QED BY <1>2, <1>3, <1>4, <1>5, <1>6

\* A child's path goes on with the child's name.
IsFurther(a, x, y) ==
  /\ Begins(a, y) /\ ~ Begins(y, a)
  /\ \A u \in Names : Begins(y, u) => u[Len(a) + 1] = x[1]

LEMMA GoesOn ==
  ASSUME NEW a \in Names, NEW x \in Names
  PROVE  Len(x) >= 1 => IsFurther(a, x, a \o x)
<1> SUFFICES ASSUME Len(x) >= 1 PROVE IsFurther(a, x, a \o x)
  OBVIOUS
<1> DEFINE U == DOMAIN Runes
<1>1. a \in Seq(U) /\ x \in Seq(U)
  BY DEF Names
<1> HIDE DEF U
<1>2. PICK m \in Nat, n \in Nat : m = Len(a) /\ n = Len(x) /\ n >= 1
  BY <1>1
<1>3. PICK y : y = a \o x /\ y \in Names /\ Len(y) = m + n
  BY <1>2, NamesConcat
<1>4. IsJoin(y, a, m, x, n)
  <2>1. IsList(a) /\ IsList(x)
    BY <1>1, SequenceIsList
  <2> QED BY <1>2, <1>3, <2>1, PlacesOfConcat
<1>5. (\A i \in 1 .. m : y[i] = a[i]) /\ y[m + 1] = x[1]
  <2>1. 1 \in 1 .. n
    BY <1>2
  <2> QED BY <1>4, <2>1 DEF IsJoin
<1>6. Begins(a, y) /\ ~ Begins(y, a)
  BY <1>2, <1>3, <1>5 DEF Begins
<1>7. ASSUME NEW u \in Names, Begins(y, u) PROVE u[m + 1] = x[1]
  <2>1. m + 1 \in 1 .. Len(y)
    BY <1>2, <1>3
  <2> QED BY <1>5, <1>7, <2>1 DEF Begins
<1> QED BY <1>2, <1>3, <1>6, <1>7 DEF IsFurther

Hangs(tr, live, path) == Family(tr, live) /\ Spells(tr, live, path) /\ SiblingsDiffer(tr)

LEMMA ChildBegins ==
  ASSUME NEW tr, NEW live, NEW path, Hangs(tr, live, path), NEW n \in live, NEW c, IsChild(tr, n, c)
  PROVE  /\ c \in live /\ path[n] \in Names /\ path[c] \in Names /\ n \in Nat /\ c \in Nat /\ n < c
         /\ Begins(path[n], path[c]) /\ ~ Begins(path[c], path[n])
         /\ \A d : \A u \in Names : IsChild(tr, n, d) /\ Begins(path[c], u) /\ Begins(path[d], u) => c = d
<1>1. /\ \A m \in live : m \in DOMAIN tr /\ m \in Nat
      /\ \A d : IsChild(tr, n, d) => d \in live /\ n < d
  BY DEF Hangs, Family
<1>2. /\ \A m \in live : path[m] \in Names /\ tr[m].name \in Names
      /\ \A d : IsChild(tr, n, d) => path[d] = path[n] \o tr[d].name
  BY DEF Hangs, Spells
<1>3. \A d, e : IsChild(tr, n, d) /\ IsChild(tr, n, e) =>
        Len(tr[d].name) >= 1 /\ (tr[d].name[1] = tr[e].name[1] => d = e)
  BY <1>1 DEF Hangs, SiblingsDiffer
<1>4. ASSUME NEW d, IsChild(tr, n, d)
      PROVE  /\ Begins(path[n], path[d]) /\ ~ Begins(path[d], path[n])
             /\ \A u \in Names : Begins(path[d], u) => u[Len(path[n]) + 1] = tr[d].name[1]
  <2>1. PICK a \in Names, x \in Names : a = path[n] /\ x = tr[d].name /\ Len(x) >= 1 /\ path[d] = a \o x
    BY <1>1, <1>2, <1>3, <1>4
  <2>2. IsFurther(a, x, a \o x)
    BY <2>1, GoesOn, Zenon
  <2> QED BY <2>1, <2>2 DEF IsFurther
<1>5. ASSUME NEW d, NEW u \in Names, IsChild(tr, n, d), Begins(path[c], u), Begins(path[d], u) PROVE c = d
  <2>1. tr[c].name[1] = tr[d].name[1]
    BY <1>4, <1>5
  <2> QED BY <1>3, <1>5, <2>1
<1> QED BY <1>1, <1>2, <1>4, <1>5

\* What spells the beginning of another's path has it below one of its children.
LEMMA NextOnTheWay ==
  ASSUME NEW tr, NEW live, NEW path, Hangs(tr, live, path)
  PROVE  \A n, y \in live : n # y /\ Begins(path[n], path[y]) =>
           \E c : IsChild(tr, n, c) /\ Begins(path[c], path[y])
<1> DEFINE Way(n, y) == \E c : IsChild(tr, n, c) /\ Begins(path[c], path[y])
           Astray(n, y) == n # y /\ Begins(path[n], path[y]) /\ ~ Way(n, y)
           Bad == {s \in Nat : \E n, y \in live : s = n + y /\ Astray(n, y)}
<1>1. /\ \A m \in live : path[m] \in Names /\ m \in Nat
      /\ Root \in live /\ path[Root] = <<>>
      /\ \A m, l \in live : path[m] = path[l] => m = l
      /\ \A c \in live : c # Root => \E m \in live : IsChild(tr, m, c)
  BY DEF Hangs, Family, Spells
<1>2. SUFFICES ASSUME Bad # {} PROVE FALSE
  <2> SUFFICES ASSUME NEW n \in live, NEW y \in live, Astray(n, y) PROVE Bad # {}
    OBVIOUS
  <2>1. n + y \in Nat
    BY <1>1
  <2> QED BY <2>1
<1>3. PICK s \in Bad : \A r \in Bad : s <= r
  BY <1>2, LeastElement
<1>4. PICK n \in live, y \in live : s = n + y /\ Astray(n, y)
  OBVIOUS
<1>5. \A m, z \in live : m + z < n + y /\ m # z /\ Begins(path[m], path[z]) => Way(m, z)
  <2> SUFFICES ASSUME NEW m \in live, NEW z \in live, m + z < n + y, Astray(m, z) PROVE FALSE
    OBVIOUS
  <2> HIDE DEF Astray
  <2>1. m + z \in Bad
    BY <1>1
  <2>2. m \in Nat /\ z \in Nat /\ n \in Nat /\ y \in Nat
    BY <1>1
  <2> HIDE DEF Bad
  <2> QED BY <1>3, <1>4, <2>1, <2>2
<1> HIDE DEF Bad
<1>6. y # Root
  <2> SUFFICES ASSUME y = Root PROVE FALSE
    OBVIOUS
  <2>1. path[n] = <<>>
    BY <1>1, <1>4, BeginsIs
  <2> QED BY <1>1, <1>4, <2>1
<1>7. PICK p \in live : IsChild(tr, p, y)
  BY <1>1, <1>6
<1>8. PICK a \in Names, b \in Names, u \in Names : a = path[n] /\ b = path[p] /\ u = path[y]
  BY <1>1
<1>9. p < y /\ Begins(b, u) /\ Begins(a, u) /\ n # y /\ p \in Nat /\ n \in Nat /\ y \in Nat
  BY <1>1, <1>4, <1>7, <1>8, ChildBegins
<1>10. CASE Begins(a, b)
  <2>1. CASE n = p
    <3>1. Begins(u, u)
      BY BeginsIs
    <3> QED BY <1>4, <1>7, <1>8, <2>1, <3>1
  <2>2. CASE n # p
    <3>1. n + p < n + y
      BY <1>9
    <3>2. PICK c : IsChild(tr, n, c) /\ Begins(path[c], b)
      BY <1>5, <1>8, <1>10, <2>2, <3>1
    <3>3. path[c] \in Names
      BY <3>2, ChildBegins
    <3>4. Begins(path[c], u)
      BY <1>9, <3>2, <3>3, BeginsIs
    <3> QED BY <1>4, <1>8, <3>2, <3>4
  <2> QED BY <2>1, <2>2
<1>11. CASE ~ Begins(a, b)
  <2>1. Begins(b, a)
    BY <1>9, <1>11, BeginsIs
  <2>2. p # n /\ p + n < n + y
    <3>1. Begins(a, a)
      BY BeginsIs
    <3> QED BY <1>8, <1>9, <1>11, <3>1
  <2>3. PICK c : IsChild(tr, p, c) /\ Begins(path[c], a)
    BY <1>5, <1>8, <2>1, <2>2
  <2>4. path[c] \in Names
    BY <2>3, ChildBegins
  <2>5. Begins(path[c], u) /\ Begins(u, u)
    BY <1>9, <2>3, <2>4, BeginsIs
  <2>6. c = y
    BY <1>7, <1>8, <2>3, <2>5, ChildBegins
  <2>7. a = u
    BY <1>8, <1>9, <2>3, <2>6, BeginsIs
  <2> QED BY <1>1, <1>8, <1>9, <2>7
<1> QED BY <1>10, <1>11

\* The values of a node's own package, and those below the first children too.
Own(n) == IF tree[n].pkg = 0 THEN {} ELSE PackageValues(tree[n].pkg)
Part(path, n, next) ==
  Own(n) \cup {v \in AllValues : \E j \in DOMAIN tree[n].children :
                 j < next /\ v \in ValuesBelow(path[tree[n].children[j]])}

\* The setting of the sums: the tree as it stays.
Stands(live, path) ==
  /\ Family(tree, live) /\ Spells(tree, live, path) /\ Houses(tree, live, path, Goals, {})

LEMMA BelowIs ==
  ASSUME report \in Reports, NEW u \in Names
  PROVE  /\ ValuesBelow(u) \in SUBSET AllValues
         /\ \A v : v \in ValuesBelow(u) <=>
              \E k \in DOMAIN Packages : Begins(u, Goals[k]) /\ v \in PackageValues(k)
<1>1. \A k \in DOMAIN Packages : Goals[k] \in Names /\ Goals[k] = Rel(Packages[k].path)
  BY GoalsAre
<1>2. \A k \in DOMAIN Packages : IsPrefix(u, Rel(Packages[k].path)) <=> Begins(u, Goals[k])
  BY <1>1, PrefixBegins
<1>3. ValuesBelow(u) = UNION {PackageValues(k) : k \in {l \in DOMAIN Packages : IsPrefix(u, Rel(Packages[l].path))}}
  BY DEF ValuesBelow, PackageValues
<1>4. ASSUME NEW v
      PROVE v \in ValuesBelow(u) <=> \E k \in DOMAIN Packages : Begins(u, Goals[k]) /\ v \in PackageValues(k)
  BY <1>2, <1>3
<1>5. ValuesBelow(u) \in SUBSET AllValues
  BY <1>4 DEF AllValues
<1> QED BY <1>4, <1>5

\* A value stands for one package only.
LEMMA OneHome ==
  ASSUME NEW k, NEW l, NEW v, v \in PackageValues(k), v \in PackageValues(l) PROVE k = l
  BY DEF PackageValues

LEMMA SplitsBelow ==
  ASSUME report \in Reports, IsTree, SiblingsDiffer(tree), NEW live, NEW path, Stands(live, path), NEW n \in live
  PROVE  /\ Own(n) \in SUBSET AllValues /\ path[n] \in Names
         /\ \A v : v \in ValuesBelow(path[n]) <=>
              v \in Own(n) \/ \E c : IsChild(tree, n, c) /\ v \in ValuesBelow(path[c])
         /\ \A c : \A v : IsChild(tree, n, c) /\ v \in ValuesBelow(path[c]) => v \notin Own(n)
         /\ \A c, d : \A v : IsChild(tree, n, c) /\ IsChild(tree, n, d)
                             /\ v \in ValuesBelow(path[c]) /\ v \in ValuesBelow(path[d]) => c = d
<1>1. Hangs(tree, live, path)
  BY DEF Stands, Hangs
<1>2. /\ DOMAIN Goals = DOMAIN Packages /\ 0 \notin DOMAIN Goals
      /\ \A k \in DOMAIN Packages : Goals[k] \in Names
  BY GoalsAre
<1>3. /\ \A m \in live : path[m] \in Names
      /\ \A m \in live, l \in live : path[m] = path[l] => m = l
      /\ \A m \in live : tree[m].pkg # 0 => tree[m].pkg \in DOMAIN Packages /\ path[m] = Goals[tree[m].pkg]
      /\ \A k \in DOMAIN Packages : \E m \in live : tree[m].pkg = k
  BY <1>2 DEF Stands, Spells, Houses
<1>4. \A c : IsChild(tree, n, c) => c \in live /\ path[c] \in Names
  BY <1>1, ChildBegins
<1>5. Own(n) \in SUBSET AllValues
  BY <1>3, ValuesAre DEF Own
<1>6. \A m \in live : \A v : v \in ValuesBelow(path[m]) <=>
        \E k \in DOMAIN Packages : Begins(path[m], Goals[k]) /\ v \in PackageValues(k)
  BY <1>3, BelowIs
<1>7. ASSUME NEW v, v \in Own(n) PROVE tree[n].pkg \in DOMAIN Packages /\ path[n] = Goals[tree[n].pkg] /\ v \in PackageValues(tree[n].pkg)
  BY <1>3, <1>7 DEF Own
<1>8. ASSUME NEW v \in ValuesBelow(path[n]), v \notin Own(n)
      PROVE  \E c : IsChild(tree, n, c) /\ v \in ValuesBelow(path[c])
  <2>1. PICK k \in DOMAIN Packages : Begins(path[n], Goals[k]) /\ v \in PackageValues(k)
    BY <1>6
  <2>2. PICK y \in live : tree[y].pkg = k
    BY <1>3
  <2>3. path[y] = Goals[k]
    BY <1>2, <1>3, <2>2
  <2>4. y # n
    BY <1>2, <1>8, <2>1, <2>2 DEF Own
  <2>5. PICK c : IsChild(tree, n, c) /\ Begins(path[c], Goals[k])
    BY <1>1, <2>1, <2>3, <2>4, NextOnTheWay
  <2>6. v \in ValuesBelow(path[c])
    BY <1>4, <1>6, <2>1, <2>5
  <2> QED BY <2>5, <2>6
<1>9. ASSUME NEW v \in Own(n) PROVE v \in ValuesBelow(path[n])
  <2>1. Begins(path[n], path[n])
    BY <1>3, BeginsIs
  <2> QED BY <1>6, <1>7, <2>1
<1>10. ASSUME NEW c, IsChild(tree, n, c), NEW v \in ValuesBelow(path[c])
       PROVE  v \in ValuesBelow(path[n]) /\ v \notin Own(n)
  <2>1. PICK k \in DOMAIN Packages : Begins(path[c], Goals[k]) /\ v \in PackageValues(k)
    BY <1>4, <1>6, <1>10
  <2>2. Begins(path[n], path[c]) /\ ~ Begins(path[c], path[n])
    BY <1>1, <1>10, ChildBegins
  <2>3. Begins(path[n], Goals[k])
    BY <1>2, <1>3, <1>4, <1>10, <2>1, <2>2, BeginsIs
  <2>4. v \notin Own(n)
    <3> SUFFICES ASSUME v \in Own(n) PROVE FALSE
      OBVIOUS
    <3>1. k = tree[n].pkg
      BY <1>7, <2>1, OneHome
    <3> QED BY <1>7, <2>1, <2>2, <3>1
  <2> QED BY <1>6, <2>1, <2>3, <2>4
<1>11. ASSUME NEW c, NEW d, IsChild(tree, n, c), IsChild(tree, n, d),
              NEW v, v \in ValuesBelow(path[c]), v \in ValuesBelow(path[d])
       PROVE  c = d
  <2>1. PICK k \in DOMAIN Packages : Begins(path[c], Goals[k]) /\ v \in PackageValues(k)
    BY <1>4, <1>6, <1>11
  <2>2. PICK l \in DOMAIN Packages : Begins(path[d], Goals[l]) /\ v \in PackageValues(l)
    BY <1>4, <1>6, <1>11
  <2>3. k = l
    BY <2>1, <2>2, OneHome
  <2> QED BY <1>1, <1>2, <1>11, <2>1, <2>2, <2>3, ChildBegins
<1> QED BY <1>3, <1>5, <1>8, <1>9, <1>10, <1>11

\* Child by child the part becomes all that is below the node.
LEMMA PartsAre ==
  ASSUME report \in Reports, IsTree, SiblingsDiffer(tree), NEW live, NEW path, Stands(live, path), NEW n \in live
  PROVE  /\ Part(path, n, 1) = Own(n)
         /\ \A next \in Nat : Part(path, n, next) \in SUBSET AllValues
         /\ \A j \in DOMAIN tree[n].children :
              LET below == ValuesBelow(path[tree[n].children[j]]) IN
              below \in SUBSET AllValues /\ Part(path, n, j) \cap below = {} /\ Part(path, n, j + 1) = Part(path, n, j) \cup below
         /\ \A next \in Nat : next > Len(tree[n].children) => Part(path, n, next) = ValuesBelow(path[n])
<1>1. /\ Own(n) \in SUBSET AllValues /\ path[n] \in Names
      /\ \A v : v \in ValuesBelow(path[n]) <=>
           v \in Own(n) \/ \E c : IsChild(tree, n, c) /\ v \in ValuesBelow(path[c])
      /\ \A c : \A v : IsChild(tree, n, c) /\ v \in ValuesBelow(path[c]) => v \notin Own(n)
      /\ \A c, d : \A v : IsChild(tree, n, c) /\ IsChild(tree, n, d)
                          /\ v \in ValuesBelow(path[c]) /\ v \in ValuesBelow(path[d]) => c = d
  BY SplitsBelow
<1>2. PICK N \in Nat : N = Len(tree[n].children) /\ DOMAIN tree[n].children = 1 .. N
  <2>1. n \in DOMAIN tree
    BY DEF Stands, Family
  <2> QED BY <2>1, TreeIs, ListIs
<1> DEFINE Kid(j) == tree[n].children[j]
<1>3. /\ \A j \in 1 .. N : IsChild(tree, n, Kid(j))
      /\ \A c : IsChild(tree, n, c) => \E j \in 1 .. N : c = Kid(j)
  BY <1>2 DEF IsChild
<1>4. \A i, j \in 1 .. N : Kid(i) = Kid(j) => i = j
  BY <1>2 DEF Stands, Family
<1>5. \A j \in 1 .. N : ValuesBelow(path[Kid(j)]) \in SUBSET AllValues
  <2> SUFFICES ASSUME NEW j \in 1 .. N PROVE ValuesBelow(path[Kid(j)]) \in SUBSET AllValues
    OBVIOUS
  <2>1. Hangs(tree, live, path)
    BY DEF Stands, Hangs
  <2>2. path[Kid(j)] \in Names
    BY <1>3, <2>1, ChildBegins
  <2> QED BY <2>2, BelowIs
<1>6. \A next : \A v : v \in Part(path, n, next) <=>
        v \in Own(n) \/ \E j \in 1 .. N : j < next /\ v \in ValuesBelow(path[Kid(j)])
  BY <1>2, <1>5 DEF Part
<1> HIDE DEF Kid
<1>7. Part(path, n, 1) = Own(n)
  <2>1. \A j \in 1 .. N : ~ (j < 1)
    OBVIOUS
  <2> QED BY <1>6, <2>1
<1>8. \A next \in Nat : Part(path, n, next) \in SUBSET AllValues
  BY <1>1, <1>5, <1>6
<1>9. ASSUME NEW j \in 1 .. N
      PROVE  /\ Part(path, n, j) \cap ValuesBelow(path[Kid(j)]) = {}
             /\ Part(path, n, j + 1) = Part(path, n, j) \cup ValuesBelow(path[Kid(j)])
  <2>1. ASSUME NEW v \in Part(path, n, j), v \in ValuesBelow(path[Kid(j)]) PROVE FALSE
    <3>1. v \notin Own(n)
      BY <1>1, <1>3, <2>1
    <3>2. PICK i \in 1 .. N : i < j /\ v \in ValuesBelow(path[Kid(i)])
      BY <1>6, <3>1
    <3>3. Kid(i) = Kid(j)
      BY <1>1, <1>3, <2>1, <3>2
    <3> QED BY <1>4, <3>2, <3>3
  <2>2. \A i \in 1 .. N : i < j + 1 <=> i < j \/ i = j
    OBVIOUS
  <2>3. \A v : v \in Part(path, n, j + 1) <=> v \in Part(path, n, j) \/ v \in ValuesBelow(path[Kid(j)])
    BY <1>6, <2>2
  <2> QED BY <2>1, <2>3
<1>10. ASSUME NEW next \in Nat, next > N PROVE Part(path, n, next) = ValuesBelow(path[n])
  <2>1. \A j \in 1 .. N : j < next
    BY <1>10
  <2>2. \A v : v \in Part(path, n, next) <=> v \in ValuesBelow(path[n])
    BY <1>1, <1>3, <1>6, <2>1
  <2> QED BY <2>2
<1> QED BY <1>2, <1>5, <1>7, <1>8, <1>9, <1>10 DEF Kid

\* The summary of a node tells the values of a set; no two share a statistic.
Told(sm, cs, f, n, S) == n \in DOMAIN sm /\ IF sm[n].stat = 0 THEN S = {} ELSE Tells(f, cs[sm[n].stat], S)
NoneShared(sm) == \A m, n \in DOMAIN sm : sm[m].stat = sm[n].stat /\ sm[m].stat # 0 => m = n

\* aggregateTree goes down the tree; the node of a call tells its own values and
\* those below the children that returned, and what returned tells all below it.
Below(live, st) ==
  /\ \A k \in DOMAIN st : /\ st[k].node \in live
                          /\ k # 1 => st[k].next \in DOMAIN tree[st[k].node].children
  /\ \A k, l \in DOMAIN st : k < l => st[l].node < st[k].node
UnderWay(live, path, f, st, sm, cs) ==
  /\ Below(live, st) /\ NoneShared(sm)
  /\ \A k \in DOMAIN st : Told(sm, cs, f, st[k].node, Part(path, st[k].node, st[k].next))
  /\ \A n \in DOMAIN sm :
       n \in live /\ ((\E k \in DOMAIN st : st[k].node = n) \/ Told(sm, cs, f, n, ValuesBelow(path[n])))
AllTold(live, path, f, sm, cs) == \A n \in live : Told(sm, cs, f, n, ValuesBelow(path[n]))

SumInv ==
  \A live, path, f : Stands(live, path) /\ IsTotal(f) =>
    /\ phase = "aggregate" => UnderWay(live, path, f, stack, summary, cells)
    /\ phase \in {"emit", "done"} => AllTold(live, path, f, summary, cells)

LEMMA SelfTells ==
  ASSUME report \in Reports, NEW live, NEW path, Stands(live, path), NEW f, IsTotal(f), NEW n \in live
  PROVE  SelfStat(n) \in Stats /\ Tells(f, SelfStat(n), Own(n)) /\ Own(n) \in SUBSET AllValues
<1>1. CASE tree[n].pkg = 0
  BY <1>1, NoStatIs, NoneTold DEF SelfStat, Own
<1>2. CASE tree[n].pkg # 0
  <2>1. PICK k \in DOMAIN Packages : k = tree[n].pkg
    BY <1>2, GoalsAre DEF Stands, Houses
  <2>2. PackageStat(Packages[k]) \in Stats
    BY ReportIs, PackageStatIs
  <2>3. Tells(f, PackageStat(Packages[k]), PackageValues(k)) /\ PackageValues(k) \in SUBSET AllValues
    BY PackageTells, ValuesAre
  <2> QED BY <1>2, <2>1, <2>2, <2>3 DEF SelfStat, Own
<1> QED BY <1>1, <1>2

\* What entering and returning do to the summaries: one node's is new ...
Retells(sm, cs, sm2, cs2, f, n, S) ==
  /\ DOMAIN sm2 = DOMAIN sm \cup {n} /\ Told(sm2, cs2, f, n, S)
  /\ \A m \in DOMAIN sm : m # n => \A R : Told(sm, cs, f, m, R) => Told(sm2, cs2, f, m, R)
  /\ NoneShared(sm2)

LEMMA EnterTells ==
  ASSUME report \in Reports, NEW live, NEW path, Stands(live, path), NEW f, IsTotal(f), NEW n \in live,
         StatsInv, NoneShared(summary), Enter(n)
  PROVE  Retells(summary, cells, summary', cells', f, n, Own(n))
<1>1. cells' = CellsAfterEntering(n)
  BY DEF Enter
<1>2. summary' = [m \in DOMAIN summary \cup {n} |-> IF m = n THEN Entered(n) ELSE summary[m]]
  BY DEF Enter
<1>3. PICK self \in Stats : self = SelfStat(n) /\ Tells(f, self, Own(n)) /\ Own(n) \in SUBSET AllValues
  BY SelfTells
<1>4. cells \in Seq(Stats) /\ \A m \in DOMAIN summary : summary[m].stat = 0 \/ summary[m].stat \in DOMAIN cells
  BY DEF StatsInv
<1>5. PICK N \in Nat : N = Len(cells) /\ DOMAIN cells = 1 .. N
  BY <1>4
<1>6. cells' = IF self.count = 0 THEN cells ELSE Append(cells, self)
  BY <1>1, <1>3 DEF CellsAfterEntering
<1>7. Entered(n).stat = IF self.count = 0 THEN 0 ELSE N + 1
  BY <1>3, <1>5 DEF Entered
<1>8. /\ \A k \in 1 .. N : cells'[k] = cells[k] /\ k # N + 1
      /\ self.count # 0 => cells'[N + 1] = self
  <2>1. self.count # 0 => /\ \A k \in 1 .. N : Append(cells, self)[k] = cells[k]
                          /\ Append(cells, self)[N + 1] = self
    BY <1>4, <1>5, AppendProperties
  <2>2. \A k \in 1 .. N : k # N + 1
    OBVIOUS
  <2>3. CASE self.count = 0
    BY <1>6, <2>2, <2>3
  <2>4. CASE self.count # 0
    BY <1>6, <2>1, <2>2, <2>4
  <2> QED BY <2>3, <2>4
<1>9. DOMAIN summary' = DOMAIN summary \cup {n} /\ summary'[n] = Entered(n)
      /\ \A m \in DOMAIN summary : m # n => summary'[m] = summary[m]
  BY <1>2
<1>10. Told(summary', cells', f, n, Own(n))
  <2>1. CASE self.count = 0
    <3>1. Own(n) = {}
      BY <1>3, <2>1, NoneTold
    <3> QED BY <1>7, <1>9, <2>1, <3>1 DEF Told
  <2>2. CASE self.count # 0
    <3>1. N + 1 # 0
      OBVIOUS
    <3> QED BY <1>3, <1>7, <1>8, <1>9, <2>2, <3>1 DEF Told
  <2> QED BY <2>1, <2>2
<1>11. \A m \in DOMAIN summary : m # n => \A R : Told(summary, cells, f, m, R) => Told(summary', cells', f, m, R)
  BY <1>4, <1>5, <1>8, <1>9 DEF Told
<1>12. NoneShared(summary')
  <2> SUFFICES ASSUME NEW m \in DOMAIN summary', NEW l \in DOMAIN summary',
                      summary'[m].stat = summary'[l].stat, summary'[m].stat # 0
               PROVE  m = l
    BY DEF NoneShared
  <2>1. CASE m # n /\ l # n
    BY <1>9, <2>1 DEF NoneShared
  <2>2. CASE m = n /\ l # n
    BY <1>4, <1>5, <1>7, <1>8, <1>9, <2>2
  <2>3. CASE m # n /\ l = n
    BY <1>4, <1>5, <1>7, <1>8, <1>9, <2>3
  <2> QED BY <2>1, <2>2, <2>3
<1> QED BY <1>9, <1>10, <1>11, <1>12 DEF Retells

\* ... which is the child's values more.
LEMMA MergeTells ==
  ASSUME report \in Reports, NEW f, IsTotal(f), StatsInv, NoneShared(summary),
         NEW n \in DOMAIN summary, NEW c \in DOMAIN summary, n # c,
         NEW S \in SUBSET AllValues, NEW T \in SUBSET AllValues, S \cap T = {},
         Told(summary, cells, f, n, S), Told(summary, cells, f, c, T),
         NEW sum, NEW merge, merge = MergeStat(summary[n].stat, summary[c].stat), sum.stat = merge.cell,
         NEW sm2, sm2 = [summary EXCEPT ![n] = sum]
  PROVE  Retells(summary, cells, sm2, merge.cells, f, n, S \cup T)
<1>1. PICK dst, src : dst = summary[n].stat /\ src = summary[c].stat
  OBVIOUS
<1>2. /\ cells \in Seq(Stats) /\ \A k \in DOMAIN cells : cells[k] \in Stats
      /\ \A m \in DOMAIN summary : summary[m].stat = 0 \/ summary[m].stat \in DOMAIN cells
  BY DEF StatsInv
<1>3. PICK N \in Nat : N = Len(cells) /\ DOMAIN cells = 1 .. N
  BY <1>2
<1>4. (dst = 0 \/ dst \in 1 .. N) /\ (src = 0 \/ src \in 1 .. N) /\ ~ (0 \in 1 .. N)
  BY <1>1, <1>2, <1>3
<1>5. DOMAIN sm2 = DOMAIN summary /\ sm2[n].stat = merge.cell
      /\ \A m \in DOMAIN summary : m # n => sm2[m] = summary[m]
  OBVIOUS
<1>6. /\ dst = 0 => S = {}
      /\ dst # 0 => Tells(f, cells[dst], S)
      /\ src = 0 => T = {}
      /\ src # 0 => Tells(f, cells[src], T)
  BY <1>1 DEF Told
<1>7. /\ merge.cell = 0 => S \cup T = {}
      /\ merge.cell # 0 => Tells(f, merge.cells[merge.cell], S \cup T)
      /\ \A k \in 1 .. N : k # dst => merge.cells[k] = cells[k]
      /\ merge.cell = dst \/ merge.cell = N + 1
  <2>1. CASE src = 0
    <3>1. merge.cell = dst /\ merge.cells = cells
      BY <1>1, <2>1 DEF MergeStat
    <3>2. S \cup T = S
      BY <1>6, <2>1
    <3> QED BY <1>6, <3>1, <3>2
  <2>2. CASE src # 0 /\ dst = 0
    <3>1. merge.cell = N + 1 /\ merge.cells = Append(cells, cells[src])
      BY <1>1, <1>3, <2>2 DEF MergeStat, FirstStat
    <3>2. cells[src] \in Stats
      BY <1>2, <1>3, <1>4, <2>2
    <3>3. /\ \A k \in 1 .. N : merge.cells[k] = cells[k]
          /\ merge.cells[N + 1] = cells[src]
      BY <1>2, <1>3, <3>1, <3>2, AppendProperties
    <3>4. S \cup T = T /\ N + 1 # 0
      BY <1>6, <2>2
    <3> QED BY <1>6, <2>2, <3>1, <3>3, <3>4
  <2>3. CASE src # 0 /\ dst # 0
    <3>1. PICK both : both = Merged(cells[dst], cells[src])
      OBVIOUS
    <3>2. merge.cell = dst /\ merge.cells = [cells EXCEPT ![dst] = both]
      BY <1>1, <2>3, <3>1 DEF MergeStat
    <3>3. dst \in DOMAIN cells /\ src \in DOMAIN cells
      BY <1>3, <1>4, <2>3
    <3>4. merge.cells[dst] = both /\ \A k \in 1 .. N : k # dst => merge.cells[k] = cells[k]
      BY <1>3, <3>2, <3>3
    <3>5. PICK p \in Stats, q \in Stats : p = cells[dst] /\ q = cells[src] /\ Tells(f, p, S) /\ Tells(f, q, T)
      BY <1>2, <1>6, <2>3, <3>3
    <3>6. Tells(f, Merged(p, q), S \cup T)
      BY <3>5, MergedTells
    <3> QED BY <2>3, <3>1, <3>2, <3>4, <3>5, <3>6
  <2> QED BY <2>1, <2>2, <2>3
<1>8. Told(sm2, merge.cells, f, n, S \cup T)
  BY <1>5, <1>7 DEF Told
<1>9. ASSUME NEW m \in DOMAIN summary, m # n
      PROVE  /\ \A R : Told(summary, cells, f, m, R) => Told(sm2, merge.cells, f, m, R)
             /\ summary[m].stat # 0 => summary[m].stat # merge.cell
  <2>1. summary[m].stat # 0 => summary[m].stat \in 1 .. N /\ summary[m].stat # dst
    BY <1>1, <1>2, <1>3, <1>9 DEF NoneShared
  <2>2. \A k \in 1 .. N : k # N + 1
    OBVIOUS
  <2> QED BY <1>5, <1>7, <1>9, <2>1, <2>2 DEF Told
<1>10. NoneShared(sm2)
  <2> SUFFICES ASSUME NEW m \in DOMAIN summary, NEW l \in DOMAIN summary,
                      sm2[m].stat = sm2[l].stat, sm2[m].stat # 0
               PROVE  m = l
    BY <1>5 DEF NoneShared
  <2>1. CASE m # n /\ l # n
    BY <1>5, <2>1 DEF NoneShared
  <2>2. CASE m = n /\ l # n
    BY <1>5, <1>9, <2>2
  <2>3. CASE m # n /\ l = n
    BY <1>5, <1>9, <2>3
  <2> QED BY <2>1, <2>2, <2>3
<1>11. DOMAIN sm2 = DOMAIN summary \cup {n}
  BY <1>5
<1> QED BY <1>8, <1>9, <1>10, <1>11 DEF Retells

\* With the tree and the report nothing changes that is said of the summaries.
LEMMA SayingStays ==
  ASSUME UNCHANGED <<report, tree>>
  PROVE  /\ \A live, path : Stands(live, path)' <=> Stands(live, path)
         /\ \A f : IsTotal(f)' <=> IsTotal(f)
         /\ \A f, stat, S : Tells(f, stat, S)' <=> Tells(f, stat, S)
         /\ \A u : ValuesBelow(u)' = ValuesBelow(u)
         /\ \A path, n, next : Part(path, n, next)' = Part(path, n, next)
<1>1. Packages' = Packages
  BY DEF Packages
<1>2. (\A v : ValueOf(v)' = ValueOf(v)) /\ (\A k : PackageValues(k)' = PackageValues(k)) /\ AllValues' = AllValues
  BY <1>1 DEF ValueOf, PackageValues, AllValues
<1>3. Weights' = Weights
  BY <1>2 DEF Weights
<1>4. \A u : ValuesBelow(u)' = ValuesBelow(u)
  <2>1. \A p : Rel(p)' = Rel(p)
    BY DEF Rel
  <2> QED BY <1>1, <2>1 DEF ValuesBelow
<1>5. \A n : Own(n)' = Own(n)
  BY <1>2 DEF Own
<1>6. Goals' = Goals
  BY PathsStay
<1>7. \A live, path : Stands(live, path)' <=> Stands(live, path)
  BY <1>6 DEF Stands
<1>8. \A f : IsTotal(f)' <=> IsTotal(f)
  BY <1>2, <1>3 DEF IsTotal
<1>9. \A f, stat, S : Tells(f, stat, S)' <=> Tells(f, stat, S)
  BY <1>2 DEF Tells
<1>10. \A path, n, next : Part(path, n, next)' = Part(path, n, next)
  BY <1>2, <1>4, <1>5 DEF Part
<1> QED BY <1>4, <1>7, <1>8, <1>9, <1>10

LEMMA TellingStays ==
  ASSUME UNCHANGED <<report, tree>>, NEW live, NEW path, NEW f
  PROVE  /\ UnderWay(live, path, f, stack', summary', cells') => UnderWay(live, path, f, stack, summary, cells)'
         /\ AllTold(live, path, f, summary', cells') => AllTold(live, path, f, summary, cells)'
<1>1. PICK st, sm, cs : st = stack' /\ sm = summary' /\ cs = cells'
  OBVIOUS
<1>2. \A n, S : Told(sm, cs, f, n, S) <=> Told(summary, cells, f, n, S)'
  BY <1>1, SayingStays DEF Told
<1>3. NoneShared(sm) <=> NoneShared(summary)'
  BY <1>1 DEF NoneShared
<1>4. Below(live, st) <=> Below(live, stack)'
  BY <1>1 DEF Below
<1>5. (\A u : ValuesBelow(u)' = ValuesBelow(u)) /\ (\A n, next : Part(path, n, next)' = Part(path, n, next))
  BY SayingStays
<1>6. UnderWay(live, path, f, st, sm, cs) => UnderWay(live, path, f, stack, summary, cells)'
  BY <1>1, <1>2, <1>3, <1>4, <1>5 DEF UnderWay
<1>7. AllTold(live, path, f, sm, cs) => AllTold(live, path, f, summary, cells)'
  BY <1>1, <1>2, <1>5 DEF AllTold
<1> QED BY <1>1, <1>6, <1>7

LEMMA StartSums == ASSUME TableInv, BranchInv, StartAggregate PROVE SumInv'
<1>1. /\ phase = "compress" /\ phase' = "aggregate" /\ stack' = <<[node |-> Root, next |-> 1]>>
      /\ Enter(Root) /\ UNCHANGED <<report, tree>>
  BY DEF StartAggregate
<1>2. report \in Reports /\ IsTree /\ StatsInv /\ SiblingsDiffer(tree) /\ summary = <<>>
  BY <1>1 DEF TableInv, TreeInv, BranchInv, BeforeInv
<1>3. ASSUME NEW live, NEW path, NEW f, Stands(live, path), IsTotal(f)
      PROVE  UnderWay(live, path, f, stack', summary', cells')
  <2>1. Root \in live
    BY <1>3 DEF Stands, Family
  <2>2. DOMAIN summary = {} /\ NoneShared(summary)
    BY <1>2 DEF NoneShared
  <2>3. Retells(summary, cells, summary', cells', f, Root, Own(Root))
    BY <1>1, <1>2, <1>3, <2>1, <2>2, EnterTells
  <2>4. Part(path, Root, 1) = Own(Root)
    BY <1>2, <1>3, <2>1, PartsAre
  <2>5. PICK frame : frame = [node |-> Root, next |-> 1]
    OBVIOUS
  <2>6. stack' = <<frame>> /\ DOMAIN <<frame>> = {1} /\ <<frame>>[1] = frame
    BY <1>1, <2>5
  <2>7. DOMAIN summary' = {Root} /\ Told(summary', cells', f, Root, Part(path, Root, 1)) /\ NoneShared(summary')
    BY <2>2, <2>3, <2>4 DEF Retells
  <2>8. Below(live, stack')
    BY <2>1, <2>5, <2>6 DEF Below
  <2> QED BY <2>1, <2>5, <2>6, <2>7, <2>8 DEF UnderWay
<1>4. ASSUME NEW live, NEW path, NEW f, Stands(live, path)', IsTotal(f)'
      PROVE  UnderWay(live, path, f, stack, summary, cells)'
  BY <1>1, <1>3, <1>4, SayingStays, TellingStays, SMTT(30)
<1> QED BY <1>1, <1>4 DEF SumInv

\* A call on top of the others ...
LEMMA GoingDown ==
  ASSUME report \in Reports, NEW live, NEW path, Stands(live, path), NEW f, IsTotal(f), IsTree, SiblingsDiffer(tree),
         NEW s, NEW L \in Nat \ {0}, DOMAIN s = 1 .. L, NEW sm, NEW cs, UnderWay(live, path, f, s, sm, cs),
         s[1].next \in DOMAIN tree[s[1].node].children,
         NEW c, c = tree[s[1].node].children[s[1].next],
         NEW t, DOMAIN t = 1 .. L + 1, t[1].node = c, t[1].next = 1, \A k \in 1 .. L : t[k + 1] = s[k],
         NEW sm2, NEW cs2, Retells(sm, cs, sm2, cs2, f, c, Own(c))
  PROVE  UnderWay(live, path, f, t, sm2, cs2)
<1>1. /\ \A k \in 1 .. L : s[k].node \in live /\ (k # 1 => s[k].next \in DOMAIN tree[s[k].node].children)
      /\ \A k, l \in 1 .. L : k < l => s[l].node < s[k].node
      /\ \A k \in 1 .. L : Told(sm, cs, f, s[k].node, Part(path, s[k].node, s[k].next))
      /\ \A n \in DOMAIN sm :
           n \in live /\ ((\E k \in 1 .. L : s[k].node = n) \/ Told(sm, cs, f, n, ValuesBelow(path[n])))
  BY DEF UnderWay, Below
<1>2. 1 \in 1 .. L /\ \A k \in 1 .. L : k = 1 \/ 1 < k
  OBVIOUS
<1>3. c \in live /\ s[1].node < c /\ live \subseteq Nat
  <2>1. IsChild(tree, s[1].node, c) /\ s[1].node \in live
    BY <1>1, <1>2 DEF IsChild
  <2> QED BY <2>1 DEF Stands, Family
<1>4. \A k \in 1 .. L : s[k].node < c /\ s[k].node # c
  <2> SUFFICES ASSUME NEW k \in 1 .. L PROVE s[k].node < c /\ s[k].node # c
    OBVIOUS
  <2>1. PICK a \in Nat, b \in Nat, d \in Nat : a = s[k].node /\ b = s[1].node /\ d = c
    BY <1>1, <1>2, <1>3
  <2>2. a <= b /\ b < d
    BY <1>1, <1>2, <1>3, <2>1
  <2> QED BY <2>1, <2>2, SMTT(30)
<1>5. \A k \in 1 .. L + 1 : k = 1 \/ (k - 1 \in 1 .. L /\ t[k] = s[k - 1])
  <2>1. ASSUME NEW k \in 1 .. L + 1, k # 1 PROVE k - 1 \in 1 .. L /\ k - 1 + 1 = k
    BY <2>1, SMTT(30)
  <2> QED BY <2>1
<1>6. /\ DOMAIN sm2 = DOMAIN sm \cup {c} /\ Told(sm2, cs2, f, c, Own(c)) /\ NoneShared(sm2)
      /\ \A m \in DOMAIN sm : m # c => \A R : Told(sm, cs, f, m, R) => Told(sm2, cs2, f, m, R)
  BY SMTT(30) DEF Retells
<1>7. Part(path, c, 1) = Own(c)
  BY <1>3, PartsAre
<1>8. ASSUME NEW k \in 1 .. L + 1
      PROVE  /\ t[k].node \in live /\ (k # 1 => t[k].next \in DOMAIN tree[t[k].node].children)
             /\ Told(sm2, cs2, f, t[k].node, Part(path, t[k].node, t[k].next))
  <2>1. CASE k = 1
    BY <1>3, <1>6, <1>7, <2>1, ZenonT(40)
  <2>2. CASE k # 1
    <3>1. PICK j \in 1 .. L : j = k - 1 /\ t[k] = s[j]
      BY <1>5, <2>2
    <3>2. s[j].next \in DOMAIN tree[s[j].node].children
      BY <1>1, SMTT(30)
    <3>3. s[j].node \in DOMAIN sm /\ s[j].node # c /\ Told(sm, cs, f, s[j].node, Part(path, s[j].node, s[j].next))
      BY <1>1, <1>4 DEF Told
    <3> QED BY <1>1, <1>6, <3>1, <3>2, <3>3
  <2> QED BY <2>1, <2>2, SMTT(30)
<1>9. ASSUME NEW k \in 1 .. L + 1, NEW l \in 1 .. L + 1, k < l PROVE t[l].node < t[k].node
  <2>1. PICK j \in 1 .. L : j = l - 1 /\ t[l] = s[j]
    BY <1>5, <1>9
  <2>2. CASE k = 1
    BY <1>4, <2>1, <2>2
  <2>3. CASE k # 1
    <3>1. PICK i \in 1 .. L : i = k - 1 /\ t[k] = s[i]
      BY <1>5, <2>3
    <3>2. i < j
      BY <1>9, <2>1, <3>1
    <3> QED BY <1>1, <2>1, <3>1, <3>2
  <2> QED BY <2>2, <2>3
<1>10. ASSUME NEW n \in DOMAIN sm2
       PROVE  n \in live /\ ((\E k \in 1 .. L + 1 : t[k].node = n) \/ Told(sm2, cs2, f, n, ValuesBelow(path[n])))
  <2>1. CASE n = c
    <3>1. 1 \in 1 .. L + 1
      OBVIOUS
    <3> QED BY <1>3, <2>1, <3>1
  <2>2. CASE n # c
    <3>1. n \in DOMAIN sm /\ n \in live
      BY <1>1, <1>6, <2>2
    <3>2. CASE \E k \in 1 .. L : s[k].node = n
      <4>1. PICK k \in 1 .. L : s[k].node = n
        BY <3>2
      <4>2. k + 1 \in 1 .. L + 1
        BY SMTT(30)
      <4> QED BY <3>1, <4>1, <4>2
    <3>3. CASE Told(sm, cs, f, n, ValuesBelow(path[n]))
      BY <1>6, <2>2, <3>1, <3>3
    <3> QED BY <1>1, <3>1, <3>2, <3>3, SMTT(30)
  <2> QED BY <2>1, <2>2, SMTT(30)
<1>11. Below(live, t)
  BY <1>8, <1>9 DEF Below
<1> QED BY <1>6, <1>8, <1>10, <1>11 DEF UnderWay

LEMMA VisitTells == ASSUME TableInv, BranchInv, SumInv, Visit PROVE SumInv'
<1>1. PICK top : top = Head(stack)
  OBVIOUS
<1>2. PICK c : c = tree[top.node].children[top.next]
  OBVIOUS
<1>3. PICK frame : frame = [node |-> c, next |-> 1]
  OBVIOUS
<1>4. /\ phase = "aggregate" /\ phase' = "aggregate" /\ stack # <<>> /\ UNCHANGED <<report, tree>>
      /\ top.next <= Len(tree[top.node].children)
      /\ Enter(c) /\ stack' = <<frame>> \o stack
  BY <1>1, <1>2, <1>3 DEF Visit
<1>5. report \in Reports /\ IsTree /\ StatsInv /\ SiblingsDiffer(tree) /\ stack \in Seq(Frames)
  BY <1>4 DEF TableInv, TreeInv, BranchInv, StackInv
<1>6. PICK L \in Nat \ {0} : L = Len(stack) /\ DOMAIN stack = 1 .. L
  BY <1>4, <1>5
<1>7. top = stack[1] /\ top \in Frames
  BY <1>1, <1>4, <1>5
<1>8. top.node \in DOMAIN tree /\ top.next \in DOMAIN tree[top.node].children
  <2>1. top.node \in DOMAIN tree
    BY <1>7 DEF Frames
  <2>2. PICK n \in Nat : n = Len(tree[top.node].children) /\ DOMAIN tree[top.node].children = 1 .. n
    BY <1>5, <2>1, TreeIs, ListIs
  <2>3. PICK i \in Nat \ {0} : i = top.next
    BY <1>7 DEF Frames
  <2>4. i \in 1 .. n
    BY <1>4, <2>2, <2>3
  <2> QED BY <2>1, <2>2, <2>3, <2>4
<1>9. c \in DOMAIN tree
  BY <1>2, <1>5, <1>8, TreeIs
<1>10. frame \in Frames /\ frame.node = c /\ frame.next = 1
  BY <1>3, <1>9 DEF Frames
<1>11. PICK t \in Seq(Frames) : Pushed(t, frame, stack, L)
  BY <1>5, <1>6, <1>10, PushIs, Zenon
<1>12. /\ stack' = t /\ DOMAIN t = 1 .. L + 1 /\ t[1].node = c /\ t[1].next = 1
       /\ \A k \in 1 .. L : t[k + 1] = stack[k]
  BY <1>4, <1>10, <1>11 DEF Pushed
<1>13. ASSUME NEW live, NEW path, NEW f, Stands(live, path), IsTotal(f)
       PROVE  UnderWay(live, path, f, stack', summary', cells')
  <2>1. UnderWay(live, path, f, stack, summary, cells)
    BY <1>4, <1>13 DEF SumInv
  <2>2. c \in live
    <3>1. 1 \in DOMAIN stack
      BY <1>6
    <3>2. IsChild(tree, top.node, c) /\ top.node \in live
      BY <1>2, <1>7, <1>8, <2>1, <3>1 DEF IsChild, UnderWay, Below
    <3> QED BY <1>13, <3>2 DEF Stands, Family
  <2>3. Retells(summary, cells, summary', cells', f, c, Own(c))
    BY <1>4, <1>5, <1>13, <2>1, <2>2, EnterTells DEF UnderWay
  <2> QED BY <1>2, <1>5, <1>6, <1>7, <1>8, <1>12, <1>13, <2>1, <2>3, GoingDown
<1>14. ASSUME NEW live, NEW path, NEW f, Stands(live, path)', IsTotal(f)'
       PROVE  UnderWay(live, path, f, stack, summary, cells)'
  BY <1>4, <1>13, <1>14, SayingStays, TellingStays
<1> QED BY <1>4, <1>14 DEF SumInv

\* ... and the one on top returning to the next.
Popped(t, s, L) ==
  /\ DOMAIN s = 1 .. L /\ DOMAIN t = 1 .. L - 1 /\ t[1].next = s[2].next + 1
  /\ \A k \in 1 .. L - 1 : t[k].node = s[k + 1].node /\ (k # 1 => t[k] = s[k + 1])

LEMMA GoingUp ==
  ASSUME NEW live, NEW path, Stands(live, path), NEW f,
         NEW s, NEW L \in Nat, L > 1, NEW sm, NEW cs, UnderWay(live, path, f, s, sm, cs),
         Told(sm, cs, f, s[1].node, ValuesBelow(path[s[1].node])),
         NEW t, Popped(t, s, L),
         NEW sm2, NEW cs2, Retells(sm, cs, sm2, cs2, f, s[2].node, Part(path, s[2].node, s[2].next + 1))
  PROVE  UnderWay(live, path, f, t, sm2, cs2)
<1>1. /\ \A k \in 1 .. L : s[k].node \in live /\ (k # 1 => s[k].next \in DOMAIN tree[s[k].node].children)
      /\ \A k, l \in 1 .. L : k < l => s[l].node < s[k].node
      /\ \A k \in 1 .. L : Told(sm, cs, f, s[k].node, Part(path, s[k].node, s[k].next))
      /\ \A n \in DOMAIN sm :
           n \in live /\ ((\E k \in 1 .. L : s[k].node = n) \/ Told(sm, cs, f, n, ValuesBelow(path[n])))
  BY DEF UnderWay, Below, Popped
<1>2. PICK n : n = s[2].node
  OBVIOUS
<1> USE DEF Popped
<1>3. /\ DOMAIN sm2 = DOMAIN sm \cup {n} /\ Told(sm2, cs2, f, n, Part(path, n, s[2].next + 1)) /\ NoneShared(sm2)
      /\ \A m \in DOMAIN sm : m # n => \A R : Told(sm, cs, f, m, R) => Told(sm2, cs2, f, m, R)
  BY <1>2 DEF Retells
<1>4. 1 \in 1 .. L /\ 2 \in 1 .. L /\ 1 \in 1 .. L - 1 /\ 1 + 1 = 2
  OBVIOUS
<1>5. \A k \in 1 .. L - 1 : k + 1 \in 1 .. L /\ k + 1 # 1
  OBVIOUS
<1>6. n \in DOMAIN sm /\ DOMAIN sm2 = DOMAIN sm
  BY <1>1, <1>2, <1>3, <1>4 DEF Told
<1>7. \A k \in 1 .. L : k # 2 => s[k].node # n
  <2> SUFFICES ASSUME NEW k \in 1 .. L, k # 2 PROVE s[k].node # n
    OBVIOUS
  <2>1. k < 2 \/ 2 < k
    OBVIOUS
  <2>2. PICK a \in Nat, b \in Nat : a = s[k].node /\ b = n
    BY <1>1, <1>2, <1>4 DEF Stands, Family
  <2>3. a < b \/ b < a
    BY <1>1, <1>2, <1>4, <2>1, <2>2
  <2> QED BY <2>2, <2>3
<1>8. ASSUME NEW k \in 1 .. L - 1
      PROVE  /\ t[k].node \in live /\ (k # 1 => t[k].next \in DOMAIN tree[t[k].node].children)
             /\ Told(sm2, cs2, f, t[k].node, Part(path, t[k].node, t[k].next))
  <2>1. CASE k = 1
    BY <1>1, <1>2, <1>3, <1>4, <2>1
  <2>2. CASE k # 1
    <3>1. PICK j \in 1 .. L : j = k + 1 /\ j # 1 /\ j # 2 /\ t[k] = s[j]
      BY <1>5, <2>2
    <3>2. s[j].node \in DOMAIN sm /\ s[j].node # n /\ Told(sm, cs, f, s[j].node, Part(path, s[j].node, s[j].next))
      BY <1>1, <1>7, <3>1 DEF Told
    <3>3. s[j].next \in DOMAIN tree[s[j].node].children
      BY <1>1, <3>1
    <3> QED BY <1>1, <1>3, <3>1, <3>2, <3>3
  <2> QED BY <2>1, <2>2
<1>9. ASSUME NEW k \in 1 .. L - 1, NEW l \in 1 .. L - 1, k < l PROVE t[l].node < t[k].node
  <2>1. PICK i \in 1 .. L, j \in 1 .. L : i = k + 1 /\ j = l + 1 /\ i < j
    BY <1>5, <1>9
  <2>2. t[k].node = s[i].node /\ t[l].node = s[j].node
    BY <2>1
  <2> QED BY <1>1, <2>1, <2>2
<1>10. ASSUME NEW m \in DOMAIN sm2
       PROVE  m \in live /\ ((\E k \in 1 .. L - 1 : t[k].node = m) \/ Told(sm2, cs2, f, m, ValuesBelow(path[m])))
  <2>1. m \in DOMAIN sm /\ m \in live
    BY <1>1, <1>6
  <2>2. CASE m = n
    BY <1>2, <1>4, <2>1, <2>2
  <2>3. CASE m # n /\ \E k \in 1 .. L : s[k].node = m
    <3>1. PICK k \in 1 .. L : s[k].node = m
      BY <2>3
    <3>2. CASE k = 1
      BY <1>3, <2>1, <2>3, <3>1, <3>2
    <3>3. CASE k # 1
      <4>1. PICK i \in 1 .. L - 1 : i = k - 1 /\ i + 1 = k
        BY <3>3
      <4>2. t[i].node = m
        BY <3>1, <4>1
      <4> QED BY <2>1, <4>2
    <3> QED BY <3>2, <3>3
  <2>4. CASE m # n /\ Told(sm, cs, f, m, ValuesBelow(path[m]))
    BY <1>3, <2>1, <2>4
  <2> QED BY <1>1, <2>1, <2>2, <2>3, <2>4
<1>11. Below(live, t)
  BY <1>8, <1>9 DEF Below
<1> QED BY <1>3, <1>8, <1>10, <1>11 DEF UnderWay

\* What the topmost call tells when it went through all the children.
LEMMA TopTells ==
  ASSUME report \in Reports, IsTree, SiblingsDiffer(tree), NEW live, NEW path, Stands(live, path), NEW f,
         NEW s, s \in Seq(Frames), 1 \in DOMAIN s, NEW sm, NEW cs, UnderWay(live, path, f, s, sm, cs),
         s[1].next > Len(tree[s[1].node].children)
  PROVE  Told(sm, cs, f, s[1].node, ValuesBelow(path[s[1].node]))
<1>1. s[1].node \in live /\ Told(sm, cs, f, s[1].node, Part(path, s[1].node, s[1].next))
  BY DEF UnderWay, Below
<1>2. s[1].next \in Nat
  <2>1. s[1] \in Frames
    OBVIOUS
  <2> QED BY <2>1 DEF Frames
<1>3. Part(path, s[1].node, s[1].next) = ValuesBelow(path[s[1].node])
  BY <1>1, <1>2, PartsAre
<1> QED BY <1>1, <1>3

LEMMA ReturnTells == ASSUME TableInv, BranchInv, SumInv, Return PROVE SumInv'
<1>1. PICK c, n : c = Head(stack).node /\ n = stack[2].node
  OBVIOUS
<1>2. PICK merge : merge = MergeStat(summary[n].stat, summary[c].stat)
  OBVIOUS
<1>3. PICK sum : sum = [pkgs  |-> summary[n].pkgs + summary[c].pkgs,
                        types |-> summary[n].types + summary[c].types,
                        stat  |-> merge.cell]
  OBVIOUS
<1>4. /\ phase = "aggregate" /\ phase' = "aggregate" /\ Len(stack) > 1 /\ UNCHANGED <<report, tree>>
      /\ Head(stack).next > Len(tree[c].children)
      /\ summary' = [summary EXCEPT ![n] = sum] /\ cells' = merge.cells
      /\ stack' = [Tail(stack) EXCEPT ![1].next = @ + 1] /\ sum.stat = merge.cell
  BY <1>1, <1>2, <1>3 DEF Return
<1>5. report \in Reports /\ IsTree /\ StatsInv /\ SiblingsDiffer(tree) /\ stack \in Seq(Frames)
  BY <1>4 DEF TableInv, TreeInv, BranchInv, StackInv
<1>6. PICK L \in Nat : L = Len(stack) /\ L > 1 /\ DOMAIN stack = 1 .. L
  BY <1>4, <1>5
<1>7. 1 \in DOMAIN stack /\ 2 \in DOMAIN stack /\ 1 < 2
  BY <1>6
<1>8. stack[1] = Head(stack) /\ stack[1].node = c /\ stack[2].node = n
  BY <1>1, <1>5, <1>7
<1>9. tree[n].children[stack[2].next] = c
  <2>1. \A k \in DOMAIN stack : k # 1 => tree[stack[k].node].children[stack[k].next] = stack[k - 1].node
    BY <1>4 DEF TableInv, StackInv
  <2>2. 2 # 1 /\ 2 - 1 = 1
    OBVIOUS
  <2>3. tree[stack[2].node].children[stack[2].next] = stack[2 - 1].node
    BY <1>7, <2>1, <2>2
  <2> QED BY <1>8, <2>2, <2>3
<1>10. PICK t \in Seq(Frames) :
         /\ t = [Tail(stack) EXCEPT ![1].next = @ + 1] /\ Len(t) = L - 1
         /\ t[1].next = stack[2].next + 1
         /\ \A k \in 1 .. L - 1 : t[k].node = stack[k + 1].node /\ (k # 1 => t[k] = stack[k + 1])
  BY <1>5, <1>6, PopIs
<1>11. stack' = t /\ DOMAIN t = 1 .. L - 1
  BY <1>4, <1>10
<1>12. ASSUME NEW live, NEW path, NEW f, Stands(live, path), IsTotal(f)
       PROVE  UnderWay(live, path, f, stack', summary', cells')
  <2>1. UnderWay(live, path, f, stack, summary, cells)
    BY <1>4, <1>12 DEF SumInv
  <2>2. PICK below : below = ValuesBelow(path[c])
    OBVIOUS
  <2>3. Told(summary, cells, f, c, below)
    BY <1>4, <1>5, <1>7, <1>8, <1>12, <2>1, <2>2, TopTells
  <2>4. PICK S : S = Part(path, n, stack[2].next)
    OBVIOUS
  <2>5. /\ n \in live /\ c \in live /\ stack[2].next \in DOMAIN tree[n].children
        /\ Told(summary, cells, f, n, S) /\ n < c /\ NoneShared(summary)
    BY <1>7, <1>8, <2>1, <2>4 DEF UnderWay, Below
  <2>6. /\ S \in SUBSET AllValues /\ below \in SUBSET AllValues /\ S \cap below = {}
        /\ Part(path, n, stack[2].next + 1) = S \cup below
    <3>1. stack[2].next \in Nat
      <4>1. stack[2] \in Frames
        BY <1>5, <1>7
      <4> QED BY <4>1 DEF Frames
    <3> QED BY <1>5, <1>9, <1>12, <2>2, <2>4, <2>5, <3>1, PartsAre
  <2>7. n # c /\ n \in DOMAIN summary /\ c \in DOMAIN summary
    <3>1. n \in Nat /\ c \in Nat
      BY <1>12, <2>5 DEF Stands, Family
    <3> QED BY <2>3, <2>5, <3>1 DEF Told
  <2>8. Retells(summary, cells, summary', cells', f, n, S \cup below)
    BY <1>2, <1>4, <1>5, <1>12, <2>3, <2>5, <2>6, <2>7, MergeTells
  <2>9. PICK sm2, cs2 : sm2 = summary' /\ cs2 = cells'
    OBVIOUS
  <2>10. Popped(t, stack, L)
    BY <1>6, <1>10, <1>11 DEF Popped
  <2>11. /\ Told(summary, cells, f, stack[1].node, ValuesBelow(path[stack[1].node]))
         /\ Retells(summary, cells, sm2, cs2, f, stack[2].node, Part(path, stack[2].node, stack[2].next + 1))
    BY <1>8, <2>2, <2>3, <2>6, <2>8, <2>9
  <2>12. UnderWay(live, path, f, t, sm2, cs2)
    BY <1>6, <1>12, <2>1, <2>10, <2>11, GoingUp, Zenon
  <2> QED BY <1>11, <2>9, <2>12
<1>13. ASSUME NEW live, NEW path, NEW f, Stands(live, path)', IsTotal(f)'
       PROVE  UnderWay(live, path, f, stack, summary, cells)'
  BY <1>4, <1>12, <1>13, SayingStays, TellingStays
<1> QED BY <1>4, <1>13 DEF SumInv

\* At the end every live node has told all below it.
LEMMA AllAreTold ==
  ASSUME NEW tr, NEW live, Family(tr, live), NEW D, Root \in D,
         \A n \in D : \A c : IsChild(tr, n, c) => c \in D
  PROVE  live \subseteq D
<1> DEFINE Missing == live \ D
<1> SUFFICES ASSUME Missing # {} PROVE FALSE
  OBVIOUS
<1>1. Missing \subseteq Nat
  BY DEF Family
<1> HIDE DEF Missing
<1>2. PICK c \in Missing : \A m \in Missing : c <= m
  BY <1>1, LeastElement
<1>3. c \in live /\ c \notin D /\ c # Root /\ c \in Nat
  BY <1>1, <1>2 DEF Missing
<1>4. PICK m \in live : IsChild(tr, m, c)
  BY <1>3 DEF Family
<1>5. m < c /\ m \in Nat
  BY <1>4 DEF Family
<1>6. m \in D
  BY <1>2, <1>3, <1>5 DEF Missing
<1> QED BY <1>3, <1>4, <1>6

LEMMA EmittingTells == ASSUME TableInv, BranchInv, SumInv, StartEmit PROVE SumInv'
<1>1. /\ phase = "aggregate" /\ phase' = "emit" /\ Len(stack) = 1
      /\ Head(stack).next > Len(tree[Root].children)
      /\ UNCHANGED <<report, tree, stack, summary, cells>>
  BY DEF StartEmit
<1>2. /\ report \in Reports /\ IsTree /\ StatsInv /\ SiblingsDiffer(tree) /\ stack \in Seq(Frames)
      /\ stack[Len(stack)].node = Root
  BY <1>1 DEF TableInv, TreeInv, BranchInv, StackInv
<1>3. DOMAIN stack = {1} /\ Head(stack) = stack[1] /\ stack[1].node = Root
  BY <1>1, <1>2
<1>4. \A n \in DOMAIN summary : AllDone(n)
  <2>1. PendingInv'
    BY StartEmitSums DEF TableInv
  <2> QED BY <1>1, <1>2, <2>1, SumsStay DEF PendingInv
<1>5. ASSUME NEW live, NEW path, NEW f, Stands(live, path), IsTotal(f)
      PROVE  AllTold(live, path, f, summary', cells')
  <2>1. UnderWay(live, path, f, stack, summary, cells)
    BY <1>1, <1>5 DEF SumInv
  <2>2. Told(summary, cells, f, Root, ValuesBelow(path[Root]))
    BY <1>1, <1>2, <1>3, <1>5, <2>1, TopTells
  <2>3. \A n \in DOMAIN summary : Told(summary, cells, f, n, ValuesBelow(path[n]))
    BY <1>3, <2>1, <2>2 DEF UnderWay
  <2>4. \A n \in DOMAIN summary : \A c : IsChild(tree, n, c) => c \in DOMAIN summary
    BY <1>4 DEF AllDone, HasSummary, IsChild
  <2>5. live \subseteq DOMAIN summary
    BY <1>5, <2>2, <2>4, AllAreTold DEF Stands, Told
  <2> QED BY <1>1, <2>3, <2>5 DEF AllTold
<1>6. ASSUME NEW live, NEW path, NEW f, Stands(live, path)', IsTotal(f)'
      PROVE  AllTold(live, path, f, summary, cells)'
  BY <1>1, <1>5, <1>6, SayingStays, TellingStays
<1> QED BY <1>1, <1>6 DEF SumInv

LEMMA SumsGoOn == ASSUME TableInv, BranchInv, SumInv, BuildTable \/ UNCHANGED tablevars PROVE SumInv'
<1>1. CASE Down \/ Attach \/ StartCompress \/ Absorb \/ Descend
  <2>1. phase' \in {"attach", "compress"}
    BY <1>1 DEF Down, Attach, StartCompress, Absorb, Descend
  <2> QED BY <2>1 DEF SumInv
<1>2. CASE EmitNode \/ EndEmit \/ UNCHANGED tablevars
  <2>1. /\ UNCHANGED <<report, tree, stack, summary, cells>>
        /\ phase' = phase \/ (phase = "emit" /\ phase' \in {"emit", "done"})
    BY <1>2 DEF EmitNode, EndEmit, tablevars
  <2>2. ASSUME NEW live, NEW path, NEW f, Stands(live, path)', IsTotal(f)'
        PROVE  /\ phase' = "aggregate" => UnderWay(live, path, f, stack, summary, cells)'
               /\ phase' \in {"emit", "done"} => AllTold(live, path, f, summary, cells)'
    <3>1. Stands(live, path) /\ IsTotal(f)
      BY <2>1, <2>2, SayingStays
    <3>2. /\ phase = "aggregate" => UnderWay(live, path, f, stack, summary, cells)
          /\ phase \in {"emit", "done"} => AllTold(live, path, f, summary, cells)
      BY <3>1 DEF SumInv
    <3>3. stack' = stack /\ summary' = summary /\ cells' = cells
      BY <2>1
    <3> QED BY <2>1, <3>2, <3>3, TellingStays
  <2> QED BY <2>2 DEF SumInv
<1> QED BY <1>1, <1>2, StartSums, VisitTells, ReturnTells, EmittingTells DEF BuildTable

LEMMA SumsStart == ASSUME TreeInit PROVE SumInv
<1>1. phase = "attach"
  BY DEF TreeInit
<1> QED BY <1>1 DEF SumInv

LEMMA SumsOfPage == ASSUME PageRead, BranchInv, SumInv, [WriteNext]_writevars PROVE BranchInv' /\ SumInv'
<1>1. TableInv /\ TreeInv /\ (BuildTable \/ UNCHANGED tablevars)
  BY BuildsOrStays DEF BuildStep, WriteInv, WriteTypes, PageRead, TableInv
<1> QED BY <1>1, BranchesStay, SumsGoOn

\* What a row shows of a path's values.
LEMMA RowTells ==
  ASSUME report \in Reports, IsList(rows), RowsHang(rows), phase = "done", SumInv,
         NEW live, NEW path, NEW of, Listed(live, path, of), NEW f, IsTotal(f),
         NEW i \in NodeRowsOf, rows[i].cells # <<>>
  PROVE  PathOf[i] \in Names /\ Tells(f, rows[i].cells[1], ValuesBelow(PathOf[i]))
<1>1. PICK w : w = Shown
  OBVIOUS
<1>2. /\ Family(tree, live) /\ Spells(tree, live, path) /\ Houses(tree, live, path, Goals, {})
      /\ RowsShow(w, live, path, rows, of)
  BY <1>1 DEF Listed, ListInv
<1>3. i \in NodesAt(rows)
  BY DEF NodeRowsOf, NodesAt
<1>4. PICK n : n = of[i]
  OBVIOUS
<1>5. n \in live /\ ShowsNode(rows[i], w[n])
  BY <1>2, <1>3, <1>4 DEF RowsShow, RowShows
<1>6. PathOf[i] = path[n] /\ path[n] \in Names
  BY <1>2, <1>4, <1>5, PathsRead DEF Spells
<1>7. rows[i].cells = NodeCells(n)
  <2>1. n \in DOMAIN tree
    BY <1>2, <1>5 DEF Family
  <2> QED BY <1>1, <1>5, <2>1, ShownIs DEF ShowsNode
<1>8. rows[i].cells[1] = IF summary[n].stat = 0 THEN NoStat ELSE cells[summary[n].stat]
  BY <1>7 DEF NodeCells
<1>9. Told(summary, cells, f, n, ValuesBelow(path[n]))
  BY <1>2, <1>5 DEF SumInv, Stands, AllTold
<1>10. CASE summary[n].stat = 0
  BY <1>6, <1>8, <1>9, <1>10, NoneTold DEF Told
<1>11. CASE summary[n].stat # 0
  BY <1>6, <1>8, <1>9, <1>11 DEF Told
<1> QED BY <1>10, <1>11

\* Each row's mean is over the applicable values at or below the path it spells,
\* each once, provided the packages' relative paths differ.
THEOREM MeansAreRight == WriteSpec => []MeansAreOfTheSubtree
<1>1. PageRead /\ SumInv => MeansAreOfTheSubtree
  <2> SUFFICES ASSUME PageRead, SumInv, PageWritten, RelativePathsDiffer, NEW i \in NodeRowsOf, rows[i].cells # <<>>
               PROVE  LET values == ValuesBelow(PathOf[i])
                          stat == rows[i].cells[1]
                      IN /\ stat.count = Cardinality(values)
                         /\ stat.sum = MapThenSumSet(ValueOf, values)
                         /\ \A v \in values : ValueOf(v) \in stat.minimum .. stat.maximum
    BY DEF MeansAreOfTheSubtree
  <2>1. phase = "done"
    <3>1. rows # <<>>
      BY DEF NodeRowsOf
    <3> QED BY <3>1 DEF PageRead, PageInv, PageWritten
  <2>2. report \in Reports /\ IsList(rows)
    BY DEF PageRead, WriteInv, WriteTypes, TableInv, TreeInv, EmitInv, AreRows
  <2>3. PICK live, path, of : Listed(live, path, of)
    BY <2>1 DEF PageRead, PageLists
  <2>4. RowsHang(rows)
    BY DEF PageRead, GlyphsRight, GlyphInv
  <2>5. PICK f : IsTotal(f)
    BY <2>2, ValuesAre, SumExists DEF IsTotal
  <2>6. PathOf[i] \in Names /\ Tells(f, rows[i].cells[1], ValuesBelow(PathOf[i]))
    BY <2>1, <2>2, <2>3, <2>4, <2>5, RowTells
  <2>7. ValuesBelow(PathOf[i]) \in SUBSET AllValues /\ IsFiniteSet(ValuesBelow(PathOf[i]))
    BY <2>2, <2>5, <2>6, BelowIs, TotalIs
  <2>8. SummedUp(ValuesBelow(PathOf[i])) = f[ValuesBelow(PathOf[i])]
    <3>1. PICK All, w, S : All = AllValues /\ w = Weights /\ S = ValuesBelow(PathOf[i])
      OBVIOUS
    <3>2. WeighsValues(w, All) /\ S \in SUBSET All
      BY <2>2, <2>7, <3>1, ValuesAre DEF WeighsValues
    <3>3. IsSumOver(f, All, w) /\ IsFiniteSet(S)
      BY <2>5, <2>7, <3>1 DEF IsTotal
    <3>4. SummedUp(S) = f[S]
      BY <3>2, <3>3, MapThenSumIs, ZenonT(40)
    <3> QED BY <3>1, <3>4
  <2> QED BY <2>6, <2>8 DEF Tells, SummedUp
<1>2. WriteInit => PageRead /\ BranchInv /\ SumInv
  BY PageReadStarts, BranchesStart, SumsStart DEF WriteInit
<1>3. PageRead /\ BranchInv /\ SumInv /\ [WriteNext]_writevars => (PageRead /\ BranchInv /\ SumInv)'
  BY PageReadStays, SumsOfPage
<1> QED BY <1>1, <1>2, <1>3, PTL DEF WriteSpec
=============================================================================
