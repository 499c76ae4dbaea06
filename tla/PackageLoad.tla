---------------------------- MODULE PackageLoad ----------------------------
(***************************************************************************)
(* Loading the packages of one analysis (typefacts/adapters/goloader): up  *)
(* to MaxTries calls of packages.Load under an exponential backoff with a  *)
(* scheduling budget, racing the caller's cancellation, and then the       *)
(* selection of what was loaded.                                           *)
(*                                                                         *)
(* backoff.Retry and packages.Load are external libraries, modelled from   *)
(* how retryPackageList and loadPackageAttempt use them.  Time is counted  *)
(* in ticks of 20 ms, the fifth of the first delay, so that the jitter of  *)
(* 20% is a whole number of ticks.                                         *)
(***************************************************************************)
EXTENDS Integers, Sequences

CONSTANTS
  Failures,       \* errors packages.Load may return, each the set of what
                  \* errors.Is and errors.As find in its chain
  LoadTicks,      \* how long one call of packages.Load may take
  TimerLag,       \* how late the backoff timer may fire
  MaxTries,       \* loadMaxAttempts
  Budget,         \* loadRetryBudget
  Initial,        \* loadRetryInitial
  Maximum,        \* loadRetryMaximum
  Multiplier,     \* loadRetryMultiplier
  JitterDivisor   \* 1 / loadRetryJitter

ASSUME LoadAssumption ==
  /\ LoadTicks \subseteq Nat
  /\ TimerLag \in Nat
  /\ {MaxTries, Initial, Maximum, Multiplier, JitterDivisor} \subseteq Nat \ {0}
  /\ Budget \in Nat
  /\ Initial <= Maximum
  /\ \A e \in Failures : e # {}

VARIABLES
  pc,         \* where load is
  continueOnError, \* opts.ContinueOnError; never changes
  request,    \* the fields of the *packages.Config and patterns built once
  attempt,    \* the same fields as the current call of packages.Load sees them
  tries,      \* operation calls counted by backoff.Retry
  calls,      \* history: what each call of packages.Load turned out to be
  elapsed,    \* time since Retry started
  interval,   \* the backoff policy's current interval
  wake,       \* when the pending timer is due
  loaded,     \* what the last call of packages.Load returned
  lastErr,    \* and its error chain, {} for nil
  canceled,   \* the caller's context is canceled
  result      \* what loadPackages returned

vars == <<pc, continueOnError, request, attempt, tries, calls, elapsed, interval,
          wake, loaded, lastErr, canceled, result>>

Field    == {"dir", "buildFlags", "env", "patterns"}
Original == [f \in Field |-> "original"]

\* What a list of loaded packages is made of, as far as selection can tell:
\* packages that type-checked, broken ones, and synthesized ".test" mains.
PackageKind == {"sound", "broken", "testmain"}

NoErr   == {}
NoWake  == -1
Pending == [kind |-> "pending", err |-> NoErr]
Loaded  == [kind |-> "loaded", err |-> NoErr]
Fail(e) == [kind |-> "failed", err |-> e]

-----------------------------------------------------------------------------
\* transientSystemError's list.
TransientErrno == {"EINTR", "EAGAIN", "EMFILE", "ENFILE", "ETIMEDOUT",
                   "ECONNRESET", "ECONNABORTED"}

\* Mutant: a context error inside the chain does not rule a retry out.
TransientLoadError_ForgetsContext(e) ==
  e \cap TransientErrno # {} \/ "NetTimeout" \in e

TransientLoadError(e) ==
  /\ e \cap {"Canceled", "DeadlineExceeded"} = {}
  /\ e \cap TransientErrno # {} \/ "NetTimeout" \in e

\* Mutant: the clone shares the slices of the template.
SharedFields_ShallowCopy == {"buildFlags", "env", "patterns"}

\* The fields that the config handed to packages.Load shares with the template:
\* the struct copy separates dir, slices.Clone the three slices.
SharedFields == Field \ ({"dir"} \cup {"buildFlags", "env", "patterns"})

\* The delays NextBackOff may draw for an interval.
Delays(i) == (i - i \div JitterDivisor) .. (i + i \div JitterDivisor)

\* NextBackOff's growth of the interval, up to its ceiling.
NextInterval(i) == IF i * Multiplier > Maximum THEN Maximum ELSE i * Multiplier

\* loadPackageList's emptiness check and selectLoadedPackages.
SelectPackages(kinds) ==
  IF kinds = {} THEN Fail({"errNoPackagesMatched"})
  ELSE IF "broken" \in kinds /\ ~continueOnError
         THEN Fail({"errPackageLoadFailures"})
  ELSE IF "sound" \notin kinds THEN Fail({"errNoLoadablePackages"})
  ELSE Loaded

\* loadPackageAttempt's look at the context.
MayCall == ~canceled

\* finishPackageAttempt: the context first, even after a success; then the
\* error's class (mutant: a success is kept although the context is done).
Verdict_KeepsSuccess ==
  IF lastErr = NoErr THEN "ok"
  ELSE IF ~canceled /\ TransientLoadError(lastErr) THEN "transient"
  ELSE "permanent"

Verdict ==
  IF canceled THEN "permanent"
  ELSE IF lastErr = NoErr THEN "ok"
  ELSE IF TransientLoadError(lastErr) THEN "transient"
  ELSE "permanent"

\* backoff.Retry's limits (external), WithMaxTries and WithMaxElapsedTime
\* (mutant: no retry at all).
RetryAllowed_Never(d) == FALSE
RetryAllowed(d)       == tries < MaxTries /\ elapsed + d <= Budget

\* packageLoadError: the context's cause if there is one by now, or else
\* RetryError.LastErr.
ReportedError == IF canceled THEN {"Canceled"} ELSE lastErr

-----------------------------------------------------------------------------
Init ==
  /\ pc = "attempt"
  /\ continueOnError \in BOOLEAN
  /\ request = Original
  /\ attempt = Original
  /\ tries = 0
  /\ calls = <<>>
  /\ elapsed = 0
  /\ interval = Initial
  /\ wake = NoWake
  /\ loaded = {}
  /\ lastErr = NoErr
  /\ canceled \in BOOLEAN
  /\ result = Pending

\* loadPackageAttempt: the context first, then packages.Load on a fresh clone.
StartAttempt ==
  /\ pc = "attempt"
  /\ tries' = tries + 1
  /\ \/ /\ ~MayCall
        /\ pc' = "failed"
        /\ UNCHANGED <<attempt, calls>>
     \/ /\ MayCall
        /\ attempt' = request
        /\ calls' = Append(calls, "open")
        /\ pc' = "loading"
  /\ UNCHANGED <<continueOnError, request, elapsed, interval, wake, loaded,
                 lastErr, canceled, result>>

\* packages.Load (external) may write into whatever config it was given.
LoaderWrites ==
  /\ pc = "loading"
  /\ attempt' = [f \in Field |-> "written"]
  /\ request' = [f \in Field |-> IF f \in SharedFields THEN "written" ELSE request[f]]
  /\ UNCHANGED <<pc, continueOnError, tries, calls, elapsed, interval, wake,
                 loaded, lastErr, canceled, result>>

\* packages.Load (external) returns packages or an error, some time later.
LoaderReturns ==
  /\ pc = "loading"
  /\ \E d \in LoadTicks : elapsed' = elapsed + d
  /\ \/ \E kinds \in SUBSET PackageKind : loaded' = kinds /\ lastErr' = NoErr
     \/ \E e \in Failures : loaded' = {} /\ lastErr' = e
  /\ pc' = "finish"
  /\ UNCHANGED <<continueOnError, request, attempt, tries, calls, interval, wake,
                 canceled, result>>

FinishAttempt ==
  /\ pc = "finish"
  /\ calls' = [calls EXCEPT ![Len(calls)] = Verdict]
  /\ pc' = CASE Verdict = "ok"        -> "loaded"
            [] Verdict = "transient" -> "retry"
            [] Verdict = "permanent" -> "failed"
  /\ UNCHANGED <<continueOnError, request, attempt, tries, elapsed, interval, wake,
                 loaded, lastErr, canceled, result>>

\* backoff.Retry (external) after a failure that is not permanent: MaxTries,
\* then the delay against the budget, then the timer.
ScheduleRetry ==
  /\ pc = "retry"
  /\ \E d \in Delays(interval) :
       \/ ~RetryAllowed(d) /\ pc' = "failed" /\ UNCHANGED wake
       \/ RetryAllowed(d) /\ pc' = "backoff" /\ wake' = elapsed + d
  /\ interval' = NextInterval(interval)
  /\ UNCHANGED <<continueOnError, request, attempt, tries, calls, elapsed, loaded,
                 lastErr, canceled, result>>

\* The wait's select: the timer, possibly late and possibly although the context
\* is already done ...
TimerFires ==
  /\ pc = "backoff"
  /\ \E lag \in 0 .. TimerLag : elapsed' = wake + lag
  /\ wake' = NoWake
  /\ pc' = "attempt"
  /\ UNCHANGED <<continueOnError, request, attempt, tries, calls, interval, loaded,
                 lastErr, canceled, result>>

\* ... or the context.
CanceledInBackoff ==
  /\ pc = "backoff"
  /\ canceled
  /\ wake' = NoWake
  /\ pc' = "failed"
  /\ UNCHANGED <<continueOnError, request, attempt, tries, calls, elapsed, interval,
                 loaded, lastErr, canceled, result>>

ReportFailure ==
  /\ pc = "failed"
  /\ result' = Fail(ReportedError)
  /\ pc' = "returned"
  /\ UNCHANGED <<continueOnError, request, attempt, tries, calls, elapsed, interval,
                 wake, loaded, lastErr, canceled>>

\* The load succeeded: the list is checked, deduplicated and filtered.
SelectLoaded ==
  /\ pc = "loaded"
  /\ result' = SelectPackages(loaded)
  /\ pc' = "returned"
  /\ UNCHANGED <<continueOnError, request, attempt, tries, calls, elapsed, interval,
                 wake, loaded, lastErr, canceled>>

\* The caller's context (external).
CancelContext ==
  /\ ~canceled
  /\ canceled' = TRUE
  /\ UNCHANGED <<pc, continueOnError, request, attempt, tries, calls, elapsed,
                 interval, wake, loaded, lastErr, result>>

Returned == pc = "returned" /\ UNCHANGED vars

Next ==
  \/ StartAttempt
  \/ LoaderWrites
  \/ LoaderReturns
  \/ FinishAttempt
  \/ ScheduleRetry
  \/ TimerFires
  \/ CanceledInBackoff
  \/ ReportFailure
  \/ SelectLoaded
  \/ CancelContext
  \/ Returned

Spec == Init /\ [][Next]_vars
-----------------------------------------------------------------------------
\* The type invariant.
TypeOK ==
  /\ pc \in {"attempt", "loading", "finish", "retry", "backoff", "failed",
             "loaded", "returned"}
  /\ continueOnError \in BOOLEAN
  /\ {request, attempt} \subseteq [Field -> {"original", "written"}]
  /\ tries \in Nat
  /\ calls \in Seq({"open", "ok", "transient", "permanent"})
  /\ elapsed \in Nat
  /\ interval \in Initial .. Maximum
  /\ wake \in Nat \cup {NoWake}
  /\ loaded \subseteq PackageKind
  /\ lastErr \in Failures \cup {NoErr}
  /\ canceled \in BOOLEAN
  /\ result.kind \in {"pending", "loaded", "failed"}

\* The retries promised are made: a transient failure is reported only when the
\* attempts are used up or the next delay could overrun the budget.
GivesUpOnlyAtALimit ==
  pc = "returned" /\ ~canceled /\ TransientLoadError(result.err) =>
    \/ Len(calls) = MaxTries
    \/ \E i \in Initial .. interval : \E d \in Delays(i) :
         NextInterval(i) = interval /\ elapsed + d > Budget

\* A context that is done before the last attempt is judged decides the answer:
\* neither a load that succeeded meanwhile nor the last failure is reported.
CancellationWins ==
  [](canceled /\ pc \in {"attempt", "loading", "finish", "retry", "backoff", "failed"}
       => [](pc = "returned" => result = Fail({"Canceled"})))

\* Every attempt sees the request as it was built, whatever an earlier attempt's
\* loader did to the config it was handed.
EveryAttemptSeesTheRequest ==
  [][Len(calls') > Len(calls) => attempt' = Original]_vars

-----------------------------------------------------------------------------
LastCall == IF calls = <<>> THEN "none" ELSE calls[Len(calls)]

\* What an open call has brought so far is nobody's business but the attempt's.
Settled(x) == IF LastCall \in {"none", "open"} THEN {} ELSE x

Load == INSTANCE Loader WITH
  Failure <- Failures,
  SelectionError <- {{"errNoPackagesMatched"}, {"errPackageLoadFailures"},
                     {"errNoLoadablePackages"}},
  call <- LastCall,
  err <- Settled(lastErr),
  packages <- Settled(loaded),
  skipBroken <- continueOnError,
  answer <- result

\* The load is the one its caller relies on: no call of packages.Load starts once
\* the context is done, though the wait's select may pick the timer, and none
\* after an error with a context error in its chain, though DeadlineExceeded also
\* answers Timeout() like a network error; and the answer is the last call's,
\* packages exactly if it brought usable ones.
ImplementsLoader == Load!Spec
=============================================================================
