---------------------------- MODULE ResultCache ----------------------------
(***************************************************************************)
(* The result cache (projectanalysis/adapters/resultcache): concurrent     *)
(* callers share one run of a factory, whose result, failure or panic is   *)
(* kept.  The waiting itself is done by the external singleton library,    *)
(* modelled from the options New passes it and the contract New states     *)
(* (at most one attempt, no deadline, a caller's cancellation ends only    *)
(* that caller's wait).                                                    *)
(***************************************************************************)
EXTENDS Integers, FiniteSets

CONSTANTS
  Caller,     \* the calls of the function New returns
  Value,      \* what the factory may compute
  Cancelable  \* the callers whose context may be canceled

VARIABLES
  factory,   \* "idle", "running" or "settled"
  attempts,  \* history: how often the factory was started
  outcome,   \* what the factory settled on
  caller,    \* where each call is
  answer,    \* what each call returned
  ctxDone    \* the callers whose context is canceled

rcvars == <<factory, attempts, outcome, caller, answer, ctxDone>>

None      == [kind |-> "none"]
GaveUp    == [kind |-> "canceled"]
Failure   == [kind |-> "failure"]   \* the factory's error
InitError == [kind |-> "initerror"] \* the same inside singleton.InitError
Panic     == [kind |-> "panic"]     \* replayed in every caller
Result(v) == [kind |-> "value", value |-> v]
Outcomes  == {Result(v) : v \in Value} \cup {Failure, Panic}

-----------------------------------------------------------------------------
\* WithMaxAttempts(1): a settled factory is never started again, whatever it
\* settled on (mutants: a failure is forgotten, so the next caller retries; a
\* caller's cancellation keeps the factory from starting).
MayStart_RetriesFailures ==
  factory = "idle" \/ (factory = "settled" /\ outcome = Failure)
MayStart_NotAfterCancel == factory = "idle" /\ ctxDone = {}
MayStart == factory = "idle"

\* The context the factory runs under: nobody's cancellation reaches it.
FactoryCanceled == FALSE

\* What provider.Get (external) returns once the factory has settled.
GetResult == IF outcome = Failure THEN InitError ELSE outcome

\* cacheError: the caller sees the cause, not the library's wrapper around it.
CacheError(o) == IF o = InitError THEN Failure ELSE o

Init ==
  /\ factory = "idle"
  /\ attempts = 0
  /\ outcome = None
  /\ caller = [c \in Caller |-> "idle"]
  /\ answer = [c \in Caller |-> None]
  /\ ctxDone = {}

\* provider.Get: the first call starts the factory.  A call whose context is
\* already done may leave without having started it.
Call(c) ==
  /\ caller[c] = "idle"
  /\ caller' = [caller EXCEPT ![c] = "waiting"]
  /\ \/ /\ MayStart
        /\ factory' = "running"
        /\ attempts' = attempts + 1
        /\ outcome' = None
     \/ /\ ~MayStart \/ c \in ctxDone
        /\ UNCHANGED <<factory, attempts, outcome>>
  /\ UNCHANGED <<answer, ctxDone>>

\* The factory ends: a value, an error, or a panic.
Settle(o) ==
  /\ factory = "running"
  /\ factory' = "settled"
  /\ outcome' = IF FactoryCanceled THEN GaveUp ELSE o
  /\ UNCHANGED <<attempts, caller, answer, ctxDone>>

\* A waiting call gets what the factory settled on ...
Answer(c) ==
  /\ caller[c] = "waiting"
  /\ factory = "settled"
  /\ answer' = [answer EXCEPT ![c] = CacheError(GetResult)]
  /\ caller' = [caller EXCEPT ![c] = "returned"]
  /\ UNCHANGED <<factory, attempts, outcome, ctxDone>>

\* ... or leaves because its own context is done.
GiveUp(c) ==
  /\ caller[c] = "waiting"
  /\ c \in ctxDone
  /\ answer' = [answer EXCEPT ![c] = GaveUp]
  /\ caller' = [caller EXCEPT ![c] = "returned"]
  /\ UNCHANGED <<factory, attempts, outcome, ctxDone>>

\* A caller's context (external) is canceled.
CancelCaller(c) ==
  /\ c \in Cancelable \ ctxDone
  /\ ctxDone' = ctxDone \cup {c}
  /\ UNCHANGED <<factory, attempts, outcome, caller, answer>>

-----------------------------------------------------------------------------
\* The type invariant.
TypeOK ==
  /\ factory \in {"idle", "running", "settled"}
  /\ attempts \in Nat
  /\ outcome \in Outcomes \cup {None, GaveUp}
  /\ caller \in [Caller -> {"idle", "waiting", "returned"}]
  /\ answer \in [Caller -> Outcomes \cup {None, GaveUp}]
  /\ ctxDone \subseteq Cancelable

\* A caller that cannot be canceled (an analyzer pass waits under
\* context.Background()) is answered, whoever else gave up meanwhile.
WaitersAreAnswered ==
  \A c \in Caller \ Cancelable : caller[c] = "waiting" ~> caller[c] = "returned"
=============================================================================
