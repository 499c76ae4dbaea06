---------------------------- MODULE ParallelMap ----------------------------
(***************************************************************************)
(* What internal/shared/workerpool promises its two callers (the package   *)
(* extraction of goloader and the metric stage of projectanalysis), with   *)
(* no worker, channel or wait group in sight: fn runs at most once for     *)
(* each task index; the call answers once; an answer that is not the       *)
(* context error means that every task was run; the answer is the context  *)
(* error when the context is canceled at that moment, or else the first    *)
(* task error by index; and nothing is written after the answer.           *)
(***************************************************************************)
EXTENDS Integers

VARIABLES taskCount,  \* the number of task indices of this call
          finished,   \* the tasks whose fn has returned
          errs,       \* what fn returned for a task
          canceled,   \* is the caller's context canceled
          outcome     \* what the call answered

pmvars == <<taskCount, finished, errs, canceled, outcome>>

TaskOf(n) == 0 .. n - 1
NoTask    == -1

Pending     == [kind |-> "pending",  task |-> NoTask]
Succeeded   == [kind |-> "ok",       task |-> NoTask]
CtxError    == [kind |-> "canceled", task |-> NoTask]
TaskError(i) == [kind |-> "task",    task |-> i]

\* The first failed index, or success when no task failed.
FirstError(n, es) ==
  IF \E i \in TaskOf(n) : es[i] = "error"
    THEN TaskError(CHOOSE i \in TaskOf(n) :
                      /\ es[i] = "error"
                      /\ \A j \in TaskOf(n) : j < i => es[j] = "nil")
    ELSE Succeeded

Init ==
  /\ taskCount \in Nat
  /\ finished = {}
  /\ errs = [i \in TaskOf(taskCount) |-> "nil"]
  /\ canceled \in BOOLEAN
  /\ outcome = Pending

FinishTask(i) ==
  /\ outcome = Pending
  /\ i \notin finished
  /\ finished' = finished \cup {i}
  /\ \E e \in {"nil", "error"} : errs' = [errs EXCEPT ![i] = e]
  /\ UNCHANGED <<taskCount, canceled, outcome>>

CancelContext ==
  /\ ~canceled
  /\ canceled' = TRUE
  /\ UNCHANGED <<taskCount, finished, errs, outcome>>

Answer ==
  /\ outcome = Pending
  /\ ~canceled => finished = TaskOf(taskCount)
  /\ outcome' = IF canceled THEN CtxError ELSE FirstError(taskCount, errs)
  /\ UNCHANGED <<taskCount, finished, errs, canceled>>

Next ==
  \/ \E i \in TaskOf(taskCount) : FinishTask(i)
  \/ CancelContext
  \/ Answer

Spec == Init /\ [][Next]_pmvars
=============================================================================
