---------------------------- MODULE WorkerPool ----------------------------
(***************************************************************************)
(* One call of workerpool.Run (internal/shared/workerpool/funcs.go): the   *)
(* calling goroutine spawns the workers, hands the task indices out over   *)
(* an unbuffered channel, closes the channel, waits for the wait group and *)
(* reads the result; the workers receive, call fn and store its error; the *)
(* caller's context may be canceled at any time.                           *)
(*                                                                         *)
(* A send on the unbuffered channel is a rendezvous: dispatch and a worker *)
(* blocked in its receive step together (HandOff).  fn itself is the span  *)
(* during which a worker is "running"; what it answers is a free choice.   *)
(***************************************************************************)
EXTENDS Integers, FiniteSets

CONSTANTS
  Configs,     \* the (TaskCount, Workers) pairs Run may be called with
  GoMaxProcs   \* runtime.GOMAXPROCS(0)

ASSUME ConfigsAssumption == Configs \subseteq [taskCount : Nat, workers : Int]
ASSUME ProcsAssumption   == GoMaxProcs \in Nat \ {0}

VARIABLES
  cfg,       \* the RunConfig of this call; never changes
  pc,        \* where the calling goroutine is
  next,      \* dispatch's loop variable i
  closed,    \* has the tasks channel been closed
  wstate,    \* what each worker goroutine is doing
  wtask,     \* the index a running worker received
  wg,        \* the wait group's counter
  errs,      \* pool.errs
  canceled,  \* ctx.Done() is closed
  outcome,   \* what Run returned
  finished   \* history: the tasks whose fn has returned

vars == <<cfg, pc, next, closed, wstate, wtask, wg, errs, canceled, outcome,
          finished>>

PM == INSTANCE ParallelMap WITH taskCount <- cfg.taskCount

MinOf(a, b) == IF a < b THEN a ELSE b
MaxOf(a, b) == IF a > b THEN a ELSE b

\* Workers(configured, taskCount), which both callers apply to the setting.
EffectiveWorkers(configured, taskCount) ==
  MaxOf(MinOf(IF configured > 0 THEN configured ELSE GoMaxProcs, taskCount), 1)

\* newPool's own clamp of cfg.Workers to [1, TaskCount].
PoolSizeOf(c) ==
  MinOf(MaxOf(EffectiveWorkers(c.workers, c.taskCount), 1), c.taskCount)

PoolSize == PoolSizeOf(cfg)
Task     == PM!TaskOf(cfg.taskCount)
Worker   == 1 .. PoolSize
NoTask   == PM!NoTask

\* Every goroutine some call may spawn.
WorkerIds == UNION {1 .. PoolSizeOf(c) : c \in Configs}

Alive  == {w \in Worker : wstate[w] \in {"receiving", "running"}}

\* newPool's argument of wg.Add: one per worker, not one per task.
GroupSize == PoolSize

\* dispatch's i++ (mutant: forgotten).
NextIndex_Same == next
NextIndex == next + 1

\* What wg.Wait() waits for (mutant: it is not called).
GroupIsDone_NoWait == TRUE
GroupIsDone == wg = 0

\* The answer: the context error, or else the first task error by index
\* (mutant: the context is not consulted).
PoolAnswer_NoContext == PM!FirstError(cfg.taskCount, errs)
PoolAnswer == IF canceled THEN PM!CtxError
                          ELSE PM!FirstError(cfg.taskCount, errs)

-----------------------------------------------------------------------------
Init ==
  /\ cfg \in Configs
  /\ pc = "start"
  /\ next = 0
  /\ closed = FALSE
  /\ wstate = [w \in Worker |-> "absent"]
  /\ wtask = [w \in Worker |-> NoTask]
  /\ wg = 0
  /\ errs = [i \in Task |-> "nil"]
  /\ canceled \in BOOLEAN
  /\ outcome = PM!Pending
  /\ finished = {}

\* pickPoolRunner's first branch: with no task only the context can answer.
RunEmptyPool ==
  /\ pc = "start"
  /\ cfg.taskCount = 0
  /\ outcome' = PoolAnswer
  /\ pc' = "returned"
  /\ UNCHANGED <<cfg, next, closed, wstate, wtask, wg, errs, canceled, finished>>

NewPool ==
  /\ pc = "start"
  /\ cfg.taskCount # 0
  /\ wg' = GroupSize
  /\ wstate' = [w \in Worker |-> "receiving"]
  /\ pc' = "dispatch"
  /\ UNCHANGED <<cfg, next, closed, wtask, errs, canceled, outcome, finished>>

\* select case "tasks <- i": some worker is blocked in its receive.  Nothing
\* prefers the Done case when both are ready.
HandOff(w) ==
  /\ pc = "dispatch"
  /\ next < cfg.taskCount
  /\ wstate[w] = "receiving"
  /\ wstate' = [wstate EXCEPT ![w] = "running"]
  /\ wtask' = [wtask EXCEPT ![w] = next]
  /\ next' = NextIndex
  /\ UNCHANGED <<cfg, pc, closed, wg, errs, canceled, outcome, finished>>

\* dispatch returns: the loop is over, or select took the Done case.
StopDispatch ==
  /\ pc = "dispatch"
  /\ next = cfg.taskCount \/ canceled
  /\ pc' = "close"
  /\ UNCHANGED <<cfg, next, closed, wstate, wtask, wg, errs, canceled, outcome,
                 finished>>

CloseTasks ==
  /\ pc = "close"
  /\ closed' = TRUE
  /\ pc' = "wait"
  /\ UNCHANGED <<cfg, next, wstate, wtask, wg, errs, canceled, outcome, finished>>

\* fn returns and the worker stores what it returned, then receives again.
FinishTask(w) ==
  /\ wstate[w] = "running"
  /\ \E e \in {"nil", "error"} : errs' = [errs EXCEPT ![wtask[w]] = e]
  /\ finished' = finished \cup {wtask[w]}
  /\ wstate' = [wstate EXCEPT ![w] = "receiving"]
  /\ wtask' = [wtask EXCEPT ![w] = NoTask]
  /\ UNCHANGED <<cfg, pc, next, closed, wg, canceled, outcome>>

\* range over a closed channel ends; the deferred wg.Done() runs.
ExitWorker(w) ==
  /\ wstate[w] = "receiving"
  /\ closed
  /\ wstate' = [wstate EXCEPT ![w] = "exited"]
  /\ wg' = wg - 1
  /\ UNCHANGED <<cfg, pc, next, closed, wtask, errs, canceled, outcome, finished>>

\* wg.Wait() returns and poolResult reads ctx.Err(), then scans errs, which no
\* goroutine but this one can touch any more.
PoolResult ==
  /\ pc = "wait"
  /\ GroupIsDone
  /\ outcome' = PoolAnswer
  /\ pc' = "returned"
  /\ UNCHANGED <<cfg, next, closed, wstate, wtask, wg, errs, canceled, finished>>

\* The caller's context (external): canceled at any moment, once.
CancelContext ==
  /\ ~canceled
  /\ canceled' = TRUE
  /\ UNCHANGED <<cfg, pc, next, closed, wstate, wtask, wg, errs, outcome, finished>>

\* Run has returned: the only state in which nothing is left to do.
Returned == pc = "returned" /\ UNCHANGED vars

Caller  == \/ RunEmptyPool
           \/ NewPool
           \/ \E w \in Worker : HandOff(w)
           \/ StopDispatch
           \/ CloseTasks
           \/ PoolResult
Step(w) == FinishTask(w) \/ ExitWorker(w)

Next ==
  \/ Caller
  \/ \E w \in Worker : Step(w)
  \/ CancelContext
  \/ Returned

\* The Go scheduler runs every runnable goroutine, and every fn of the
\* repository returns; nobody promises that the context is ever canceled.
Fairness ==
  /\ WF_vars(Caller)
  /\ \A w \in WorkerIds : WF_vars(w \in Worker /\ Step(w))

Spec     == Init /\ [][Next]_vars
FairSpec == Spec /\ Fairness

-----------------------------------------------------------------------------
Running == {w \in Worker : wstate[w] = "running"}

\* The type invariant: every variable stays in the range the code gives it
\* (dispatch's index never passes TaskCount, the wait group's counter never
\* goes negative, which would panic).
TypeOK ==
  /\ cfg \in Configs
  /\ pc \in {"start", "dispatch", "close", "wait", "returned"}
  /\ next \in 0 .. cfg.taskCount
  /\ closed \in BOOLEAN
  /\ wstate \in [Worker -> {"absent", "receiving", "running", "exited"}]
  /\ wtask \in [Worker -> Task \cup {NoTask}]
  /\ wg \in 0 .. PoolSize
  /\ errs \in [Task -> {"nil", "error"}]
  /\ canceled \in BOOLEAN
  /\ outcome \in {PM!Pending, PM!Succeeded, PM!CtxError}
                  \cup {PM!TaskError(i) : i \in Task}
  /\ finished \subseteq Task

\* Every slot of errs (and, through fn, every result slot of the callers) has
\* one writer: a task index is at one worker at a time and is never at a
\* worker again once fn has returned for it.  This is what makes the unlocked
\* "errs[i] = fn(i)" of worker() free of data races.
OneWriterPerSlot ==
  /\ \A v, w \in Running : v # w => wtask[v] # wtask[w]
  /\ \A w \in Running : wtask[w] \in Task /\ wtask[w] \notin finished

\* No index is lost or skipped between dispatch and the workers: what has been
\* handed out is exactly what is running or finished, at every moment of any
\* interleaving of the workers.
HandedOutIsRunningOrFinished ==
  \A i \in Task : i < next <=> (i \in finished \/ \E w \in Running : wtask[w] = i)

\* The wait group counts the goroutines that can still write, so wg.Wait()
\* returning means that none can.
WaitGroupCountsAlive == wg = Cardinality(Alive)

\* No goroutine of the pool outlives Run: when Run has returned, every worker
\* is gone (a worker still inside fn would write a result slot the caller is
\* already reading).
NoWorkerOutlivesRun == pc = "returned" => Alive = {}

\* Any answer but the context error means that fn ran for every task, and it
\* is the first error by index whatever order the workers finished in (README:
\* results are deterministic).
AnswerCoversEveryTask ==
  pc = "returned" /\ outcome # PM!CtxError =>
     /\ finished = Task
     /\ outcome = PM!FirstError(cfg.taskCount, errs)

\* Once Run has returned nothing it shared with its caller changes.
NothingAfterReturn ==
  [][pc = "returned" => UNCHANGED <<errs, finished, wstate, outcome>>]_vars

\* workerpool.Run does what ParallelMap says.
ImplementsParallelMap == PM!Spec

\* Run always returns, canceled or not: neither dispatch nor a worker is left
\* blocked on the channel.
RunReturns == <>(pc = "returned")

\* funcs.go:16 "It stops handing out new tasks once the context is canceled".
NoHandOffOnceCanceled == [][canceled => next' = next]_vars

=============================================================================
