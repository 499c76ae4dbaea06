-------------------------- MODULE WorkerPoolProofs --------------------------
(***************************************************************************)
(* Proofs about WorkerPool for every TaskCount and every worker setting:   *)
(* type correctness, the safety invariants, and that the pool implements   *)
(* ParallelMap.                                                            *)
(***************************************************************************)
EXTENDS WorkerPool, FiniteSetTheorems, SharedLemmas

(***************************************************************************)
(* The strengthening.  ControlInv ties the caller's program counter to the *)
(* channel, to the answer and to why dispatch stopped; WorkerInv says what *)
(* each worker holds; ErrsInv that only finished tasks have an error.      *)
(***************************************************************************)
ControlInv ==
  /\ closed <=> pc = "wait" \/ (pc = "returned" /\ cfg.taskCount # 0)
  /\ pc # "returned" <=> outcome = PM!Pending
  /\ pc = "start" => next = 0 /\ wg = 0
  /\ pc \in {"dispatch", "close", "wait"} => cfg.taskCount # 0
  /\ pc \in {"close", "wait"} => next = cfg.taskCount \/ canceled

WorkerInv ==
  \A w \in Worker :
    /\ wstate[w] = "absent" <=> pc = "start"
    /\ wstate[w] = "exited" => closed
    /\ wstate[w] = "running" =>
         wtask[w] \in Task /\ wtask[w] < next /\ wtask[w] \notin finished

ErrsInv == \A i \in Task : errs[i] = "error" => i \in finished

\* The inductive invariant.
IInv ==
  /\ TypeOK
  /\ ControlInv
  /\ WorkerInv
  /\ ErrsInv
  /\ OneWriterPerSlot
  /\ HandedOutIsRunningOrFinished
  /\ WaitGroupCountsAlive
  /\ NoWorkerOutlivesRun
  /\ AnswerCoversEveryTask

-----------------------------------------------------------------------------
\* Sizes: newPool starts between 0 and TaskCount workers, whatever the setting,
\* and at least one when there is a task.
LEMMA PoolSizeType ==
  ASSUME cfg \in Configs
  PROVE  /\ cfg.taskCount \in Nat
         /\ PoolSize \in Nat
         /\ PoolSize <= cfg.taskCount
         /\ cfg.taskCount # 0 => PoolSize # 0
<1>1. cfg.taskCount \in Nat /\ cfg.workers \in Int
  BY ConfigsAssumption
<1>2. GoMaxProcs \in Nat \ {0}
  BY ProcsAssumption
<1> QED
  BY <1>1, <1>2 DEF PoolSize, PoolSizeOf, EffectiveWorkers, MinOf, MaxOf

\* The first error by index is one of the answers Run can give: when a task
\* failed there is a least failed index for the scan to stop at.
LEMMA FirstErrorType ==
  ASSUME cfg \in Configs, errs \in [Task -> {"nil", "error"}]
  PROVE  PM!FirstError(cfg.taskCount, errs)
           \in {PM!Succeeded} \cup {PM!TaskError(i) : i \in Task}
<1> DEFINE T == {i \in Task : errs[i] = "error"}
           IsFirst(i) == /\ errs[i] = "error"
                         /\ \A j \in Task : j < i => errs[j] = "nil"
<1>1. CASE T = {}
  BY <1>1 DEF PM!FirstError, Task
<1>2. CASE T # {}
  <2>1. T \subseteq Nat
    BY PoolSizeType DEF Task, PM!TaskOf
  <2>2. PICK m \in T : \A j \in T : m <= j
    BY <1>2, <2>1, LeastElement
  <2>3. \A j \in Task : j < m => errs[j] = "nil"
    BY <2>1, <2>2 DEF Task, PM!TaskOf
  <2>4. \E i \in Task : IsFirst(i)
    BY <2>2, <2>3
  <2>5. (CHOOSE i \in Task : IsFirst(i)) \in Task
    BY <2>4, Zenon
  <2>6. PM!FirstError(cfg.taskCount, errs)
          = PM!TaskError(CHOOSE i \in Task : IsFirst(i))
    BY <1>2, Zenon DEF PM!FirstError, Task
  <2> QED
    BY <2>5, <2>6
<1> QED
  BY <1>1, <1>2

-----------------------------------------------------------------------------
\* Every initial state satisfies the invariant.
LEMMA InitIInv == Init => IInv
<1> SUFFICES ASSUME Init PROVE IInv
  OBVIOUS
<1> USE DEF Init
<1>0. cfg.taskCount \in Nat /\ PoolSize \in Nat
  BY PoolSizeType
<1>1. TypeOK
  <2>1. next \in 0 .. cfg.taskCount /\ wg \in 0 .. PoolSize
    BY <1>0
  <2>2. /\ wstate \in [Worker -> {"absent", "receiving", "running", "exited"}]
        /\ wtask \in [Worker -> Task \cup {NoTask}]
        /\ errs \in [Task -> {"nil", "error"}]
        /\ finished \subseteq Task
    OBVIOUS
  <2>3. outcome \in {PM!Pending, PM!Succeeded, PM!CtxError}
                      \cup {PM!TaskError(i) : i \in Task}
    OBVIOUS
  <2> QED
    BY <2>1, <2>2, <2>3 DEF TypeOK
<1>2. ControlInv
  BY DEF ControlInv, PM!Pending
<1>3. WorkerInv
  BY DEF WorkerInv
<1>4. ErrsInv
  BY DEF ErrsInv
<1>5. Running = {} /\ Alive = {}
  BY DEF Running, Alive
<1>6. OneWriterPerSlot
  BY <1>5 DEF OneWriterPerSlot
<1>7. HandedOutIsRunningOrFinished
  BY <1>0, <1>5 DEF HandedOutIsRunningOrFinished, Task, PM!TaskOf
<1>8. WaitGroupCountsAlive
  BY <1>5, FS_EmptySet DEF WaitGroupCountsAlive
<1>9. NoWorkerOutlivesRun /\ AnswerCoversEveryTask
  BY DEF NoWorkerOutlivesRun, AnswerCoversEveryTask
<1> QED
  BY <1>1, <1>2, <1>3, <1>4, <1>6, <1>7, <1>8, <1>9 DEF IInv

\* The four kinds of answer are different values.
LEMMA AnswersDiffer ==
  /\ PM!Succeeded # PM!Pending
  /\ PM!CtxError # PM!Pending
  /\ \A i : PM!TaskError(i) # PM!Pending
  BY DEF PM!Succeeded, PM!Pending, PM!CtxError, PM!TaskError

\* The sets the invariant ranges over depend on cfg alone.
LEMMA SameShape ==
  ASSUME cfg' = cfg
  PROVE  Task' = Task /\ Worker' = Worker /\ PoolSize' = PoolSize
  BY DEF Task, Worker, PoolSize, PM!TaskOf

\* The wait group counts a finite set.
LEMMA AliveIsFinite ==
  ASSUME cfg \in Configs
  PROVE  IsFiniteSet(Alive) /\ Cardinality(Alive) \in Nat
<1>1. IsFiniteSet(Worker)
  BY PoolSizeType, FS_Interval DEF Worker
<1>2. Alive \in SUBSET Worker
  BY DEF Alive
<1>3. IsFiniteSet(Alive)
  BY <1>1, <1>2, FS_Subset
<1> QED
  BY <1>3, FS_CardinalityType

\* newPool's wg.Add(workers) counts every goroutine it starts.
LEMMA NewPoolPreserves ==
  ASSUME IInv, NewPool
  PROVE  IInv'
<1> USE DEF NewPool, GroupSize
<1>0. /\ cfg \in Configs /\ cfg' = cfg
      /\ cfg.taskCount \in Nat /\ PoolSize \in Nat
      /\ Task' = Task /\ Worker' = Worker /\ PoolSize' = PoolSize
  BY PoolSizeType, SameShape DEF IInv, TypeOK
<1>1. TypeOK'
  BY <1>0 DEF IInv, TypeOK
<1>2. ControlInv'
  BY <1>0 DEF IInv, TypeOK, ControlInv
<1>3. WorkerInv'
  BY <1>0 DEF IInv, TypeOK, WorkerInv
<1>4. ErrsInv'
  BY <1>0 DEF IInv, ErrsInv
<1>5. Running' = {} /\ Running = {} /\ Alive' = Worker
  BY <1>0 DEF IInv, WorkerInv, Running, Alive
<1>6. OneWriterPerSlot'
  BY <1>5 DEF OneWriterPerSlot
<1>7. HandedOutIsRunningOrFinished'
  BY <1>0, <1>5 DEF IInv, HandedOutIsRunningOrFinished
<1>8. WaitGroupCountsAlive'
  BY <1>0, <1>5, FS_Interval DEF WaitGroupCountsAlive, Worker
<1>9. NoWorkerOutlivesRun' /\ AnswerCoversEveryTask'
  BY DEF NoWorkerOutlivesRun, AnswerCoversEveryTask
<1> QED
  BY <1>1, <1>2, <1>3, <1>4, <1>6, <1>7, <1>8, <1>9 DEF IInv

\* dispatch hands the next index to a worker that was receiving.
LEMMA HandOffPreserves ==
  ASSUME IInv, NEW w \in Worker, HandOff(w)
  PROVE  IInv'
<1> USE DEF HandOff, NextIndex
<1>0. /\ cfg \in Configs /\ cfg' = cfg
      /\ cfg.taskCount \in Nat /\ PoolSize \in Nat
      /\ Task' = Task /\ Worker' = Worker /\ PoolSize' = PoolSize
      /\ Task = 0 .. cfg.taskCount - 1
  BY PoolSizeType, SameShape DEF IInv, TypeOK, Task, PM!TaskOf
<1>1. TypeOK'
  BY <1>0 DEF IInv, TypeOK
<1>2. ControlInv'
  BY <1>0 DEF IInv, TypeOK, ControlInv
<1>3. next \in Task /\ next \notin finished /\ \A v \in Running : wtask[v] # next
  BY <1>0 DEF IInv, TypeOK, HandedOutIsRunningOrFinished
<1>4. /\ \A v \in Worker \ {w} : wstate'[v] = wstate[v] /\ wtask'[v] = wtask[v]
      /\ wstate'[w] = "running" /\ wtask'[w] = next
      /\ w \notin Running /\ w \in Alive
  BY <1>0 DEF IInv, TypeOK, Running, Alive
<1>5. Running' = Running \cup {w} /\ Alive' = Alive
  BY <1>0, <1>4 DEF Running, Alive
<1>6. WorkerInv'
  BY <1>0, <1>3, <1>4 DEF IInv, TypeOK, WorkerInv
<1>7. ErrsInv'
  BY <1>0 DEF IInv, ErrsInv
<1>8. OneWriterPerSlot'
  BY <1>0, <1>3, <1>4, <1>5 DEF IInv, OneWriterPerSlot, Running
<1>9. HandedOutIsRunningOrFinished'
  <2> SUFFICES ASSUME NEW i \in Task
               PROVE  i < next + 1 <=> \/ i \in finished
                                       \/ \E v \in Running \cup {w} : wtask'[v] = i
    BY <1>0, <1>5 DEF HandedOutIsRunningOrFinished
  <2>1. i < next <=> (i \in finished \/ \E v \in Running : wtask[v] = i)
    BY DEF IInv, HandedOutIsRunningOrFinished
  <2>2. \A v \in Running : wtask'[v] = wtask[v]
    BY <1>4 DEF Running
  <2>3. i < next + 1 <=> i < next \/ i = next
    BY <1>0 DEF IInv, TypeOK
  <2> QED
    BY <1>4, <2>1, <2>2, <2>3
<1>10. WaitGroupCountsAlive'
  BY <1>5 DEF IInv, WaitGroupCountsAlive
<1>11. NoWorkerOutlivesRun' /\ AnswerCoversEveryTask'
  BY DEF NoWorkerOutlivesRun, AnswerCoversEveryTask
<1> QED
  BY <1>1, <1>2, <1>6, <1>7, <1>8, <1>9, <1>10, <1>11 DEF IInv

\* A worker stores what fn returned in the slot that is its own.
LEMMA FinishTaskPreserves ==
  ASSUME IInv, NEW w \in Worker, FinishTask(w)
  PROVE  IInv'
<1> USE DEF FinishTask
<1>0. /\ cfg \in Configs /\ cfg' = cfg
      /\ cfg.taskCount \in Nat /\ PoolSize \in Nat
      /\ Task' = Task /\ Worker' = Worker /\ PoolSize' = PoolSize
      /\ Task = 0 .. cfg.taskCount - 1
  BY PoolSizeType, SameShape DEF IInv, TypeOK, Task, PM!TaskOf
<1>1. /\ w \in Running /\ w \in Alive
      /\ wtask[w] \in Task /\ wtask[w] < next /\ wtask[w] \notin finished
  BY DEF IInv, WorkerInv, Running, Alive
<1>2. TypeOK'
  BY <1>0, <1>1 DEF IInv, TypeOK
<1>3. ControlInv'
  BY <1>0 DEF IInv, TypeOK, ControlInv
<1>4. /\ \A v \in Worker \ {w} : wstate'[v] = wstate[v] /\ wtask'[v] = wtask[v]
      /\ wstate'[w] = "receiving"
      /\ \A i \in Task \ {wtask[w]} : errs'[i] = errs[i]
  BY <1>0, <1>1 DEF IInv, TypeOK
<1>5. Running' = Running \ {w} /\ Alive' = Alive
  BY <1>0, <1>1, <1>4 DEF Running, Alive
<1>6. pc # "start" /\ pc # "returned"
  BY <1>1 DEF IInv, WorkerInv, NoWorkerOutlivesRun
<1>7. WorkerInv'
  <2> SUFFICES ASSUME NEW v \in Worker
               PROVE  /\ wstate'[v] = "absent" <=> pc = "start"
                      /\ wstate'[v] = "exited" => closed
                      /\ wstate'[v] = "running" =>
                           /\ wtask'[v] \in Task /\ wtask'[v] < next
                           /\ wtask'[v] \notin finished \cup {wtask[w]}
    BY <1>0 DEF WorkerInv
  <2>1. CASE v = w
    BY <1>4, <1>6, <2>1
  <2>2. CASE v # w
    BY <1>1, <1>4, <2>2 DEF IInv, WorkerInv, OneWriterPerSlot, Running
  <2> QED
    BY <2>1, <2>2
<1>8. ErrsInv'
  BY <1>0, <1>4 DEF IInv, ErrsInv
<1>9. OneWriterPerSlot'
  <2>1. \A v \in Running' : v \in Running /\ v # w /\ wtask'[v] = wtask[v]
    BY <1>4, <1>5 DEF Running
  <2>2. \A v \in Running' : wtask[v] # wtask[w]
    BY <1>1, <2>1 DEF IInv, OneWriterPerSlot
  <2> QED
    BY <1>0, <2>1, <2>2 DEF IInv, OneWriterPerSlot
<1>10. HandedOutIsRunningOrFinished'
  <2> SUFFICES ASSUME NEW i \in Task
               PROVE  i < next <=> \/ i \in finished \cup {wtask[w]}
                                   \/ \E v \in Running \ {w} : wtask'[v] = i
    BY <1>0, <1>5 DEF HandedOutIsRunningOrFinished
  <2>1. i < next <=> (i \in finished \/ \E v \in Running : wtask[v] = i)
    BY DEF IInv, HandedOutIsRunningOrFinished
  <2>2. \A v \in Running \ {w} : wtask'[v] = wtask[v]
    BY <1>4 DEF Running
  <2> QED
    BY <1>1, <2>1, <2>2
<1>11. WaitGroupCountsAlive'
  BY <1>5 DEF IInv, WaitGroupCountsAlive
<1>12. NoWorkerOutlivesRun' /\ AnswerCoversEveryTask'
  BY <1>6 DEF NoWorkerOutlivesRun, AnswerCoversEveryTask
<1> QED
  BY <1>2, <1>3, <1>7, <1>8, <1>9, <1>10, <1>11, <1>12 DEF IInv

\* A worker that leaves its loop takes exactly itself out of the wait group.
LEMMA ExitWorkerPreserves ==
  ASSUME IInv, NEW w \in Worker, ExitWorker(w)
  PROVE  IInv'
<1> USE DEF ExitWorker
<1>0. /\ cfg \in Configs /\ cfg' = cfg
      /\ cfg.taskCount \in Nat /\ PoolSize \in Nat
      /\ Task' = Task /\ Worker' = Worker /\ PoolSize' = PoolSize
      /\ Worker = 1 .. PoolSize
  BY PoolSizeType, SameShape DEF IInv, TypeOK, Worker
<1>1. w \in Alive /\ w \notin Running
  BY DEF Alive, Running
<1>2. IsFiniteSet(Alive) /\ Cardinality(Alive) \in Nat
  BY <1>0, AliveIsFinite
<1>3. /\ \A v \in Worker \ {w} : wstate'[v] = wstate[v]
      /\ wstate'[w] = "exited"
  BY <1>0 DEF IInv, TypeOK
<1>4. Running' = Running /\ Alive' = Alive \ {w}
  BY <1>0, <1>1, <1>3 DEF Running, Alive
<1>5. /\ Cardinality(Alive \ {w}) = Cardinality(Alive) - 1
      /\ Cardinality(Alive \ {w}) \in Nat
  BY <1>1, <1>2, FS_RemoveElement, FS_CardinalityType
<1>6. WaitGroupCountsAlive'
  BY <1>4, <1>5 DEF IInv, WaitGroupCountsAlive
<1>7. wg' \in 0 .. PoolSize
  BY <1>0, <1>5 DEF IInv, TypeOK, WaitGroupCountsAlive
<1>8. TypeOK'
  BY <1>0, <1>7 DEF IInv, TypeOK
<1>9. pc # "start" /\ pc # "returned"
  BY <1>1 DEF IInv, WorkerInv, NoWorkerOutlivesRun
<1>10. ControlInv'
  BY <1>0, <1>9 DEF IInv, TypeOK, ControlInv
<1>11. WorkerInv'
  BY <1>0, <1>3, <1>9 DEF IInv, WorkerInv
<1>12. ErrsInv'
  BY <1>0 DEF IInv, ErrsInv
<1>13. OneWriterPerSlot' /\ HandedOutIsRunningOrFinished'
  BY <1>0, <1>4 DEF IInv, OneWriterPerSlot, HandedOutIsRunningOrFinished
<1>14. NoWorkerOutlivesRun' /\ AnswerCoversEveryTask'
  BY <1>9 DEF NoWorkerOutlivesRun, AnswerCoversEveryTask
<1> QED
  BY <1>6, <1>8, <1>10, <1>11, <1>12, <1>13, <1>14 DEF IInv

\* When wg.Wait() returns every worker is gone, so the scan reads final slots.
LEMMA PoolResultPreserves ==
  ASSUME IInv, PoolResult
  PROVE  IInv'
<1> USE DEF PoolResult, GroupIsDone, PoolAnswer
<1>0. /\ cfg \in Configs /\ cfg' = cfg
      /\ cfg.taskCount \in Nat /\ PoolSize \in Nat
      /\ Task' = Task /\ Worker' = Worker /\ PoolSize' = PoolSize
      /\ Task = 0 .. cfg.taskCount - 1 /\ Worker = 1 .. PoolSize
      /\ PM!FirstError(cfg.taskCount, errs)
           \in {PM!Succeeded} \cup {PM!TaskError(i) : i \in Task}
  BY PoolSizeType, SameShape, FirstErrorType
     DEF IInv, TypeOK, Task, Worker, PM!TaskOf
<1>1. Alive = {} /\ Running = {} /\ Alive' = {} /\ Running' = {}
  <2>1. IsFiniteSet(Alive)
    BY <1>0, AliveIsFinite
  <2>2. Cardinality(Alive) = 0
    BY DEF IInv, WaitGroupCountsAlive
  <2>3. Alive = {}
    BY <2>1, <2>2, FS_EmptySet
  <2> QED
    BY <1>0, <2>3 DEF Alive, Running
<1>2. cfg.taskCount # 0
  BY DEF IInv, ControlInv
<1>3. TypeOK'
  BY <1>0 DEF IInv, TypeOK
<1>4. ControlInv'
  BY <1>0, <1>2, AnswersDiffer DEF IInv, TypeOK, ControlInv
<1>5. WorkerInv' /\ ErrsInv'
  BY <1>0, <1>1 DEF IInv, WorkerInv, ErrsInv
<1>6. OneWriterPerSlot' /\ HandedOutIsRunningOrFinished'
  BY <1>0, <1>1 DEF IInv, OneWriterPerSlot, HandedOutIsRunningOrFinished
<1>7. WaitGroupCountsAlive' /\ NoWorkerOutlivesRun'
  BY <1>1 DEF IInv, WaitGroupCountsAlive, NoWorkerOutlivesRun
<1>8. AnswerCoversEveryTask'
  <2> SUFFICES ASSUME ~canceled PROVE finished = Task
    BY <1>0 DEF AnswerCoversEveryTask
  <2>1. next = cfg.taskCount
    BY DEF IInv, ControlInv
  <2>2. \A i \in Task : i \in finished
    BY <1>0, <1>1, <2>1 DEF IInv, HandedOutIsRunningOrFinished
  <2> QED
    BY <2>2 DEF IInv, TypeOK
<1> QED
  BY <1>3, <1>4, <1>5, <1>6, <1>7, <1>8 DEF IInv

\* With no task there is no worker, and only the context decides the answer.
LEMMA RunEmptyPoolPreserves ==
  ASSUME IInv, RunEmptyPool
  PROVE  IInv'
<1> USE DEF RunEmptyPool, PoolAnswer
<1>0. /\ cfg \in Configs /\ cfg' = cfg
      /\ Task' = Task /\ Worker' = Worker /\ PoolSize' = PoolSize
      /\ Task = {} /\ Worker = {}
  <2>1. cfg \in Configs
    BY DEF IInv, TypeOK
  <2>2. PoolSize = 0
    BY <2>1, PoolSizeType
  <2> QED
    BY <2>1, <2>2, SameShape DEF Task, Worker, PM!TaskOf
<1>1. Alive = {} /\ Running = {} /\ Alive' = {} /\ Running' = {}
  BY <1>0 DEF Alive, Running
<1>2. PM!FirstError(cfg.taskCount, errs) = PM!Succeeded
  BY <1>0 DEF PM!FirstError, Task
<1>3. TypeOK'
  BY <1>0, <1>2 DEF IInv, TypeOK
<1>4. ControlInv'
  BY <1>0, <1>2, AnswersDiffer DEF IInv, TypeOK, ControlInv
<1>5. WorkerInv' /\ ErrsInv'
  BY <1>0 DEF WorkerInv, ErrsInv
<1>6. OneWriterPerSlot' /\ HandedOutIsRunningOrFinished'
  BY <1>0, <1>1 DEF OneWriterPerSlot, HandedOutIsRunningOrFinished
<1>7. WaitGroupCountsAlive' /\ NoWorkerOutlivesRun'
  BY <1>1 DEF IInv, WaitGroupCountsAlive, NoWorkerOutlivesRun
<1>8. AnswerCoversEveryTask'
  <2>1. finished = {}
    BY <1>0 DEF IInv, TypeOK
  <2> QED
    BY <1>0, <1>2, <2>1 DEF AnswerCoversEveryTask
<1> QED
  BY <1>3, <1>4, <1>5, <1>6, <1>7, <1>8 DEF IInv

\* The steps that touch neither a worker nor a slot: dispatch stops, the
\* channel is closed, the context is canceled, or nothing happens.
LEMMA LocalStepsPreserve ==
  ASSUME IInv, StopDispatch \/ CloseTasks \/ CancelContext \/ UNCHANGED vars
  PROVE  IInv'
<1>0. /\ cfg \in Configs /\ cfg' = cfg
      /\ UNCHANGED <<next, wstate, wtask, wg, errs, outcome, finished>>
      /\ Task' = Task /\ Worker' = Worker /\ PoolSize' = PoolSize
      /\ Alive' = Alive /\ Running' = Running
  <2>1. cfg \in Configs /\ cfg' = cfg
        /\ UNCHANGED <<next, wstate, wtask, wg, errs, outcome, finished>>
    BY DEF IInv, TypeOK, StopDispatch, CloseTasks, CancelContext, vars
  <2>2. Task' = Task /\ Worker' = Worker /\ PoolSize' = PoolSize
    BY <2>1, SameShape
  <2> QED
    BY <2>1, <2>2 DEF Alive, Running
<1>1. /\ pc' = "returned" <=> pc = "returned"
      /\ pc' = "start" <=> pc = "start"
      /\ closed => closed'
  BY DEF StopDispatch, CloseTasks, CancelContext, vars
<1>2. TypeOK'
  BY <1>0 DEF IInv, TypeOK, StopDispatch, CloseTasks, CancelContext, vars
<1>3. ControlInv'
  BY <1>0 DEF IInv, TypeOK, ControlInv, StopDispatch, CloseTasks,
              CancelContext, vars
<1>4. WorkerInv' /\ ErrsInv'
  BY <1>0, <1>1 DEF IInv, WorkerInv, ErrsInv
<1>5. OneWriterPerSlot' /\ HandedOutIsRunningOrFinished'
  BY <1>0 DEF IInv, OneWriterPerSlot, HandedOutIsRunningOrFinished
<1>6. WaitGroupCountsAlive' /\ NoWorkerOutlivesRun' /\ AnswerCoversEveryTask'
  BY <1>0, <1>1 DEF IInv, WaitGroupCountsAlive, NoWorkerOutlivesRun,
                    AnswerCoversEveryTask
<1> QED
  BY <1>2, <1>3, <1>4, <1>5, <1>6 DEF IInv

\* Every step keeps the invariant.
LEMMA NextIInv == IInv /\ [Next]_vars => IInv'
<1> SUFFICES ASSUME IInv, [Next]_vars PROVE IInv'
  OBVIOUS
<1>1. CASE RunEmptyPool
  BY <1>1, RunEmptyPoolPreserves
<1>2. CASE NewPool
  BY <1>2, NewPoolPreserves
<1>3. CASE \E w \in Worker : HandOff(w)
  BY <1>3, HandOffPreserves
<1>4. CASE \E w \in Worker : FinishTask(w)
  BY <1>4, FinishTaskPreserves
<1>5. CASE \E w \in Worker : ExitWorker(w)
  BY <1>5, ExitWorkerPreserves
<1>6. CASE PoolResult
  BY <1>6, PoolResultPreserves
<1>7. CASE StopDispatch \/ CloseTasks \/ CancelContext \/ UNCHANGED vars
  BY <1>7, LocalStepsPreserve
<1> QED
  BY <1>1, <1>2, <1>3, <1>4, <1>5, <1>6, <1>7 DEF Next, Caller, Step, Returned

\* The inductive invariant holds of every reachable state.
THEOREM Invariance == Spec => []IInv
<1>1. QED
  BY InitIInv, NextIInv, PTL DEF Spec

\* Type correctness for every TaskCount and every worker setting.
THEOREM TypeCorrect == Spec => []TypeOK
<1>1. IInv => TypeOK
  BY DEF IInv
<1> QED
  BY <1>1, Invariance, PTL

\* No two goroutines ever write the same slot of errs.
THEOREM SlotsHaveOneWriter == Spec => []OneWriterPerSlot
<1>1. IInv => OneWriterPerSlot
  BY DEF IInv
<1> QED
  BY <1>1, Invariance, PTL

\* No index is lost between dispatch and the workers.
THEOREM NoIndexLost == Spec => []HandedOutIsRunningOrFinished
<1>1. IInv => HandedOutIsRunningOrFinished
  BY DEF IInv
<1> QED
  BY <1>1, Invariance, PTL

\* No goroutine outlives Run.
THEOREM WorkersEndBeforeRun == Spec => []NoWorkerOutlivesRun
<1>1. IInv => NoWorkerOutlivesRun
  BY DEF IInv
<1> QED
  BY <1>1, Invariance, PTL

\* Any answer but the context error covers every task and is the first error.
THEOREM AnswersAreComplete == Spec => []AnswerCoversEveryTask
<1>1. IInv => AnswerCoversEveryTask
  BY DEF IInv
<1> QED
  BY <1>1, Invariance, PTL

-----------------------------------------------------------------------------
\* After Run has returned no step of any goroutine changes what it shared.
THEOREM ReturnIsFinal == Spec => NothingAfterReturn
<1> DEFINE Quiet == pc = "returned" => UNCHANGED <<errs, finished, wstate, outcome>>
<1>1. IInv /\ [Next]_vars => [Quiet]_vars
  <2> SUFFICES ASSUME IInv, Next, pc = "returned"
               PROVE  UNCHANGED <<errs, finished, wstate, outcome>>
    BY DEF vars
  <2>1. \A w \in Worker : wstate[w] # "receiving" /\ wstate[w] # "running"
    BY DEF IInv, NoWorkerOutlivesRun, Alive
  <2>2. ~ \E w \in Worker : Step(w)
    BY <2>1 DEF Step, FinishTask, ExitWorker
  <2>3. ~ Caller
    BY DEF Caller, RunEmptyPool, NewPool, HandOff, StopDispatch, CloseTasks,
           PoolResult
  <2>4. CancelContext \/ Returned
    BY <2>2, <2>3 DEF Next
  <2> QED
    BY <2>4 DEF CancelContext, Returned, vars
<1> QED
  BY <1>1, Invariance, PTL DEF Spec, NothingAfterReturn

-----------------------------------------------------------------------------
\* The pool's initial states are initial states of ParallelMap.
LEMMA InitRefines == Init => PM!Init
<1> SUFFICES ASSUME Init PROVE PM!Init
  OBVIOUS
<1>1. cfg.taskCount \in Nat
  BY PoolSizeType DEF Init
<1> QED
  BY <1>1 DEF Init, PM!Init, Task

\* Every step of the pool is a step of ParallelMap or changes nothing it sees.
LEMMA StepRefines == IInv /\ [Next]_vars => [PM!Next]_PM!pmvars
<1> SUFFICES ASSUME IInv, [Next]_vars PROVE [PM!Next]_PM!pmvars
  OBVIOUS
<1>1. ASSUME NEW w \in Worker, FinishTask(w)
      PROVE  PM!Next
  <2>1. wtask[w] \in PM!TaskOf(cfg.taskCount) /\ wtask[w] \notin finished
    BY <1>1 DEF IInv, WorkerInv, FinishTask, Task
  <2>2. outcome = PM!Pending
    BY <1>1 DEF IInv, ControlInv, NoWorkerOutlivesRun, Alive, FinishTask
  <2>3. PM!FinishTask(wtask[w])
    BY <1>1, <2>1, <2>2 DEF FinishTask, PM!FinishTask
  <2> QED
    BY <2>1, <2>3 DEF PM!Next
<1>2. CASE PoolResult
  <2>1. ~canceled => finished = PM!TaskOf(cfg.taskCount)
    <3> SUFFICES ASSUME ~canceled PROVE finished = Task
      BY DEF Task
    <3>1. next = cfg.taskCount /\ cfg \in Configs
      BY <1>2 DEF PoolResult, GroupIsDone, PoolAnswer, IInv, ControlInv, TypeOK
    <3>2. Cardinality(Alive) = 0
      BY <1>2 DEF PoolResult, GroupIsDone, PoolAnswer, IInv, WaitGroupCountsAlive
    <3>3. Running = {}
      BY <3>1, <3>2, AliveIsFinite, FS_EmptySet DEF Running, Alive
    <3>4. cfg.taskCount \in Nat /\ Task = 0 .. cfg.taskCount - 1
      BY <3>1, PoolSizeType DEF Task, PM!TaskOf
    <3>5. \A i \in Task : i \in finished
      BY <3>1, <3>3, <3>4 DEF IInv, HandedOutIsRunningOrFinished
    <3> QED
      BY <3>5 DEF IInv, TypeOK
  <2> QED
    BY <1>2, <2>1 DEF PoolResult, PoolAnswer, PM!Next, PM!Answer, IInv, ControlInv
<1>3. CASE RunEmptyPool
  <2>1. finished = PM!TaskOf(cfg.taskCount)
    BY <1>3 DEF RunEmptyPool, IInv, TypeOK, Task, PM!TaskOf
  <2>2. PM!FirstError(cfg.taskCount, errs) = PM!Succeeded
    BY <1>3 DEF RunEmptyPool, PM!FirstError, PM!TaskOf
  <2> QED
    BY <1>3, <2>1, <2>2 DEF RunEmptyPool, PoolAnswer, PM!Next, PM!Answer, IInv, ControlInv
<1>4. CASE CancelContext
  BY <1>4 DEF CancelContext, PM!Next, PM!CancelContext
<1>5. ASSUME \/ NewPool \/ StopDispatch \/ CloseTasks \/ UNCHANGED vars
             \/ \E w \in Worker : HandOff(w) \/ ExitWorker(w)
      PROVE  UNCHANGED PM!pmvars
  BY <1>5 DEF NewPool, StopDispatch, CloseTasks, HandOff, ExitWorker, vars,
              PM!pmvars
<1> QED
  BY <1>1, <1>2, <1>3, <1>4, <1>5 DEF Next, Caller, Step, Returned

\* workerpool.Run implements ParallelMap.
THEOREM Refinement == Spec => ImplementsParallelMap
<1>1. QED
  BY InitRefines, StepRefines, Invariance, PTL
     DEF Spec, ImplementsParallelMap, PM!Spec
=============================================================================
