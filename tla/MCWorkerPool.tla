---------------------------- MODULE MCWorkerPool ----------------------------
(* Instances of WorkerPool for TLC. *)
EXTENDS WorkerPool

CONSTANTS MaxTasks,      \* bound on TaskCount
          WorkerSettings \* values of the Workers setting; 0 asks for GoMaxProcs

MCConfigs == [taskCount : 0 .. MaxTasks, workers : WorkerSettings]
=============================================================================
