----------------------------- MODULE CliProofs -----------------------------
(***************************************************************************)
(* Proofs about Cli: for every set of command lines and of violations, the *)
(* exit code tells what became of the report, nothing is written without   *)
(* an analysis, no file stays open, and the browser sees a whole page.     *)
(*                                                                         *)
(* The invariant says of every step what the steps before it have done:    *)
(* which way the run took, what it found, and what became of each file.    *)
(***************************************************************************)
EXTENDS Cli, TLAPS

Resolving == {"flags", "format", "gating", "weights"}
Starting  == {"startCPU", "beginCPU", "analyze"}
Analyzed  == {"openHeap", "writeHeap", "closeHeap"}
Guiding   == {"createGuide", "closeGuide"}
Writing   == {"openSink", "render", "closeSink", "browser", "gate"}
Ending    == {"unwind", "exited"}

\* Which way the run took.
WayInv ==
  /\ pc \in {"format", "gating", "weights"} \cup Starting \cup Analyzed => args.mode = "run"
  /\ pc \in Guiding => WantsGuide(args)
  /\ pc \in Writing \cup {"unwind"} => args.mode = "run" \/ WantsGuide(args)
  /\ pc \in {"weights"} \cup Starting \cup Analyzed \cup Writing /\ args.mode = "run" => GatingIsValid(args)

\* What became of the destination, at every step of the way.
SinkInv ==
  /\ pc \in Resolving \cup Starting \cup Analyzed \cup Guiding \cup {"openSink"}
       => sink = "unopened" /\ dest = "untouched" /\ outcome = "none"
  /\ pc \in {"render", "closeSink"} => sink = "open" /\ dest # "complete" /\ outcome = "none"
  /\ pc \in {"browser", "gate"} => sink = "closed" /\ dest = "complete" /\ outcome = "ok"
  /\ pc \in Ending => sink # "open" /\ (dest = "complete" => sink = "closed" /\ outcome = "ok")
  /\ dest # "untouched" => pc \in Writing \cup Ending

\* What the analysis and the heap profile left behind.
FoundInv ==
  /\ pc \in Analyzed => found # NoReport
  /\ pc \in Writing /\ args.mode = "run" =>
       found # NoReport /\ (args.heap => file["heap"] = "closed")
  /\ NoReportWithoutAnalysis

\* What became of the other files.
FileInv ==
  /\ pc \in Resolving => \A f \in File : file[f] = "absent"
  /\ file["guide"] = "open" => pc = "closeGuide"
  /\ file["heap"] = "open" => pc \in {"writeHeap", "closeHeap"}
  /\ file["cpu"] = "open" => profiling \/ pc = "beginCPU"
  /\ pc = "beginCPU" => file["cpu"] = "open"
  /\ profiling => file["cpu"] = "open"
  /\ profiling => pc \in {"analyze"} \cup Analyzed \cup Writing \cup {"unwind"}

\* When the exit code is decided, and what it tells.
CodeInv ==
  /\ pc \in Ending <=> code # Undecided
  /\ pc \in Ending =>
       /\ args.mode = "run" \/ WantsGuide(args) =>
            (code \in {ExitOK, ExitPolicy} <=> dest = "complete")
       /\ code = ExitPolicy <=> dest = "complete" /\ args.mode = "run" /\ args.check /\ found > 0
       /\ code = ExitUsage => pc = "exited" /\ dest = "untouched" /\ \A f \in File : file[f] = "absent"
       /\ args.mode = "run" /\ args.check /\ dest = "complete" => args.rules = "valid"

BrowserInv ==
  browser # "none" => pc \in {"gate"} \cup Ending /\ dest = "complete" /\ sink = "closed" /\ outcome = "ok"

IInv == TypeOK /\ WayInv /\ SinkInv /\ FoundInv /\ FileInv /\ CodeInv /\ BrowserInv

USE DEF File, Resolving, Starting, Analyzed, Guiding, Writing, Ending

-----------------------------------------------------------------------------
\* The invariant holds of a command that has not started.
LEMMA InitInv == Init => IInv
BY CliAssumption, ZenonT(60)
DEF Init, Sink!Init, IInv, TypeOK, Sink!TypeOK, WayInv, SinkInv, FoundInv, NoReportWithoutAnalysis,
    FileInv, CodeInv, BrowserInv, NoReport, Undecided

\* A step keeps every variable in its range.
LEMMA TypeStep == TypeOK /\ [Next]_vars => TypeOK'
<1> SUFFICES ASSUME TypeOK, [Next]_vars PROVE TypeOK'
  OBVIOUS
<1> USE CliAssumption DEF TypeOK, Sink!TypeOK, worldvars, analysisvars, sinkvars, Goto, Stop, Fail,
        ExitOK, ExitFail, ExitUsage, ExitPolicy, ExitInterrupted, Undecided, NoReport
<1>1. CASE ParseFlags BY <1>1 DEF ParseFlags
<1>2. CASE ResolveFormat BY <1>2 DEF ResolveFormat
<1>3. CASE ResolveGating BY <1>3 DEF ResolveGating
<1>4. CASE ResolveWeights BY <1>4 DEF ResolveWeights
<1>5. CASE CreateGuide BY <1>5 DEF CreateGuide
<1>6. CASE CloseGuide BY <1>6 DEF CloseGuide
<1>7. CASE StartCPU BY <1>7 DEF StartCPU
<1>8. CASE BeginCPU
  <2>1. profiling' \in BOOLEAN
    BY <1>8, Zenon DEF BeginCPU
  <2>2. file' \in [File -> {"absent", "open", "closed"}]
    BY <1>8 DEF BeginCPU
  <2> QED BY <1>8, <2>1, <2>2 DEF BeginCPU
<1>9. CASE AnalysisSucceeds BY <1>9 DEF AnalysisSucceeds
<1>10. CASE AnalysisFails BY <1>10 DEF AnalysisFails, FailureCode, FacadeError, AfterFailure
<1>11. CASE OpenHeap BY <1>11 DEF OpenHeap
<1>12. CASE WriteHeap BY <1>12 DEF WriteHeap, HeapFile
<1>13. CASE CloseHeap BY <1>13 DEF CloseHeap
<1>14. CASE OpenSink BY <1>14 DEF OpenSink, Sink!OpenFails, Sink!Open
<1>15. CASE Render BY <1>15 DEF Render, Sink!Deliver
<1>16. CASE CloseSink BY <1>16 DEF CloseSink, Sink!CloseWell, Sink!CloseBadly
<1>17. CASE OpenBrowser BY <1>17 DEF OpenBrowser
<1>18. CASE Gate BY <1>18 DEF Gate, GateCode
<1>19. CASE Unwind
  <2>1. profiling' \in BOOLEAN /\ file' \in [File -> {"absent", "open", "closed"}]
    BY <1>19 DEF Unwind
  <2> QED BY <1>19, <2>1 DEF Unwind
<1>20. CASE Interrupt BY <1>20 DEF Interrupt
<1>21. CASE BrowserCloses BY <1>21 DEF BrowserCloses
<1>22. CASE UNCHANGED vars BY <1>22 DEF vars
<1> QED
  BY <1>1, <1>2, <1>3, <1>4, <1>5, <1>6, <1>7, <1>8, <1>9, <1>10, <1>11, <1>12, <1>13, <1>14,
     <1>15, <1>16, <1>17, <1>18, <1>19, <1>20, <1>21, <1>22 DEF Next, Step, Exited

\* A step keeps the invariant.
LEMMA InvStep == IInv /\ [Next]_vars => IInv'
<1> SUFFICES ASSUME IInv, [Next]_vars PROVE IInv'
  OBVIOUS
<1>t. TypeOK'
  BY TypeStep DEF IInv
<1> USE <1>t, CliAssumption
    DEF IInv, TypeOK, Sink!TypeOK, WayInv, SinkInv, FoundInv, NoReportWithoutAnalysis, FileInv,
        CodeInv, BrowserInv, worldvars, analysisvars, sinkvars, Goto, Stop, Fail,
        ExitOK, ExitFail, ExitUsage, ExitPolicy, ExitInterrupted, Undecided, NoReport
<1>1. CASE ParseFlags BY <1>1 DEF ParseFlags, WantsGuide
<1>2. CASE ResolveFormat BY <1>2 DEF ResolveFormat
<1>3. CASE ResolveGating BY <1>3 DEF ResolveGating
<1>4. CASE ResolveWeights BY <1>4 DEF ResolveWeights
<1>5. CASE CreateGuide BY <1>5 DEF CreateGuide, WantsGuide
<1>6. CASE CloseGuide BY <1>6 DEF CloseGuide, WantsGuide
<1>7. CASE StartCPU BY <1>7 DEF StartCPU
<1>8. CASE BeginCPU BY <1>8 DEF BeginCPU
<1>9. CASE AnalysisSucceeds BY <1>9 DEF AnalysisSucceeds
<1>10. CASE AnalysisFails BY <1>10 DEF AnalysisFails, FailureCode, FacadeError, AfterFailure
<1>11. CASE OpenHeap BY <1>11 DEF OpenHeap
<1>12. CASE WriteHeap BY <1>12 DEF WriteHeap, HeapFile
<1>13. CASE CloseHeap BY <1>13 DEF CloseHeap
<1>14. CASE OpenSink BY <1>14 DEF OpenSink, Sink!OpenFails, Sink!Open
<1>15. CASE Render BY <1>15 DEF Render, Sink!Deliver
<1>16. CASE CloseSink BY <1>16 DEF CloseSink, Sink!CloseWell, Sink!CloseBadly, GoesOn
<1>17. CASE OpenBrowser BY <1>17 DEF OpenBrowser
<1>18. CASE Gate BY <1>18 DEF Gate, GateCode, GatingIsValid
<1>19. CASE Unwind BY <1>19 DEF Unwind
<1>20. CASE Interrupt BY <1>20 DEF Interrupt
<1>21. CASE BrowserCloses BY <1>21 DEF BrowserCloses
<1>22. CASE UNCHANGED vars BY <1>22 DEF vars
<1> QED
  BY <1>1, <1>2, <1>3, <1>4, <1>5, <1>6, <1>7, <1>8, <1>9, <1>10, <1>11, <1>12, <1>13, <1>14,
     <1>15, <1>16, <1>17, <1>18, <1>19, <1>20, <1>21, <1>22 DEF Next, Step, Exited

LEMMA Invariance == Spec => []IInv
BY InitInv, InvStep, PTL DEF Spec

-----------------------------------------------------------------------------
\* Whatever fails and whenever the interrupt comes, the exit code says whether
\* all of the report or guide is at its destination.
THEOREM ExitCodeIsRight == Spec => []ExitCodeMatchesReport
<1>1. IInv => ExitCodeMatchesReport
  BY DEF IInv, CodeInv, ExitCodeMatchesReport
<1> QED BY <1>1, Invariance, PTL

\* The destination is not touched before there is a report to put there.
THEOREM DestinationWaitsForReport == Spec => []NoReportWithoutAnalysis
<1>1. IInv => NoReportWithoutAnalysis
  BY DEF IInv, FoundInv
<1> QED BY <1>1, Invariance, PTL

\* No way out of the command leaves a file open or the profiler running.
THEOREM NothingStaysOpen == Spec => []FilesClosedAtExit
<1>1. IInv => FilesClosedAtExit
  BY DEF IInv, TypeOK, SinkInv, FileInv, FilesClosedAtExit
<1> QED BY <1>1, Invariance, PTL

\* The browser is never started on a page that is not complete, and none that is
\* shown is written to again.
THEOREM BrowserOnWholePage == Spec => []BrowserSeesWholeReport
<1>1. IInv => BrowserSeesWholeReport
  BY DEF IInv, BrowserInv, BrowserSeesWholeReport
<1> QED BY <1>1, Invariance, PTL
=============================================================================
