-------------------------------- MODULE Cli --------------------------------
(***************************************************************************)
(* One run of the command (internal/cli): parse and resolve the flags,     *)
(* start the CPU profile, analyze, write the heap profile, write the       *)
(* report, open it in a browser, gate on the policy, stop the CPU profile, *)
(* exit; or write the metrics guide instead.  Every step that touches a    *)
(* file may fail, an interrupt may come at any time once the analysis has  *)
(* been set up, and the facade stands between an analysis error and the    *)
(* exit code.  The destination of the report or guide is a ReportSink.     *)
(***************************************************************************)
EXTENDS Integers, FiniteSets

CONSTANTS
  Arguments,  \* the command lines, as far as the control flow reads them
  Violations  \* how many policy violations a report may have

ASSUME CliAssumption ==
  /\ Arguments \subseteq [mode     : {"run", "version", "help", "badflags"},
                          format   : {"unset", "text", "web", "unknown"},
                          web      : BOOLEAN,
                          output   : {"unset", "file"},
                          check    : BOOLEAN,
                          rules    : {"none", "valid", "invalid", "malformed"},
                          weights  : {"valid", "invalid"},
                          terminal : BOOLEAN, \* stdoutIsTerminal
                          cpu      : BOOLEAN,
                          heap     : BOOLEAN]
  /\ Violations \subseteq Nat

VARIABLES
  args,       \* the flags; never change
  pc,         \* the step about to be taken
  canceled,   \* the signal context is done
  found,      \* violations in the report the analysis returned, or NoReport
  cause,      \* the analysis' own error chain
  file,       \* what became of each file but the destination
  profiling,  \* pprof is sampling
  sink,       \* the stream to the destination (see ReportSink)
  dest,       \* the destination of the report, or of the guide
  outcome,    \* what writing it answered
  browser,    \* "none", "running" or "closed"
  code        \* the exit code, once decided

vars == <<args, pc, canceled, found, cause, file, profiling, sink, dest, outcome, browser, code>>

analysisvars == <<canceled, found, cause>>
sinkvars     == <<sink, dest, outcome>>
\* What the steps that only decide where to go leave alone.
worldvars    == <<args, analysisvars, file, profiling, sinkvars, browser>>

Sink == INSTANCE ReportSink

ExitOK == 0
ExitFail == 1
ExitUsage == 2
ExitPolicy == 3
ExitInterrupted == 130

NoReport == -1
Undecided == -1
File == {"cpu", "heap", "guide"}

-----------------------------------------------------------------------------
\* applyWebFormat: -web decides the format ...
FormatName(a) == IF a.web THEN "web" ELSE IF a.format = "unset" THEN "text" ELSE a.format

\* ... unless another was asked for; and ParseFormat knows the name.
FormatIsValid(a) ==
  /\ a.web => a.format \in {"unset", "web"}
  /\ FormatName(a) # "unknown"

\* runtimeConfiguration's webToDefault: a web report without -output goes to the
\* default file, and only that one is opened in a browser.
WebToDefault(a) == a.output = "unset" /\ FormatName(a) = "web"

\* wantsWebHelp (here args.web is: a true -web stands before any "--").
WantsGuide(a) == a.mode = "help" /\ a.web

\* resolveOutputPath and reportSink; the guide always goes to a file.
ToFile(a) == WantsGuide(a) \/ a.output = "file" \/ WebToDefault(a)

\* resolveGating and resolvePolicy (mutant: the rules are not looked at).
GatingIsValid_AnyRules(a) == TRUE
GatingIsValid(a) == a.check => a.rules = "valid"

\* openWebIfNeeded with openWebBrowser, openHelpIfTerminal.
Opens(a) == (WantsGuide(a) \/ WebToDefault(a)) /\ a.terminal

\* reusability.Analyze: "%w: %v" keeps the sentinel and drops the chain.
FacadeError(chain) == {"ErrAnalysis"}

\* failAnalyze.
FailureCode(chain) == IF "Canceled" \in chain THEN ExitInterrupted ELSE ExitFail

\* enforcePolicy with policyPassed and policyFailed.
GateCode(n) == IF args.check /\ n > 0 THEN ExitPolicy ELSE ExitOK

\* Where the run goes on; where it ends, before or after its deferred calls.
Goto(step) == pc' = step /\ UNCHANGED code
Stop(c)    == pc' = "exited" /\ code' = c
Fail       == pc' = "unwind" /\ code' = ExitFail

\* analyzeThenWrite: an analysis that failed ends the run (mutant: the report is
\* written anyway).
AfterFailure_GoesOn == "openSink"
AfterFailure == "unwind"

\* failWriteHeap closes the file it could not write (mutant: it does not).
HeapFile_Leaked == "open"
HeapFile == "closed"

\* writeAndGate and writeHelpDocs go on only after a write that succeeded
\* (mutant: after any).
GoesOn_Always(answer) == TRUE
GoesOn(answer) == answer = "ok"

\* browser.Open returns once the process is started (mutant: when it has ended).
OpenReturns_AtExit == browser # "running"
OpenReturns == TRUE

-----------------------------------------------------------------------------
Init ==
  /\ args \in Arguments
  /\ pc = "flags"
  /\ canceled = FALSE
  /\ found = NoReport
  /\ cause = {}
  /\ file = [f \in File |-> "absent"]
  /\ profiling = FALSE
  /\ Sink!Init
  /\ browser = "none"
  /\ code = Undecided

\* parseCLI: flags that do not parse, a malformed rule among them; -help, with or
\* without the guide; -version, whose printing may fail; or an analysis.
ParseFlags ==
  /\ pc = "flags"
  /\ \/ (args.mode = "badflags" \/ args.rules = "malformed") /\ Stop(ExitUsage)
     \/ args.rules # "malformed" /\
        \/ args.mode = "help" /\ ~args.web /\ Stop(ExitUsage)
        \/ WantsGuide(args) /\ Goto("createGuide")
        \/ args.mode = "version" /\ \E c \in {ExitOK, ExitFail} : Stop(c)
        \/ args.mode = "run" /\ Goto("format")
  /\ UNCHANGED worldvars

\* buildRuntime: the format, then the gating, then the weights.
ResolveFormat ==
  /\ pc = "format"
  /\ IF FormatIsValid(args) THEN Goto("gating") ELSE Stop(ExitUsage)
  /\ UNCHANGED worldvars

ResolveGating ==
  /\ pc = "gating"
  /\ IF GatingIsValid(args) THEN Goto("weights") ELSE Stop(ExitUsage)
  /\ UNCHANGED worldvars

ResolveWeights ==
  /\ pc = "weights"
  /\ IF args.weights = "valid" THEN Goto("startCPU") ELSE Stop(ExitFail)
  /\ UNCHANGED worldvars

-----------------------------------------------------------------------------
\* writeHelpDocsWith: create the temporary file, unless that fails ...
CreateGuide ==
  /\ pc = "createGuide"
  /\ \/ Stop(ExitFail) /\ UNCHANGED file
     \/ Goto("closeGuide") /\ file' = [file EXCEPT !["guide"] = "open"]
  /\ UNCHANGED <<args, analysisvars, profiling, sinkvars, browser>>

\* ... and finalizeHelpDocs: close it, to be written by name.
CloseGuide ==
  /\ pc = "closeGuide"
  /\ file' = [file EXCEPT !["guide"] = "closed"]
  /\ Stop(ExitFail) \/ Goto("openSink")
  /\ UNCHANGED <<args, analysisvars, profiling, sinkvars, browser>>

-----------------------------------------------------------------------------
\* maybeStartCPU with startCPUWith: create the file ...
StartCPU ==
  /\ pc = "startCPU"
  /\ \/ ~args.cpu /\ Goto("analyze") /\ UNCHANGED file
     \/ args.cpu /\ Fail /\ UNCHANGED file
     \/ args.cpu /\ Goto("beginCPU") /\ file' = [file EXCEPT !["cpu"] = "open"]
  /\ UNCHANGED <<args, analysisvars, profiling, sinkvars, browser>>

\* ... and start sampling into it, or close it again (failStartCPU).
BeginCPU ==
  /\ pc = "beginCPU"
  /\ \/ profiling' = TRUE /\ Goto("analyze") /\ UNCHANGED file
     \/ file' = [file EXCEPT !["cpu"] = "closed"] /\ Fail /\ UNCHANGED profiling
  /\ UNCHANGED <<args, analysisvars, sinkvars, browser>>

\* analyze returns a report, also when the interrupt came too late ...
AnalysisSucceeds ==
  /\ pc = "analyze"
  /\ found' \in Violations
  /\ Goto("openHeap")
  /\ UNCHANGED <<args, canceled, cause, file, profiling, sinkvars, browser>>

\* ... or an error, whose chain holds context.Canceled if that is why.
AnalysisFails ==
  /\ pc = "analyze"
  /\ cause' \in {{"Canceled"}, {"load"}}
  /\ ("Canceled" \in cause' => canceled)
  /\ code' = FailureCode(FacadeError(cause'))
  /\ pc' = AfterFailure
  /\ UNCHANGED <<args, canceled, found, file, profiling, sinkvars, browser>>

\* writeHeapIfNeeded with writeHeapWith: create the file ...
OpenHeap ==
  /\ pc = "openHeap"
  /\ \/ ~args.heap /\ Goto("openSink") /\ UNCHANGED file
     \/ args.heap /\ Fail /\ UNCHANGED file
     \/ args.heap /\ Goto("writeHeap") /\ file' = [file EXCEPT !["heap"] = "open"]
  /\ UNCHANGED <<args, analysisvars, profiling, sinkvars, browser>>

\* ... write to it, or close it and give up ...
WriteHeap ==
  /\ pc = "writeHeap"
  /\ \/ Goto("closeHeap") /\ UNCHANGED file
     \/ Fail /\ file' = [file EXCEPT !["heap"] = HeapFile]
  /\ UNCHANGED <<args, analysisvars, profiling, sinkvars, browser>>

\* ... and close it, which may fail as well.
CloseHeap ==
  /\ pc = "closeHeap"
  /\ file' = [file EXCEPT !["heap"] = "closed"]
  /\ Fail \/ Goto("openSink")
  /\ UNCHANGED <<args, analysisvars, profiling, sinkvars, browser>>

-----------------------------------------------------------------------------
\* writeReport and renderHelpDocs open the sink: a file is truncated, standard
\* output only wrapped.
OpenSink ==
  /\ pc = "openSink"
  /\ \/ Sink!OpenFails /\ Fail
     \/ Sink!Open /\ (dest' = "partial" <=> ToFile(args)) /\ Goto("render")
  /\ UNCHANGED <<args, analysisvars, file, profiling, browser>>

\* Part of the page arrives, and maybe no more.
Render ==
  /\ pc = "render"
  /\ Sink!Deliver \/ UNCHANGED sinkvars
  /\ Goto("closeSink")
  /\ UNCHANGED <<args, analysisvars, file, profiling, browser>>

\* Write closes its sink whatever the renderer said.
CloseSink ==
  /\ pc = "closeSink"
  /\ Sink!CloseWell \/ Sink!CloseBadly
  /\ IF GoesOn(outcome') THEN Goto("browser") ELSE Fail
  /\ UNCHANGED <<args, analysisvars, file, profiling, browser>>

\* openWebIfNeeded, openHelpIfTerminal: start the browser; a failure is only
\* logged.
OpenBrowser ==
  /\ pc = "browser"
  /\ browser' \in (IF Opens(args) THEN {"none", "running"} ELSE {"none"})
  /\ Goto("gate")
  /\ UNCHANGED <<args, analysisvars, file, profiling, sinkvars>>

\* enforcePolicy, on the report just written; the guide has nothing to enforce.
Gate ==
  /\ pc = "gate" /\ OpenReturns
  /\ code' = IF args.mode = "run" THEN GateCode(found) ELSE ExitOK
  /\ pc' = "unwind"
  /\ UNCHANGED worldvars

\* The deferred stopCPUProfile, on every way out: its error is only logged.
Unwind ==
  /\ pc = "unwind"
  /\ profiling' = FALSE
  /\ file' = [file EXCEPT !["cpu"] = IF profiling THEN "closed" ELSE @]
  /\ Goto("exited")
  /\ UNCHANGED <<args, analysisvars, sinkvars, browser>>

Step ==
  \/ ParseFlags \/ ResolveFormat \/ ResolveGating \/ ResolveWeights
  \/ CreateGuide \/ CloseGuide
  \/ StartCPU \/ BeginCPU
  \/ AnalysisSucceeds \/ AnalysisFails
  \/ OpenHeap \/ WriteHeap \/ CloseHeap
  \/ OpenSink \/ Render \/ CloseSink
  \/ OpenBrowser \/ Gate \/ Unwind

\* SIGINT or SIGTERM while signal.NotifyContext is in force; earlier, and while
\* the guide is written, the signal ends the process.
Interrupt ==
  /\ args.mode = "run"
  /\ pc \notin {"flags", "format", "gating", "weights", "exited"}
  /\ ~canceled /\ canceled' = TRUE
  /\ UNCHANGED <<args, pc, found, cause, file, profiling, sinkvars, browser, code>>

\* The user closes the browser, or never does.
BrowserCloses ==
  /\ browser = "running" /\ browser' = "closed"
  /\ UNCHANGED <<args, pc, analysisvars, file, profiling, sinkvars, code>>

Exited == pc = "exited" /\ UNCHANGED vars

Next == Step \/ Interrupt \/ BrowserCloses \/ Exited

Spec == Init /\ [][Next]_vars

\* The command goes on with what it does; nobody has to interrupt it or to close
\* the browser.
FairSpec == Spec /\ WF_vars(Step)

-----------------------------------------------------------------------------
\* The type invariant.
TypeOK ==
  /\ args \in Arguments
  /\ pc \in {"flags", "format", "gating", "weights", "createGuide", "closeGuide", "startCPU",
             "beginCPU", "analyze", "openHeap", "writeHeap", "closeHeap", "openSink", "render",
             "closeSink", "browser", "gate", "unwind", "exited"}
  /\ canceled \in BOOLEAN
  /\ found \in Violations \cup {NoReport}
  /\ cause \in {{}, {"Canceled"}, {"load"}}
  /\ file \in [File -> {"absent", "open", "closed"}]
  /\ profiling \in BOOLEAN
  /\ Sink!TypeOK
  /\ browser \in {"none", "running", "closed"}
  /\ code \in {Undecided, ExitOK, ExitFail, ExitUsage, ExitPolicy, ExitInterrupted}

\* The exit code tells what became of the report (README, Exit Codes): 0 or 3
\* exactly when all of it is at its destination, 3 exactly when it also has
\* violations of rules that were asked for, and 2 only before anything was
\* touched.  The same of the guide: 0 exactly when it is complete.
ExitCodeMatchesReport ==
  pc = "exited" =>
    /\ code # Undecided
    /\ args.mode = "run" \/ WantsGuide(args) =>
         (code \in {ExitOK, ExitPolicy} <=> dest = "complete")
    /\ code = ExitPolicy <=> dest = "complete" /\ args.mode = "run" /\ args.check /\ found > 0
    /\ code = ExitUsage => dest = "untouched" /\ \A f \in File : file[f] = "absent"
    /\ args.mode = "run" /\ args.check /\ dest = "complete" => args.rules = "valid"

\* An analysis that failed leaves an earlier report as it was: the destination
\* is truncated only once there is a report to put there, and what asked for a
\* heap profile that could not be written keeps the old report as well.
NoReportWithoutAnalysis ==
  args.mode = "run" /\ dest # "untouched" =>
    found # NoReport /\ (args.heap => file["heap"] = "closed")

\* Every file the run opened is closed and sampling has ended, whichever step
\* failed; and pprof never samples into a file that is not open.
FilesClosedAtExit ==
  /\ pc = "exited" => ~profiling /\ sink # "open" /\ \A f \in File : file[f] # "open"
  /\ profiling => file["cpu"] = "open"

\* The browser is started only on a page that is complete and closed, and that
\* nothing will write to again.
BrowserSeesWholeReport == browser # "none" => dest = "complete" /\ sink = "closed" /\ outcome = "ok"

\* The command ends, however long the browser stays open, and whether or not it
\* is interrupted (browser/funcs.go: Open does not wait for the browser).
CliExits == <>(pc = "exited")

\* failAnalyze and its test (cli_test.go:52): an analysis canceled by a signal
\* makes the command exit with 130.
CanceledAnalysisExits130 ==
  pc = "exited" /\ "Canceled" \in cause => code = ExitInterrupted
=============================================================================
