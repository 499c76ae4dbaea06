SPECIFICATION FairSpec
CONSTANTS
  Arguments <- MCArguments
  Violations = {0, 1, 4}
INVARIANTS
  ExitCodeMatchesReport
  NoReportWithoutAnalysis
  FilesClosedAtExit
  BrowserSeesWholeReport
PROPERTIES
  CliExits
