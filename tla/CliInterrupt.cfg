SPECIFICATION Spec
CONSTANTS
  Arguments <- MCPlainRun
  Violations = {0}
INVARIANTS
  CanceledAnalysisExits130
