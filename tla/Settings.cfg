CONSTANT Inputs <- MCInputs
SPECIFICATION SettingsSpec
INVARIANTS
  OutcomeIsOfOneSpelling
  LateFailureIsAnEmptyPattern
CHECK_DEADLOCK FALSE
