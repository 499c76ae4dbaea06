SPECIFICATION FairSpec
CONSTANT Loads <- MCLoads
INVARIANTS
  FactsAreConsistent
  ReportIsOfTheLoad
PROPERTIES
  NoReportAfterCancellation
  AnalysisReturns
