SPECIFICATION TypeSpec
CONSTANTS
  MethodCount = 3
  MaxFields = 2
  MaxFloat = 10
  CallGraphs <- MCCallGraphs
  Cases <- MCCases
INVARIANTS
  ResultIsLeastUsage
  IndexBetweenItsComponents
PROPERTIES
  FactsUntouched
  EvaluationEnds
