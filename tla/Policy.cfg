SPECIFICATION Spec
CONSTANTS
  Segment = {"a", "b", "*", "**"}
  Reports <- MCReports
  RuleLists <- MCRuleLists
  DefaultMin = 7
  Tolerance = 1
INVARIANTS
  MatchIsCover
  DecidingRuleIsMostSpecific
  VerdictIsExact
