SPECIFICATION FairSpec
CONSTANTS
  Pass = {"a1", "a2", "b1", "x1"}
  Holder = {"h1"}
  PackageOf <- MCPackageOf
  Package = {"a", "b", "c"}
  Found <- MCFound
  AnalyzeMayFail = TRUE
INVARIANTS
  SettingsAsOfNew
  EveryViolationReportedAtHome
PROPERTIES
  ImplementsOnceCell
  WaitersAreAnswered
