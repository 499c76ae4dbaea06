SPECIFICATION WriteSpec
CONSTANTS
  Reports <- MCReports
  Runes <- MCRunes
  Jobs <- MCJobs
  BufferSize = 2
INVARIANTS
  DistinctPackagesAreListed
  MeansAreOfTheSubtree
  CornersCloseTheirBranch
  ColumnsLineUp
  NotesExplainNA
  EveryFormatTellsTheSame
PROPERTY
  ImplementsReportSink
