\* main(): aggregate_runs reduces the walk's long table group by group.
CONSTANTS
  Roots <- MCRoots
  Bundles <- MCBundles
  Reps <- MCReps
  RepNum <- MCRepNum
  Meta <- MCMeta
  Summaries <- MCSummaries
  Entries <- MCEntries
  Forests <- MCForests
  None = None
  NoZipf = NoZipf
  Absent = Absent
  Missing = Missing
  NotDir = NotDir
  BadJson = BadJson
  EmptyJson = EmptyJson
  JsonScalar = JsonScalar
  Null = Null
  Blank = Blank
  NaNStr = NaNStr
  NoFile = NoFile
INIT Init
NEXT Next
INVARIANT PipelineTypeOK
INVARIANT AggMatchesReference
