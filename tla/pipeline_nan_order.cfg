\* One NaN-skew group leaves the other groups out of key order.
CONSTANTS
  Roots <- MCRoots
  Bundles <- MCBundles
  Reps <- MCReps
  RepNum <- MCRepNum
  Meta <- MCMeta
  Summaries <- MCSummaries
  Entries <- MCEntries
  Forests <- MCForests
  None = None
  NoZipf = NoZipf
  Absent = Absent
  Missing = Missing
  NotDir = NotDir
  BadJson = BadJson
  EmptyJson = EmptyJson
  JsonScalar = JsonScalar
  Null = Null
  Blank = Blank
  NaNStr = NaNStr
  NoFile = NoFile
INIT Init
NEXT Next
INVARIANT AggSortedByKey
