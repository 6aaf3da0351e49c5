\* A configuration without a skew in two roots gives two aggregated rows.
CONSTANTS
  Roots <- MCRoots
  Bundles <- MCBundles
  Reps <- MCReps
  RepNum <- MCRepNum
  Meta <- MCMeta
  Summaries <- MCSummaries
  Entries <- MCEntries
  Forests <- MCForests
  None = None
  NoZipf = NoZipf
  Absent = Absent
  Missing = Missing
  NotDir = NotDir
  BadJson = BadJson
  EmptyJson = EmptyJson
  JsonScalar = JsonScalar
  Null = Null
  Blank = Blank
  NaNStr = NaNStr
  NoFile = NoFile
INIT Init
NEXT Next
INVARIANT KeysNeverSplit
