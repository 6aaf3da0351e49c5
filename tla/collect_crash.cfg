\* A summary file holding a bare JSON number: collect_runs raises TypeError
\* and the whole batch aborts before any output is written.
CONSTANTS
  Roots <- MCRoots
  Bundles <- MCBundles
  Reps <- MCReps
  RepNum <- MCRepNum
  Meta <- MCMeta
  Summaries <- MCSummaries
  Entries <- MCEntries
  Forests <- MCForests
  None = None
  NoZipf = NoZipf
  Absent = Absent
  Missing = Missing
  NotDir = NotDir
  BadJson = BadJson
  EmptyJson = EmptyJson
  JsonScalar = JsonScalar
  Null = Null
  Blank = Blank
  NaNStr = NaNStr
INIT WalkInit
NEXT WalkNext
INVARIANT NoBatchAbort
