\* collect_runs: the walk yields exactly the usable reps, in order, and warns
\* about every other rep<N> directory and every missing root.
CONSTANTS
  Roots <- MCRoots
  Bundles <- MCBundles
  Reps <- MCReps
  RepNum <- MCRepNum
  Meta <- MCMeta
  Summaries <- MCSummaries
  Entries <- MCEntries
  Forests <- MCForests
  None = None
  NoZipf = NoZipf
  Absent = Absent
  Missing = Missing
  NotDir = NotDir
  BadJson = BadJson
  EmptyJson = EmptyJson
  JsonScalar = JsonScalar
  Null = Null
  Blank = Blank
  NaNStr = NaNStr
INIT WalkInit
NEXT WalkNext
INVARIANT TypeOK
INVARIANT WalkMatchesReference
