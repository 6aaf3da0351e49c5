\* A docker_stats.csv with one line the reader cannot read.
CONSTANTS
  Blank = Blank
  Garbage = Garbage
  Corrupt = Corrupt
  NoDt = NoDt
  Windows <- MCWindows
  Logs <- MCLogs
INIT RWInit
NEXT RWNext

INVARIANT MalformedRowSkipped
