\* compute_docker_averages on the window a summary gives it, against the
\* reference reading of spec 4.3.
CONSTANTS
  Blank = Blank
  Garbage = Garbage
  Corrupt = Corrupt
  NoDt = NoDt
  JNull = JNull
  JZero = JZero
  JEpoch = JEpoch
  JTrue = JTrue
  Falsy = {JNull, JZero}
  Truthy = {JEpoch, JTrue}
  Ends <- MCEnds
  Windows <- MCRowWindows
  Logs <- MCLogs
INIT RowInit
NEXT RowNext
INVARIANT WindowAveragesMatchSpec
INVARIANT WindowDecision
