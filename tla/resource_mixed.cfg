\* Samples whose timestamps lack an offset, against a window that has one.
CONSTANTS
  Blank = Blank
  Garbage = Garbage
  Corrupt = Corrupt
  NoDt = NoDt
  Windows <- MCWindows
  Logs <- MCLogs
INIT RWInit
NEXT RWNext

INVARIANT MixedZonesKeepSamples
