CONSTANTS
  c1 = c1
  c2 = c2
  Corpora = {c1, c2}
  LongRows <- MCLongRows
  AggRows <- MCAggRows
  MaxRuns = 3
  Absent = Absent
  None = None
  Torn = Torn
  NotFound = NotFound
  NoColumns = NoColumns
SPECIFICATION Spec
INVARIANT PlotsFromOneBatch
