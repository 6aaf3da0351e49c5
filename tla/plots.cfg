\* make_plots main(): the six plot functions, then write_tables.
CONSTANTS
  Null = Null
  Blank = Blank
  NaNStr = NaNStr
  Skipped = Skipped
  Unplotted = Unplotted
  Metrics = {"p50", "p99"}
  AggTables <- MCAggTables
  LongTables <- MCLongTables
INIT MPInit
NEXT MPNext
INVARIANT PlotsTypeOK
INVARIANT RatiosMatchLines
INVARIANT AbortExactlyOnBadQuotient
INVARIANT HResPointsOnLines
INVARIANT LoadLinesMatchLoadTable
INVARIANT MissedTokensMatchReference
INVARIANT TTypeOK
INVARIANT BestConfigMatchesReference
INVARIANT TexShowsTables
