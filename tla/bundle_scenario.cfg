CONSTANTS
  Names <- MCNames
  None = None
  NaN = NaN
INIT Init
NEXT Next
INVARIANT ScenarioMatchesSpec
