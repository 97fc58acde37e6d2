SPECIFICATION Spec
CONSTANTS
  MaxTurns = 3
  MaxRequests = 3
  NoCap = NoCap
  TokenCap = 3
  UsdCap = 6
  MaxRetries = 2
  Script = 1
  MaxCalls = 2
  MaxRuns = 2
  MaxFaults = 1
  Prices <- BenchPrices
  Usages <- BenchUsages
INVARIANTS RequestsBounded CallsAnswered ExitZero
PROPERTY SilentPastCap
