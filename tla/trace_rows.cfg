SPECIFICATION ClientSpec
CONSTANTS
  Sessions = {1}
  Calls = {c1}
  maxBatchSize = 3
  MAX_EVENTS_PER_REQUEST = 2
  MaxEvents = 2
  MaxStarts = 2
  MaxFaults = 1
  Threads = {1, 2}
  Imports = {1, 2}
  Refs = {1}
  RowsPerRequest = 2
  MaxRecords = 2
  MaxRuns = 3
  MaxFailures = 1
INVARIANTS RowsCurrent EndsAll NoStray CaughtUp
PROPERTY Drains
CHECK_DEADLOCK FALSE
