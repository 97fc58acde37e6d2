SPECIFICATION QaSpec
CONSTANTS
  Blocks = {1, 2}
  Risks = {1, 2}
  Workers = 2
  Rounds = 2
  MaxFaults = 3
  MaxStrictFaults = 1
  MaxCrashes = 1
  MaxInvocations = 2
  MaxEdits = 2
  Modes = 2
  Prompts = 2
  MaxLines = 2
INVARIANTS FailClosed JudgedAsItStands SameSources RisksOnce GateIsMet
PROPERTIES AcceptedStands RowIsTrue
CHECK_DEADLOCK FALSE
