SPECIFICATION Spec
CONSTANTS
  Blocks = {1, 2}
  Risks = {1}
  Workers = 2
  Rounds = 2
  MaxFaults = 2
  MaxStrictFaults = 2
  MaxCrashes = 0
  MaxInvocations = 2
  MaxEdits = 0
PROPERTIES AdvanceIsRuled
CHECK_DEADLOCK FALSE
