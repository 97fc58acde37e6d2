SPECIFICATION FairSpec
CONSTANTS
  Jobs = {j1}
  Paths = {a, b, n}
  NoFile = NoFile
  Created = {n}
  Allowed = {a, n}
  Startup = {n}
  Forking = {j1}
  MaxPid = 2
  PROCESS_SWEEP_ATTEMPTS = 2
  MaxEdits = 1
  MaxCommits = 1
  MaxApplies = 2
INVARIANTS SurvivorsHandedOver PatchInScope AppliedTree ConsultSeen
PROPERTIES RunEnds
CHECK_DEADLOCK FALSE
