SPECIFICATION Spec
CONSTANTS
  Actions = 3
  Threads = {1, 2}
  Resolving = {1}
  Page = 1
  MaxRuns = 2
  MaxFaults = 2
  MaxOthers = 2
  MaxPlans = 2
INVARIANTS OnceInTime ApprovedOnly CompleteIsDone
