SPECIFICATION FairSpec
CONSTANTS
  Inodes = {1, 2, 3, 4, 5, 6, 7}
  NoFile = NoFile
  Orig = Orig
  Mutant = Mutant
  Junk = Junk
  Edits = {e1}
  Faults = {"ERR", "TERM"}
  MaxFaults = 2
  MaxRuns = 1
  Handles = "early"
INVARIANTS RefusedUntouched NothingLost
PROPERTY MutantLeaves
