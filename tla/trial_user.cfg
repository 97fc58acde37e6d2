SPECIFICATION Spec
CONSTANTS
  Inodes = {1, 2, 3, 4, 5, 6, 7}
  NoFile = NoFile
  Orig = Orig
  Mutant = Mutant
  Junk = Junk
  Edits = {e1, e2}
  Faults = {"ERR", "TERM", "INT", "KILL"}
  MaxFaults = 1
  MaxRuns = 2
  Handles = "never"
SYMMETRY EditSymmetry
INVARIANTS NothingLost MutantHasBackup
