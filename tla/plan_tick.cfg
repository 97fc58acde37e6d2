SPECIFICATION CommandSpec
CONSTANTS
  Agents = {p1, p2}
  MaxEdits = 2
  MaxPasses = 2
  Directories = {d1, d2}
  Dates = {0, 3}
  StaleDays = 2
  MaxChanges = 2
  MaxFailing = 1
SYMMETRY CommandSymmetry
INVARIANTS RecordsKept OneAtATime StaleIsStale UnmergedIsOpen
CHECK_DEADLOCK FALSE
