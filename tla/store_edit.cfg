SPECIFICATION FairSpec
CONSTANTS
  Inodes = {1, 2, 3, 4, 5, 6, 7}
  NoFile = NoFile
  Sessions = {s1, s2}
  Kinds = {"handoff", "lessons", "promotion"}
  Keep = 1
  Editing = {"rename", "inplace", "handle", "delete"}
  Late = FALSE
  MaxEdits = 2
  MaxErrors = 1
  MaxCrashes = 1
INVARIANT NothingLost
PROPERTIES LeavesFile Finishes
