SPECIFICATION Spec
CONSTANTS
  Inodes = {1, 2, 3, 4, 5, 6, 7, 8}
  NoFile = NoFile
  Agents = {p1, p2}
  Editing = {"rename", "inplace", "handle", "delete"}
  Late = FALSE
  MaxEdits = 1
  MaxErrors = 1
  MaxCrashes = 1
INVARIANT NothingLost
PROPERTY LeavesGlossary
