SPECIFICATION Spec
CONSTANTS
  Inodes = {1, 2, 3, 4, 5, 6, 7}
  NoFile = NoFile
  Sessions = {s1, s2, s3}
  Kinds = {"handoff", "lessons", "promotion"}
  Keep = 1
  Editing = {}
  Late = FALSE
  MaxEdits = 0
  MaxErrors = 0
  MaxCrashes = 2
SYMMETRY SessionSymmetry
INVARIANT NewestKept
PROPERTY IsRegister
