\* An archive with an extended header of PAX behind a file, and nothing else.
SPECIFICATION Spec
CONSTANTS
  Absent = Absent
  Names <- MCNames
  Block = 2
  Faults = FALSE
  Pieces = {0, 1, 2, 3, 4, 5, 7, 11}
  SizeMax = 30
  ReadSize = 2
  MaxDepth = 2
  MaxChanges = 2
  Downloads <- MCForeign
  Uploads <- MCNone
INVARIANT SkipsForeign
