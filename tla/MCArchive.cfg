\* Downloads of good and bad content to good and bad destinations, uploads with round trip.
SPECIFICATION Spec
CONSTANTS
  Absent = Absent
  Names <- MCNames
  Block = 2
  Faults = TRUE
  Pieces = {0, 1, 2, 3, 4, 5, 7, 11}
  SizeMax = 30
  ReadSize = 2
  MaxDepth = 2
  MaxChanges = 2
  Downloads <- MCDownloads
  Uploads <- MCUploads
INVARIANTS TypeOK ProgressIsSafe  GoodTransfers
PROPERTY ExtractsReference
