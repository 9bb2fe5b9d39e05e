SPECIFICATION Spec
CONSTANTS
  Sessions = {s1, s2}
  Names = {a, b}
  Existing = {}
  Nothing = Nothing
  Positions <- MCPositions
  MaxUploads = 2
  MaxBlocks = 2
SYMMETRY FullSymmetry
INVARIANTS
  TypeOK
  NobodyNothing
  UploadIsExact
  DownloadIsExact
PROPERTY AloneReplacesNothing
