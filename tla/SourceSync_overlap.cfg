CONSTANTS
  Paths = {p1}
  Blobs = {b1}
  Commits = {c1, c2}
  Chunkless = {}
  Workers = {w1}
  Operators = {x1}
  Admins = {x1}
  NoBlob = NoBlob
  NoCommit = NoCommit
  Free = Free
  Orphan = Orphan
  LockOutlivesTask = FALSE
  CommitAckMayBeLost = TRUE
  MaxRuns = 3
  MaxFaults = 0
SPECIFICATION OverlapSpec
INVARIANTS
  CitedFilesExist
PROPERTIES
  PublishesItsFiles
SYMMETRY Symmetry
