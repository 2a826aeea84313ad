CONSTANTS
  Paths = {p1, p2}
  Blobs = {b1, b2, e}
  Commits = {c1, c2}
  Chunkless = {e}
  Workers = {w1, w2}
  Operators = {}
  Admins = {}
  NoBlob = NoBlob
  NoCommit = NoCommit
  Free = Free
  Orphan = Orphan
  LockOutlivesTask = TRUE
  CommitAckMayBeLost = FALSE
  MaxRuns = 4
  MaxFaults = 2
SPECIFICATION Spec
INVARIANTS
  StateMatchesManifest
  CitationsPinned
  RetryRepairs
  NoRetrievalGap
  LastRunAgrees
PROPERTIES
  PublishesSnapshots
  OutcomesFinal
SYMMETRY Symmetry
