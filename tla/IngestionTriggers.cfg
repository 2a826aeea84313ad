CONSTANTS
  Sources = {s1}
  Deliveries = {d1, d2}
  Matches <- AllMatch
  Requests = {q1, q2}
  Workers = {w1, w2}
  MaxRetries = 1
  Free = Free
  Orphan = Orphan
  NoDelivery = NoDelivery
  NoSource = NoSource
  ProcessesMayDie = TRUE
  MaxQueue = 1
  MaxManual = 1
  MaxReleases = 1
  MaxFaults = 1
SPECIFICATION Spec
INVARIANTS
  QueuedOncePerClaim
PROPERTIES
  NeverRegresses
  EndsFresh
