CONSTANTS
  Calls = {k1, k2, k3}
  Threshold = 2
  Cooldown = 3
  MaxAttempts = 2
  JsonMode = TRUE
  ProbesMayVanish = FALSE
  Closed = Closed
SPECIFICATION Spec
INVARIANTS
  ThresholdDecides
  ProbesSpaced
PROPERTIES
  Recovers
