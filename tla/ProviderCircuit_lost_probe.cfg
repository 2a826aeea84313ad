CONSTANTS
  Calls = {k1, k2, k3}
  Threshold = 2
  Cooldown = 2
  MaxAttempts = 2
  JsonMode = TRUE
  ProbesMayVanish = TRUE
  Closed = Closed
SPECIFICATION Spec
PROPERTIES
  Recovers
