CONSTANTS
  small = small
  medium = medium
  large = large
  Hits = {small, medium, large}
  Size <- MCSize
  Terms = {file, name}
  file = file
  name = name
  Kind <- MCKind
  PerCondition = 2
  ExactK = 2
  CandidateK = 1
  RrfK = 2
  ExactWeight = 3
  HybridWeight = 2
  EvidenceLimit = 2
  MaxChars = 6
  MaxClaims = 2
  Ids = {1, 2, 3}
  Payloads <- MCPayloads
  Verdicts <- MCVerdicts
SPECIFICATION Spec
INVARIANTS
  ExactFirst
  GroundedIsVerified
  CitationsResolve
  ClaimsCiteAnswer
  EvidenceIsLongestPrefix
