CONSTANTS
  Turns = {t1, t2}
  Causes = {x1, x2}
  Requests = {q1, q2, q3}
  None = None
SYMMETRY Symmetry
SPECIFICATION Spec
INVARIANTS
  SignalsReviewed
  ReviewsFollowSignals
  CasesAgree
PROPERTY
  CasesImmutable
CHECK_DEADLOCK FALSE
