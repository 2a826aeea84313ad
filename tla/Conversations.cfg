CONSTANTS
  Users = {u1, u2}
  ConversationIds = {c1, c2}
  Requests = {q1, q2, q3}
  Nobody = Nobody
  Absent = Absent
  KeyConfigured = TRUE
SYMMETRY Symmetry
SPECIFICATION Spec
INVARIANTS
  OwnedByOwner
  HistoryIsOwn
  OwnersExist
PROPERTY
  NeverClaimed
