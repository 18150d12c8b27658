SPECIFICATION Spec
CONSTANTS
  r1 = r1
  r2 = r2
  c1 = c1
  c2 = c2
  p1 = p1
  p2 = p2
  p3 = p3
  p4 = p4
  d1 = d1
  d2 = d2
  None = None
  Runs = {r1, r2}
  Conversations = {c1, c2}
  ConvOf <- TwoConversations
  Permits = {p1, p2, p3}
  MaxGlobal = 2
  Dispatchers = {d1}
  Outcomes = {"SUCCEEDED"}
  Phases = {}
  Traffic = {"permit", "timeout", "duplicate"}
  MaxCrashes = 0
  Outages = FALSE
INVARIANTS NoPermitLost PermitsBacked
SYMMETRY Symmetry
CHECK_DEADLOCK FALSE
