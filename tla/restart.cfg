SPECIFICATION Spec
CONSTANTS
  r1 = r1
  r2 = r2
  c1 = c1
  c2 = c2
  p1 = p1
  p2 = p2
  p3 = p3
  p4 = p4
  d1 = d1
  d2 = d2
  None = None
  Runs = {r1, r2}
  Conversations = {c1}
  ConvOf <- OneConversation
  Permits = {p1, p2, p3}
  MaxGlobal = 1
  Dispatchers = {d1}
  Outcomes = {"PAUSED", "FAILED"}
  Phases = {}
  Traffic = {"checkpoint", "resume", "retry", "startFailure"}
  MaxCrashes = 1
  Outages = FALSE
INVARIANTS ConversationSerial RunInvariant
SYMMETRY RunSymmetry
CHECK_DEADLOCK FALSE
