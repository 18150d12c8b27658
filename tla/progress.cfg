SPECIFICATION FairSpec
CONSTANTS
  r1 = r1
  r2 = r2
  c1 = c1
  c2 = c2
  p1 = p1
  p2 = p2
  p3 = p3
  p4 = p4
  d1 = d1
  d2 = d2
  None = None
  Runs = {r1}
  Conversations = {c1}
  ConvOf <- Single
  Permits = {p1, p2}
  MaxGlobal = 1
  Dispatchers = {d1}
  Outcomes = {"PAUSED"}
  Phases = {}
  Traffic = {"cancel", "pause", "resume", "timeout", "loss"}
  MaxCrashes = 1
  Outages = FALSE
INVARIANT PausedIsQuiescent
PROPERTIES CancellationCompletes 
CHECK_DEADLOCK FALSE
