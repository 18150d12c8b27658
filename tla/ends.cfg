CONSTANTS
  tech = tech
  project = project
  risk = risk
  report = report
  None = None
  Specialists <- ThreeSpecialists
  Terminal = report
  Groupings <- ParallelOrNot
  Approved <- OneOrAll
  MaxAgents = 2
  Dispatches = 2
  Faults = {"crash", "timeout"}
  Callers <- Coroutines
  ScopesOf <- ScopesOfThem
  AgentScopes = {"agent:tech"}
  Patient = {tech}
  Limit = 2
  TerminalReserve = 1
  ControlReserve = 0
  Slots = 1
  Threshold = 2
  Kinds = {"specialist", "risk", "report"}
  Decisions = {1, 3}
  MaxTurns = 2
  MaxTools = 2
  Parts = {"loop", "graph", "turns", "gateway"}
SPECIFICATION RuntimeFairSpec
PROPERTIES AttemptsEnd AgentEnds CallEnds
CHECK_DEADLOCK FALSE
