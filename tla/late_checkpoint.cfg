CONSTANTS
  tech = tech
  project = project
  risk = risk
  report = report
  None = None
  Specialists <- ThreeSpecialists
  Terminal = report
  Groupings <- ParallelOrNot
  Approved <- OneOrAll
  MaxAgents = 2
  Dispatches = 3
  Faults = {"crash", "timeout", "lost", "late", "restart"}
  Callers <- Coroutines
  ScopesOf <- ScopesOfThem
  AgentScopes = {"agent:tech"}
  Patient = {tech}
  Limit = 3
  TerminalReserve = 1
  ControlReserve = 1
  Slots = 1
  Threshold = 2
  Kinds = {"specialist", "risk", "report"}
  Decisions = {1, 3}
  MaxTurns = 3
  MaxTools = 2
  Parts = {"loop"}
SPECIFICATION RuntimeSpec
PROPERTIES CompletedNeverRepeated
CHECK_DEADLOCK FALSE
