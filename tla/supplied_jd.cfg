CONSTANTS
  Parts = {"retrieval"}
  bing = bing
  fetch = fetch
  c1 = c1
  c2 = c2
  r1 = r1
  r2 = r2
  r3 = r3
  RunTypes = {"full_evaluation", "tech_match", "unknown"}
  Revisions <- MCRevisions
  Policies <- MCPolicies
  Caps = {1, 5, 14}
  Weighs <- MCWeighs
  Proposals <- MCProposals
  McpServers = {bing, fetch}
  Stdio = {fetch}
  Enabled = {bing, fetch}
  Speaks <- MCSpeaks
  RoutedServers = {fetch}
  Callers = {c1, c2}
  MaxConcurrent = 1
  Retries = 1
  MaxProbes = 2
  ToolAgents = {"TechAgent", "RiskAgent"}
  Tools = {"timeline", "web", "parse_resume"}
  Cacheable = {"parse_resume"}
  Retryable = {"timeline"}
  Evidence = {"web"}
  Context = {}
  Skills = {"s"}
  MaxCalls = 3
  MaxDuplicates = 1
  MaxProposals = 2
  Scores <- MCScores
  Risks <- MCRisks
  Questions <- MCQuestions
  MaxSections = 4
  DictKey = "resumeFacts"
  ListKey = "risks"
  TextKey = "effectiveJd"
  Fields = {"skills"}
  Words = {"x", "y"}
  Writers = {"TechAgent", "RiskAgent"}
  MaxOutputs = 2
  Runs = {r1, r2, r3}
  Requests <- MCRequests
  Observed = {{"gap"}}
  Old <- MCOld
  TopK = 2
  Cues = {"empty", "resume", "negatedPause", "cancel", "negatedCancel", "goal", "fact", "vagueGoal", "question"}
  Recents <- MCRecents
  Fixed = 10
  RecentBudget = 6
  ToolBudget = 8
  Threshold = 20
  MaxPairs = 20
  CallsPerTurn = 2
  Executors = {"loop", "graph"}
  SkillAgents = {"TechAgent", "RiskAgent"}
  Packages <- MCPackages
  Cases <- MCCases
  Eager = {"assess-technical-evidence"}
  MaxEdits = 2
  Defs <- MCDefs
  Requested <- MCRequested
  Route <- MCRoute
  Contexts <- MCContexts
  Streams <- MCAnswers
  Lines <- MCLines
  MaxLines = 3
  Claims <- MCClaims
  Reports <- MCReports
  Now = 24
  MaxDeploys = 2
  Local = {TRUE, FALSE}
  Texts <- MCTexts
  Sizes = {4, 6}
  Overlaps = {0, 1, 2}
  Prefix = 2
  Floor = 2
  Block = 3
  RrfK = 60
  MaxRuns = 2
  Utilities = {0, 1, 2}
  Finalists = 1
  Offered = {"production", "none", "te3_1024", "current", "hybrid", "resume_production", "deepseek"}
  Workers = {c1, c2}
  TaskUsers = {r1, r2, r3}
  MaxMessages = 1
  MaxRequests = 2
  MaxFaults = 1
SPECIFICATION Spec
SYMMETRY Interchangeable
INVARIANTS SuppliedJdRules
CHECK_DEADLOCK FALSE
