----------------------------- MODULE AgentServices -----------------------------
(***************************************************************************)
(* The services the agents of a run use while it works: MCP servers, tool  *)
(* calls, the shared state, the memories of other runs, the dialogue with  *)
(* its user, the preflight, skills and the assembly of the report; the     *)
(* search for the configuration of its retrieval; and the scripts that     *)
(* deploy the stack they all are in. They share the slots, as the services *)
(* of Services do.                                                         *)
(***************************************************************************)
EXTENDS Integers, Slots

CONSTANTS \* MCP servers
          McpServers, Stdio, Enabled, Speaks, RoutedServers, Callers,
          MaxConcurrent, Retries, MaxProbes,
          \* tool calls
          ToolAgents, Tools, Cacheable, Retryable, Evidence,
          Context, Skills, MaxCalls, MaxDuplicates, MaxProposals,
          \* the shared state
          DictKey, ListKey, TextKey, Fields, Words, Writers,
          MaxOutputs,
          \* memories
          Runs, Requests, Observed, Old, TopK,
          \* turns of the conversation
          Cues,
          \* preflight
          Executors,
          \* skills
          SkillAgents, Packages, Cases, Eager, MaxEdits,
          \* the report
          Scores, Risks, Questions, MaxSections,
          \* the ablation of the retrieval
          MaxRuns, Utilities, Finalists, Offered,
          \* deployments
          MaxDeploys, Local

Mcp == INSTANCE McpRegistry WITH
    Servers <- McpServers, Routed <- RoutedServers,
    live <- s1, staged <- s2, prober <- s3, probed <- s4, due <- s5,
    cooling <- s6, caller <- s7, processes <- s8, overrun <- s9
Tooling == INSTANCE ToolCalls WITH
    Agents <- ToolAgents, budget <- s1, counts <- s2, log <- s3,
    ledgered <- s4, cached <- s5, loaded <- s6, call <- s7, proposals <- s8,
    events <- s9, cancelled <- s10, saved <- s11
Shared == INSTANCE SharedState WITH
    store <- s1, conflicts <- s2, outputs <- s3, checkpoint <- s4,
    told <- s5
Memories == INSTANCE Memory WITH
    asked <- s1, stage <- s2, pending <- s3, hits <- s4, draft <- s5,
    memories <- s6, accepted <- s7
Talk == INSTANCE Conversation WITH
    said <- s1, decision <- s2, reply <- s3, unanswered <- s4,
    evidence <- s5, answer <- s6
Preflight == INSTANCE Retrieval WITH
    request <- s1, stage <- s2, store <- s3, reused <- s4, agent <- s5,
    saved <- s6
Skilled == INSTANCE Skills WITH
    disk <- s1, catalogue <- s2, editions <- s3, case <- s4, user <- s5
Report == INSTANCE ReportSections WITH
    pc <- s1, sparse <- s2, sections <- s3, errors <- s4, retry <- s5,
    calls <- s6, report <- s7, wrote <- s8
Ablation == INSTANCE RagAblation WITH
    stage <- s1, todo <- s2, pc <- s3, sel <- s4, file <- s5, summary <- s6,
    picked <- s7, runs <- s8
Deploying == INSTANCE Deploy WITH
    op <- s1, disk <- s2, images <- s3, stack <- s4, control <- s5,
    killed <- s6, torn <- s7, stuck <- s8
=============================================================================
