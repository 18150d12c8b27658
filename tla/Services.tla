------------------------------ MODULE Services ------------------------------
(***************************************************************************)
(* The services around the executors, side by side: a behaviour is one of  *)
(* one service. Which one is chosen in the initial state; its state is in  *)
(* the slots, which the services share because no behaviour has two of     *)
(* them.                                                                   *)
(***************************************************************************)
EXTENDS AgentServices, ListServices

CONSTANTS Parts,  \* services that are run
          \* prompts
          Recents, Fixed, RecentBudget, ToolBudget, Threshold,
          MaxPairs, CallsPerTurn,
          \* the retrieval benchmark
          Texts, Sizes, Overlaps, Prefix, Floor, Block, RrfK,
          \* evaluation tasks
          Workers, TaskUsers, MaxMessages, MaxRequests, MaxFaults

VARIABLE part

Prompts == INSTANCE PromptContext WITH
    MaxCalls <- CallsPerTurn, recent <- s1, native <- s2, pairs <- s3,
    prompt <- s4
Bench == INSTANCE RagBench WITH
    text <- s1, strategy <- s2, chunks <- s3, gold <- s4, ranked <- s5,
    dense <- s6, sparse <- s7, fused <- s8
Tasks == INSTANCE TaskQueue WITH
    Users <- TaskUsers,
    task <- s1, stream <- s2, worker <- s3, user <- s4, run <- s5,
    mirror <- s6, left <- s7, history <- s8

\* The slots a part does not use stay empty.
Init ==
    /\ part \in Parts
    /\ \/ /\ part = "planning" /\ Planning!Init
          /\ s8 = 0 /\ s9 = 0 /\ s10 = 0 /\ s11 = 0 /\ s12 = 0
       \/ /\ part = "mcp" /\ Mcp!Init
          /\ s10 = 0 /\ s11 = 0 /\ s12 = 0
       \/ /\ part = "tools" /\ Tooling!Init
          /\ s12 = 0
       \/ /\ part = "report" /\ Report!Init
          /\ s9 = 0 /\ s10 = 0 /\ s11 = 0 /\ s12 = 0
       \/ /\ part = "shared" /\ Shared!Init
          /\ s6 = 0 /\ s7 = 0 /\ s8 = 0 /\ s9 = 0 /\ s10 = 0 /\ s11 = 0 /\ s12 = 0
       \/ /\ part = "memory" /\ Memories!Init
          /\ s8 = 0 /\ s9 = 0 /\ s10 = 0 /\ s11 = 0 /\ s12 = 0
       \/ /\ part = "talk" /\ Talk!Init
          /\ s7 = 0 /\ s8 = 0 /\ s9 = 0 /\ s10 = 0 /\ s11 = 0 /\ s12 = 0
       \/ /\ part = "prompts" /\ Prompts!Init
          /\ s5 = 0 /\ s6 = 0 /\ s7 = 0 /\ s8 = 0 /\ s9 = 0 /\ s10 = 0 /\ s11 = 0
          /\ s12 = 0
       \/ /\ part = "retrieval" /\ Preflight!Init
          /\ s7 = 0 /\ s8 = 0 /\ s9 = 0 /\ s10 = 0 /\ s11 = 0 /\ s12 = 0
       \/ /\ part = "skills" /\ Skilled!Init
          /\ s6 = 0 /\ s7 = 0 /\ s8 = 0 /\ s9 = 0 /\ s10 = 0 /\ s11 = 0 /\ s12 = 0
       \/ /\ part = "surface" /\ Surface!Init
          /\ s12 = 0
       \/ /\ part = "builtin" /\ Builtin!Init
          /\ s5 = 0 /\ s6 = 0 /\ s7 = 0 /\ s8 = 0 /\ s9 = 0 /\ s10 = 0 /\ s11 = 0
          /\ s12 = 0
       \/ /\ part = "deploy" /\ Deploying!Init
          /\ s9 = 0 /\ s10 = 0 /\ s11 = 0 /\ s12 = 0
       \/ /\ part = "bench" /\ Bench!Init
          /\ s9 = 0 /\ s10 = 0 /\ s11 = 0 /\ s12 = 0
       \/ /\ part = "ablation" /\ Ablation!Init
          /\ s9 = 0 /\ s10 = 0 /\ s11 = 0 /\ s12 = 0
       \/ /\ part = "tasks" /\ Tasks!Init
          /\ s9 = 0 /\ s10 = 0 /\ s11 = 0 /\ s12 = 0

Next ==
    \/ /\ part = "planning" /\ Planning!Next
       /\ UNCHANGED <<part, s8, s9, s10, s11, s12>>
    \/ /\ part = "mcp" /\ Mcp!Next
       /\ UNCHANGED <<part, s10, s11, s12>>
    \/ /\ part = "tools" /\ Tooling!Next
       /\ UNCHANGED <<part, s12>>
    \/ /\ part = "report" /\ Report!Next
       /\ UNCHANGED <<part, s9, s10, s11, s12>>
    \/ /\ part = "shared" /\ Shared!Next
       /\ UNCHANGED <<part, s6, s7, s8, s9, s10, s11, s12>>
    \/ /\ part = "memory" /\ Memories!Next
       /\ UNCHANGED <<part, s8, s9, s10, s11, s12>>
    \/ /\ part = "talk" /\ Talk!Next
       /\ UNCHANGED <<part, s7, s8, s9, s10, s11, s12>>
    \/ /\ part = "prompts" /\ Prompts!Next
       /\ UNCHANGED <<part, s5, s6, s7, s8, s9, s10, s11, s12>>
    \/ /\ part = "retrieval" /\ Preflight!Next
       /\ UNCHANGED <<part, s7, s8, s9, s10, s11, s12>>
    \/ /\ part = "skills" /\ Skilled!Next
       /\ UNCHANGED <<part, s6, s7, s8, s9, s10, s11, s12>>
    \/ /\ part = "surface" /\ Surface!Next
       /\ UNCHANGED <<part, s12>>
    \/ /\ part = "builtin" /\ Builtin!Next
       /\ UNCHANGED <<part, s5, s6, s7, s8, s9, s10, s11, s12>>
    \/ /\ part = "deploy" /\ Deploying!Next
       /\ UNCHANGED <<part, s9, s10, s11, s12>>
    \/ /\ part = "bench" /\ Bench!Next
       /\ UNCHANGED <<part, s9, s10, s11, s12>>
    \/ /\ part = "ablation" /\ Ablation!Next
       /\ UNCHANGED <<part, s9, s10, s11, s12>>
    \/ /\ part = "tasks" /\ Tasks!Next
       /\ UNCHANGED <<part, s9, s10, s11, s12>>

Spec == Init /\ [][Next]_<<part, slots>>

\* The properties of each service, stated in its module.

\* A plan has every agent it needs, once, and ends with the report.
PlanCanRun == part = "planning" => Planning!PlanCanRun

\* Quotas add up to what the policy grants; no agent that must run gets none.
QuotasAreFair == part = "planning" => Planning!QuotasAreFair

\* The live catalogue is that of one complete probe at any time.
CatalogWhole == part = "mcp" => Mcp!CatalogWhole

\* A server in its cooldown is not called.
CooldownSparesServer == part = "mcp" => Mcp!CooldownSparesServer

\* The limits of a run hold over all its agents and its resumptions.
LimitsHold == part = "tools" => Tooling!LimitsHold

\* What the trace says of a tool call is what happened to it.
TraceTellsTruth == part = "tools" => Tooling!TraceTellsTruth

\* A report that is not marked weak has what its score needs.
ReportIsEarned == part = "report" => Report!ReportIsEarned

\* No accepted output disappears from the shared state unmentioned.
NothingSaidIsLost == part = "shared" => Shared!NothingSaidIsLost

\* A memory of one job is not shown for another.
MemoryStaysInJob == part = "memory" => Memories!MemoryStaysInJob

\* A message has no effect that its author did not ask for.
DialogueIsSafe == part = "talk" => Talk!DialogueIsSafe

\* What the prompt has to keep survives every reduction of it.
ContextSurvives == part = "prompts" => Prompts!ContextSurvives

\* The agents' prompts rest on preflight results of this request.
PromptIsGrounded == part = "retrieval" => Preflight!PromptIsGrounded

\* The skill an agent reads is the one that was selected for it.
SkillsAgree == part = "skills" => Skilled!SkillsAgree

\* The tool that runs is the one the model was offered under that name.
RunsAsOffered == part = "surface" => Surface!RunsAsOffered

\* The local tools agree with each other on the same resume.
ToolsAgree == part = "builtin" => Builtin!ToolsAgree

\* A deployment that ended well runs what it names and cut nothing short.
DeploysAreSafe == part = "deploy" => Deploying!DeploysAreSafe

\* The benchmark's measures are fractions, of chunks that lost nothing.
ScoresAreFair == part = "bench" => Bench!ScoresAreFair

\* The configuration that is recommended was measured as it stands.
SelectionIsHonest == part = "ablation" => Ablation!SelectionIsHonest

\* No task runs against its row, waits unannounced, or outlives its run.
TasksSettle == part = "tasks" => Tasks!TasksSettle

\* An answer of the code: a cancelled task is dropped at once. It may still run.
CancelledTaskIsDropped == part = "tasks" => Tasks!CancelledTaskIsDropped

\* A comment of the code: a job description of the run is not replaced. It is.
SuppliedJdRules == part = "retrieval" => Preflight!SuppliedJdRules
=============================================================================
