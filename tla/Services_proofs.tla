-------------------------- MODULE Services_proofs --------------------------
(***************************************************************************)
(* What the services promise in every behaviour of Services, for any       *)
(* values of their constants: the inductive invariants of their own        *)
(* proofs, applied to the slots of the service that runs.                  *)
(***************************************************************************)
EXTENDS Services, AgentServices_proofs, ListServices_proofs

USE DEF live, staged, prober, probed, due, cooling, caller, processes, overrun,
        budget, counts, log, ledgered, cached, loaded, call, proposals, events, cancelled, saved,
        decision, reply, unanswered, evidence, answer,
        asked, stage, hits, draft, memories, accepted,
        store, conflicts, checkpoint, told,
        op, stack, control, killed, torn, stuck,
        request, prepared, reused, agent, kept, editions, user,
        pc, sections, retry, calls, report, wrote,
        experiment, todo, step, sel, file, summary, picked

-----------------------------------------------------------------------------
\* The other services do not move, and the service that runs is always the
\* same.
LEMMA McpOnly ==
  ASSUME part = "mcp", [Next]_<<part, slots>>
  PROVE  [Mcp!Next]_Mcp!vars /\ part' = "mcp"
BY DEF Next, slots, Mcp!vars

\* In every step, the service that runs stays the one that was chosen.
LEMMA SamePart ==
  ASSUME [Next]_<<part, slots>>
  PROVE  part' = part
BY DEF Next, slots

-----------------------------------------------------------------------------
(***************************************************************************)
(* The MCP registry.                                                       *)
(***************************************************************************)
\* The registry stays whole and its gates hold.
THEOREM RegistryHolds == ASSUME Gates PROVE Spec => [](part = "mcp" => RegistryInv)
<1>1. Init => (part = "mcp" => RegistryInv)
  BY RegistryStart DEF Init
<1>2. (part = "mcp" => RegistryInv) /\ [Next]_<<part, slots>>
        => (part = "mcp" => RegistryInv)'
  BY SamePart, McpOnly, RegistryKeeps
<1> QED
  BY <1>1, <1>2, PTL DEF Spec

\* The catalog the agents see is whole at every moment of every probe.
THEOREM CatalogStaysWhole == ASSUME Gates PROVE Spec => []CatalogWhole
<1>1. (part = "mcp" => RegistryInv) => CatalogWhole
  BY DEF CatalogWhole, Mcp!CatalogWhole, RegistryInv, BothWhole, IsWhole
<1> QED
  BY <1>1, RegistryHolds, PTL

\* A server that cools down gets no more requests than the callers already
\* inside its gate had left, whatever probes and swaps happen meanwhile.
THEOREM CooldownSpares == ASSUME Gates PROVE Spec => []CooldownSparesServer
<1>1. (part = "mcp" => RegistryInv) => CooldownSparesServer
  <2> SUFFICES ASSUME part = "mcp", RegistryInv, NEW s \in McpServers
               PROVE  overrun[s] <= (MaxConcurrent - 1) * (Retries + 1)
    BY DEF CooldownSparesServer, Mcp!CooldownSparesServer
  <2>1. overrun[s] \in Nat /\ Cardinality(Owed(s)) \in Nat
    BY OwedFinite DEF RegistryInv, McpTyped
  <2>2. /\ (MaxConcurrent - 1) * (Retries + 1) \in Int
        /\ \A a, b \in Nat : a >= 1 => (a - 1) * (b + 1) >= 0
    BY DEF Gates
  <2>3. (MaxConcurrent - 1) * (Retries + 1) >= 0
    BY <2>2 DEF Gates
  <2> QED
    BY <2>1, <2>2, <2>3 DEF RegistryInv, Spared
<1> QED
  BY <1>1, RegistryHolds, PTL

-----------------------------------------------------------------------------
(***************************************************************************)
(* The tool calls of a run.                                                *)
(***************************************************************************)
\* The other services do not move.
LEMMA ToolsOnly ==
  ASSUME part = "tools", [Next]_<<part, slots>>
  PROVE  [Tooling!Next]_Tooling!vars
BY DEF Next, slots, Tooling!vars, Tooling!run

\* The tool calls of a run are charged before they begin, and told under their
\* own number.
THEOREM ToolsHold == ASSUME Limits PROVE Spec => [](part = "tools" => ToolsInv)
<1>1. Init => (part = "tools" => ToolsInv)
  BY ToolsStart DEF Init
<1>2. (part = "tools" => ToolsInv) /\ [Next]_<<part, slots>>
        => (part = "tools" => ToolsInv)'
  BY SamePart, ToolsOnly, ToolsStep
<1> QED
  BY <1>1, <1>2, PTL DEF Spec

\* However agents interleave, retry, are cancelled and resume, no signature is
\* executed more often and no more calls are executed than the run may.
THEOREM LimitsAlwaysHold == ASSUME Limits PROVE Spec => []LimitsHold
<1>1. (part = "tools" => ToolsInv) => LimitsHold
  <2> SUFFICES ASSUME part = "tools", ToolsInv PROVE Tooling!LimitsHold
    BY DEF LimitsHold
  <2>1. Cardinality(Ran(log)) <= budget /\ budget <= MaxCalls
    BY BusyFinite DEF ToolsInv, Charged, ToolsTyped
  <2>2. ASSUME NEW t \in Tools PROVE Cardinality(RanOf(log, t)) <= MaxDuplicates
    BY <2>2, CallsFinite DEF ToolsInv, Charged, ToolsTyped, Limits
  <2>3. /\ Tooling!Executed = Ran(log)
        /\ \A t \in Tools : {e \in Tooling!Executed : e.tool = t} = RanOf(log, t)
    BY DEF Tooling!Executed, Ran, RanOf
  <2> QED
    BY <2>1, <2>2, <2>3, ToolCardinalities DEF Tooling!LimitsHold
<1> QED
  BY <1>1, ToolsHold, PTL

\* A call that is over and was not cancelled has the one end in the trace that
\* its entry of the log has, and only what succeeded became evidence.
THEOREM TraceAlwaysTellsTruth == ASSUME Limits PROVE Spec => []TraceTellsTruth
<1>1. (part = "tools" => ToolsInv) => TraceTellsTruth
  <2> SUFFICES ASSUME part = "tools", ToolsInv PROVE Tooling!TraceTellsTruth
    BY DEF TraceTellsTruth
  <2>1. ASSUME NEW entry \in log, entry.id \notin cancelled,
               \A a \in ToolAgents : call[a].id # entry.id
        PROVE  {e.kind : e \in {f \in events : f.id = entry.id}} \ {"started"} =
                  {IF entry.status = "REJECTED" THEN "rejected"
                   ELSE IF entry.status = "FAILED" THEN "failed" ELSE "completed"}
    <3>1. IsTold(entry)
      BY <2>1 DEF ToolsInv, TraceFits
    <3>2. PICK end : end = EndOf(entry.status) /\ end # "started"
      BY DEF EndOf
    <3>3. {e.kind : e \in {f \in events : f.id = entry.id}} \ {"started"} = {end}
      BY <2>1, <3>1, <3>2 DEF IsTold
    <3> QED
      BY <3>2, <3>3 DEF EndOf
  <2>2. ledgered \subseteq {entry.id : entry \in {e \in log : e.status = "SUCCEEDED"}}
    BY DEF ToolsInv, Grounded
  <2>3. ASSUME NEW entry \in log
        PROVE  \/ entry.id \in cancelled \/ \E a \in ToolAgents : call[a].id = entry.id
               \/ {e.kind : e \in {f \in events : f.id = entry.id}} \ {"started"} =
                     {IF entry.status = "REJECTED" THEN "rejected"
                      ELSE IF entry.status = "FAILED" THEN "failed" ELSE "completed"}
    BY <2>1
  <2> QED
    BY <2>2, <2>3 DEF Tooling!TraceTellsTruth
<1> QED
  BY <1>1, ToolsHold, PTL

-----------------------------------------------------------------------------
(***************************************************************************)
(* A turn of the dialogue.                                                 *)
(***************************************************************************)
\* The other services do not move.
LEMMA TalkOnly ==
  ASSUME part = "talk", [Next]_<<part, slots>>
  PROVE  [Talk!Next]_Talk!cvars
BY DEF Next, slots, Talk!cvars

\* A reply counts its rounds and cites what it has.
THEOREM TalkHolds == Spec => [](part = "talk" => TalkInv)
<1>1. Init => (part = "talk" => TalkInv)
  BY TalkStart DEF Init
<1>2. (part = "talk" => TalkInv) /\ [Next]_<<part, slots>>
        => (part = "talk" => TalkInv)'
  BY SamePart, TalkOnly, TalkKeeps
<1> QED
  BY <1>1, <1>2, PTL DEF Spec

\* For every message, and whatever the model answers: it controls no run, makes
\* at most three requests, none with a tool call unanswered, and cites as
\* external only what a call of the turn found.
THEOREM DialogueAlwaysSafe == Spec => []DialogueIsSafe
<1>1. (part = "talk" => TalkInv) => DialogueIsSafe
  <2> SUFFICES ASSUME part = "talk", TalkInv PROVE Talk!DialogueIsSafe
    BY DEF DialogueIsSafe
  <2>1. Counted /\ Honest
    BY DEF TalkInv
  <2> QED
    BY <2>1, ModelDecides DEF Talk!DialogueIsSafe, Counted, Honest
<1> QED
  BY <1>1, TalkHolds, PTL

-----------------------------------------------------------------------------
(***************************************************************************)
(* The shared state.                                                       *)
(***************************************************************************)
\* The other services do not move.
LEMMA SharedOnly ==
  ASSUME part = "shared", [Next]_<<part, slots>>
  PROVE  [Shared!Next]_Shared!vars
BY DEF Next, slots, Shared!vars

\* What was said stands or is disputed, in the store and in the checkpoint.
THEOREM SharedHolds == ASSUME Names PROVE Spec => [](part = "shared" => SharedInv)
<1>1. Init => (part = "shared" => SharedInv)
  BY SharedStart DEF Init
<1>2. (part = "shared" => SharedInv) /\ [Next]_<<part, slots>>
        => (part = "shared" => SharedInv)'
  BY SamePart, SharedOnly, SharedKeeps
<1> QED
  BY <1>1, <1>2, PTL DEF Spec

\* However many agents write, in whatever order and shape, and whatever
\* checkpoint the run returns to: no output disappears unmentioned.
THEOREM NothingIsLost == ASSUME Names PROVE Spec => []NothingSaidIsLost
<1>1. (part = "shared" => SharedInv) => NothingSaidIsLost
  <2> SUFFICES ASSUME part = "shared", SharedInv, NEW t \in told
               PROVE  \/ Shared!Stands(t)
                      \/ \E c \in conflicts : /\ c.section = t.key
                                              /\ \/ c.incoming = t.value /\ c.by = t.by
                                                 \/ c.existing = t.value
    BY DEF NothingSaidIsLost, Shared!NothingSaidIsLost
  <2>1. StandsAs(store[t.key], t) \/ Disputed(conflicts, t)
    BY DEF SharedInv, Accounted
  <2>2. StandsAs(store[t.key], t) => Shared!Stands(t)
    BY DEF StandsAs, Saying, Shared!Stands
  <2> QED
    BY <2>1, <2>2 DEF Disputed
<1> QED
  BY <1>1, SharedHolds, PTL

-----------------------------------------------------------------------------
(***************************************************************************)
(* The memories.                                                           *)
(***************************************************************************)
\* The other services do not move.
LEMMA MemoryOnly ==
  ASSUME part = "memory", [Next]_<<part, slots>>
  PROVE  [Memories!Next]_Memories!mvars
BY DEF Next, slots, Memories!mvars

\* A row says how many accepted runs of its job it was derived from.
THEOREM MemoryHolds == ASSUME Jobs PROVE Spec => [](part = "memory" => MemoryInv)
<1>1. Init => (part = "memory" => MemoryInv)
  BY MemoryStart DEF Init
<1>2. (part = "memory" => MemoryInv) /\ [Next]_<<part, slots>>
        => (part = "memory" => MemoryInv)'
  BY SamePart, MemoryOnly, MemoryKeeps
<1> QED
  BY <1>1, <1>2, PTL DEF Spec

\* However the writes of runs interleave, fail and expire: what an agent reads
\* was learned by accepted runs of its own job, each counted once.
THEOREM MemoryAlwaysInJob == ASSUME Jobs PROVE Spec => []MemoryStaysInJob
<1>1. (part = "memory" => MemoryInv) => MemoryStaysInJob
  <2> SUFFICES ASSUME part = "memory", MemoryInv, NEW r \in Runs,
                      NEW consumer \in {"TechAgent", "ReportAgent", "CoordinatorAgent"},
                      NEW m \in Memories!_memory_context(r, consumer)
               PROVE  /\ m.runs \subseteq accepted
                      /\ m.samples = Memories!Cardinality(m.runs)
                      /\ asked[r].category # Memories!NoJob =>
                            \A s \in m.runs : asked[s].category = asked[r].category
                      /\ m.type = "JOB_PROFILE" /\ asked[r].jd # Memories!NoJob =>
                            \A s \in m.runs : asked[s].jd = asked[r].jd
                      /\ consumer = "ReportAgent" => m.type = "JOB_PROFILE"
    BY DEF MemoryStaysInJob, Memories!MemoryStaysInJob
  <2>1. m \in hits[r] /\ m.type \in Memories!allowed_types_for(consumer)
    BY DEF Memories!_memory_context, Memories!filter_hits_for_consumer
  <2>2. /\ Learned(m)
        /\ asked[r].category # Memories!NoJob => m.category = asked[r].category
        /\ m.type = "JOB_PROFILE" /\ asked[r].jd # Memories!NoJob => m.jd = asked[r].jd
    BY <2>1 DEF MemoryInv, Reads
  <2> QED
    BY <2>1, <2>2, MemoryCardinalities DEF Learned, Memories!allowed_types_for
<1> QED
  BY <1>1, MemoryHolds, PTL

-----------------------------------------------------------------------------
(***************************************************************************)
(* The deployments.                                                        *)
(***************************************************************************)
\* The other services do not move.
LEMMA DeployOnly ==
  ASSUME part = "deploy", [Next]_<<part, slots>>
  PROVE  [Deploying!Next]_Deploying!dvars
BY DEF Next, slots, Deploying!dvars

\* Every script finds what the ones before it, however they ended, have left.
THEOREM DeploysHold == Spec => [](part = "deploy" => DeployInv)
<1>1. Init => (part = "deploy" => DeployInv)
  BY DeployStart DEF Init
<1>2. (part = "deploy" => DeployInv) /\ [Next]_<<part, slots>>
        => (part = "deploy" => DeployInv)'
  BY SamePart, DeployOnly, DeployKeeps
<1> QED
  BY <1>1, <1>2, PTL DEF Spec

\* Whatever scripts died where, and in whatever order they are run: a
\* deployment that ended well runs what it names with its secrets, a safe one
\* took down no run that it could have waited for, and the dispatcher stays
\* drained only where it could not be reached.
THEOREM DeploysAlwaysSafe == Spec => []DeploysAreSafe
<1>1. (part = "deploy" => DeployInv) => DeploysAreSafe
  <2> SUFFICES ASSUME part = "deploy", DeployInv PROVE Deploying!DeploysAreSafe
    BY DEF DeploysAreSafe
  <2>1. op.pc = "done" /\ op.how \in {"sync", "aliyun"} => Deploying!Usable(stack.env)
    BY DEF DeployInv, Stamped, FromCheckout, Script
  <2>2. op.pc = "done" /\ op.how = "sync" /\ ~torn =>
          stack.files = Deploying!Released(op.n) /\ stack.env.build = op.n
    BY DEF DeployInv, Assembled, Stamped, Script
  <2>3. op.pc = "done" /\ op.how = "aliyun" => stack.files = Deploying!Committed(op.n)
    BY DEF DeployInv, FromCheckout, Script
  <2>4. ~killed
    BY DEF DeployInv, Drained
  <2>5. ~(op.how = "sync" /\ op.pc \in Deploying!Stages) /\ ~stuck => ~control.drained
    BY DEF DeployInv, Undone, Script, Deploying!Stages
  <2> QED
    BY <2>1, <2>2, <2>3, <2>4, <2>5 DEF Deploying!DeploysAreSafe
<1> QED
  BY <1>1, DeploysHold, PTL

-----------------------------------------------------------------------------
(***************************************************************************)
(* The preflight and the prompts that rest on it.                          *)
(***************************************************************************)
\* The other services do not move.
LEMMA PreflightOnly ==
  ASSUME part = "retrieval", [Next]_<<part, slots>>
  PROVE  [Preflight!Next]_Preflight!rvars
BY DEF Next, slots, Preflight!rvars

\* What is prepared fits together from the match on, and in every checkpoint.
THEOREM PreflightHolds == Spec => [](part = "retrieval" => PreflightInv)
<1>1. Init => (part = "retrieval" => PreflightInv)
  BY PreflightStart DEF Init
<1>2. (part = "retrieval" => PreflightInv) /\ [Next]_<<part, slots>>
        => (part = "retrieval" => PreflightInv)'
  BY SamePart, PreflightOnly, PreflightKeeps
<1> QED
  BY <1>1, <1>2, PTL DEF Spec

\* Whatever fails and wherever the run resumes: an agent that is asked has
\* facts when there is a resume, and it, the requirements and the coverage of
\* this run are of one job description.
THEOREM PromptsAlwaysGrounded == Spec => []PromptIsGrounded
<1>1. (part = "retrieval" => PreflightInv) => PromptIsGrounded
  <2> SUFFICES ASSUME part = "retrieval", PreflightInv, NEW a \in Preflight!Agents,
                      agent[a].pc = "asked"
               PROVE  /\ request.resume => prepared.facts # Preflight!None
                      /\ prepared.requirements = prepared.jd /\ agent[a].jd = prepared.jd
                      /\ reused = Preflight!None =>
                            prepared.coverage \in {Preflight!None, prepared.jd}
    BY DEF PromptIsGrounded, Preflight!PromptIsGrounded
  <2>1. stage = "agents" /\ agent[a].jd = prepared.jd
    BY DEF PreflightInv
  <2>2. Fits(prepared)
    BY <2>1 DEF PreflightInv
  <2> QED
    BY <2>1, <2>2 DEF Fits
<1> QED
  BY <1>1, PreflightHolds, PTL

-----------------------------------------------------------------------------
(***************************************************************************)
(* Skills.                                                                 *)
(***************************************************************************)
\* The other services do not move.
LEMMA SkillsOnly ==
  ASSUME part = "skills", [Next]_<<part, slots>>
  PROVE  [Skilled!Next]_Skilled!svars
BY DEF Next, slots, Skilled!svars

\* What agents have loaded is what their process keeps.
THEOREM SkillsHold == Spec => [](part = "skills" => SkillsInv)
<1>1. Init => (part = "skills" => SkillsInv)
  BY SkillsStart DEF Init, Skilled!Init
<1>2. (part = "skills" => SkillsInv) /\ [Next]_<<part, slots>>
        => (part = "skills" => SkillsInv)'
  BY SamePart, SkillsOnly, SkillsKeep
<1> QED
  BY <1>1, <1>2, PTL DEF Spec

\* However the packages change on the disk: agents that load a skill read the
\* same instructions under its id and version, and an agent applies only what
\* was selected for it and loaded, and has applied or skipped each at its end.
THEOREM SkillsAlwaysAgree == Spec => []SkillsAgree
<1>1. (part = "skills" => SkillsInv) => SkillsAgree
  <2> SUFFICES ASSUME part = "skills", SkillsInv PROVE Skilled!SkillsAgree
    BY DEF SkillsAgree
  <2>1. ASSUME NEW a \in SkillAgents, NEW b \in SkillAgents,
               NEW i \in DOMAIN user[a].loaded, NEW j \in DOMAIN user[b].loaded,
               user[a].loaded[i].of = user[b].loaded[j].of
        PROVE  user[a].loaded[i].edition = user[b].loaded[j].edition
    BY <2>1 DEF SkillsInv, Current
  <2>2. ASSUME NEW a \in SkillAgents
        PROVE  /\ Len(user[a].selected) <= 2
               /\ Skilled!ToSet(user[a].selected) \subseteq Skilled!PRODUCTION_SKILLS
               /\ user[a].applied \subseteq DOMAIN user[a].loaded
               /\ DOMAIN user[a].loaded \subseteq Skilled!ToSet(user[a].selected)
               /\ user[a].pc = "ended" =>
                     /\ user[a].applied \union user[a].skipped
                           = Skilled!ToSet(user[a].selected)
                     /\ user[a].applied \intersect user[a].skipped = {}
    <3>1. InOrder(user[a])
      BY DEF SkillsInv
    <3>2. Skilled!ToSet(user[a].selected) \subseteq Skilled!PRODUCTION_SKILLS
      <4>1. user[a].selected \in Seq(Skilled!PRODUCTION_SKILLS)
        BY <3>1 DEF InOrder
      <4> HIDE DEF Skilled!PRODUCTION_SKILLS
      <4> QED
        BY <4>1 DEF Skilled!ToSet
    <3> QED
      BY <3>1, <3>2 DEF InOrder
  <2> QED
    BY <2>1, <2>2 DEF Skilled!SkillsAgree
<1> QED
  BY <1>1, SkillsHold, PTL

-----------------------------------------------------------------------------
(***************************************************************************)
(* The report.                                                             *)
(***************************************************************************)
\* The other services do not move.
LEMMA ReportOnly ==
  ASSUME part = "report", [Next]_<<part, slots>>
  PROVE  [Report!Next]_Report!vars
BY DEF Next, slots, Report!vars

\* A section the model did not write is empty, and the calls made are allowed.
THEOREM ReportHolds == ASSUME Sections PROVE Spec => [](part = "report" => ReportInv)
<1>1. Init => (part = "report" => ReportInv)
  BY ReportStart DEF Init
<1>2. (part = "report" => ReportInv) /\ [Next]_<<part, slots>>
        => (part = "report" => ReportInv)'
  BY SamePart, ReportOnly, ReportKeeps
<1> QED
  BY <1>1, <1>2, PTL DEF Spec

\* Whatever sections fail, are retried, are left out for want of calls or are
\* completed, and however many calls there are: the model wrote the score and
\* the risks that are merged, and only a report with a dimension that was
\* assessed is published with a score.
THEOREM ReportsAlwaysEarned == ASSUME Sections PROVE Spec => []ReportIsEarned
<1>1. (part = "report" => ReportInv) => ReportIsEarned
  BY DEF ReportIsEarned, Report!ReportIsEarned, ReportInv, IsEarned, Assessed
<1> QED
  BY <1>1, ReportHolds, PTL

-----------------------------------------------------------------------------
(***************************************************************************)
(* The search for a configuration of the retrieval.                        *)
(***************************************************************************)
\* The other services do not move.
LEMMA AblationOnly ==
  ASSUME part = "ablation", [Next]_<<part, slots>>
  PROVE  [Ablation!Next]_Ablation!avars
BY DEF Next, slots, Ablation!avars

\* What is selected can be run, and what the last phase selects was measured.
THEOREM AblationHolds == ASSUME Measures PROVE Spec => [](part = "ablation" => AblationInv)
<1>1. Init => (part = "ablation" => AblationInv)
  BY AblationStart DEF Init
<1>2. (part = "ablation" => AblationInv) /\ [Next]_<<part, slots>>
        => (part = "ablation" => AblationInv)'
  BY SamePart, AblationOnly, AblationKeeps
<1> QED
  BY <1>1, <1>2, PTL DEF Spec

\* Whatever phases ran, over which earlier files, with whatever utilities and
\* models that did not answer: the saved configuration can be run, after the
\* last phase or a joint search it was measured as it stands, and a joint
\* search leaves the defaults only for a margin.
THEOREM SelectionAlwaysHonest == ASSUME Measures PROVE Spec => []SelectionIsHonest
<1>1. (part = "ablation" => AblationInv) => SelectionIsHonest
  BY DEF SelectionIsHonest, Ablation!SelectionIsHonest, AblationInv, IsMeasured, CanRun
<1> QED
  BY <1>1, AblationHolds, PTL

-----------------------------------------------------------------------------
(***************************************************************************)
(* The prompts.                                                            *)
(***************************************************************************)
recent == s1
native == s2
pairs == s3
prompt == s4
USE DEF recent, native, pairs, prompt

\* A message joins the newer ones that were kept.
Kept(newer, i) ==
  IF newer = {} \/ Prompts!Size(newer) + recent[i] <= RecentBudget THEN newer \union {i} ELSE newer

\* The recursion of prepare_messages, over the messages from i on.
Keeping(f, first) ==
  f = [i \in first..(Len(recent) + 1) |->
         IF i = Len(recent) + 1 THEN {} ELSE Kept(f[i + 1], i)]

\* The recursion defines a function.
LEMMA KeepingExists ==
  ASSUME recent \in Seq(Nat)
  PROVE  \A k \in 0..Len(recent) : \E f : Keeping(f, Len(recent) + 1 - k)
<1> DEFINE N == Len(recent)
           bad == {k \in 0..N : ~ \E f : Keeping(f, N + 1 - k)}
<1>0. N \in Nat
  OBVIOUS
<1> SUFFICES ASSUME bad # {} PROVE FALSE
  OBVIOUS
<1>1. PICK k \in bad : \A j \in bad : ~(j < k)
  <2>1. bad \subseteq Nat
    OBVIOUS
  <2> QED
    BY <2>1, Least
<1>2. k # 0
  <2> SUFFICES ASSUME k = 0 PROVE FALSE
    OBVIOUS
  <2>1. ~ \E f : Keeping(f, N + 1 - k)
    OBVIOUS
  <2>2. N + 1 - k = N + 1 /\ (N + 1)..(N + 1) = {N + 1}
    BY <1>0
  <2>3. Keeping([i \in {N + 1} |-> {}], N + 1)
    BY <2>2 DEF Keeping
  <2> QED
    BY <2>1, <2>2, <2>3
<1>3. k \in 1..N /\ k - 1 \notin bad /\ k - 1 \in 0..N
  <2>1. k \in 0..N
    OBVIOUS
  <2>2. k - 1 \notin bad
    <3>1. k - 1 < k
      BY <1>0, <2>1
    <3> HIDE DEF bad
    <3> QED
      BY <1>1, <3>1
  <2> QED
    BY <1>0, <1>2, <2>1, <2>2
<1>4. PICK g : Keeping(g, N + 1 - (k - 1))
  BY <1>3
<1> DEFINE first == N + 1 - k
           f == [i \in first..(N + 1) |-> IF i = first THEN Kept(g[i + 1], i) ELSE g[i]]
<1>5. first \in Nat /\ first < N + 1 /\ N + 1 - (k - 1) = first + 1
  BY <1>0, <1>3
<1>6. f = [i \in first..(N + 1) |-> IF i = N + 1 THEN {} ELSE Kept(f[i + 1], i)]
  <2> SUFFICES ASSUME NEW i \in first..(N + 1)
               PROVE  (IF i = first THEN Kept(g[i + 1], i) ELSE g[i])
                      = IF i = N + 1 THEN {} ELSE Kept(f[i + 1], i)
    OBVIOUS
  <2> HIDE DEF N
  <2>1. \A j \in (first + 1)..(N + 1) :
          f[j] = g[j] /\ g[j] = IF j = N + 1 THEN {} ELSE Kept(g[j + 1], j)
    <3>1. g = [j \in (first + 1)..(N + 1) |-> IF j = N + 1 THEN {} ELSE Kept(g[j + 1], j)]
      BY <1>4, <1>5 DEF Keeping, N
    <3>2. \A j \in (first + 1)..(N + 1) : j \in first..(N + 1) /\ j # first
      BY <1>0, <1>5
    <3> HIDE DEF first
    <3> QED
      BY <3>1, <3>2
  <2>2. CASE i = N + 1
    <3>1. i \in (first + 1)..(N + 1) /\ i # first
      BY <1>0, <1>5, <2>2
    <3> QED
      BY <2>1, <2>2, <3>1
  <2>3. CASE i # N + 1
    <3>1. i + 1 \in (first + 1)..(N + 1)
      BY <1>0, <1>5, <2>3
    <3>2. f[i + 1] = g[i + 1]
      BY <2>1, <3>1
    <3>3. CASE i = first
      BY <2>3, <3>2, <3>3
    <3>4. CASE i # first
      <4>1. i \in (first + 1)..(N + 1)
        BY <1>0, <1>5, <3>4
      <4> QED
        BY <2>1, <2>3, <3>2, <3>4, <4>1
    <3> QED
      BY <3>3, <3>4
  <2> QED
    BY <2>2, <2>3
<1>7. Keeping(f, first)
  BY <1>6 DEF Keeping
<1> QED
  BY <1>1, <1>7

\* Of the messages some are kept, among them the newest.
LEMMA KeptMessages ==
  ASSUME recent \in Seq(Nat)
  PROVE  /\ Prompts!prepare_messages \subseteq 1..Len(recent)
         /\ recent # <<>> => Len(recent) \in Prompts!prepare_messages
<1> DEFINE N == Len(recent)
           keep == CHOOSE f : Keeping(f, 1)
           bad == {k \in 0..N : ~ (/\ keep[N + 1 - k] \subseteq (N + 1 - k)..N
                                   /\ k # 0 => N \in keep[N + 1 - k])}
<1>0. N \in Nat /\ (recent # <<>> => N # 0)
  OBVIOUS
<1>1. Prompts!prepare_messages = keep[1]
  BY DEF Prompts!prepare_messages, Keeping, Kept
<1>2. Keeping(keep, 1)
  <2>1. \E f : Keeping(f, N + 1 - N)
    BY <1>0, KeepingExists
  <2> QED
    BY <1>0, <2>1
<1> HIDE DEF keep, N
<1>3. \A i \in 1..(N + 1) : keep[i] = IF i = N + 1 THEN {} ELSE Kept(keep[i + 1], i)
  BY <1>2 DEF Keeping, N
<1>4. keep[N + 1] = {}
  <2>1. N + 1 \in 1..(N + 1)
    BY <1>0
  <2> QED
    BY <1>3, <2>1
<1>7. bad = {}
  <2>0. \A i \in bad : i \in 0..N /\ ~ (/\ keep[N + 1 - i] \subseteq (N + 1 - i)..N
                                        /\ i # 0 => N \in keep[N + 1 - i])
    OBVIOUS
  <2>10. bad \subseteq Nat
    OBVIOUS
  <2> SUFFICES ASSUME bad # {} PROVE FALSE
    OBVIOUS
  <2>1. PICK k \in bad : \A j \in bad : ~(j < k)
    <3> HIDE DEF bad
    <3> QED
      BY <2>10, Least
  <2>2. k \in 0..N /\ ~ (/\ keep[N + 1 - k] \subseteq (N + 1 - k)..N
                         /\ k # 0 => N \in keep[N + 1 - k])
    <3> HIDE DEF bad
    <3> QED
      BY <2>0
  <2>9. \A j \in 0..N : j < k => j \notin bad
    BY <2>1
  <2> HIDE DEF bad
  <2>3. k # 0
    <3> SUFFICES ASSUME k = 0 PROVE FALSE
      OBVIOUS
    <3>1. N + 1 - k = N + 1
      BY <1>0
    <3> QED
      BY <1>4, <2>2, <3>1
  <2>4. k \in 1..N /\ k - 1 \in 0..N /\ k - 1 \notin bad
    <3>1. k \in 1..N /\ k - 1 \in 0..N /\ k - 1 < k
      BY <1>0, <2>2, <2>3
    <3> QED
      BY <2>9, <3>1
  <2>5. /\ keep[N + 2 - k] \subseteq (N + 2 - k)..N
        /\ k - 1 # 0 => N \in keep[N + 2 - k]
    <3>1. N + 1 - (k - 1) = N + 2 - k
      BY <1>0, <2>4
    <3> QED
      BY <2>4, <3>1 DEF bad
  <2>6. keep[N + 1 - k] = Kept(keep[N + 2 - k], N + 1 - k)
    <3>1. N + 1 - k \in 1..(N + 1) /\ N + 1 - k # N + 1 /\ (N + 1 - k) + 1 = N + 2 - k
      BY <1>0, <2>4
    <3> QED
      BY <1>3, <3>1
  <2>7. keep[N + 1 - k] \subseteq (N + 1 - k)..N
    BY <1>0, <2>4, <2>5, <2>6 DEF Kept
  <2>8. N \in keep[N + 1 - k]
    <3>1. CASE k = 1
      BY <1>0, <1>4, <2>6, <3>1 DEF Kept
    <3>2. CASE k # 1
      BY <2>4, <2>5, <2>6, <3>2 DEF Kept
    <3> QED
      BY <3>1, <3>2
  <2> QED
    BY <2>2, <2>7, <2>8, <2>4
<1>5. N \in 0..N /\ N + 1 - N = 1
  BY <1>0
<1>6. keep[1] \subseteq 1..N /\ (N # 0 => N \in keep[1])
  BY <1>5, <1>7
<1> QED
  BY <1>0, <1>1, <1>6 DEF N

\* The greatest number is among the last ones.
LEMMA LastHasGreatest ==
  ASSUME NEW ids \in SUBSET Int, NEW x \in ids, \A y \in ids : y <= x, NEW k \in Nat, k > 0
  PROVE  x \in Prompts!Last(ids, k) /\ Prompts!Last(ids, k) \subseteq ids
<1>1. {j \in ids : j > x} = {}
  <2> SUFFICES ASSUME NEW j \in ids, j > x PROVE FALSE
    OBVIOUS
  <2>1. j \in Int /\ x \in Int /\ j <= x
    OBVIOUS
  <2> QED
    BY <2>1
<1>2. Prompts!Cardinality({}) = 0
  <2>1. Prompts!Cardinality({}) = Cardinality({})
    BY Zenon DEF Prompts!Cardinality, Cardinality
  <2> QED
    BY <2>1, FS_EmptySet
<1>3. Prompts!Last(ids, k) = {i \in ids : Prompts!Cardinality({j \in ids : j > i}) < k}
  BY Zenon DEF Prompts!Last
<1>4. Prompts!Cardinality({j \in ids : j > x}) < k
  BY <1>1, <1>2
<1> QED
  BY <1>3, <1>4, Zenon

\* The recent messages of a request are a list of sizes.
Histories == Recents \subseteq Seq(Nat)

\* What is kept of the history, with the promise of the last prompt.
ContextInv == recent \in Seq(Nat) /\ pairs \in Nat /\ Prompts!ContextSurvives

\* The prompt of a turn, whatever is cut from it, has the newest message and the
\* latest pair, and pairs stay together.
Survives(p) ==
  /\ p.calls = p.results
  /\ recent # <<>> => Len(recent) \in p.messages
  /\ pairs > 0 => pairs \in p.calls
  /\ p.messages \subseteq 1..Len(recent)
  /\ p.calls \subseteq 1..pairs
  /\ p.made = pairs

\* Summarising keeps calls with their results, and the latest.
LEMMA SummaryKeepsLatest ==
  ASSUME NEW ids, pairs \in Nat, ids \subseteq 1..pairs, pairs > 0 => pairs \in ids
  PROVE  /\ Prompts!_summarize_tools(ids).calls = Prompts!_summarize_tools(ids).results
         /\ Prompts!_summarize_tools(ids).calls \subseteq ids
         /\ pairs > 0 => pairs \in Prompts!_summarize_tools(ids).calls
<1>1. Prompts!_summarize_tools(ids)
        = [calls |-> Prompts!Last(ids, 6), results |-> Prompts!Last(ids, 6)]
  BY DEF Prompts!_summarize_tools, Prompts!PairsKept
<1>2. Prompts!Last(ids, 6) \subseteq ids
  BY DEF Prompts!Last
<1>3. pairs > 0 => pairs \in Prompts!Last(ids, 6)
  BY LastHasGreatest
<1> QED
  BY <1>1, <1>2, <1>3

\* So does the budget of the tool observations.
LEMMA CapKeepsLatest ==
  ASSUME NEW ids, pairs \in Nat, ids \subseteq 1..pairs, pairs > 0 => pairs \in ids
  PROVE  /\ Prompts!_cap_tools(ids).calls = Prompts!_cap_tools(ids).results
         /\ Prompts!_cap_tools(ids).calls \subseteq ids
         /\ pairs > 0 => pairs \in Prompts!_cap_tools(ids).calls
BY SummaryKeepsLatest DEF Prompts!_cap_tools

\* The newest message is among the last ones.
LEMMA NewestSurvives ==
  ASSUME recent \in Seq(Nat), NEW ids, NEW k \in Nat, k > 0, ids \subseteq 1..Len(recent),
         recent # <<>> => Len(recent) \in ids
  PROVE  /\ Prompts!Last(ids, k) \subseteq 1..Len(recent)
         /\ recent # <<>> => Len(recent) \in Prompts!Last(ids, k)
<1>1. Prompts!Last(ids, k) \subseteq ids
  BY DEF Prompts!Last
<1>2. recent # <<>> => Len(recent) \in Prompts!Last(ids, k)
  BY LastHasGreatest
<1> QED
  BY <1>1, <1>2

\* What has to survive is in the prompt that is built.
LEMMA AssembledSurvives ==
  ASSUME recent \in Seq(Nat), pairs \in Nat
  PROVE  Survives(Prompts!assemble)
<1> DEFINE text == Prompts!_cap_tools(1..(IF native THEN 0 ELSE pairs))
           shown == Prompts!Last(Prompts!prepare_messages, 8)
<1>1. /\ shown \subseteq 1..Len(recent)
      /\ recent # <<>> => Len(recent) \in shown
  BY KeptMessages, NewestSurvives
<1>2. Prompts!assemble = [messages |-> shown,
                         summarised |-> (1..Len(recent)) \ Prompts!prepare_messages,
                  calls |-> text.calls \union (IF native THEN 1..pairs ELSE {}),
                  results |-> text.results \union (IF native THEN 1..pairs ELSE {}),
                  made |-> pairs]
  BY DEF Prompts!assemble, Prompts!Shown
<1>3. CASE native
  <2>1. text.calls = text.results
    BY DEF Prompts!_cap_tools, Prompts!_summarize_tools, Prompts!PairsKept
  <2>2. text.calls \subseteq 1..0
    <3>1. 1..(IF native THEN 0 ELSE pairs) = 1..0
      BY <1>3
    <3> QED
      BY <3>1 DEF Prompts!_cap_tools, Prompts!_summarize_tools, Prompts!PairsKept, Prompts!Last
  <2> HIDE DEF text, shown
  <2> QED
    BY <1>1, <1>2, <1>3, <2>1, <2>2 DEF Survives
<1>4. CASE ~native
  <2>1. 1..(IF native THEN 0 ELSE pairs) = 1..pairs
    BY <1>4
  <2>2. /\ text.calls = text.results /\ text.calls \subseteq 1..pairs
        /\ pairs > 0 => pairs \in text.calls
    BY <2>1, CapKeepsLatest
  <2> HIDE DEF text, shown
  <2> QED
    BY <1>1, <1>2, <1>4, <2>2 DEF Survives
<1> QED
  BY <1>3, <1>4

\* It survives a compaction.
LEMMA CompactedSurvives ==
  ASSUME recent \in Seq(Nat), pairs \in Nat, NEW p, Survives(p),
         p = [messages |-> p.messages, summarised |-> p.summarised, calls |-> p.calls,
              results |-> p.results, made |-> p.made]
  PROVE  Survives(Prompts!compact(p))
<1> DEFINE text == Prompts!_summarize_tools(p.calls)
           c == Prompts!compact(p)
<1>1. /\ Prompts!Last(p.messages, 4) \subseteq 1..Len(recent)
      /\ recent # <<>> => Len(recent) \in Prompts!Last(p.messages, 4)
  BY NewestSurvives DEF Survives
<1>2. /\ text.calls = text.results /\ text.calls \subseteq p.calls
      /\ pairs > 0 => pairs \in text.calls
  BY SummaryKeepsLatest DEF Survives
<1>3. /\ c.messages = Prompts!Last(p.messages, 4) /\ c.made = p.made
      /\ c.calls = IF native THEN p.calls ELSE text.calls
      /\ c.results = IF native THEN p.results ELSE text.results
  BY DEF Prompts!compact, Prompts!Compacted
<1> HIDE DEF text, c
<1>4. Survives(c)
  BY <1>1, <1>2, <1>3 DEF Survives
<1> QED
  BY <1>4 DEF c

\* Every turn keeps the invariant.
LEMMA ContextKeeps ==
  ASSUME ContextInv, [Prompts!Next]_Prompts!pvars
  PROVE  ContextInv'
<1>1. CASE UNCHANGED Prompts!pvars
  BY <1>1 DEF ContextInv, Prompts!ContextSurvives, Prompts!pvars
<1>2. CASE Prompts!Next
  <2>1. PICK made \in 0..CallsPerTurn : Prompts!Turn(made)
    BY <1>2 DEF Prompts!Next
  <2>2. recent' = recent /\ pairs' = pairs + made
    BY <2>1 DEF Prompts!Turn
  <2>3. Survives(prompt')
    <3>1. Survives(Prompts!assemble)
      BY AssembledSurvives DEF ContextInv
    <3>2. Survives(Prompts!compact(Prompts!assemble))
      <4>1. Prompts!assemble =
              [messages |-> Prompts!assemble.messages,
               summarised |-> Prompts!assemble.summarised,
               calls |-> Prompts!assemble.calls, results |-> Prompts!assemble.results,
               made |-> Prompts!assemble.made]
        BY DEF Prompts!assemble
      <4> QED
        BY <3>1, <4>1, CompactedSurvives DEF ContextInv
    <3> QED
      BY <2>1, <3>1, <3>2 DEF Prompts!Turn
  <2> QED
    BY <2>2, <2>3 DEF ContextInv, Prompts!ContextSurvives, Survives
<1> QED
  BY <1>1, <1>2

\* The other services do not move.
LEMMA PromptsOnly ==
  ASSUME part = "prompts", [Next]_<<part, slots>>
  PROVE  [Prompts!Next]_Prompts!pvars
BY DEF Next, slots, Prompts!pvars

\* However long the history and however many turns, calls and compactions: a
\* prompt has each call with its result, the latest pair and the newest message.
THEOREM ContextAlwaysSurvives == ASSUME Histories PROVE Spec => []ContextSurvives
<1>1. Init => (part = "prompts" => ContextInv)
  <2> SUFFICES ASSUME part = "prompts", Prompts!Init PROVE ContextInv
    BY DEF Init
  <2> QED
    BY DEF Prompts!Init, ContextInv, Prompts!ContextSurvives, Histories
<1>2. (part = "prompts" => ContextInv) /\ [Next]_<<part, slots>>
        => (part = "prompts" => ContextInv)'
  BY SamePart, PromptsOnly, ContextKeeps
<1>3. (part = "prompts" => ContextInv) => ContextSurvives
  BY DEF ContextInv, ContextSurvives
<1> QED
  BY <1>1, <1>2, <1>3, PTL DEF Spec

-----------------------------------------------------------------------------
(***************************************************************************)
(* The planner. Its own module has the proof, on the slots.                *)
(***************************************************************************)

\* A step of the planner's service is a step of the planner.
LEMMA PlanningOnly ==
  ASSUME part = "planning", [Next]_<<part, slots>>
  PROVE  [Planning!Next]_Planning!vars
BY DEF Next, slots, Planning!vars

\* The planner's service starts as the planner does.
LEMMA PlanningStarts ==
  ASSUME Init, part = "planning"
  PROVE  Planning!Init
BY DEF Init

\* A plan of coordinator.py can run as it stands: one ReportAgent closes it, it has
\* a producer for every goal that is not reused unless it exceeds the agent limit,
\* whatever the model proposed (_protect_required_producers, _finalize); its groups
\* are the plan in its order, and no agent shares a group with one it waits for;
\* nothing that a revision reuses was made from an invalidated artifact.
THEOREM PlansAlwaysRun ==
  ASSUME Planners
  PROVE  Spec => []PlanCanRun
<1>1. Init => (part = "planning" => PlanInv)
  BY PlanningStarts, PlanStart
<1>2. (part = "planning" => PlanInv) /\ [Next]_<<part, slots>>
        => (part = "planning" => PlanInv)'
  BY SamePart, PlanningOnly, PlanKeeps
<1>3. (part = "planning" => PlanInv) => PlanCanRun
  BY PlanStands DEF PlanCanRun
<1> QED
  BY <1>1, <1>2, <1>3, PTL DEF Spec

\* The calls that _budget_plan assigns never exceed the cap of the run, whatever the
\* floors and the signals ask for; when it is done ReportAgent has a call, if there
\* was one, and no specialist has two while another has none.
THEOREM QuotasAlwaysFair ==
  ASSUME Planners
  PROVE  Spec => []QuotasAreFair
<1>1. Init => (part = "planning" => PlanInv)
  BY PlanningStarts, PlanStart
<1>2. (part = "planning" => PlanInv) /\ [Next]_<<part, slots>>
        => (part = "planning" => PlanInv)'
  BY SamePart, PlanningOnly, PlanKeeps
<1>3. (part = "planning" => PlanInv) => QuotasAreFair
  BY QuotasStand DEF QuotasAreFair
<1> QED
  BY <1>1, <1>2, <1>3, PTL DEF Spec

-----------------------------------------------------------------------------
(***************************************************************************)
(* The tools offered. ListServices_proofs has the proof, on the slots.     *)
(***************************************************************************)

\* The other services do not move.
LEMMA SurfaceOnly ==
  ASSUME part = "surface", [Next]_<<part, slots>>
  PROVE  [Surface!Next]_Surface!tsvars
BY DEF Next, slots, Surface!tsvars

\* The offers are made as the module of the tools makes them.
LEMMA SurfaceStarts ==
  ASSUME Init, part = "surface"
  PROVE  Surface!Init
BY DEF Init

\* Whatever a model answers, however its answer arrives and whichever servers come
\* and go, _run_agent_in_slot executes the one tool that openai_tools offered under
\* the name called, with the arguments as they were written in full or with none;
\* ReportAgent reaches no public server, and the wiki is asked about the repository
\* that was declared.
THEOREM RunsAlwaysAsOffered ==
  ASSUME Offers
  PROVE  Spec => []RunsAsOffered
<1>1. Init => (part = "surface" => SurfaceInv)
  BY SurfaceStarts, SurfaceStart
<1>2. (part = "surface" => SurfaceInv) /\ [Next]_<<part, slots>>
        => (part = "surface" => SurfaceInv)'
  BY SamePart, SurfaceOnly, SurfaceKeeps
<1>3. (part = "surface" => SurfaceInv) => RunsAsOffered
  BY DEF SurfaceInv, RunsAsOffered
<1> QED
  BY <1>1, <1>2, <1>3, PTL DEF Spec

-----------------------------------------------------------------------------
(***************************************************************************)
(* The local tools. ListServices_proofs has the proof, on the slots.       *)
(***************************************************************************)

\* The other services do not move.
LEMMA BuiltinOnly ==
  ASSUME part = "builtin", [Next]_<<part, slots>>
  PROVE  [Builtin!Next]_Builtin!bvars
BY DEF Next, slots, Builtin!bvars

\* The local tools start on some resume.
LEMMA BuiltinStarts ==
  ASSUME Init, part = "builtin"
  PROVE  Builtin!Init
BY DEF Init

\* For a resume of any length: check_timeline, which compares each period with the
\* one before it only, tells of some overlap when any two periods overlap, of no
\* false one, and without one its gaps are real; a claim that locate_evidence finds
\* is one that calculate_jd_coverage covers; and every line of parse_resume is in
\* the section of the last title.
THEOREM ToolsAlwaysAgree ==
  ASSUME Resumes, MaxLines \in Nat
  PROVE  Spec => []ToolsAgree
<1>1. Init => (part = "builtin" => BuiltinInv)
  BY BuiltinStarts, BuiltinStart
<1>2. (part = "builtin" => BuiltinInv) /\ [Next]_<<part, slots>>
        => (part = "builtin" => BuiltinInv)'
  BY SamePart, BuiltinOnly, BuiltinKeeps
<1>3. (part = "builtin" => BuiltinInv) => ToolsAgree
  BY BuiltinAgrees DEF ToolsAgree
<1> QED
  BY <1>1, <1>2, <1>3, PTL DEF Spec

-----------------------------------------------------------------------------
(***************************************************************************)
(* The task queue. Its own module has the proof; here it is applied to the *)
(* slots of the service.                                                   *)
(***************************************************************************)

Rows == INSTANCE TaskQueue_proofs WITH
    Users <- TaskUsers,
    task <- s1, stream <- s2, worker <- s3, user <- s4, run <- s5,
    mirror <- s6, left <- s7, history <- s8

\* The two instances of the queue say the same.
LEMMA SameQueue ==
  /\ Tasks!Init => Rows!Init
  /\ [Tasks!Next]_Tasks!vars => [Rows!Next]_Rows!vars
  /\ Rows!TasksSettle => Tasks!TasksSettle
<1>1. Tasks!Init => Rows!Init
  BY DEF Tasks!Init, Tasks!Unstarted, Tasks!Idle, Rows!Init, Rows!Unstarted, Rows!Idle
<1>2. Tasks!Next <=> Rows!Next
  BY DEF
    Tasks!vars, Tasks!Row, Tasks!Open, Tasks!Final, Tasks!Fenced, Tasks!Idle,
    Tasks!Fault, Tasks!To, Tasks!MonitorFree, Tasks!pollMessage, Tasks!claimTask,
    Tasks!runQueuedEvaluation, Tasks!enqueueTaskRun, Tasks!updateResumeTask,
    Tasks!startFails, Tasks!ack, Tasks!breaks, Tasks!handleFailure, Tasks!announceRetry,
    Tasks!gaveUp, Tasks!requeueRetryReadyTasks, Tasks!recoverStuckRunning,
    Tasks!Decision, Tasks!control, Tasks!Done, Tasks!Goes,
    Tasks!compareAndSetControlState, Tasks!pause, Tasks!pauseActiveRun, Tasks!resume,
    Tasks!enqueue, Tasks!enqueueFails, Tasks!resumePausedRun, Tasks!settles,
    Tasks!cancel, Tasks!createRevision, Tasks!cancelActiveRun, Tasks!cancelQueuedTask,
    Tasks!cancelLinkedRun, Tasks!RunStep, Tasks!Dispatch, Tasks!applyPausedResult,
    Tasks!finishInternal, Tasks!syncSourceTask, Tasks!Restart, Tasks!Next, Rows!vars,
    Rows!Row, Rows!Open, Rows!Final, Rows!Fenced, Rows!Idle, Rows!Fault, Rows!To,
    Rows!MonitorFree, Rows!pollMessage, Rows!claimTask, Rows!runQueuedEvaluation,
    Rows!enqueueTaskRun, Rows!updateResumeTask, Rows!startFails, Rows!ack, Rows!breaks,
    Rows!handleFailure, Rows!announceRetry, Rows!gaveUp, Rows!requeueRetryReadyTasks,
    Rows!recoverStuckRunning, Rows!Decision, Rows!control, Rows!Done, Rows!Goes,
    Rows!compareAndSetControlState, Rows!pause, Rows!pauseActiveRun, Rows!resume,
    Rows!enqueue, Rows!enqueueFails, Rows!resumePausedRun, Rows!settles, Rows!cancel,
    Rows!createRevision, Rows!cancelActiveRun, Rows!cancelQueuedTask,
    Rows!cancelLinkedRun, Rows!RunStep, Rows!Dispatch, Rows!applyPausedResult,
    Rows!finishInternal, Rows!syncSourceTask, Rows!Restart, Rows!Next
<1>3. Rows!TasksSettle => Tasks!TasksSettle
  BY DEF
    Tasks!TasksSettle, Tasks!StoppedStaysUnrun, Tasks!QueuedIsAnnounced, Tasks!EndIsKept,
    Tasks!Final, Rows!TasksSettle, Rows!StoppedStaysUnrun, Rows!QueuedIsAnnounced,
    Rows!EndIsKept, Rows!Final
<1> QED
  BY <1>1, <1>2, <1>3 DEF Tasks!vars, Rows!vars

\* The other services do not move.
LEMMA TasksOnly ==
  ASSUME part = "tasks", [Next]_<<part, slots>>
  PROVE  [Tasks!Next]_Tasks!vars
BY DEF Next, slots, Tasks!vars

\* No task runs against its row, waits for nobody or outlives its run, for any
\* workers, users, messages, requests and faults.
THEOREM TasksSettled == Spec => []TasksSettle
<1>1. Init /\ part = "tasks" => Rows!Init
  BY SameQueue DEF Init
<1>2. part = "tasks" /\ [Next]_<<part, slots>> => [Rows!Next]_Rows!vars
  BY TasksOnly, SameQueue
<1>3. [Next]_<<part, slots>> => ((part = "tasks")' <=> part = "tasks")
  BY SamePart
<1>4. (part = "tasks" => Rows!TasksSettle) => TasksSettle
  BY SameQueue DEF TasksSettle
<1>5. Rows!Spec => []Rows!TasksSettle
  BY Rows!Settled
<1> QED
  BY <1>1, <1>2, <1>3, <1>4, <1>5, PTL DEF Spec, Rows!Spec
=============================================================================
