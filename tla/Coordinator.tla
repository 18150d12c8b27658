---------------------------- MODULE Coordinator ----------------------------
(***************************************************************************)
(* The planner of a run (runtime/coordinator.py): from the goal of a run   *)
(* it chains backwards to the agents that produce what is missing, lets    *)
(* the model refine the plan of a run type that is neither simple nor a    *)
(* full evaluation, orders and groups the agents, and divides the provider *)
(* calls of the run among them.                                            *)
(***************************************************************************)
EXTENDS Integers, Sequences, FiniteSets, SequencesExt

CONSTANTS RunTypes,      \* the run types of the instance
          Revisions,     \* records [previous, invalidated]: what an earlier
                         \* revision made and what the request invalidates
          Policies,      \* records [maxAgents, order, parallel, required,
                         \* reserve]
          Caps,          \* provider calls assignable to agents
          Weighs,        \* records [urls, stack, gaps, risky]: what weighs in
                         \* the division of the calls
          Proposals      \* plans the model may propose

Terminal == "ReportAgent"
Specialists == {"TechAgent", "ProjectAgent", "RiskAgent"}
\* The coordinator is an entry of the registry like any other agent, so a
\* proposed plan that names it is not filtered.
Agents == Specialists \union {Terminal, "CoordinatorAgent"}

FullEval == {"full_evaluation", "jd_evaluation", "backend_eval", "agent_eval"}
Simple == {"timeline_check", "risk_check", "evidence_check", "tech_match",
           "project_analysis", "project_rewrite", "resume_optimize",
           "interview_questions", "followup"}

Goals(type) ==
    CASE type \in FullEval \union {"unknown"} ->
            <<"resume_facts", "jd_requirements", "technical_findings",
              "project_findings", "risks", "final_report">>
      [] type \in {"tech_match", "jd_gap"} ->
            <<"resume_facts", "jd_requirements", "technical_findings",
              "final_report">>
      [] type \in {"project_analysis", "project_rewrite", "resume_optimize"} ->
            <<"resume_facts", "project_findings", "final_report">>
      [] type \in {"risk_check", "timeline_check", "interview_questions"} ->
            <<"resume_facts", "risks", "final_report">>
      [] type \in {"evidence_check", "followup"} -> <<"final_report">>

Pipeline(type) ==
    CASE type \in FullEval \union {"unknown"} ->
            <<"TechAgent", "ProjectAgent", "RiskAgent", "ReportAgent">>
      [] type \in {"tech_match", "jd_gap"} -> <<"TechAgent", "ReportAgent">>
      [] type \in {"project_analysis", "project_rewrite", "resume_optimize"} ->
            <<"ProjectAgent", "ReportAgent">>
      [] type \in {"risk_check", "timeline_check", "interview_questions"} ->
            <<"RiskAgent", "ReportAgent">>
      [] type \in {"evidence_check", "followup"} -> <<"ReportAgent">>

\* Every artifact has at most one producer, and the only artifact an agent
\* requires (resume_facts) is made before planning, by the preflight.
Produces == [a \in Agents |->
    CASE a = "TechAgent" -> {"technical_findings"}
      [] a = "ProjectAgent" -> {"project_findings"}
      [] a = "RiskAgent" -> {"risks"}
      [] a = Terminal -> {"final_report"}
      [] OTHER -> {"execution_plan"}]

Producers(artifact) ==
    {a \in Agents \ {"CoordinatorAgent"} : artifact \in Produces[a]}

Dependencies(a) == IF a = Terminal THEN Specialists ELSE {}

(***************************************************************************)
(* Goals and backward chaining                                             *)
(***************************************************************************)

\* What the resume and the request show, as far as it shapes the plan.
Signals == [projects : BOOLEAN, timeline : BOOLEAN, jd : BOOLEAN,
            sparse : BOOLEAN]

Lower(a, b) == IF a < b THEN a ELSE b

AgentLimit(policy) == IF policy.maxAgents > 1 THEN policy.maxAgents ELSE 1

AddLast(s, e) == IF Contains(s, e) THEN s ELSE Append(s, e)

\* The elements of a list that are in a set, in their order.
AddWanted(s, e, wanted) == IF e \in wanted THEN Append(s, e) ELSE s
Only(s, wanted) == FoldLeft(LAMBDA sofar, e : AddWanted(sofar, e, wanted), <<>>, s)

\* Goals that the input cannot support are dropped; a project-bearing full
\* evaluation always keeps its project findings; a sparse one keeps the core.
resolve_goal_artifacts(type, signals, policy) ==
    LET asked == IF policy.required = <<>> THEN Goals(type) ELSE policy.required
        unsupported ==
            {g \in {"project_findings", "risks", "jd_requirements"} :
                \/ g = "project_findings" /\ ~signals.projects
                \/ g = "risks" /\ ~signals.timeline
                \/ g = "jd_requirements" /\ ~signals.jd}
        supported == Only(asked, ToSet(asked) \ unsupported)
        forced == IF /\ type \in FullEval
                     /\ signals.projects
                     /\ ~signals.sparse
                  THEN AddLast(supported, "project_findings") ELSE supported
        core == {"resume_facts", "jd_requirements", "technical_findings",
                 "final_report"}
                \union (IF signals.projects THEN {"project_findings"} ELSE {})
                \union (IF signals.timeline THEN {"risks"} ELSE {})
    IN  IF signals.sparse /\ type \in FullEval
        THEN Only(forced, core)
        ELSE forced

_forced_agents(type, signals, goal) ==
    IF /\ type \in FullEval \/ type = "project_analysis"
       /\ signals.projects
       /\ ~signals.sparse
       /\ Contains(goal, "project_findings")
    THEN {"ProjectAgent"} ELSE {}

base_plan(type, policy) ==
    LET cut == SubSeq(Pipeline(type), 1,
                      Lower(AgentLimit(policy), Len(Pipeline(type))))
    IN  AddLast(cut, Terminal)

Chase(plan, g, known) ==
    IF g \in known \/ Producers(g) = {} THEN plan
    ELSE AddLast(plan, CHOOSE a \in Producers(g) : TRUE)
Chased(goal, known) == FoldLeft(LAMBDA plan, g : Chase(plan, g, known), <<>>, goal)

\* The producers of the goals that are missing, in the order of the goals. A
\* goal whose only producer is gated off by the signals is still produced.
backward_chain(type, signals, policy, present) ==
    LET goal == resolve_goal_artifacts(type, signals, policy)
        known == present \union {"resume_facts", "parsed_resume"}
        chase == Chased(goal, known)
        forced == IF /\ _forced_agents(type, signals, goal) # {}
                     /\ "project_findings" \notin present
                  THEN AddLast(chase, "ProjectAgent") ELSE chase
    IN  IF forced = <<>> THEN base_plan(type, policy) ELSE forced

(***************************************************************************)
(* Ordering, closure and grouping                                          *)
(***************************************************************************)

Dedup(plan) == FoldLeft(AddLast, <<>>, plan)

\* Mutant: a terminal agent is added only where there is none.
_ensure_unique_terminal_Added(plan) == AddLast(plan, Terminal)

\* Exactly one terminal agent closes the plan.
_ensure_unique_terminal(plan) ==
    Append(Only(plan, ToSet(plan) \ {Terminal}), Terminal)

Rank(policy, a) ==
    IF Contains(policy.order, a)
    THEN CHOOSE i \in DOMAIN policy.order : policy.order[i] = a
    ELSE 10000

\* Among the agents whose planned dependencies are placed, the one preferred by
\* the policy, then the earliest in the plan; all that remain if there is none.
Place(placed, plan, policy) ==
    LET remaining == ToSet(plan) \ ToSet(placed)
        ready == {k \in DOMAIN plan :
                    /\ plan[k] \in remaining
                    /\ (Dependencies(plan[k]) \intersect ToSet(plan)) \subseteq ToSet(placed)}
        best == CHOOSE k \in ready : \A m \in ready :
                    \/ Rank(policy, plan[k]) < Rank(policy, plan[m])
                    \/ Rank(policy, plan[k]) = Rank(policy, plan[m]) /\ k <= m
    IN  IF ready = {} THEN placed \o Only(plan, remaining)
        ELSE Append(placed, plan[best])
Placed(plan, policy) == FoldLeft(LAMBDA sofar, a : Place(sofar, plan, policy), <<>>, plan)

\* A stable topological pass, cut one above the agent limit.
_order_by_dependencies(proposed, policy) ==
    LET plan == Dedup(proposed)
        placed == Placed(plan, policy)
    IN  _ensure_unique_terminal(
            SubSeq(placed, 1, Lower(AgentLimit(policy) + 1, Len(placed))))

_producible_artifacts(plan) == UNION {Produces[a] : a \in ToSet(plan)}

\* Producers of goals that nobody in the plan produces are put in front of the
\* terminal agent, and the plan is ordered again.
BeforeLast(plan, a) ==
    IF Contains(plan, a) THEN plan ELSE Append(Front(plan), a) \o <<Last(plan)>>
Repaired(ordered, lacking) ==
    FoldLeft(LAMBDA plan, g : BeforeLast(plan, CHOOSE a \in Producers(g) : TRUE),
             ordered, lacking)

_finalize(proposed, policy, needed, kept) ==
    LET ordered == _ensure_unique_terminal(_order_by_dependencies(proposed, policy))
        lacking == Only(needed, {g \in ToSet(needed) :
                      /\ g \notin kept
                      /\ g \notin _producible_artifacts(ordered)
                      /\ Producers(g) # {}})
        repaired == Repaired(ordered, lacking)
    IN  IF lacking = <<>> THEN ordered
        ELSE _ensure_unique_terminal(_order_by_dependencies(repaired, policy))

\* An agent joins the last group when both may run in parallel and it depends
\* on no member.
Grouped(groups, a, policy) ==
    IF /\ groups # <<>>
       /\ a \in Specialists
       /\ ToSet(Last(groups)) \subseteq Specialists
       /\ policy.parallel
       /\ Dependencies(a) \intersect ToSet(Last(groups)) = {}
    THEN Append(Front(groups), Append(Last(groups), a))
    ELSE Append(groups, <<a>>)

_parallel_groups(ordered, policy) ==
    FoldLeft(LAMBDA groups, a : Grouped(groups, a, policy), <<>>, ordered)

\* A refined plan may drop optional agents, never the producer of a goal.
Protect(plan, g, base) ==
    LET hits == Only(base, Producers(g))
    IN  IF hits = <<>> \/ \E a \in Producers(g) : Contains(plan, a) THEN plan
        ELSE IF plan # <<>> /\ Last(plan) = Terminal
             THEN Append(Front(plan), Head(hits)) \o <<Terminal>>
             ELSE Append(plan, Head(hits))

_protect_required_producers(refined, base, goal) ==
    FoldLeft(LAMBDA plan, g : Protect(plan, g, base), Dedup(refined), goal)

(***************************************************************************)
(* Division of the provider calls (_budget_plan)                           *)
(***************************************************************************)

Spent(quota) == FoldFunction(LAMBDA n, sum : n + sum, 0, quota)

\* Mutant: floors are granted whatever is left.
Grant_Minted(quota, cap, a, n) == [quota EXCEPT ![a] = @ + n]

\* Give agent a up to n more calls, as far as the cap goes.
Grant(quota, cap, a, n) ==
    [quota EXCEPT ![a] = @ + Lower(n, cap - Spent(quota))]

GrantAt(quota, cap, a, k) ==
    IF a \in DOMAIN quota /\ quota[a] = k /\ Spent(quota) < cap
    THEN Grant(quota, cap, a, 1) ELSE quota

\* One call for every agent of the sequence that has exactly k calls.
GrantEach(quota, cap, agents, k) ==
    FoldLeft(LAMBDA q, a : GrantAt(q, cap, a, k), quota, agents)

Priority == <<"TechAgent", "ProjectAgent", "RiskAgent">>

\* Full evaluations: the report first, then one call per specialist, then the
\* calls that a recognised stack or a declared URL is worth, then one more.
single_pass_quotas(ordered, cap, signals) ==
    LET none == [a \in ToSet(ordered) |-> 0]
        report == Grant(none, cap, Terminal, 3)
        each == GrantEach(report, cap, Priority, 0)
        upto(q, a, top) == IF a \in DOMAIN q /\ q[a] < top
                           THEN Grant(q, cap, a, top - q[a]) ELSE q
        stack == IF signals.stack THEN upto(each, "TechAgent", 4) ELSE each
        urls == IF signals.urls THEN upto(stack, "ProjectAgent", 3) ELSE stack
        remembered == Dedup(
            (IF signals.gaps THEN <<"ProjectAgent">> ELSE <<>>)
            \o (IF signals.risky THEN <<"RiskAgent">> ELSE <<>>) \o Priority)
    IN  GrantEach(urls, cap, remembered, 1)

\* Other run types: a floor for the report (at most 3 calls, as terminalReserve),
\* one call per agent, and a floor for ProjectAgent, which acquires sources.
TotalCap(a, signals) ==
    CASE a = "CoordinatorAgent" -> 1
      [] a = "ProjectAgent" /\ signals.urls -> 5
      [] OTHER -> 4

floor_quotas(ordered, cap, reserve, signals) ==
    LET none == [a \in ToSet(ordered) |-> 0]
        report == IF cap > 0
                  THEN Grant(none, cap, Terminal, IF reserve > 1 THEN reserve ELSE 1)
                  ELSE none
        each == GrantEach(report, cap,
                    Only(ordered, ToSet(ordered) \ {Terminal}), 0)
        floor == Lower(IF signals.urls THEN 4 ELSE 2,
                       TotalCap("ProjectAgent", signals))
    IN  IF /\ "ProjectAgent" \in DOMAIN each
           /\ each["ProjectAgent"] \in 1..(floor - 1)
        THEN Grant(each, cap, "ProjectAgent", floor - each["ProjectAgent"])
        ELSE each

(***************************************************************************)
(* Reuse of the artifacts of an earlier revision                           *)
(***************************************************************************)

ARTIFACT_INVALIDATION_GRAPH(artifact) ==
    CASE artifact = "parsed_resume" -> {"resume_facts"}
      [] artifact = "resume_facts" ->
            {"jd_requirements", "technical_findings", "project_findings",
             "risks", "final_report"}
      [] artifact = "jd_requirements" ->
            {"technical_findings", "project_findings", "final_report"}
      [] artifact \in {"technical_findings", "project_findings", "risks"} ->
            {"final_report"}
      [] OTHER -> {}

Spread(found) == found \union UNION {ARTIFACT_INVALIDATION_GRAPH(a) : a \in found}
Expanded(names, steps) == FoldLeft(LAMBDA found, step : Spread(found), names, steps)

\* The longest chain of the graph has four edges.
expand_invalidated_artifacts(names) == Expanded(names, <<1, 2, 3, 4>>)

reusable_artifacts(revision) ==
    revision.previous \ expand_invalidated_artifacts(revision.invalidated)

(***************************************************************************)
(* The planner as a process                                                *)
(***************************************************************************)

VARIABLES request,   \* type, policy and revision, fixed
          signals,   \* what inspect_signals sees
          phase,     \* "start", "refine", "budget", "share", "done"
          plan,      \* the finalized plan
          weigh,     \* the signals of the division of the calls
          cap,       \* calls that may be assigned
          quota      \* calls assigned to each planned agent

vars == <<request, signals, phase, plan, weigh, cap, quota>>

goal == resolve_goal_artifacts(request.type, signals, request.policy)
present == reusable_artifacts(request.revision)

Init ==
    /\ request \in [type : RunTypes, policy : Policies, revision : Revisions]
    /\ signals \in Signals
    /\ phase = "start"
    /\ plan = <<>>
    /\ weigh = [urls |-> FALSE, stack |-> FALSE, gaps |-> FALSE, risky |-> FALSE]
    /\ cap = 0
    /\ quota = <<>>

\* Simple run types and full evaluations keep the plan of the chain.
plan_from_artifacts ==
    /\ phase = "start"
    /\ plan' = _finalize(
            backward_chain(request.type, signals, request.policy, present),
            request.policy, goal, present)
    /\ phase' = IF request.type \in Simple \union FullEval
                THEN "budget" ELSE "refine"
    /\ UNCHANGED <<request, signals, weigh, cap, quota>>

\* The model proposes a plan (or a plan it proposed earlier is cached); an
\* empty proposal and a failed call leave the plan of the chain.
_refine(proposal) ==
    /\ phase = "refine"
    /\ plan' = IF proposal = <<>> THEN _finalize(plan, request.policy, goal, present)
               ELSE _finalize(_protect_required_producers(proposal, plan, goal),
                              request.policy, goal, present)
    /\ phase' = "budget"
    /\ UNCHANGED <<request, signals, weigh, cap, quota>>

\* A full evaluation divides at most 12 calls, in one pass.
_budget_plan(limit, sig) ==
    /\ phase = "budget"
    /\ weigh' = sig
    /\ IF request.type \in FullEval
       THEN /\ cap' = Lower(limit, 12)
            /\ quota' = single_pass_quotas(plan, cap', sig)
            /\ phase' = "done"
       ELSE /\ cap' = limit
            /\ quota' = floor_quotas(plan, limit, request.policy.reserve, sig)
            /\ phase' = "share"
    /\ UNCHANGED <<request, signals, plan>>

\* What is left goes, one call at a time, to an agent of the lowest layer,
\* specialists before the report; the weights choose within the layer.
Eligible == {a \in DOMAIN quota : quota[a] < TotalCap(a, weigh)}
Pool == IF Eligible \ {Terminal} # {} THEN Eligible \ {Terminal} ELSE Eligible

GrantTurn(a) ==
    /\ phase = "share"
    /\ Spent(quota) < cap
    /\ a \in Pool
    /\ \A b \in Pool : quota[a] <= quota[b]
    /\ quota' = [quota EXCEPT ![a] = @ + 1]
    /\ UNCHANGED <<request, signals, phase, plan, weigh, cap>>

Shared ==
    /\ phase = "share"
    /\ Spent(quota) >= cap \/ Eligible = {}
    /\ phase' = "done"
    /\ UNCHANGED <<request, signals, plan, weigh, cap, quota>>

Next ==
    \/ plan_from_artifacts
    \/ \E proposal \in Proposals : _refine(proposal)
    \/ \E limit \in Caps, sig \in Weighs : _budget_plan(limit, sig)
    \/ \E a \in Agents : GrantTurn(a)
    \/ Shared

Spec == Init /\ [][Next]_vars

(***************************************************************************)
(* Properties                                                              *)
(***************************************************************************)

Planned == phase \notin {"start"}
Groups == _parallel_groups(plan, request.policy)

\* A plan that is not cut at the agent limit has a producer for every goal
\* that is neither reused nor unproducible, whatever the model proposed, which
\* agents the signals gate off and what the policy prefers, and one ReportAgent
\* closes it. Its groups run the whole plan, in order, and an agent starts only
\* when the agents it depends on are in earlier groups: nothing a group runs in
\* parallel waits for another member of it.
PlanIsWhole == Planned =>
    /\ plan # <<>> /\ Last(plan) = Terminal
    /\ Cardinality({i \in DOMAIN plan : plan[i] = Terminal}) = 1
    /\ \/ Len(plan) > AgentLimit(request.policy)
       \/ \A g \in ToSet(goal) \ present :
             Producers(g) # {} => \E a \in Producers(g) : Contains(plan, a)
    /\ FlattenSeq(Groups) = plan
    /\ \A i \in DOMAIN Groups : \A a \in ToSet(Groups[i]) :
          \A d \in Dependencies(a) \intersect ToSet(plan) :
             \E j \in 1..(i - 1) : Contains(Groups[j], d)

\* Nothing that a revision reuses was made from an invalidated artifact.
ReuseIsClean ==
    /\ present \intersect request.revision.invalidated = {}
    /\ \A a \in {"parsed_resume", "resume_facts", "jd_requirements",
                 "technical_findings", "project_findings", "risks"} :
          a \in expand_invalidated_artifacts(request.revision.invalidated)
            => ARTIFACT_INVALIDATION_GRAPH(a) \intersect present = {}

\* A plan can run as it stands: what it does not make itself is at hand, and
\* good.
PlanCanRun == PlanIsWhole /\ ReuseIsClean

\* The calls assigned never exceed the cap of the run, whatever floors and
\* signals ask for ("whose sum never exceeds the run cap"). As long as one call
\* can be assigned ReportAgent has one, and no specialist has a second call
\* while another planned specialist has none.
QuotasAreFair ==
    /\ Spent(quota) <= cap
    /\ phase = "done" /\ cap > 0 =>
         /\ quota[Terminal] > 0
         /\ \A a, b \in DOMAIN quota \ {Terminal, "CoordinatorAgent"} :
               quota[a] > 1 => quota[b] > 0
=============================================================================
