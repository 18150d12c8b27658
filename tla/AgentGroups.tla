---------------------------- MODULE AgentGroups ----------------------------
(***************************************************************************)
(* What both executors of a run (runtime/executor.py and its LangGraph     *)
(* variant) do with the groups of a plan: which group comes next, what the *)
(* success or the failure of an agent changes, how the outcomes of a group *)
(* are merged, and how a run that reaches the end of its groups is judged. *)
(* The attributes of an executor that a snapshot carries are one record. A *)
(* group is a set of agents: they run side by side, and the order in which *)
(* their outcomes are merged decides nothing of what is modelled, since    *)
(* the report is in a group of its own.                                    *)
(***************************************************************************)
EXTENDS Integers, Sequences, FiniteSets, SequencesExt

CONSTANTS Specialists,  \* agents of a plan other than the report
          Terminal,     \* the agent that writes the report
          Groupings,    \* sequences of groups the planner may return
          MaxAgents,    \* policy.maxAgentCount
          None          \* no snapshot

Agents == Specialists \union {Terminal}
Outcomes == {"ok", "failed", "budget"}

\* What Coordinator.PlanIsClosed and GroupsRespectDependencies show of a plan.
ASSUME GroupingsAssumption ==
    /\ IsFiniteSet(Specialists)
    /\ Terminal \notin Specialists
    /\ Groupings \subseteq Seq(SUBSET Agents)
    /\ \A groups \in Groupings :
          /\ groups # <<>>
          /\ Last(groups) = {Terminal}
          /\ \A i \in 1..(Len(groups) - 1) : groups[i] \subseteq Specialists

\* The attributes of an executor.
Marks == {"max_agent_count", "agent_failed", "consecutive_failures",
          "no_terminal_answer"}
Snapshots ==
    [groups : Seq(SUBSET Agents), next : Nat, executed : SUBSET Agents,
     degraded : SUBSET Marks, reportFailed : BOOLEAN, answer : BOOLEAN,
     goals : SUBSET Agents]

ASSUME NoneAssumption == 
    None \notin Snapshots /\ None \notin {"SUCCEEDED", "PARTIAL_SUCCESS"}

\* next: groups consumed; executed: agents done, failed ones included; goals:
\* agents that produce a goal of the plan.
Fresh(groups) ==
    [groups |-> groups, next |-> 0, executed |-> {}, degraded |-> {},
     reportFailed |-> FALSE, answer |-> FALSE,
     goals |-> UNION {groups[i] : i \in DOMAIN groups}]

\* Mutant: the agents of a group run whether or not they were executed.
Group_All(m) == m.groups[m.next + 1]

Group(m) == m.groups[m.next + 1] \ m.executed
Left(m) == m.next < Len(m.groups)

\* A group is passed over when its agents are done, or when the agent limit is
\* reached and it does not hold the report.
OverLimit(m) == Cardinality(m.executed) >= MaxAgents /\ Terminal \notin Group(m)
Skippable(m) == Group(m) = {} \/ OverLimit(m)

Marked(m, mark) == [m EXCEPT !.degraded = @ \union {mark}]

\* Mutant: a group that is passed over is looked at again.
Skip_Stay(m) == Marked(m, "max_agent_count")

Skip(m) ==
    LET next == [m EXCEPT !.next = @ + 1]
    IN  IF Group(m) # {} THEN Marked(next, "max_agent_count") ELSE next

\* Up to the first group that runs.
SkipAll(m) ==
    LET at(k) == [m EXCEPT !.next = k]
        run == {k \in m.next..(Len(m.groups) - 1) : ~Skippable(at(k))}
        first == IF run = {} THEN Len(m.groups)
                 ELSE CHOOSE k \in run : \A other \in run : k <= other
    IN  IF \E k \in m.next..(first - 1) : Group(at(k)) # {}
        THEN Marked(at(first), "max_agent_count") ELSE at(first)

_ensure_terminal_tail(m) ==
    IF \/ m.reportFailed
       \/ \E i \in (m.next + 1)..Len(m.groups) : Terminal \in m.groups[i]
    THEN m
    ELSE [m EXCEPT !.groups = Append(@, {Terminal})]

_after_agent_success(m, agents) ==
    [m EXCEPT !.executed = @ \union agents, !.answer = @ \/ Terminal \in agents]

\* Mutant: a failed agent leaves no trace of its failure.
_after_agent_failure_Silent(m, agents) == [m EXCEPT !.executed = @ \union agents]

_after_agent_failure(m, agents) ==
    LET failed == Marked([m EXCEPT !.executed = @ \union agents,
                                   !.reportFailed = @ \/ Terminal \in agents],
                         "agent_failed")
    IN  CASE agents = {} -> m
          [] agents = {Terminal} -> failed
          [] OTHER -> _ensure_terminal_tail(failed)

\* What the agents of a group that succeeded and those that failed leave.
Merge(m, group, outcome) ==
    LET ok == {a \in group : outcome[a] = "ok"}
    IN  _after_agent_failure(_after_agent_success(m, ok), group \ ok)

\* An exhausted run budget ends the merge and the run.
Exhausted(group, outcome) == \E a \in group : outcome[a] = "budget"

\* Two groups in a row without a success: give up the rest but the report.
GroupFailures(failures, group, outcome) ==
    IF \E a \in group : outcome[a] = "ok" THEN 0 ELSE failures + 1

GiveUp(m, failures) ==
    IF failures >= 2
    THEN _ensure_terminal_tail(Marked(m, "consecutive_failures"))
    ELSE m

\* The end of the groups: an answer is made up when there is none.
Concluded(m) ==
    IF m.answer THEN m
    ELSE Marked([m EXCEPT !.reportFailed = TRUE], "no_terminal_answer")

_has_hard_degradation(m) ==
    m.degraded \intersect {"agent_failed", "consecutive_failures",
                           "no_terminal_answer"} # {}

\* A goal whose producer was executed does not count as missing.
_missing_required_goal_artifacts(m) == m.goals \ m.executed

\* contract: whether the report passes _report_contract_violation.
FinalStatus(m, contract) ==
    IF \/ Concluded(m).reportFailed
       \/ _has_hard_degradation(Concluded(m))
       \/ _missing_required_goal_artifacts(m) # {}
       \/ ~contract
    THEN "PARTIAL_SUCCESS" ELSE "SUCCEEDED"

\* Mutant: the plan is run as the user wrote it.
Regrouped_AsWritten(plan) == [i \in DOMAIN plan |-> {plan[i]}]

\* _finalize of a plan the user approved: the specialists, then the report.
Regrouped(plan) ==
    LET body == ToSet(plan) \intersect Specialists
    IN  IF body = {} THEN <<{Terminal}>> ELSE <<body, {Terminal}>>

\* resumePausedRun with an approved plan: the groups are dropped from the
\* snapshot, and rebuilt by whoever restores it.
Edited(m, groups) == [m EXCEPT !.groups = groups, !.next = 0]
=============================================================================
