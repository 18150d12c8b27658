---------------------------- MODULE RunExecution ----------------------------
(***************************************************************************)
(* One run of the agent runtime (RunExecutor in runtime/executor.py) and   *)
(* what the control plane keeps of it: plan, plan approval, the loop over  *)
(* agent groups with its pause boundary and its checkpoint, the result.    *)
(* The process may be killed between any two steps; the control plane then *)
(* dispatches the run, or a retry of it, again from the last snapshot it   *)
(* stored.                                                                 *)
(***************************************************************************)
EXTENDS AgentGroups

CONSTANTS Approved,     \* plans a user may approve, edited
          Dispatches,   \* bound: times the run may be dispatched
          Faults        \* of {"crash", "timeout", "lost", "late"}

VARIABLES row,       \* control plane: [status, snapshot]
          pc,        \* "off", "plan", "boundary", "group", "save", "finish"
          mem,       \* attributes of the executor
          running,   \* agents of the group that are executing
          outcome,   \* outcomes of the agents of the group
          failures,  \* consecutive_failures, a local of _execute_inner
          pausing,   \* the pause event is set
          late,      \* checkpoints whose first attempt is still under way
          dispatched,\* number of dispatches
          overtaken, \* history: a late checkpoint has replaced a newer one
          saved,     \* history: agents that were executed in a stored snapshot
          won        \* history: agents whose success was merged

vars == <<row, pc, mem, running, outcome, failures, pausing, late, dispatched,
          overtaken, saved, won>>

Ended == {"SUCCEEDED", "PARTIAL_SUCCESS", "FAILED", "TIMED_OUT"}

Init ==
    /\ row = [status |-> "QUEUED", snapshot |-> None]
    /\ pc = "off"
    /\ mem = None
    /\ running = {}
    /\ outcome = <<>>
    /\ failures = 0
    /\ pausing = FALSE
    /\ late = {}
    /\ dispatched = 0
    /\ overtaken = FALSE
    /\ saved = {}
    /\ won = {}

Store(m) ==
    /\ row' = [row EXCEPT !.snapshot = m]
    /\ saved' = saved \union m.executed

Off == pc' = "off" /\ running' = {} /\ outcome' = <<>>

\* The result ends the attempt and is applied to the row.
Result(status) ==
    /\ row' = [row EXCEPT !.status = status]
    /\ Off
    /\ UNCHANGED <<mem, failures, pausing, late, dispatched, saved, overtaken, won>>

(***************************************************************************)
(* Control plane                                                           *)
(***************************************************************************)

\* A run is dispatched, or dispatched again: resumed after a pause, retried
\* from its checkpoint when FAILED or TIMED_OUT (a new row: what is still under
\* way belongs to the old one), or recovered when its process is gone.
Dispatch ==
    /\ pc = "off"
    /\ dispatched < Dispatches
    /\ row.status \in {"QUEUED", "RUNNING", "PAUSED", "FAILED", "TIMED_OUT"}
    /\ row' = [row EXCEPT !.status = "RUNNING"]
    /\ mem' = row.snapshot
    /\ pc' = IF row.snapshot = None THEN "plan" ELSE "boundary"
    /\ failures' = 0
    /\ pausing' = FALSE
    /\ late' = IF row.status \in {"FAILED", "TIMED_OUT"} THEN {} ELSE late
    /\ dispatched' = dispatched + 1
    /\ UNCHANGED <<running, outcome, saved, overtaken, won>>

\* A paused run is resumed with a plan the user edited: the snapshot loses its
\* groups, and _execute_inner finalizes the plan and starts from its first
\* group.
Approve(plan) ==
    /\ pc = "off"
    /\ dispatched < Dispatches
    /\ row.status = "PAUSED"
    /\ row' = [status |-> "RUNNING", snapshot |-> Edited(row.snapshot, Regrouped(plan))]
    /\ mem' = row'.snapshot
    /\ pc' = "boundary"
    /\ failures' = 0
    /\ pausing' = FALSE
    /\ dispatched' = dispatched + 1
    /\ UNCHANGED <<running, outcome, late, saved, overtaken, won>>

RequestPause ==
    /\ pc # "off" /\ ~pausing
    /\ pausing' = TRUE
    /\ UNCHANGED <<row, pc, mem, running, outcome, failures, late, dispatched,
                   saved, overtaken, won>>

\* The process is killed; the watchdog fails the row, or it is recovered.
Crash ==
    /\ "crash" \in Faults
    /\ pc # "off"
    /\ Off
    /\ mem' = None
    /\ \/ row' = [row EXCEPT !.status = "FAILED"]
       \/ row' = row
    /\ UNCHANGED <<failures, pausing, late, dispatched, saved, overtaken, won>>

\* A checkpoint whose answer timed out arrives after later ones.
LateCheckpoint(m) ==
    /\ m \in late
    /\ late' = late \ {m}
    /\ IF row.status \in Ended THEN UNCHANGED <<row, overtaken, saved>>
       ELSE Store(m) /\ overtaken' = (overtaken \/ m # row.snapshot)
    /\ UNCHANGED <<pc, mem, running, outcome, failures, pausing, dispatched, won>>

(***************************************************************************)
(* The executor                                                            *)
(***************************************************************************)

\* A resume too short for a score fails at once; in plan mode the plan is
\* paused for approval before any agent runs.
Plan(groups, approval) ==
    /\ pc = "plan"
    /\ mem' = Fresh(groups)
    /\ IF approval
       THEN /\ row' = [status |-> "PAUSED", snapshot |-> Fresh(groups)]
            /\ Off
       ELSE pc' = "boundary" /\ UNCHANGED <<row, running, outcome>>
    /\ UNCHANGED <<failures, pausing, late, dispatched, saved, overtaken, won>>

TooShort == pc = "plan" /\ Result("FAILED")

\* The only place where a pause takes effect: between groups.
_pause_boundary ==
    /\ pc = "boundary" /\ Left(mem) /\ pausing
    /\ row' = [status |-> "PAUSED", snapshot |-> mem]
    /\ saved' = saved \union mem.executed
    /\ Off
    /\ UNCHANGED <<mem, failures, pausing, late, dispatched, overtaken, won>>

SkipGroup ==
    /\ pc = "boundary" /\ Left(mem) /\ ~pausing
    /\ Skippable(mem)
    /\ mem' = Skip(mem)
    /\ UNCHANGED <<row, pc, running, outcome, failures, pausing, late,
                   dispatched, saved, overtaken, won>>

\* next_group_index is advanced before the group runs.
StartGroup ==
    /\ pc = "boundary" /\ Left(mem) /\ ~pausing
    /\ ~Skippable(mem)
    /\ running' = Group(mem)
    /\ pc' = "group"
    /\ UNCHANGED <<row, mem, outcome, failures, pausing, late, dispatched,
                   saved, overtaken, won>>

\* An agent answers, fails or times out, or finds the run's budget exhausted.
AgentEnds(a, result) ==
    /\ pc = "group"
    /\ a \in running
    /\ running' = running \ {a}
    /\ outcome' = [x \in DOMAIN outcome \union {a} |->
                      IF x = a THEN result ELSE outcome[x]]
    /\ UNCHANGED <<row, pc, mem, failures, pausing, late, dispatched,
                   overtaken, saved, won>>

MergeGroup ==
    LET group == Group(mem)
        merged == Merge([mem EXCEPT !.next = @ + 1], group, outcome)
    IN  /\ pc = "group" /\ running = {}
        /\ ~Exhausted(group, outcome)
        /\ failures' = GroupFailures(failures, group, outcome)
        /\ mem' = GiveUp(merged, failures')
        /\ won' = won \union {a \in DOMAIN outcome : outcome[a] = "ok"}
        /\ outcome' = <<>>
        /\ pc' = "save"
        /\ UNCHANGED <<row, running, pausing, late, dispatched, overtaken,
                       saved>>

\* The budget of the run is exhausted: the run ends with what it has.
BudgetExceeded ==
    /\ pc = "group" /\ running = {}
    /\ Exhausted(Group(mem), outcome)
    /\ \E status \in {"PARTIAL_SUCCESS", "FAILED"} : Result(status)

\* The checkpoint of the group is stored, or (both attempts) lost, or its first
\* attempt times out at the client and stays under way while the second is
\* stored.
SaveCheckpoint ==
    /\ pc = "save"
    /\ pc' = "boundary"
    /\ \/ Store(mem) /\ UNCHANGED late
       \/ "lost" \in Faults /\ UNCHANGED <<row, saved, late>>
       \/ "late" \in Faults /\ Store(mem) /\ late' = late \union {mem}
    /\ UNCHANGED <<mem, running, outcome, failures, pausing, dispatched, overtaken, won>>

Finish(contract) ==
    /\ pc = "boundary" /\ ~Left(mem)
    /\ Result(FinalStatus(mem, contract))

RunTimeout ==
    /\ "timeout" \in Faults
    /\ pc # "off"
    /\ Result("TIMED_OUT")

Executor ==
    \/ \E groups \in Groupings, approval \in BOOLEAN : Plan(groups, approval)
    \/ _pause_boundary \/ SkipGroup \/ StartGroup \/ MergeGroup
    \/ \E a \in Agents, result \in Outcomes : AgentEnds(a, result)
    \/ BudgetExceeded \/ SaveCheckpoint
    \/ \E contract \in BOOLEAN : Finish(contract)

Next ==
    \/ Executor
    \/ TooShort \/ RunTimeout
    \/ Dispatch \/ RequestPause \/ Crash
    \/ \E plan \in Approved : Approve(plan)
    \/ \E m \in late : LateCheckpoint(m)

Spec == Init /\ [][Next]_vars

\* The event loop runs every runnable step: an agent ends (it has a timeout),
\* a group is merged, a checkpoint is answered or given up.
FairSpec == Spec /\ WF_vars(Executor)

(***************************************************************************)
(* Properties                                                              *)
(***************************************************************************)

\* An agent that a stored snapshot names as executed is not started again by a
\* resume, a retry or a recovery, whatever crashed in between and whichever
\* checkpoints were lost, as long as none was overtaken by an older one.
NeverRepeated ==
    [][~overtaken => (running' \ running) \intersect saved = {}]_vars

\* "Completed agents and tool calls never re-execute", whatever was overtaken.
CompletedNeverRepeated == [][(running' \ running) \intersect saved = {}]_vars

\* The report is started last: every specialist of the plan was executed or
\* passed over by the agent limit, also after a user edited the plan.
ReportComesLast ==
    Terminal \in running =>
        /\ running = {Terminal}
        /\ \A i \in (mem.next + 1)..Len(mem.groups) :
              mem.groups[i] \subseteq mem.executed \union {Terminal}

\* SUCCEEDED is said only when the report and the producers of all goals have
\* succeeded in some attempt, over any number of pauses, crashes and retries.
HonestSuccess == row.status = "SUCCEEDED" =>
    /\ Terminal \in won
    /\ mem.goals \subseteq won

\* A dispatched run ends or is paused: the process stops working on it.
AttemptEnds == (pc # "off") ~> (pc = "off")
=============================================================================
