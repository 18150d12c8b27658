--------------------------- MODULE GraphExecution ---------------------------
(***************************************************************************)
(* The LangGraph executor of a run (runtime/langgraph_executor.py). The    *)
(* state of the graph is durable: a node's update is written when the node *)
(* ends, the result of each parallel agent when that agent ends, and a     *)
(* replacement process goes on from there with the same thread. The        *)
(* attributes of the executor live in the process and are restored, once   *)
(* per process, from the snapshot in the state (_hydrate).                 *)
(***************************************************************************)
EXTENDS AgentGroups

CONSTANTS Approved,     \* plans a user may approve, edited
          Dispatches,   \* bound: times the run may be dispatched
          Faults        \* of {"crash", "timeout", "lost", "edit_paused"}

VARIABLES row,        \* control plane: [status, snapshot]
          thread,     \* the durable state of the graph
          proc,       \* the process: [on, request, hydrated, mem, ledger,
                      \* running]
          pausing,    \* the pause event is set
          dispatched, \* number of dispatches
          won,        \* history: agents whose success was merged
          asWritten   \* history: an edited plan was restored without its groups

vars == <<row, thread, proc, pausing, dispatched, won, asWritten>>

Ended == {"SUCCEEDED", "PARTIAL_SUCCESS", "FAILED", "TIMED_OUT"}

\* A snapshot: the attributes, the agents whose calls the ledgers and counters
\* hold, and the plan of an approval that dropped the groups.
Snap(m, ledger) == [m |-> m, ledger |-> ledger, plan |-> None]
Snaps == [m : Snapshots, ledger : SUBSET Agents, plan : Approved \union {None}]

NoThread == [node |-> "none", snap |-> None, group |-> {}, results |-> <<>>,
             failures |-> 0, interrupted |-> FALSE, result |-> None]
\* request: the resumeSnapshot of the request, as far as the graph looks at it.
NoProcess == [on |-> FALSE, request |-> None, hydrated |-> FALSE, mem |-> None,
              ledger |-> {}, running |-> {}]

Init ==
    /\ row = [status |-> "QUEUED", snapshot |-> None]
    /\ thread = NoThread
    /\ proc = NoProcess
    /\ pausing = FALSE
    /\ dispatched = 0
    /\ won = {}
    /\ asWritten = FALSE

At(node) == proc.on /\ thread.node = node /\ ~thread.interrupted

\* _restore_snapshot: without groups every agent of the plan is a group.
Restored(p, s) ==
    [p EXCEPT !.hydrated = TRUE, !.ledger = s.ledger,
              !.mem = IF s.plan = None THEN s.m
                      ELSE Edited(s.m, [i \in DOMAIN s.plan |-> {s.plan[i]}])]

\* Regrouping of an approved plan.
RegroupNeeded(p, s) ==
    IF s.plan = None THEN Restored(p, s)
    ELSE [Restored(p, s) EXCEPT !.mem = Edited(s.m, Regrouped(s.plan))]

\* The snapshot of the state comes before the one of the request, which only
\* observe_plan can meet.
_hydrate(p) ==
    IF p.hydrated THEN p
    ELSE IF thread.snap # None THEN Restored(p, thread.snap)
    ELSE [p EXCEPT !.hydrated = TRUE]

Export(p) == Snap(p.mem, p.ledger)

(***************************************************************************)
(* Control plane and faults                                                *)
(***************************************************************************)

\* A first dispatch and a retry (a new run id) start a new thread; any other
\* dispatch finds the thread of the run, and its snapshot matters only to a
\* graph that waits at a gate or has no state yet.
Dispatch ==
    LET new == row.status \in {"QUEUED", "FAILED", "TIMED_OUT"}
    IN  /\ ~proc.on
        /\ dispatched < Dispatches
        /\ new \/ row.status \in {"RUNNING", "PAUSED"}
        /\ row' = [row EXCEPT !.status = "RUNNING"]
        /\ proc' = [NoProcess EXCEPT !.on = TRUE,
                       !.request = IF new \/ thread.interrupted \/ thread.snap = None
                                   THEN row.snapshot ELSE None]
        /\ thread' = IF new THEN [NoThread EXCEPT !.node = "observe_plan"]
                     ELSE thread
        /\ pausing' = FALSE
        /\ dispatched' = dispatched + 1
        /\ UNCHANGED <<won, asWritten>>

\* A user resumes a paused run with an edited plan: at the approval gate, or
\* (fault "edit_paused") after any pause.
Approve(plan) ==
    /\ ~proc.on
    /\ row.status = "PAUSED"
    /\ row.snapshot.plan = None
    /\ thread.node = "approval_gate" \/ "edit_paused" \in Faults
    /\ row' = [row EXCEPT !.snapshot.plan = plan]
    /\ UNCHANGED <<thread, proc, pausing, dispatched, won, asWritten>>

RequestPause ==
    /\ proc.on /\ ~pausing
    /\ pausing' = TRUE
    /\ UNCHANGED <<row, thread, proc, dispatched, won, asWritten>>

Crash ==
    /\ "crash" \in Faults
    /\ proc.on
    /\ proc' = NoProcess
    /\ row' \in {row, [row EXCEPT !.status = "FAILED"]}
    /\ UNCHANGED <<thread, pausing, dispatched, won, asWritten>>

RunTimeout ==
    /\ "timeout" \in Faults
    /\ proc.on
    /\ proc' = NoProcess
    /\ row' = [row EXCEPT !.status = "TIMED_OUT"]
    /\ UNCHANGED <<thread, pausing, dispatched, won, asWritten>>

(***************************************************************************)
(* Nodes of the graph                                                      *)
(***************************************************************************)

\* A node ends: its update is written and the process goes on.
Commit(p, update) ==
    /\ thread' = update
    /\ proc' = [p EXCEPT !.request = None]

\* The plan is made, or restored from the snapshot of the request, which is
\* regrouped when the user edited it.
_observe_plan_node(groups, approval) ==
    /\ At("observe_plan")
    /\ IF proc.request # None
       THEN LET p == RegroupNeeded(proc, proc.request)
            IN  Commit(p, [thread EXCEPT !.snap = Export(p), !.node = "dispatch"])
       ELSE LET p == [proc EXCEPT !.hydrated = TRUE, !.mem = Fresh(groups)]
            IN  Commit(p, [thread EXCEPT !.snap = Export(p),
                              !.node = IF approval THEN "approval_gate"
                                       ELSE "dispatch"])
    /\ UNCHANGED <<row, pausing, dispatched, won, asWritten>>

\* A gate interrupts the graph when it is reached ...
Interrupt ==
    /\ At("approval_gate") \/ At("pause_gate")
    /\ Commit(_hydrate(proc), [thread EXCEPT !.interrupted = TRUE])
    /\ UNCHANGED <<row, pausing, dispatched, won, asWritten>>

_paused_result ==
    /\ proc.on /\ thread.interrupted
    /\ proc.request = None
    /\ row' = [status |-> "PAUSED", snapshot |-> thread.snap]
    /\ proc' = NoProcess
    /\ UNCHANGED <<thread, pausing, dispatched, won, asWritten>>

\* ... and passes when a later request carries a snapshot. Only the approval
\* gate regroups an edited plan.
GatePasses ==
    LET p == IF thread.node = "approval_gate"
             THEN RegroupNeeded(proc, proc.request)
             ELSE Restored(proc, proc.request)
    IN  /\ proc.on /\ thread.interrupted
        /\ proc.request # None
        /\ Commit(p, [thread EXCEPT !.interrupted = FALSE, !.node = "dispatch",
                                    !.snap = Export(p)])
        /\ pausing' = IF thread.node = "pause_gate" THEN FALSE ELSE pausing
        /\ asWritten' = IF thread.node = "pause_gate" /\ proc.request.plan # None
                        THEN TRUE ELSE asWritten
        /\ UNCHANGED <<row, dispatched, won>>

\* The next group is sent to parallel agent tasks; a pause is noticed here
\* (also when no group is left) and after a merge. That no group is left is not
\* written to the snapshot.
_dispatch_node ==
    LET p == _hydrate(proc)
        m == SkipAll(p.mem)
        sent == [p EXCEPT !.mem = [m EXCEPT !.next = @ + 1]]
        over == [p EXCEPT !.mem = m]
    IN  /\ At("dispatch")
        /\ IF pausing
           THEN Commit(p, [thread EXCEPT !.node = "pause_gate", !.snap = Export(p)])
           ELSE IF Left(m)
           THEN Commit(sent, [thread EXCEPT !.node = "agent", !.group = Group(m),
                                 !.results = <<>>, !.snap = Export(sent)])
           ELSE Commit(over, [thread EXCEPT !.node = "finalize"])
        /\ UNCHANGED <<row, pausing, dispatched, won, asWritten>>

\* A task without a durable result runs, in this process or in the next one.
AgentStarts(a) ==
    /\ At("agent")
    /\ a \in thread.group \ (DOMAIN thread.results \union proc.running)
    /\ proc' = [_hydrate(proc) EXCEPT !.running = @ \union {a}]
    /\ UNCHANGED <<row, thread, pausing, dispatched, won, asWritten>>

\* Its result is written with a snapshot of the process.
_agent_node(a, result) ==
    LET p == [proc EXCEPT !.running = @ \ {a}, !.ledger = @ \union {a}]
        results == [x \in DOMAIN thread.results \union {a} |->
                       IF x = a THEN [outcome |-> result, ledger |-> p.ledger]
                       ELSE thread.results[x]]
    IN  /\ At("agent")
        /\ a \in proc.running
        /\ Commit(p, [thread EXCEPT !.results = results,
                         !.node = IF DOMAIN results = thread.group
                                  THEN "merge" ELSE "agent"])
        /\ UNCHANGED <<row, pausing, dispatched, won, asWritten>>

\* A merge that runs in a process of its own takes over the ledgers of the
\* worker that had counted most.
_restore_worker_snapshot(p) ==
    LET richest == CHOOSE a \in DOMAIN thread.results :
            \A b \in DOMAIN thread.results :
                Cardinality(thread.results[b].ledger)
                    <= Cardinality(thread.results[a].ledger)
    IN  IF proc.hydrated THEN p
        ELSE [p EXCEPT !.ledger = thread.results[richest].ledger]

outcomes == [a \in DOMAIN thread.results |-> thread.results[a].outcome]

_merge_node ==
    LET p == _restore_worker_snapshot(_hydrate(proc))
        failures == GroupFailures(thread.failures, thread.group, outcomes)
        q == [p EXCEPT !.mem =
                 GiveUp(Merge(p.mem, thread.group, outcomes), failures)]
    IN  /\ At("merge")
        /\ ~Exhausted(thread.group, outcomes)
        /\ Commit(q, [thread EXCEPT !.failures = failures, !.snap = Export(q),
                         !.results = <<>>,
                         !.node = IF pausing THEN "pause_gate" ELSE "dispatch"])
        /\ \/ row' = [row EXCEPT !.snapshot = Export(q)]
           \/ "lost" \in Faults /\ UNCHANGED row
        /\ won' = won \union {a \in DOMAIN outcomes : outcomes[a] = "ok"}
        /\ UNCHANGED <<pausing, dispatched, asWritten>>

\* The Java copy of the checkpoint is stored, the process is killed before the
\* update of the merge is written: the merge is repeated.
MergeCrashes ==
    LET p == _restore_worker_snapshot(_hydrate(proc))
        failures == GroupFailures(thread.failures, thread.group, outcomes)
    IN  /\ "crash" \in Faults
        /\ At("merge")
        /\ ~Exhausted(thread.group, outcomes)
        /\ row' = [row EXCEPT !.snapshot = Snap(
                GiveUp(Merge(p.mem, thread.group, outcomes), failures), p.ledger)]
        /\ proc' = NoProcess
        /\ won' = won \union {a \in DOMAIN outcomes : outcomes[a] = "ok"}
        /\ UNCHANGED <<thread, pausing, dispatched, asWritten>>

BudgetExceeded ==
    /\ At("merge")
    /\ Exhausted(thread.group, outcomes)
    /\ \E status \in {"PARTIAL_SUCCESS", "FAILED"} :
          row' = [row EXCEPT !.status = status]
    /\ proc' = NoProcess
    /\ UNCHANGED <<thread, pausing, dispatched, won, asWritten>>

_finalize_node(contract) ==
    LET p == _hydrate(proc)
    IN  /\ At("finalize")
        /\ Commit(p, [thread EXCEPT !.node = "end", !.result = FinalStatus(p.mem, contract),
                         !.snap = Snap(Concluded(p.mem), p.ledger)])
        /\ UNCHANGED <<row, pausing, dispatched, won, asWritten>>

\* A completed thread returns its stored result, to the process that ran it or
\* to one that is dispatched later.
Result ==
    /\ At("end")
    /\ row' = [row EXCEPT !.status = thread.result]
    /\ proc' = NoProcess
    /\ UNCHANGED <<thread, pausing, dispatched, won, asWritten>>

Executor ==
    \/ \E groups \in Groupings, approval \in BOOLEAN :
          _observe_plan_node(groups, approval)
    \/ Interrupt \/ _paused_result \/ GatePasses
    \/ _dispatch_node
    \/ \E a \in Agents : AgentStarts(a)
    \/ \E a \in Agents, result \in Outcomes : _agent_node(a, result)
    \/ _merge_node \/ BudgetExceeded
    \/ \E contract \in BOOLEAN : _finalize_node(contract)
    \/ Result

Next ==
    \/ Executor
    \/ Dispatch \/ RequestPause \/ Crash \/ RunTimeout \/ MergeCrashes
    \/ \E plan \in Approved : Approve(plan)

Spec == Init /\ [][Next]_vars

\* The event loop runs every runnable node.
FairSpec == Spec /\ WF_vars(Executor)

(***************************************************************************)
(* Properties                                                              *)
(***************************************************************************)

\* An agent whose result was merged into the stored snapshot is not started
\* again by a resume, a recovery or a retry in a new thread.
NeverRepeated ==
    [][\A a \in proc'.running \ proc.running :
          row.snapshot # None => a \notin row.snapshot.m.executed]_vars

\* "grouping/budget are recomputed by the runtime from dependency rules": however
\* a plan was edited, the report is sent alone, when nothing else of the plan is
\* left to run.
EditedPlanRegrouped ==
    Terminal \in thread.group /\ thread.node = "agent" =>
        /\ thread.group = {Terminal}
        /\ \A i \in (thread.snap.m.next + 1)..Len(thread.snap.m.groups) :
              thread.snap.m.groups[i] \subseteq thread.snap.m.executed \union {Terminal}

\* The same of every plan that was not restored by the pause gate after an edit.
ReportComesLast == ~asWritten => EditedPlanRegrouped

\* SUCCEEDED is said only when the report and the producers of all goals have
\* succeeded in some process.
HonestSuccess == thread.result = "SUCCEEDED" =>
    thread.snap.m.goals \union {Terminal} \subseteq won

\* A dispatched run ends or is paused.
AttemptEnds == proc.on ~> ~proc.on
=============================================================================
