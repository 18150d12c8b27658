----------------------------- MODULE ToolCalls -----------------------------
(***************************************************************************)
(* The tool calls of the agents of one run (ToolExecutor in                *)
(* runtime/tools.py, the loop guard, and the skill calls and the evidence  *)
(* of executor.py). The agents of a group call tools side by side and      *)
(* share the budget, the guard, the call log and the evidence; a call may  *)
(* be cancelled at any await; the run may resume from its last checkpoint. *)
(***************************************************************************)
EXTENDS Integers, FiniteSets, Functions

CONSTANTS Agents,
          Tools,        \* tool and arguments: what a signature stands for
          Cacheable,    \* deterministic builtin tools
          Retryable,    \* idempotent read-only tools with a retry
          Evidence, Context,  \* MCP tools: public web; documentation
          Skills,       \* skills selected for the agents
          MaxCalls,     \* max_tool_calls_run
          MaxDuplicates,\* max_duplicate_tool_calls
          MaxProposals  \* proposals of the instance

VARIABLES budget,    \* RunBudget.tool_calls
          counts,    \* the guard's count of every signature
          log,       \* call_log: [id, tool, status]
          ledgered,  \* evidence: ids of mcpEvidence and mcpContext entries
          cached,    \* tools whose result is cached
          loaded,    \* skills an agent has loaded
          call,      \* per agent [pc, id, tool, retries]
          proposals, \* proposals of each agent
          events,    \* the trace: [id, kind], kind "started" or an end
          cancelled, \* history: ids of calls that were cancelled
          saved      \* the last checkpoint

run == <<budget, counts, log, ledgered>>
vars == <<run, cached, loaded, call, proposals, events, cancelled, saved>>

SkillTools == {"load_skill", "read_skill_resource"}
NoCall == [pc |-> "idle", id |-> <<>>, tool |-> "none", retries |-> 0]
Zero == [t \in Tools |-> 0]
Snapshot == [budget |-> budget, counts |-> counts, log |-> log,
             ledgered |-> ledgered]

Init ==
    /\ budget = 0 /\ counts = Zero /\ log = {} /\ ledgered = {}
    /\ cached = {} /\ loaded = [a \in Agents |-> {}]
    /\ call = [a \in Agents |-> NoCall]
    /\ proposals = [a \in Agents |-> 0]
    /\ events = {} /\ cancelled = {}
    /\ saved = Snapshot

Goes(a, place) == call' = [call EXCEPT ![a].pc = place]
Log(a, status) == log' = log \union {[id |-> call[a].id, tool |-> call[a].tool,
                                      status |-> status]}
Emit(a, kind) == events' = events \union {[id |-> call[a].id, kind |-> kind]}

(***************************************************************************)
(* A proposal of the model                                                 *)
(***************************************************************************)

NextId(a) == <<a, proposals[a] + 1>>
Total(f) == FoldFunction(LAMBDA n, sum : n + sum, 0, f)
Proposes(a) == /\ call[a].pc = "idle" /\ Total(proposals) < MaxProposals
               /\ proposals' = [proposals EXCEPT ![a] = @ + 1]
Rejected(a) == events' = events \union {[id |-> NextId(a), kind |-> "rejected"]}

check_tool_call(t) == counts' = [counts EXCEPT ![t] = @ + 1]

Duplicate(t) == counts[t] + 1 > MaxDuplicates

\* The guard counts a proposal before anything else is known of it.
GuardTrips(a, t) ==
    /\ Proposes(a) /\ Duplicate(t) /\ check_tool_call(t)
    /\ Rejected(a)
    /\ UNCHANGED <<budget, log, ledgered, cached, loaded, call, cancelled, saved>>

\* A tool outside the white list, arguments against the schema, or a
\* repository the candidate did not declare: logged, not charged.
Reject(a, t) ==
    /\ Proposes(a) /\ ~Duplicate(t) /\ check_tool_call(t)
    /\ log' = log \union {[id |-> NextId(a), tool |-> t, status |-> "REJECTED"]}
    /\ Rejected(a)
    /\ UNCHANGED <<budget, ledgered, cached, loaded, call, cancelled, saved>>

\* BudgetExceeded ends the agent.
OverBudget(a, t) ==
    /\ Proposes(a) /\ ~Duplicate(t) /\ check_tool_call(t)
    /\ budget >= MaxCalls
    /\ Goes(a, "over")
    /\ UNCHANGED <<budget, log, ledgered, cached, loaded, events, cancelled, saved>>

execute(a, t) ==
    /\ Proposes(a) /\ ~Duplicate(t) /\ check_tool_call(t)
    /\ budget < MaxCalls /\ budget' = budget + 1
    /\ call' = [call EXCEPT ![a] = [pc |-> IF t \in Cacheable THEN "cache" ELSE "dispatch",
                                    id |-> NextId(a), tool |-> t, retries |-> 0]]
    /\ events' = events \union {[id |-> NextId(a), kind |-> "started"]}
    /\ UNCHANGED <<log, ledgered, cached, loaded, cancelled, saved>>

\* Skill calls spend the budget of the run but pass neither the guard nor the
\* call log. A skill is read only after it was loaded, and loaded only when
\* it was selected.
_execute_skill_proposal(a, t, s) ==
    /\ Proposes(a)
    /\ IF budget >= MaxCalls THEN Rejected(a) /\ UNCHANGED <<budget, loaded>>
       ELSE /\ budget' = budget + 1
            /\ LET ok == IF t = "load_skill" THEN s \in Skills ELSE s \in loaded[a]
               IN /\ loaded' = IF ok THEN [loaded EXCEPT ![a] = @ \union {s}] ELSE loaded
                  /\ events' = events \union
                        {[id |-> NextId(a), kind |-> k] :
                         k \in {"started", IF ok THEN "completed" ELSE "failed"}}
    /\ UNCHANGED <<counts, log, ledgered, cached, call, cancelled, saved>>

(***************************************************************************)
(* execute                                                                 *)
(***************************************************************************)

CacheHit(a) ==
    /\ call[a].pc = "cache" /\ call[a].tool \in cached
    /\ Log(a, "SUCCEEDED") /\ Goes(a, "hit")
    /\ UNCHANGED <<budget, counts, ledgered, cached, loaded, proposals, events, cancelled, saved>>

CacheMiss(a) ==
    /\ call[a].pc = "cache" /\ Goes(a, "dispatch")
    /\ UNCHANGED <<run, cached, loaded, proposals, events, cancelled, saved>>

\* A result: only the statuses that say "not now" are softened to UNAVAILABLE.
Outcomes == {"SUCCEEDED", "UNAVAILABLE", "FAILED"}

_dispatch(a, outcome) ==
    /\ call[a].pc = "dispatch"
    /\ Log(a, outcome)
    /\ cached' = IF outcome = "SUCCEEDED" /\ call[a].tool \in Cacheable
                 THEN cached \union {call[a].tool} ELSE cached
    /\ Goes(a, IF outcome = "FAILED" THEN "failing" ELSE "completed")
    /\ UNCHANGED <<budget, counts, ledgered, loaded, proposals, events, cancelled, saved>>

\* A timeout or an exception is retried once when the tool is idempotent and
\* read-only; a result against the output schema is not.
DispatchFails(a, schema) ==
    /\ call[a].pc = "dispatch"
    /\ IF call[a].tool \in Retryable /\ call[a].retries = 0 /\ ~schema
       THEN /\ call' = [call EXCEPT ![a].pc = "sleep", ![a].retries = 1]
            /\ UNCHANGED log
       ELSE Log(a, "FAILED") /\ Goes(a, "failed")
    /\ UNCHANGED <<budget, counts, ledgered, cached, loaded, proposals, events, cancelled, saved>>

Retry(a) ==
    /\ call[a].pc = "sleep" /\ Goes(a, "dispatch")
    /\ UNCHANGED <<run, cached, loaded, proposals, events, cancelled, saved>>

\* Mutant: what a soft failure brought is kept too.
_record_tool_success_Soft(entry) ==
    IF entry.tool \in Evidence \union Context /\ entry.status # "FAILED"
    THEN ledgered' = ledgered \union {entry.id}
    ELSE UNCHANGED ledgered

\* What a call brought from the web becomes evidence when it names a source,
\* what it brought from a documentation server becomes context.
_record_tool_success(entry) ==
    IF entry.status # "SUCCEEDED" THEN UNCHANGED ledgered
    ELSE \/ entry.tool \in Evidence \union Context /\ ledgered' = ledgered \union {entry.id}
         \/ entry.tool \notin Context /\ UNCHANGED ledgered

\* The end of the call is told, and the agent takes over its result.
Ends(a) ==
    /\ call[a].pc \in {"hit", "completed", "failing", "failed"}
    /\ Emit(a, IF call[a].pc \in {"failing", "failed"} THEN "failed" ELSE "completed")
    /\ \E entry \in log : /\ entry.id = call[a].id
                         /\ _record_tool_success(entry)
    /\ call' = [call EXCEPT ![a] = NoCall]
    /\ UNCHANGED <<budget, counts, log, cached, loaded, proposals, cancelled, saved>>

\* A cancelled dispatch is told as a failure, and so is a call that is
\* cancelled while its result is told, whether that telling arrived or not; a
\* call that reads the cache, waits for its retry or has failed ends in
\* silence.
Cancel(a) ==
    /\ call[a].pc \notin {"idle", "over"}
    /\ cancelled' = cancelled \union {call[a].id}
    /\ \E told \in SUBSET {"completed", "failed"} :
          /\ "failed" \in told <=> call[a].pc \in {"dispatch", "completed", "failing"}
          /\ "completed" \in told => call[a].pc \in {"hit", "completed"}
          /\ events' = events \union {[id |-> call[a].id, kind |-> k] : k \in told}
    /\ call' = [call EXCEPT ![a] = [NoCall EXCEPT !.pc = "over"]]
    /\ UNCHANGED <<run, cached, loaded, proposals, saved>>

(***************************************************************************)
(* Checkpoints                                                             *)
(***************************************************************************)

\* At the boundary of a group no agent has a call.
export_snapshot ==
    /\ \A a \in Agents : call[a].pc \in {"idle", "over"}
    /\ saved # Snapshot /\ saved' = Snapshot
    /\ UNCHANGED <<run, cached, loaded, call, proposals, events, cancelled>>

Resumed(guard) ==
    /\ budget' = saved.budget /\ counts' = guard /\ log' = saved.log
    /\ ledgered' = saved.ledgered
    /\ call' = [a \in Agents |-> NoCall]
    /\ loaded' = [a \in Agents |-> {}]
    /\ cancelled' = cancelled \union {call[a].id : a \in {b \in Agents : call[b].id # <<>>}}
    /\ UNCHANGED <<cached, proposals, events, saved>>

\* Mutant: a resumed run starts with a fresh guard.
_restore_snapshot_FreshGuard == Resumed(Zero)

\* A process that takes the run over starts from the checkpoint.
_restore_snapshot == Resumed(saved.counts)

Next ==
    \/ \E a \in Agents, t \in Tools :
          GuardTrips(a, t) \/ Reject(a, t) \/ OverBudget(a, t) \/ execute(a, t)
    \/ \E a \in Agents, t \in SkillTools, s \in Skills \union {"unselected"} :
          _execute_skill_proposal(a, t, s)
    \/ \E a \in Agents : CacheHit(a) \/ CacheMiss(a) \/ Retry(a) \/ Ends(a) \/ Cancel(a)
    \/ \E a \in Agents, outcome \in Outcomes : _dispatch(a, outcome)
    \/ \E a \in Agents, schema \in BOOLEAN : DispatchFails(a, schema)
    \/ export_snapshot \/ _restore_snapshot

Spec == Init /\ [][Next]_vars

(***************************************************************************)
(* Properties                                                              *)
(***************************************************************************)

\* The calls that were dispatched or found in the cache.
Executed == {entry \in log : entry.status # "REJECTED"}

\* However the agents of a group interleave, retry and are cancelled, and from
\* whatever checkpoint the run resumes: one signature is executed at most
\* max_duplicate_tool_calls times in what survives of the run, and no more
\* calls are executed than the budget of the run was charged.
LimitsHold ==
    /\ \A t \in Tools : Cardinality({e \in Executed : e.tool = t}) <= MaxDuplicates
    /\ Cardinality(Executed) <= budget
    /\ budget <= MaxCalls

\* A call that was not cancelled and is over has one end in the trace, the one
\* its entry of the call log has; and only what succeeded became evidence
\* ("failures never become evidence").
TraceTellsTruth ==
    /\ \A entry \in log :
          \/ entry.id \in cancelled
          \/ \E a \in Agents : call[a].id = entry.id
          \/ {e.kind : e \in {f \in events : f.id = entry.id}} \ {"started"} =
                {IF entry.status = "REJECTED" THEN "rejected"
                 ELSE IF entry.status = "FAILED" THEN "failed" ELSE "completed"}
    /\ ledgered \subseteq {entry.id : entry \in {e \in log : e.status = "SUCCEEDED"}}
=============================================================================
