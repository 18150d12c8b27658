----------------------------- MODULE AgentTurns -----------------------------
(***************************************************************************)
(* One agent of a run talking to the model (_run_agent_in_slot in          *)
(* runtime/executor.py): how many turns it has, what each request offers   *)
(* the model, which proposed calls are executed, how a malformed decision  *)
(* is repaired, and with what output the agent ends.                       *)
(***************************************************************************)
EXTENDS Integers, Sequences, FiniteSets, FiniteSetsExt

CONSTANTS Kinds,      \* of {"specialist", "risk", "report"}
          Decisions,  \* values of max_decision_iterations
          MaxTurns,   \* bound: quotas of the plan
          MaxTools    \* bound: tool calls and action turns of an agent

VARIABLES agent,     \* the agent's kind and limits
          phase,     \* "loop", "reply", "done", "failed"
          n,         \* iteration
          decisions, \* decision_iterations
          actions,   \* action_turns
          turns,     \* max_turns, with what was borrowed
          borrowed,  \* borrowed_repair_turns
          repair,    \* json_repair_pending
          sent,      \* the request: "free", "forced" or "repair"
          tools,     \* agent_tool_calls
          open,      \* calls of the last assistant message without an answer
          out,       \* "none", "empty", "content"
          obedient,  \* history: every reply was an action when actions were
                     \* offered, or a decision with an output
          dropped    \* history: a final call was dropped with its nested calls

tvars == <<agent, phase, n, decisions, actions, turns, borrowed, repair, sent,
           tools, open, out, obedient, dropped>>
plan == <<agent, turns, borrowed>>

Least(a, b) == Min({a, b})
NotNegative(a) == Max({0, a})

(***************************************************************************)
(* Limits                                                                  *)
(***************************************************************************)

available_tool_turns(a) == Least(a.ceiling, NotNegative(a.toolLimit - a.used))
fallback_turn_limit(a) == a.maxDecisions + available_tool_turns(a)

\* One turn, two for the report, is kept for the answer.
final_turn_reserve(a) == Least(IF a.kind = "report" THEN 2 ELSE 1, a.quota)
max_action_turns(a) ==
    Min({available_tool_turns(a), a.actionQuota,
         NotNegative(a.quota - final_turn_reserve(a))})

\* A plan gives every agent a turn (NobodyStarved of Coordinator). used: tool
\* calls of the preflight.
TurnInit ==
    /\ agent \in
          [kind : Kinds, maxDecisions : Decisions, ceiling : 0..MaxTools,
           toolLimit : 0..MaxTools, quota : 1..MaxTurns, actionQuota : 0..MaxTurns,
           used : 0..MaxTools]
    /\ agent.used <= agent.toolLimit
    /\ turns = Least(fallback_turn_limit(agent), agent.quota)
    /\ tools = agent.used
    /\ phase = "loop" /\ out = "none" /\ sent = "forced"
    /\ n = 0 /\ decisions = 0 /\ actions = 0 /\ borrowed = 0
    /\ repair = FALSE /\ open = {}
    /\ obedient = TRUE /\ dropped = FALSE

(***************************************************************************)
(* A turn                                                                  *)
(***************************************************************************)

\* Mutant: the last turn still offers actions.
force_final_ActionsOnly(turn) == actions >= max_action_turns(agent)

force_final(turn) == actions >= max_action_turns(agent) \/ turn >= turns

\* Mutant: a turn spent on actions is not counted.
Request_Uncounted ==
    /\ phase = "loop"
    /\ n < turns /\ decisions < agent.maxDecisions
    /\ n' = n + (IF open = {} /\ sent = "free" THEN 0 ELSE 1)
    /\ sent' = IF repair THEN "repair" ELSE "free"
    /\ phase' = "reply"
    /\ UNCHANGED <<plan, decisions, actions, repair, tools, open, out,
                   obedient, dropped>>

Request ==
    /\ phase = "loop"
    /\ n < turns /\ decisions < agent.maxDecisions
    /\ n' = n + 1
    /\ sent' = IF repair THEN "repair"
             ELSE IF force_final(n + 1) THEN "forced" ELSE "free"
    /\ phase' = "reply"
    /\ UNCHANGED <<plan, decisions, actions, repair, tools, open, out,
                   obedient, dropped>>

End(output) == phase' = "done" /\ out' = output
Fail == phase' = "failed" /\ UNCHANGED out

\* The turns are used up.
LoopEnds ==
    /\ phase = "loop"
    /\ ~(n < turns /\ decisions < agent.maxDecisions)
    /\ End("empty")
    /\ UNCHANGED <<plan, n, decisions, actions, repair, sent, tools, open,
                   obedient, dropped>>

\* The provider rejects a history with an unanswered call; a JSON request
\* carries no calls (_json_only_messages).
Acceptable == sent = "repair" \/ open = {}

\* A provider error ends the agent; RiskAgent survives a broken repair.
ProviderFails(code) ==
    /\ phase = "reply"
    /\ IF sent = "repair" /\ agent.kind = "risk" /\ code = "malformed"
       THEN End("empty") ELSE Fail
    /\ obedient' = FALSE
    /\ UNCHANGED <<plan, n, decisions, actions, repair, sent, tools, open, dropped>>

Calls == {"emit", "action", "hidden", "bad_arguments"}
Replies == UNION {[1..k -> Calls] : k \in 1..2}

\* Deferred, rejected, acknowledged or executed: every call gets a tool message.
Answered(calls) == DOMAIN calls

\* The model proposes actions, perhaps together with a decision, which is
\* deferred. An action runs when actions are offered, a turn and a tool call are
\* left and the loop guard does not stop it.
ActionTurn(calls) ==
    LET allowed == actions < max_action_turns(agent)
        exposed == {i \in DOMAIN calls :
                       sent = "free" /\ calls[i] \in {"action", "bad_arguments"}}
        proper == {i \in exposed : calls[i] = "action"}
    IN  /\ phase = "reply" /\ sent # "repair" /\ Acceptable
        /\ \E i \in DOMAIN calls : calls[i] # "emit"
        /\ actions' = IF allowed /\ exposed # {} THEN actions + 1 ELSE actions
        /\ \E run \in SUBSET proper :
              /\ run # {} => allowed
              /\ Cardinality(run) <= NotNegative(agent.toolLimit - tools)
              /\ tools' = tools + Cardinality(run)
        /\ open' = open \union (DOMAIN calls \ Answered(calls))
        /\ obedient' = (obedient /\ sent = "free")
        /\ phase' = "loop"
        /\ UNCHANGED <<plan, n, decisions, repair, sent, out, dropped>>

(***************************************************************************)
(* A decision                                                              *)
(***************************************************************************)

Verdicts == [valid : BOOLEAN, done : BOOLEAN, output : BOOLEAN, nested : BOOLEAN]

\* An empty final call is not a decision, nor is a report without a report.
Accepted(d, final) ==
    /\ d.valid
    /\ final => d.done \/ d.output
    /\ agent.kind = "report" => d.output

\* A malformed final call of the last turn may borrow one turn from the run's
\* ledger (available_llm_calls_for_scope).
can_borrow_repair(final, capacity) ==
    /\ decisions + 1 < agent.maxDecisions
    /\ final \/ sent = "repair"
    /\ n >= turns
    /\ borrowed < 1
    /\ capacity

\* The repair goes to the JSON channel, after every final call is answered.
Malformed(final, capacity) ==
    LET more == IF can_borrow_repair(final, capacity) THEN 1 ELSE 0
    IN  /\ borrowed' = borrowed + more
        /\ turns' = turns + more
        /\ IF decisions + 1 < agent.maxDecisions /\ n < turns + more
           THEN repair' = TRUE /\ phase' = "loop" /\ UNCHANGED out
           ELSE /\ repair' = FALSE
                /\ IF sent = "repair" /\ agent.kind = "risk" THEN End("empty") ELSE Fail
        /\ UNCHANGED <<open, dropped>>

\* Calls nested in the decision are refused; without an output the model is
\* asked again, and its final calls stay unanswered.
NestedRefused(final, calls) ==
    /\ open' = open \union DOMAIN calls
    /\ dropped' = (dropped \/ final)
    /\ phase' = "loop" /\ repair' = FALSE
    /\ UNCHANGED <<out, turns, borrowed>>

Concludes(d) ==
    /\ IF d.output \/ d.done \/ decisions + 1 >= agent.maxDecisions \/ n >= turns
       THEN End(IF d.output THEN "content" ELSE "empty")
       ELSE phase' = "loop" /\ UNCHANGED out
    /\ repair' = FALSE
    /\ UNCHANGED <<open, dropped, turns, borrowed>>

\* d is what the decision says, looped that its thought is a repeated plan:
\* that ends the agent.
Decide(calls, d, looped, capacity) ==
    LET final == calls # <<>>
        cut == IF looped THEN [d EXCEPT !.nested = FALSE, !.done = TRUE] ELSE d
    IN  /\ phase = "reply" /\ Acceptable
        /\ \A i \in DOMAIN calls : calls[i] = "emit"
        /\ final => sent # "repair"
        /\ decisions' = decisions + 1
        /\ IF ~Accepted(d, final) THEN Malformed(final, capacity)
           ELSE IF /\ cut.nested /\ ~cut.output
                   /\ decisions + 1 < agent.maxDecisions /\ n < turns
           THEN NestedRefused(final, calls)
           ELSE Concludes(cut)
        /\ obedient' = (obedient /\ d.valid /\ d.output)
        /\ UNCHANGED <<agent, n, actions, sent, tools>>

TurnNext ==
    \/ Request \/ LoopEnds
    \/ \E code \in {"malformed", "other"} : ProviderFails(code)
    \/ \E calls \in Replies : ActionTurn(calls)
    \/ \E calls \in Replies \union {<<>>}, d \in Verdicts, looped, capacity \in BOOLEAN :
          Decide(calls, d, looped, capacity)

TurnSpec == TurnInit /\ [][TurnNext]_tvars

\* The provider answers or times out; the rest is one coroutine.
TurnFairSpec == TurnSpec /\ WF_tvars(TurnNext)

(***************************************************************************)
(* Properties                                                              *)
(***************************************************************************)

\* "The assistant declared every call id in this turn. OpenAI-compatible providers
\* require one tool response for each id": no request carries an open call, short
\* of a final call whose decision nested further calls. "Rejecting another
\* proposed action would consume the final LLM turn": however the turns are spent
\* on actions, a model that obeys gives its answer.
AnswersAreHeard ==
    /\ ~dropped /\ phase = "reply" /\ sent # "repair" => open = {}
    /\ phase \in {"done", "failed"} /\ obedient => out = "content"

\* Every agent ends.
TurnsEnd == <>(phase \in {"done", "failed"})
=============================================================================
