------------------------------ MODULE Runtime ------------------------------
(***************************************************************************)
(* The parts of the agent runtime side by side: a behaviour is one of the  *)
(* loop executor, of the LangGraph executor, of the gateway with its       *)
(* ledger or of the turns of an agent. Which one is chosen in the initial  *)
(* state; the others do not move.                                          *)
(***************************************************************************)
EXTENDS AgentGroups, LlmGateway, AgentTurns

CONSTANTS Approved,   \* of the executors
          Dispatches, \* of the executors
          Parts       \* parts that are run

VARIABLES part,
          l_row, l_pc, l_mem, l_running, l_outcome, l_failures, l_pausing, l_late,
          l_dispatched, l_overtaken, l_saved, l_won,
          g_row, g_thread, g_proc, g_pausing, g_dispatched, g_won, g_asWritten

lvars == <<l_row, l_pc, l_mem, l_running, l_outcome, l_failures, l_pausing, l_late,
           l_dispatched, l_overtaken, l_saved, l_won>>
gvars == <<g_row, g_thread, g_proc, g_pausing, g_dispatched, g_won, g_asWritten>>
allvars == <<part, lvars, gvars, tvars, vars>>

Loop == INSTANCE RunExecution WITH
    row <- l_row, pc <- l_pc, mem <- l_mem, running <- l_running,
    outcome <- l_outcome, failures <- l_failures, pausing <- l_pausing,
    late <- l_late, dispatched <- l_dispatched, overtaken <- l_overtaken,
    saved <- l_saved, won <- l_won
Graph == INSTANCE GraphExecution WITH
    row <- g_row, thread <- g_thread, proc <- g_proc, pausing <- g_pausing,
    dispatched <- g_dispatched, won <- g_won, asWritten <- g_asWritten

\* The user picks and orders agents of the catalogue.
ASSUME ApprovedAssumption == Approved \subseteq Seq(Agents)
ASSUME NoSnapAssumption == None \notin Graph!Snaps

\* Of the many agents one is enough where no agent moves.
OneAgent ==
    /\ agent.kind = "risk" /\ agent.maxDecisions = 1 /\ agent.quota = 1
    /\ agent.ceiling + agent.toolLimit + agent.actionQuota = 0

RuntimeInit ==
    /\ part \in Parts
    /\ Loop!Init /\ Graph!Init /\ TurnInit /\ Init
    /\ part # "turns" => OneAgent

In(p) == part = p /\ UNCHANGED part
LoopIdle == UNCHANGED lvars
GraphIdle == UNCHANGED gvars
TurnsIdle == UNCHANGED tvars
GatewayIdle == UNCHANGED vars

RuntimeNext ==
    \/ In("loop") /\ Loop!Next /\ GraphIdle /\ TurnsIdle /\ GatewayIdle
    \/ In("graph") /\ Graph!Next /\ LoopIdle /\ TurnsIdle /\ GatewayIdle
    \/ In("turns") /\ TurnNext /\ LoopIdle /\ GraphIdle /\ GatewayIdle
    \/ In("gateway") /\ Next /\ LoopIdle /\ GraphIdle /\ TurnsIdle

RuntimeSpec == RuntimeInit /\ [][RuntimeNext]_allvars

\* The fairness of the four specifications.
RuntimeFairSpec ==
    /\ RuntimeSpec
    /\ WF_allvars(In("loop") /\ Loop!Executor /\ GraphIdle /\ TurnsIdle /\ GatewayIdle)
    /\ WF_allvars(In("graph") /\ Graph!Executor /\ LoopIdle /\ TurnsIdle /\ GatewayIdle)
    /\ WF_allvars(In("turns") /\ TurnNext /\ LoopIdle /\ GraphIdle /\ GatewayIdle)
    /\ \A c \in Callers :
          /\ WF_allvars(In("gateway") /\ Step(c) /\ LoopIdle /\ GraphIdle /\ TurnsIdle)
          /\ SF_allvars(In("gateway") /\ AcquireSlot(c)
                        /\ LoopIdle /\ GraphIdle /\ TurnsIdle)

\* Whichever executor runs the plan, ReportAgent is started when every other
\* agent of the plan has ended, also after a resume from a checkpoint.
ReportComesLast == Loop!ReportComesLast /\ Graph!ReportComesLast
\* A run that ends SUCCEEDED has the report and the output of every agent of its
\* goals: no pause, crash or late checkpoint makes the failure of one forgotten.
HonestSuccess == Loop!HonestSuccess /\ Graph!HonestSuccess
\* An agent that a stored checkpoint records as executed is not started again by
\* a later attempt, unless an older checkpoint has overtaken a newer one.
NeverRepeated == Loop!NeverRepeated /\ Graph!NeverRepeated
\* Every attempt of an executor ends, whatever its agents do.
AttemptsEnd == Loop!AttemptEnds /\ Graph!AttemptEnds

\* An agent whose end was ever saved is not started again, whichever checkpoint
\* the run is resumed from (refuted: an older checkpoint may overwrite a newer).
CompletedNeverRepeated == Loop!CompletedNeverRepeated
\* The agent comes to an end: turns, repairs and refusals are bounded.
AgentEnds == part = "turns" => TurnsEnd
=============================================================================
