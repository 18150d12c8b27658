----------------------------- MODULE LlmBudget ------------------------------
(***************************************************************************)
(* The ledger of a run's provider calls (RunBudget in runtime/models.py):  *)
(* one limit for the run, within it calls reserved for the report and for  *)
(* planning. A scope may use its own reservation and what nobody reserved. *)
(* A checkpoint carries the ledger to the process that goes on with the    *)
(* run.                                                                    *)
(***************************************************************************)
EXTENDS Integers, FiniteSets

CONSTANTS AgentScopes,     \* "agent:X" of every specialist
          Limit,           \* policy.maxLlmCalls
          TerminalReserve, \* policy.terminalLlmReserve
          ControlReserve   \* policy.controlPlaneLlmReserve

ASSUME BudgetAssumption ==
    /\ Limit \in Nat \ {0} /\ TerminalReserve \in Nat /\ ControlReserve \in Nat
    /\ IsFiniteSet(AgentScopes)
    /\ "terminal" \notin AgentScopes /\ "control" \notin AgentScopes

Scopes == AgentScopes \union {"terminal", "control"}

VARIABLES calls,    \* llm_calls
          used,     \* llm_calls_by_scope
          reserved, \* llm_reservations
          cap,      \* llm_scope_limits: of the control scope only
          stored    \* snapshot of the ledger in the last checkpoint

ledger == <<calls, used, reserved, cap>>
budgetVars == <<calls, used, reserved, cap, stored>>

Smaller(a, b) == IF a <= b THEN a ELSE b
Positive(a) == IF a >= 0 THEN a ELSE 0

\* configure_llm_budget as RunExecutor.__init__ calls it.
terminal_reserve == Smaller(TerminalReserve, Positive(Limit - 1))
control_reserve == Smaller(ControlReserve, Positive(Limit - terminal_reserve - 1))

BudgetInit ==
    /\ calls = 0
    /\ used = [s \in Scopes |-> 0]
    /\ reserved = [s \in Scopes |->
                      IF s = "terminal" THEN terminal_reserve
                      ELSE IF s = "control" THEN control_reserve ELSE 0]
    /\ cap = control_reserve
    /\ stored = ledger

\* Reserved calls that are not used yet, one by one: of every scope, and of the
\* scopes other than s.
Outstanding == {p \in Scopes \X (1..Limit) : used[p[1]] < p[2] /\ p[2] <= reserved[p[1]]}
OutstandingOthers(s) == {p \in Outstanding : p[1] # s}

\* Mutant: reservations of others are not looked at.
Claimable_Unprotected(s) ==
    /\ s = "control" => used[s] < cap
    /\ calls < Limit

\* claim_llm_call does not raise BudgetExceeded.
Claimable(s) ==
    /\ s = "control" => used[s] < cap
    /\ calls < Limit
    /\ used[s] < reserved[s] \/ Limit - calls > Cardinality(OutstandingOthers(s))

claim_llm_call(s) ==
    /\ Claimable(s)
    /\ calls' = calls + 1
    /\ used' = [used EXCEPT ![s] = @ + 1]
    /\ UNCHANGED <<reserved, cap, stored>>

\* The unused part of a reservation is given up: planning is over.
release_llm_reservation(s) ==
    /\ reserved' = [reserved EXCEPT ![s] = Smaller(@, used[s])]
    /\ cap' = IF s = "control" THEN Smaller(cap, used[s]) ELSE cap
    /\ UNCHANGED <<calls, used, stored>>

\* Mutant: what others reserved counts as available.
available_llm_calls_for_scope_Aggregate(s) ==
    Smaller(Positive(Limit - calls), IF s = "control" THEN Positive(cap - used[s]) ELSE Limit)

available_llm_calls_for_scope(s) ==
    LET free == Positive(Positive(Limit - calls) - Cardinality(OutstandingOthers(s)))
    IN  IF s = "control" THEN Smaller(free, Positive(cap - used[s])) ELSE free

snapshot == stored' = ledger /\ UNCHANGED ledger

restore ==
    /\ calls' = stored[1] /\ used' = stored[2]
    /\ reserved' = stored[3] /\ cap' = stored[4]
    /\ UNCHANGED stored

BudgetNext ==
    \/ \E s \in Scopes : claim_llm_call(s)
    \/ release_llm_reservation("control")
    \/ snapshot
    \/ restore

BudgetSpec == BudgetInit /\ [][BudgetNext]_budgetVars

(***************************************************************************)
(* Properties                                                              *)
(***************************************************************************)

\* "Never another scope's outstanding reservation": whoever calls, in whatever
\* order, with releases and restarts in between, a scope that has not used up
\* its reservation can still make its next call.
ReservedCallsSucceed == \A s \in Scopes : used[s] < reserved[s] => Claimable(s)

\* "Whether this specialist can make another provider request": the answer that
\* decides on a borrowed repair turn is the one the claim will give.
AvailableIsClaimable ==
    \A s \in Scopes : available_llm_calls_for_scope(s) > 0 <=> Claimable(s)
=============================================================================
