----------------------------- MODULE LlmGateway -----------------------------
(***************************************************************************)
(* Provider calls of the coroutines of one process                         *)
(* (ResilientLlmClient.chat in runtime/llm.py): the circuit breaker and    *)
(* the gate all runs of the process share, the retries of a call and the   *)
(* ledger they are charged to. A call may be cancelled at any await, by    *)
(* the timeout of a section, an agent or the run. The execution permit a   *)
(* call gives back while it waits is ExecutionPermit's.                    *)
(***************************************************************************)
EXTENDS LlmBudget

CONSTANTS Callers,    \* coroutines that call the model
          ScopesOf,   \* the ledger scopes each may call under
          Patient,    \* callers with two retries; the quality report has one
          Slots,      \* LLM_MAX_CONCURRENT
          Threshold,  \* failures that open the circuit
          Faults      \* of {"restart"}: the process may be replaced

ASSUME GatewayAssumption ==
    /\ IsFiniteSet(Callers)
    /\ ScopesOf \in [Callers -> SUBSET Scopes]
    /\ Slots \in Nat /\ Threshold \in Nat \ {0}

VARIABLES pc,        \* where a caller is in chat
          attempts,  \* provider attempts of its call
          grown,     \* its output budget has reached the ceiling
          free,      \* slots of the gate
          failures,  \* failures in the breaker's window
          circuit,   \* "closed", "open", "half_open" (the cooldown is over)
          leaked     \* history: slots of calls cancelled before the request

vars == <<budgetVars, pc, attempts, grown, free, failures, circuit, leaked>>
shared == <<free, failures, circuit, leaked>>

Answers == {"ok", "truncated", "retryable", "fatal", "unclassified"}
Ended == {"done", "failed", "cancelled"}

Init ==
    /\ BudgetInit
    /\ pc = [c \in Callers |-> "idle"]
    /\ attempts = [c \in Callers |-> 0]
    /\ grown = [c \in Callers |-> FALSE]
    /\ free = Slots
    /\ failures = 0 /\ circuit = "closed"
    /\ leaked = 0

Goes(c, place) == pc' = [pc EXCEPT ![c] = place]
max_retries(c) == IF c \in Patient THEN 2 ELSE 1

(***************************************************************************)
(* CircuitBreaker                                                          *)
(***************************************************************************)

allow == circuit # "open"
record_success == failures' = 0 /\ circuit' = "closed"
record_failure ==
    /\ failures' = Smaller(failures + 1, Threshold)
    /\ circuit' = IF failures + 1 >= Threshold THEN "open" ELSE circuit

\* Time: the cooldown ends, failures leave the window.
CooldownEnds ==
    /\ circuit = "open"
    /\ circuit' = "half_open"
    /\ UNCHANGED <<budgetVars, pc, attempts, grown, free, failures, leaked>>
WindowPasses ==
    /\ failures > 0
    /\ failures' \in 0..(failures - 1)
    /\ UNCHANGED <<budgetVars, pc, attempts, grown, free, circuit, leaked>>

(***************************************************************************)
(* chat                                                                    *)
(***************************************************************************)

\* Cost and token limits, not modelled, may refuse a call too.
Enter(c) ==
    /\ pc[c] = "idle"
    /\ \/ allow /\ Goes(c, "claim")
       \/ Goes(c, "failed")
    /\ UNCHANGED <<budgetVars, attempts, grown, shared>>

\* Every attempt is charged; the circuit is not asked again.
Attempt(c) ==
    /\ pc[c] = "claim"
    /\ \E s \in ScopesOf[c] :
          IF Claimable(s) THEN claim_llm_call(s) /\ Goes(c, "queued")
          ELSE Goes(c, "failed") /\ UNCHANGED budgetVars
    /\ attempts' = [attempts EXCEPT ![c] = @ + 1]
    /\ UNCHANGED <<grown, shared>>

AcquireSlot(c) ==
    /\ pc[c] = "queued"
    /\ free > 0
    /\ free' = free - 1
    /\ Goes(c, "starting")
    /\ UNCHANGED <<budgetVars, attempts, grown, failures, circuit, leaked>>

\* emit("llm.started") is awaited before the block that releases the slot.
Send(c) ==
    /\ pc[c] = "starting"
    /\ Goes(c, "sent")
    /\ UNCHANGED <<budgetVars, attempts, grown, shared>>

\* Mutant: the slot is released on a good answer only.
Answer_OnSuccess(c, answer) ==
    /\ pc[c] = "sent"
    /\ free' = IF answer = "ok" THEN free + 1 ELSE free
    /\ Goes(c, answer)
    /\ UNCHANGED <<budgetVars, attempts, grown, failures, circuit, leaked>>

\* The answer, or the error, releases the slot; the permit is taken again
\* before it is judged.
Answer(c, answer) ==
    /\ pc[c] = "sent"
    /\ free' = free + 1
    /\ Goes(c, answer)
    /\ UNCHANGED <<budgetVars, attempts, grown, failures, circuit, leaked>>

OutOfAttempts(c) == attempts[c] > max_retries(c)

\* An output cut short is asked for again with a larger budget, up to the
\* ceiling. An error of no known class leaves chat as it is.
Judge(c) ==
    LET retry == \/ pc[c] = "retryable"
                 \/ pc[c] = "truncated" /\ ~grown[c]
    IN  /\ pc[c] \in Answers
        /\ CASE pc[c] = "ok" -> record_success
             [] pc[c] = "unclassified" -> UNCHANGED <<failures, circuit>>
             [] OTHER -> record_failure
        /\ Goes(c, IF pc[c] = "ok" THEN "done"
                   ELSE IF retry /\ ~OutOfAttempts(c) THEN "backoff" ELSE "failed")
        /\ grown' \in {grown, [grown EXCEPT ![c] = @ \/ pc[c] = "truncated"]}
        /\ UNCHANGED <<budgetVars, attempts, free, leaked>>

Retry(c) ==
    /\ pc[c] = "backoff"
    /\ Goes(c, "claim")
    /\ UNCHANGED <<budgetVars, attempts, grown, shared>>

Cancel(c) ==
    /\ pc[c] \in {"queued", "starting", "sent", "backoff"}
    /\ free' = IF pc[c] = "sent" THEN free + 1 ELSE free
    /\ leaked' = IF pc[c] = "starting" THEN leaked + 1 ELSE leaked
    /\ Goes(c, "cancelled")
    /\ UNCHANGED <<budgetVars, attempts, grown, failures, circuit>>

\* The agent asks again: its next turn, or the next agent.
NextCall(c) ==
    /\ pc[c] \in Ended
    /\ Goes(c, "idle")
    /\ attempts' = [attempts EXCEPT ![c] = 0]
    /\ grown' = [grown EXCEPT ![c] = FALSE]
    /\ UNCHANGED <<budgetVars, shared>>

(***************************************************************************)
(* The run                                                                 *)
(***************************************************************************)

Untouched == UNCHANGED <<pc, attempts, grown, shared>>
PlanningEnds == release_llm_reservation("control") /\ Untouched
Checkpoint == snapshot /\ Untouched

\* The run is paused and resumed in the same process ...
Resume ==
    /\ \A c \in Callers : pc[c] \in Ended \union {"idle"}
    /\ restore
    /\ Untouched

\* ... or the process is replaced: gate and breaker are new, the ledger is the stored
\* one.
Restart ==
    /\ "restart" \in Faults
    /\ restore
    /\ pc' = [c \in Callers |-> "cancelled"]
    /\ free' = Slots
    /\ failures' = 0 /\ circuit' = "closed"
    /\ leaked' = 0
    /\ UNCHANGED <<attempts, grown>>

Step(c) ==
    \/ Attempt(c) \/ Send(c) \/ Judge(c) \/ Retry(c)
    \/ \E answer \in Answers : Answer(c, answer)

Next ==
    \/ \E c \in Callers :
          Enter(c) \/ Step(c) \/ AcquireSlot(c) \/ Cancel(c) \/ NextCall(c)
    \/ CooldownEnds \/ WindowPasses
    \/ PlanningEnds \/ Checkpoint \/ Resume \/ Restart

Spec == Init /\ [][Next]_vars

\* The event loop runs what is runnable, a request times out at the latest, and
\* a semaphore serves its waiters in order.
FairSpec ==
    /\ Spec
    /\ \A c \in Callers : WF_vars(Step(c)) /\ SF_vars(AcquireSlot(c))

(***************************************************************************)
(* Properties                                                              *)
(***************************************************************************)

InFlight == {c \in Callers : pc[c] \in {"starting", "sent"}}

\* "Bound provider requests across runs": a slot that is not free belongs to a
\* call that is under way, or to one that was cancelled between taking the slot
\* and its request.
SlotsConserved == free + Cardinality(InFlight) + leaked = Slots

\* A call returns, fails or is cancelled, whatever the others and the provider
\* do, unless all slots have leaked.
CallEnds ==
    \A c \in Callers : pc[c] # "idle" ~> (pc[c] \in Ended \/ leaked = Slots)
=============================================================================
