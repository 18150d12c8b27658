-------------------------- MODULE ExecutionPermit --------------------------
(***************************************************************************)
(* One workflow's share of the global semaphore.  The runtime counts the   *)
(* branches of a run that compute and that wait for the LLM, gives the     *)
(* run's permit back when all of them wait, and takes it again before one  *)
(* goes on (WorkflowRunExecutionController, over the permit transitions of *)
(* RuntimeEmitter and of RunLifecycleService).                             *)
(*                                                                         *)
(* Everything in the runtime is a coroutine of one event loop: they        *)
(* interleave only where they await, which is for the controller's lock,   *)
(* inside the HTTP call of the one that has it, and for the provider.      *)
(***************************************************************************)
EXTENDS Naturals, FiniteSets

CONSTANTS
  Branches,   \* agents that may execute at the same time
  Reporter,   \* the branch of ReportAgent
  Sections,   \* its parallel calls of the LLM; they share its lease
  Capacity,   \* permits of the global semaphore
  None,
  Faults      \* what may go wrong in this instance

FaultKinds == {"timeout", "section", "delay", "answer", "ended"}

ASSUME PermitAssumption ==
  /\ IsFiniteSet(Branches)
  /\ Reporter \in Branches
  /\ Branches \cap Sections = {}
  /\ None \notin Branches \cup Sections
  /\ Capacity \in Nat \ {0}
  /\ Faults \subseteq FaultKinds

Coroutines == Branches \cup Sections

\* The lease of a coroutine is the context variable of its agent.
LeaseOf(c) == IF c \in Sections THEN Reporter ELSE c

VARIABLES
  \* the controller
  held,        \* _permit_held
  runnable,    \* _runnable
  waiting,     \* _waiting_llm
  lease,       \* state of the lease of each branch
  lock,        \* the coroutine that has the lock while it awaits a transition
  \* the coroutines
  at,          \* where each one is
  cancelled,   \* has the timeout of the agent fired
  \* the transition call, repeated until it is acknowledged
  call,
  late,        \* requests given up by the client, that may still be executed
  stray,       \* history: was a transition given up, its outcome unknown
  \* the control plane
  row,         \* is the run active or ended
  owned,       \* does the row name a leased permit
  others       \* permits other workflows have

controllerVars == <<held, runnable, waiting, lease>>
callVars       == <<lock, call, late, stray>>
platformVars   == <<row, owned, others>>
vars == <<controllerVars, callVars, at, cancelled, platformVars>>

IdleCall == [op |-> None, done |-> FALSE]

\* An execution starts with the permit its run was dispatched with.
Init ==
  /\ held = TRUE
  /\ runnable = 0
  /\ waiting = 0
  /\ lease = [b \in Branches |-> "closed"]
  /\ lock = None
  /\ at = [c \in Coroutines |-> "idle"]
  /\ cancelled = [b \in Branches |-> FALSE]
  /\ call = IdleCall
  /\ late = {}
  /\ stray = FALSE
  /\ row = "active"
  /\ owned = TRUE
  /\ others \in 0..(Capacity - 1)

-----------------------------------------------------------------------------
(***************************************************************************)
(* The controller.  A method runs from the lock to the transition in one   *)
(* step; Returns is the rest of it.                                        *)
(***************************************************************************)
Dec(n) == IF n = 0 THEN 0 ELSE n - 1

Goes(c, place) == at' = [at EXCEPT ![c] = place]

Transition(c, op) ==
  /\ lock' = c
  /\ call' = [op |-> op, done |-> FALSE]
  /\ UNCHANGED <<at, held>>

\* The permit is there: the coroutine goes on.
BecomeRunnable(c) ==
  /\ runnable' = runnable + 1
  /\ lease' = [lease EXCEPT ![LeaseOf(c)] = "runnable"]
  /\ Goes(c, "computing")

\* Faulty variant: detaches although other branches compute.
release_if_fully_suspended_Any(c, place) ==
  IF held /\ waiting' > 0
  THEN Transition(c, "release")
  ELSE Goes(c, place) /\ UNCHANGED <<lock, call, held>>

\* Last part of suspend and leave; the coroutine is at place when it is over.
release_if_fully_suspended(c, place) ==
  IF held /\ runnable' = 0 /\ waiting' > 0
  THEN Transition(c, "release")
  ELSE Goes(c, place) /\ UNCHANGED <<lock, call, held>>

enter_agent(b) ==
  /\ at[b] = "entering"
  /\ lock = None
  /\ IF held
     THEN BecomeRunnable(b) /\ UNCHANGED <<held, lock, call>>
     ELSE Transition(b, "acquire") /\ UNCHANGED <<runnable, lease>>
  /\ UNCHANGED <<waiting, late, stray, cancelled, platformVars>>

\* A lease that is not runnable is left alone.
suspend_for_llm(c) ==
  /\ at[c] = "suspending"
  /\ lock = None
  /\ IF lease[LeaseOf(c)] = "runnable"
     THEN /\ runnable' = Dec(runnable)
          /\ waiting' = waiting + 1
          /\ lease' = [lease EXCEPT ![LeaseOf(c)] = "waiting_llm"]
          /\ release_if_fully_suspended(c, "provider")
     ELSE /\ Goes(c, "provider")
          /\ UNCHANGED <<controllerVars, lock, call>>
  /\ UNCHANGED <<late, stray, cancelled, platformVars>>

\* Faulty variant: goes on without the permit.
resume_after_llm_Unpermitted(c) ==
  /\ at[c] = "resuming"
  /\ lock = None
  /\ IF lease[LeaseOf(c)] = "waiting_llm"
     THEN BecomeRunnable(c) /\ waiting' = Dec(waiting)
     ELSE Goes(c, "computing") /\ UNCHANGED <<runnable, lease, waiting>>
  /\ UNCHANGED <<held, callVars, cancelled, platformVars>>

resume_after_llm(c) ==
  /\ at[c] = "resuming"
  /\ lock = None
  /\ CASE lease[LeaseOf(c)] = "waiting_llm" /\ held ->
            /\ BecomeRunnable(c)
            /\ waiting' = Dec(waiting)
            /\ UNCHANGED <<held, lock, call>>
       [] lease[LeaseOf(c)] = "waiting_llm" /\ ~held ->
            Transition(c, "acquire") /\ UNCHANGED <<runnable, waiting, lease>>
       [] OTHER ->
            Goes(c, "computing") /\ UNCHANGED <<controllerVars, lock, call>>
  /\ UNCHANGED <<late, stray, cancelled, platformVars>>

leave_agent(b) ==
  /\ at[b] = "leaving"
  /\ lock = None
  /\ runnable' = IF lease[b] = "runnable" THEN Dec(runnable) ELSE runnable
  /\ waiting' = IF lease[b] = "waiting_llm" THEN Dec(waiting) ELSE waiting
  /\ lease' = [lease EXCEPT ![b] = "closed"]
  /\ release_if_fully_suspended(b, "idle")
  /\ UNCHANGED <<late, stray, cancelled, platformVars>>

\* The transition was acknowledged: the method goes on and frees the lock.
Returns(c) ==
  /\ lock = c
  /\ call.done
  /\ held' = (call.op = "acquire")
  /\ IF call.op = "acquire"
     THEN /\ BecomeRunnable(c)
          /\ waiting' = IF at[c] = "resuming" THEN Dec(waiting) ELSE waiting
     ELSE /\ Goes(c, IF at[c] = "suspending" THEN "provider" ELSE "idle")
          /\ UNCHANGED <<runnable, waiting, lease>>
  /\ lock' = None
  /\ call' = IdleCall
  /\ UNCHANGED <<late, stray, cancelled, platformVars>>

-----------------------------------------------------------------------------
(***************************************************************************)
(* The branches.  An agent enters, calls the LLM any number of times and   *)
(* leaves; a later agent may use the branch again, unless its lease was    *)
(* never closed.  ReportAgent also calls the LLM from several sections at  *)
(* once and waits until all have ended.                                    *)
(***************************************************************************)
Begin(b) ==
  /\ at[b] = "idle"
  /\ lease[b] \in {"closed", "new"}
  /\ Goes(b, "entering")
  /\ lease' = [lease EXCEPT ![b] = "new"]
  /\ cancelled' = [cancelled EXCEPT ![b] = FALSE]
  /\ UNCHANGED <<held, runnable, waiting, callVars, platformVars>>

Walks == UNCHANGED <<controllerVars, callVars, cancelled, platformVars>>

CallLlm(c)         == at[c] = "computing" /\ Goes(c, "suspending") /\ Walks
ProviderAnswers(c) == at[c] = "provider" /\ Goes(c, "resuming") /\ Walks
Finish(b)          == at[b] = "computing" /\ Goes(b, "leaving") /\ Walks
SectionEnds(s)     == at[s] = "computing" /\ Goes(s, "idle") /\ Walks

run_sections ==
  /\ at[Reporter] = "computing"
  /\ \A s \in Sections : at[s] = "idle"
  /\ Sections # {}
  /\ at' = [c \in Coroutines |-> IF c \in Sections THEN "computing"
                                 ELSE IF c = Reporter THEN "gathering" ELSE at[c]]
  /\ Walks

SectionsEnded ==
  /\ at[Reporter] = "gathering"
  /\ \A s \in Sections : at[s] = "idle"
  /\ Goes(Reporter, "computing")
  /\ Walks

\* Coroutines that are cancelled: the one inside the transition frees the lock,
\* its request may be executed later, if it has not been.
Abandon(C) ==
  IF lock \in C
  THEN /\ lock' = None
       /\ call' = IdleCall
       /\ stray' = TRUE
       /\ \/ UNCHANGED late
          \/ ~call.done /\ late' = late \cup {call.op}
  ELSE UNCHANGED callVars

\* The agent's timeout cancels it, and what it gathers, at whatever it awaits.
\* It has no lease to close while it enters, and does not close it when it is
\* cancelled while it awaits the lock, or the transition, to do so.
AgentTimeout(b) ==
  LET C == IF at[b] = "gathering" THEN {b} \cup Sections ELSE {b} IN
  /\ "timeout" \in Faults
  /\ at[b] # "idle"
  /\ at[b] = "leaving" => lock # None
  /\ ~cancelled[b]
  /\ cancelled' = [cancelled EXCEPT ![b] = TRUE]
  /\ at' = [c \in Coroutines |->
              CASE c = b -> IF at[b] \in {"entering", "leaving"} THEN "idle" ELSE "leaving"
                [] c \in C \ {b} -> "idle"
                [] OTHER -> at[c]]
  /\ Abandon(C)
  /\ UNCHANGED <<controllerVars, platformVars>>

\* The timeout of a section ends it; a cancelled call does not resume the lease.
SectionTimeout(s) ==
  /\ "section" \in Faults
  /\ at[s] \in {"suspending", "provider", "resuming"}
  /\ Goes(s, "idle")
  /\ Abandon({s})
  /\ UNCHANGED <<controllerVars, cancelled, platformVars>>

-----------------------------------------------------------------------------
(***************************************************************************)
(* The control plane executes the transitions; each is idempotent.  Its    *)
(* own steps inside one transition are in RunLifecycle.                    *)
(***************************************************************************)
Owned == IF owned THEN 1 ELSE 0

Free == others + Owned < Capacity

\* Faulty variant: a row that has its permit asks for another.
Grantable_NotIdempotent == row = "ended" \/ Free

Grantable == row = "ended" \/ owned \/ Free

\* A terminal run may unwind without a permit.
Execute(op) == owned' = (op = "acquire" /\ row = "active")

\* An acquire that is not granted is answered 429 and repeated.
Serve ==
  /\ lock # None
  /\ ~call.done
  /\ call.op = "acquire" => Grantable
  /\ Execute(call.op)
  /\ call' = [call EXCEPT !.done = TRUE]
  /\ UNCHANGED <<controllerVars, lock, late, stray, at, cancelled, row, others>>

\* Executed, but the client saw an error: it sends the request again.
AnswerLost ==
  /\ "answer" \in Faults
  /\ lock # None
  /\ call.done
  /\ call' = [call EXCEPT !.done = FALSE]
  /\ UNCHANGED <<controllerVars, lock, late, stray, at, cancelled, platformVars>>

\* Not yet executed when the client's timeout passed: sent again.
RequestDelayed ==
  /\ "delay" \in Faults
  /\ lock # None
  /\ ~call.done
  /\ late' = late \cup {call.op}
  /\ stray' = TRUE
  /\ UNCHANGED <<controllerVars, lock, call, at, cancelled, platformVars>>

ServeLate(op) ==
  /\ op \in late
  /\ late' = late \ {op}
  /\ IF op = "acquire" /\ ~Grantable THEN UNCHANGED owned ELSE Execute(op)
  /\ UNCHANGED <<controllerVars, lock, call, stray, at, cancelled, row, others>>

\* The run is cancelled, timed out or failed by the control plane.
RunEnds ==
  /\ "ended" \in Faults
  /\ row = "active"
  /\ row' = "ended"
  /\ owned' = FALSE
  /\ UNCHANGED <<controllerVars, callVars, at, cancelled, others>>

OthersAcquire ==
  /\ Free
  /\ others' = others + 1
  /\ UNCHANGED <<controllerVars, callVars, at, cancelled, row, owned>>

OthersRelease ==
  /\ others > 0
  /\ others' = others - 1
  /\ UNCHANGED <<controllerVars, callVars, at, cancelled, row, owned>>

-----------------------------------------------------------------------------
Branch(b) == enter_agent(b) \/ leave_agent(b) \/ Begin(b) \/ Finish(b) \/ AgentTimeout(b)

Coroutine(c) ==
  \/ suspend_for_llm(c) \/ resume_after_llm(c) \/ Returns(c)
  \/ CallLlm(c) \/ ProviderAnswers(c)

Platform ==
  \/ Serve \/ AnswerLost \/ RequestDelayed
  \/ \E op \in late : ServeLate(op)
  \/ RunEnds \/ OthersAcquire \/ OthersRelease

Next ==
  \/ \E b \in Branches : Branch(b)
  \/ \E c \in Coroutines : Coroutine(c)
  \/ \E s \in Sections : SectionEnds(s) \/ SectionTimeout(s)
  \/ run_sections
  \/ SectionsEnded
  \/ Platform

Spec == Init /\ [][Next]_vars

(***************************************************************************)
(* asyncio.Lock is first in, first out, so that a coroutine that waits for *)
(* it gets it when it is freed again and again.  A transition is repeated  *)
(* until it is acknowledged, and some answer arrives some day.  A resumed  *)
(* coroutine is in one of the two steps only, so they share a condition.   *)
(* Nothing is assumed of the provider, of the agents or of other workflows.*)
(***************************************************************************)
FairSpec ==
  /\ Spec
  /\ WF_vars(Serve)
  /\ \A c \in Coroutines : SF_vars(resume_after_llm(c) \/ Returns(c))

-----------------------------------------------------------------------------
(***************************************************************************)
(* Properties.                                                             *)
(***************************************************************************)
Places == {"idle", "entering", "computing", "suspending", "provider", "resuming",
           "gathering", "leaving"}
Operations == {"acquire", "release"}

\* Every variable keeps its type (the fields of llm.py 36-41), and no more than
\* the capacity is leased (RunLifecycleService.java 420-423).
TypeOK ==
  /\ held \in BOOLEAN
  /\ runnable \in Nat
  /\ waiting \in Nat
  /\ lease \in [Branches -> {"new", "runnable", "waiting_llm", "closed"}]
  /\ lock \in Coroutines \cup {None}
  /\ at \in [Coroutines -> Places]
  /\ cancelled \in [Branches -> BOOLEAN]
  /\ call \in [op : Operations \cup {None}, done : BOOLEAN]
  /\ late \subseteq Operations
  /\ stray \in BOOLEAN
  /\ row \in {"active", "ended"}
  /\ owned \in BOOLEAN
  /\ others \in Nat
  /\ others + Owned <= Capacity

InState(state) == {b \in Branches : lease[b] = state}

\* The counters count the leases, whichever coroutines of a branch suspend and
\* resume it, and wherever a timeout strikes (llm.py 48-88).
CountsAgree ==
  /\ runnable = Cardinality(InState("runnable"))
  /\ waiting = Cardinality(InState("waiting_llm"))

\* Short of a transition whose outcome is unknown, an active run owns its permit
\* whenever a branch is runnable, and does not keep it from others when all its
\* branches wait for the LLM (llm.py 90-94 over LC 384-440).
PermitFollows ==
  ~stray /\ row = "active" =>
    /\ runnable > 0 => owned
    /\ runnable = 0 /\ waiting > 0 /\ lock = None => ~owned

\* What executor.py 1413-1414 says: the permit is detached only while every live
\* branch is suspended in provider I/O.
ComputingCovered ==
  ~stray /\ row = "active" => \A c \in Coroutines : at[c] = "computing" => owned

\* A result the LLM returned is acted on as soon as permits remain to be had,
\* even though transitions are cancelled by timeouts, repeated and overtaken.
ResumesWhenFree ==
  <>[](row = "ended" \/ owned \/ Free) =>
    \A c \in Coroutines : at[c] = "resuming" ~> at[c] # "resuming"
-----------------------------------------------------------------------------
(***************************************************************************)
(* The inductive invariant behind the safety properties.                   *)
(***************************************************************************)
\* What the coroutine that has the lock is doing.
LockHolder ==
  /\ lock = None => call = IdleCall
  /\ lock # None =>
       \/ /\ call.op = "acquire"
          /\ ~held
          /\ \/ at[lock] = "entering" /\ lock \in Branches
             \/ at[lock] = "resuming" /\ lease[LeaseOf(lock)] = "waiting_llm"
       \/ /\ call.op = "release"
          /\ held
          /\ runnable = 0
          /\ \/ at[lock] = "suspending" /\ lease[LeaseOf(lock)] = "waiting_llm"
             \/ at[lock] = "leaving" /\ lock \in Branches

\* The controller's belief is right unless an outcome is unknown, and follows
\* its counters.
Belief ==
  /\ runnable > 0 => held
  /\ ~stray =>
       /\ late = {}
       /\ lock = None /\ held /\ waiting > 0 => runnable > 0
       /\ row = "active" =>
            /\ lock = None => owned = held
            /\ call.done /\ call.op = "acquire" => owned
            /\ call.done /\ call.op = "release" => ~owned
            /\ runnable > 0 => owned

\* Where the lease of a branch is while the branch is alone with it.
LeaseFits ==
  \A b \in Branches :
    /\ at[b] = "entering" => lease[b] = "new"
    /\ Sections = {} =>
         /\ at[b] = "computing" => lease[b] = "runnable"
         /\ at[b] = "suspending" => lease[b] = "runnable" \/ lock = b
         /\ at[b] \in {"provider", "resuming"} => lease[b] = "waiting_llm"
         /\ at[b] # "gathering"

\* Why the permit follows the branches: one coroutine at a time changes the
\* counters, with the lease it changes, and the permit before or after them
\* (llm.py 48-94).
PermitInvariant == TypeOK /\ CountsAgree /\ LockHolder /\ Belief /\ LeaseFits
=============================================================================
