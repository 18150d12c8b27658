----------------------- MODULE ExecutionPermit_proofs -----------------------
(***************************************************************************)
(* The permit follows the branches, for any number of branches, sections   *)
(* and permits and any mix of faults.                                      *)
(*                                                                         *)
(* Only one coroutine at a time is between the counters and the permit, so *)
(* the invariant says what that one is doing (LockHolder) and what holds   *)
(* when there is none (Belief).                                            *)
(***************************************************************************)
EXTENDS ExecutionPermit, FiniteSetTheorems, TLAPS

USE DEF vars, controllerVars, callVars, platformVars

LeaseStates == {"new", "runnable", "waiting_llm", "closed"}

-----------------------------------------------------------------------------
(***************************************************************************)
(* Counting leases.                                                        *)
(***************************************************************************)
\* One lease changes: the number of leases in a state changes by one, up when
\* the lease enters the state, down when it leaves it.
LEMMA LeaseCount ==
  ASSUME IsFiniteSet(Branches), lease \in [Branches -> LeaseStates],
         NEW b \in Branches, NEW t \in LeaseStates, lease' = [lease EXCEPT ![b] = t],
         NEW st
  PROVE  /\ Cardinality(InState(st)) \in Nat
         /\ t = st /\ lease[b] # st => Cardinality(InState(st)') = Cardinality(InState(st)) + 1
         /\ t # st /\ lease[b] = st => /\ Cardinality(InState(st)) > 0
                                       /\ Cardinality(InState(st)') = Cardinality(InState(st)) - 1
         /\ (t = st <=> lease[b] = st) => InState(st)' = InState(st)
<1>1. IsFiniteSet(InState(st)) /\ Cardinality(InState(st)) \in Nat
  BY FS_Subset, FS_CardinalityType DEF InState
<1>2. CASE t = st /\ lease[b] # st
  <2>1. InState(st)' = InState(st) \cup {b} /\ b \notin InState(st)
    BY <1>2 DEF InState
  <2> QED
    BY <1>1, <1>2, <2>1, FS_AddElement
<1>3. CASE t # st /\ lease[b] = st
  <2>1. InState(st)' = InState(st) \ {b} /\ b \in InState(st)
    BY <1>3 DEF InState
  <2>2. Cardinality(InState(st)) # 0
    BY <1>1, <2>1, FS_EmptySet
  <2>3. Cardinality(InState(st)') = Cardinality(InState(st)) - 1
    BY <1>1, <2>1, FS_RemoveElement
  <2> QED
    BY <1>1, <1>3, <2>2, <2>3
<1>4. CASE t = st <=> lease[b] = st
  BY <1>1, <1>4 DEF InState
<1> QED
  BY <1>1, <1>2, <1>3, <1>4

\* A counter that is changed as its leases are stays the number of them.
LEMMA Recount ==
  ASSUME PermitAssumption, TypeOK, CountsAgree,
         NEW b \in Branches, NEW t \in LeaseStates, lease' = [lease EXCEPT ![b] = t],
         runnable' = IF t = "runnable" /\ lease[b] # "runnable" THEN runnable + 1
                     ELSE IF t # "runnable" /\ lease[b] = "runnable" THEN Dec(runnable)
                     ELSE runnable,
         waiting' = IF t = "waiting_llm" /\ lease[b] # "waiting_llm" THEN waiting + 1
                    ELSE IF t # "waiting_llm" /\ lease[b] = "waiting_llm" THEN Dec(waiting)
                    ELSE waiting
  PROVE  CountsAgree'
<1>1. IsFiniteSet(Branches) /\ lease \in [Branches -> LeaseStates]
  BY DEF PermitAssumption, TypeOK, LeaseStates
<1>2. runnable' = Cardinality(InState("runnable")')
  <2> DEFINE n == Cardinality(InState("runnable"))
             m == Cardinality(InState("runnable")')
  <2>1. /\ n \in Nat
        /\ t = "runnable" /\ lease[b] # "runnable" => m = n + 1
        /\ t # "runnable" /\ lease[b] = "runnable" => n > 0 /\ m = n - 1
        /\ (t = "runnable" <=> lease[b] = "runnable") => m = n
    BY <1>1, LeaseCount
  <2>2. runnable = n
    BY DEF CountsAgree
  <2> HIDE DEF n, m
  <2>3. runnable' = m
    BY <2>1, <2>2 DEF Dec
  <2> QED
    BY <2>3 DEF m
<1>3. waiting' = Cardinality(InState("waiting_llm")')
  <2> DEFINE n == Cardinality(InState("waiting_llm"))
             m == Cardinality(InState("waiting_llm")')
  <2>1. /\ n \in Nat
        /\ t = "waiting_llm" /\ lease[b] # "waiting_llm" => m = n + 1
        /\ t # "waiting_llm" /\ lease[b] = "waiting_llm" => n > 0 /\ m = n - 1
        /\ (t = "waiting_llm" <=> lease[b] = "waiting_llm") => m = n
    BY <1>1, LeaseCount
  <2>2. waiting = n
    BY DEF CountsAgree
  <2> HIDE DEF n, m
  <2>3. waiting' = m
    BY <2>1, <2>2 DEF Dec
  <2> QED
    BY <2>3 DEF m
<1> QED
  BY <1>2, <1>3 DEF CountsAgree

LEMMA CoroutineFacts ==
  ASSUME PermitAssumption, NEW c \in Coroutines
  PROVE  /\ LeaseOf(c) \in Branches
         /\ c # None
         /\ c \in Branches => LeaseOf(c) = c
         /\ Sections = {} => c \in Branches
BY DEF PermitAssumption, LeaseOf, Coroutines

LEMMA BranchFacts ==
  ASSUME PermitAssumption, NEW b \in Branches
  PROVE  b \in Coroutines /\ b # None /\ LeaseOf(b) = b
BY DEF PermitAssumption, LeaseOf, Coroutines

-----------------------------------------------------------------------------
THEOREM PermitInit == PermitAssumption /\ Init => PermitInvariant
<1> SUFFICES ASSUME PermitAssumption, Init PROVE PermitInvariant
  OBVIOUS
<1>1. TypeOK
  <2>1. others \in Nat /\ others + Owned <= Capacity
    BY DEF PermitAssumption, Init, Owned
  <2>2. call \in [op : Operations \cup {None}, done : BOOLEAN]
    BY DEF Init, IdleCall
  <2> QED
    BY <2>1, <2>2 DEF Init, TypeOK, Places, Coroutines
<1>2. CountsAgree
  <2>1. InState("runnable") = {} /\ InState("waiting_llm") = {}
    BY DEF Init, InState
  <2> QED
    BY <2>1, FS_EmptySet DEF Init, CountsAgree
<1>3. LockHolder /\ Belief /\ LeaseFits
  BY DEF Init, LockHolder, Belief, LeaseFits, IdleCall, Coroutines
<1> QED
  BY <1>1, <1>2, <1>3 DEF PermitInvariant

-----------------------------------------------------------------------------
(***************************************************************************)
(* The kinds of steps.                                                     *)
(***************************************************************************)
\* A coroutine goes on: the permit is there, and its lease becomes runnable.
LEMMA GoesOn ==
  ASSUME PermitAssumption, PermitInvariant, NEW c \in Coroutines, NEW b \in Branches,
         b = LeaseOf(c), c = b \/ c \notin Branches,
         lease[b] = "waiting_llm" \/ (lease[b] = "new" /\ c = b),
         held' = TRUE, lock' = None, call' = IdleCall,
         ~stray /\ row = "active" => owned,
         at' = [at EXCEPT ![c] = "computing"],
         lease' = [lease EXCEPT ![b] = "runnable"],
         runnable' = runnable + 1,
         waiting' = IF lease[b] = "waiting_llm" THEN Dec(waiting) ELSE waiting,
         lock \in {None, c},
         UNCHANGED <<late, stray, cancelled, platformVars>>
  PROVE  PermitInvariant'
<1> USE DEF PermitInvariant
<1>1. TypeOK'
  <2>1. lease' \in [Branches -> {"new", "runnable", "waiting_llm", "closed"}]
    BY DEF TypeOK
  <2>2. at' \in [Coroutines -> Places]
    BY DEF TypeOK, Places
  <2>3. runnable' \in Nat /\ waiting' \in Nat
    BY DEF TypeOK, Dec
  <2>4. others' + Owned' <= Capacity
    BY DEF TypeOK, Owned
  <2>5. call' \in [op : Operations \cup {None}, done : BOOLEAN]
    BY DEF IdleCall
  <2> QED
    BY <2>1, <2>2, <2>3, <2>4, <2>5 DEF TypeOK
<1>2. CountsAgree'
  BY Recount DEF LeaseStates
<1>3. LockHolder'
  BY DEF LockHolder
<1>4. Belief'
  <2>1. runnable' > 0
    BY DEF TypeOK
  <2>2. call'.done = FALSE
    BY DEF IdleCall
  <2> QED
    BY <2>1, <2>2 DEF TypeOK, Belief
<1>5. LeaseFits'
  <2> SUFFICES ASSUME NEW d \in Branches
               PROVE  /\ at'[d] = "entering" => lease'[d] = "new"
                      /\ Sections = {} =>
                           /\ at'[d] = "computing" => lease'[d] = "runnable"
                           /\ at'[d] = "suspending" => lease'[d] = "runnable" \/ lock' = d
                           /\ at'[d] \in {"provider", "resuming"} => lease'[d] = "waiting_llm"
                           /\ at'[d] # "gathering"
    BY DEF LeaseFits
  <2>1. CASE d # b
    <3>1. d # c
      BY <2>1
    <3>2. at'[d] = at[d] /\ lease'[d] = lease[d]
      BY <2>1, <3>1 DEF TypeOK, Coroutines
    <3>3. lock # d
      BY <3>1 DEF PermitAssumption
    <3> QED
      BY <3>2, <3>3 DEF LeaseFits
  <2>2. CASE d = b /\ c = b
    BY <2>2 DEF TypeOK, Coroutines
  <2>3. CASE d = b /\ c # b
    <3>1. Sections # {} /\ at'[d] = at[d] /\ lease[d] # "new"
      BY <2>3 DEF TypeOK, Coroutines
    <3> QED
      BY <2>3, <3>1 DEF LeaseFits
  <2> QED
    BY <2>1, <2>2, <2>3
<1> QED
  BY <1>1, <1>2, <1>3, <1>4, <1>5

\* A coroutine asks for the permit first.
LEMMA AsksForPermit ==
  ASSUME PermitAssumption, PermitInvariant, NEW c \in Coroutines, ~held, lock = None,
         \/ at[c] = "entering" /\ c \in Branches
         \/ at[c] = "resuming" /\ lease[LeaseOf(c)] = "waiting_llm",
         lock' = c, call' = [op |-> "acquire", done |-> FALSE],
         UNCHANGED <<controllerVars, at, late, stray, cancelled, platformVars>>
  PROVE  PermitInvariant'
<1> USE DEF PermitInvariant
<1>0. c # None
  BY CoroutineFacts
<1>1. TypeOK'
  BY DEF TypeOK, Operations, Owned
<1>2. CountsAgree'
  BY DEF CountsAgree, InState
<1>3. LockHolder'
  BY <1>0 DEF LockHolder, LeaseOf
<1>4. Belief'
  BY <1>0 DEF TypeOK, Belief
<1>5. LeaseFits'
  BY DEF TypeOK, LeaseFits
<1> QED
  BY <1>1, <1>2, <1>3, <1>4, <1>5

\* Coroutines other than the one that has the lock move.
LEMMA Moves ==
  ASSUME PermitAssumption, PermitInvariant, LeaseFits', CountsAgree',
         at' \in [Coroutines -> Places], cancelled' \in [Branches -> BOOLEAN],
         lease' \in [Branches -> LeaseStates],
         lock # None => at'[lock] = at[lock] /\ lease'[LeaseOf(lock)] = lease[LeaseOf(lock)],
         UNCHANGED <<held, runnable, waiting, callVars, platformVars>>
  PROVE  PermitInvariant'
<1> USE DEF PermitInvariant
<1>1. TypeOK'
  BY DEF TypeOK, Owned, LeaseStates
<1>2. LockHolder'
  BY DEF LockHolder
<1>3. Belief'
  BY DEF Belief
<1> QED
  BY <1>1, <1>2, <1>3

\* The coroutine that has the lock is cancelled.
LEMMA GivesUp ==
  ASSUME PermitAssumption, PermitInvariant, LeaseFits',
         at' \in [Coroutines -> Places], cancelled' \in [Branches -> BOOLEAN],
         lock # None, lock' = None, call' = IdleCall, stray' = TRUE,
         late' = late \/ late' = late \cup {call.op},
         UNCHANGED <<controllerVars, platformVars>>
  PROVE  PermitInvariant'
<1> USE DEF PermitInvariant
<1>1. TypeOK'
  <2>1. call.op \in Operations
    BY DEF LockHolder, Operations
  <2>2. late' \subseteq Operations
    BY <2>1 DEF TypeOK
  <2>3. call' \in [op : Operations \cup {None}, done : BOOLEAN]
    BY DEF IdleCall
  <2> QED
    BY <2>2, <2>3 DEF TypeOK, Owned
<1>2. CountsAgree'
  BY DEF CountsAgree, InState
<1>3. LockHolder' /\ Belief'
  BY DEF LockHolder, Belief
<1> QED
  BY <1>1, <1>2, <1>3

\* The control plane moves.
LEMMA Executes ==
  ASSUME PermitInvariant, TypeOK', Belief', call'.op = call.op,
         lock = None => UNCHANGED call,
         UNCHANGED <<controllerVars, lock, at, cancelled>>
  PROVE  PermitInvariant'
<1> USE DEF PermitInvariant
<1>1. CountsAgree' /\ LeaseFits'
  BY DEF CountsAgree, InState, LeaseFits
<1>2. LockHolder'
  BY DEF LockHolder
<1> QED
  BY <1>1, <1>2

-----------------------------------------------------------------------------
(***************************************************************************)
(* The controller's methods.                                               *)
(***************************************************************************)
LEMMA EnterStep ==
  ASSUME PermitAssumption, PermitInvariant, NEW b \in Branches, enter_agent(b)
  PROVE  PermitInvariant'
<1>0. b \in Coroutines /\ b # None /\ LeaseOf(b) = b
  BY BranchFacts
<1>1. lease[b] = "new"
  BY DEF PermitInvariant, LeaseFits, enter_agent
<1>2. CASE held
  <2>1. call = IdleCall /\ (~stray /\ row = "active" => owned)
    BY <1>2 DEF PermitInvariant, LockHolder, Belief, enter_agent
  <2> QED
    BY <1>0, <1>1, <1>2, <2>1, GoesOn DEF enter_agent, BecomeRunnable, Goes
<1>3. CASE ~held
  BY <1>0, <1>3, AsksForPermit DEF enter_agent, Transition
<1> QED
  BY <1>2, <1>3

LEMMA ResumeStep ==
  ASSUME PermitAssumption, PermitInvariant, NEW c \in Coroutines, resume_after_llm(c)
  PROVE  PermitInvariant'
<1>0. LeaseOf(c) \in Branches /\ c # None /\ (c \in Branches => LeaseOf(c) = c)
  BY CoroutineFacts
<1>1. CASE lease[LeaseOf(c)] = "waiting_llm" /\ held
  <2>1. call = IdleCall /\ (~stray /\ row = "active" => owned)
    BY <1>1 DEF PermitInvariant, LockHolder, Belief, resume_after_llm
  <2> DEFINE b == LeaseOf(c)
  <2>2. /\ at' = [at EXCEPT ![c] = "computing"]
        /\ lease' = [lease EXCEPT ![b] = "runnable"]
        /\ runnable' = runnable + 1
        /\ waiting' = Dec(waiting)
        /\ lock = None
        /\ UNCHANGED <<held, lock, call, late, stray, cancelled, platformVars>>
    BY <1>1 DEF resume_after_llm, BecomeRunnable, Goes
  <2>3. b \in Branches /\ lease[b] = "waiting_llm" /\ (c = b \/ c \notin Branches)
    BY <1>0, <1>1
  <2> HIDE DEF b
  <2>4. b = LeaseOf(c)
    BY DEF b
  <2> QED
    BY <1>1, <2>1, <2>2, <2>3, <2>4, GoesOn
<1>2. CASE lease[LeaseOf(c)] = "waiting_llm" /\ ~held
  BY <1>2, AsksForPermit DEF resume_after_llm, Transition
<1>3. CASE lease[LeaseOf(c)] # "waiting_llm"
  <2>1. /\ at' = [at EXCEPT ![c] = "computing"] /\ lock = None /\ at[c] = "resuming"
        /\ UNCHANGED <<controllerVars, callVars, cancelled, platformVars>>
    BY <1>3 DEF resume_after_llm, Goes
  <2>2. LeaseFits'
    BY <1>0, <1>3, <2>1 DEF PermitInvariant, TypeOK, LeaseFits, Coroutines
  <2>3. CountsAgree'
    BY <2>1 DEF PermitInvariant, CountsAgree, InState
  <2>4. at' \in [Coroutines -> Places] /\ cancelled' \in [Branches -> BOOLEAN]
        /\ lease' \in [Branches -> LeaseStates]
    BY <2>1 DEF PermitInvariant, TypeOK, Places, LeaseStates
  <2> QED
    BY <2>1, <2>2, <2>3, <2>4, Moves
<1> QED
  BY <1>1, <1>2, <1>3

LEMMA ReturnsStep ==
  ASSUME PermitAssumption, PermitInvariant, NEW c \in Coroutines, Returns(c)
  PROVE  PermitInvariant'
<1>0. LeaseOf(c) \in Branches /\ c # None /\ (c \in Branches => LeaseOf(c) = c)
      /\ lock = c /\ call.done = TRUE
  BY CoroutineFacts DEF Returns, PermitInvariant, TypeOK
<1>1. CASE call.op = "acquire"
  <2> DEFINE b == LeaseOf(c)
  <2>1. \/ at[c] = "entering" /\ c \in Branches
        \/ at[c] = "resuming" /\ lease[b] = "waiting_llm"
    BY <1>0, <1>1 DEF PermitInvariant, LockHolder
  <2>2. lease[b] = "waiting_llm" \/ (lease[b] = "new" /\ c = b)
    BY <1>0, <2>1 DEF PermitInvariant, LeaseFits
  <2>3. at[c] = "resuming" <=> lease[b] = "waiting_llm"
    BY <1>0, <2>1 DEF PermitInvariant, LeaseFits
  <2>4. /\ at' = [at EXCEPT ![c] = "computing"]
        /\ lease' = [lease EXCEPT ![b] = "runnable"]
        /\ runnable' = runnable + 1
        /\ waiting' = IF lease[b] = "waiting_llm" THEN Dec(waiting) ELSE waiting
        /\ lock' = None /\ call' = IdleCall /\ held' = TRUE
        /\ UNCHANGED <<late, stray, cancelled, platformVars>>
    BY <1>1, <2>3 DEF Returns, BecomeRunnable, Goes
  <2>5. ~stray /\ row = "active" => owned
    BY <1>0, <1>1 DEF PermitInvariant, Belief
  <2>6. b \in Branches /\ (c = b \/ c \notin Branches)
    BY <1>0
  <2> HIDE DEF b
  <2>7. b = LeaseOf(c)
    BY DEF b
  <2> QED
    BY <1>0, <2>2, <2>4, <2>5, <2>6, <2>7, GoesOn
<1>2. CASE call.op # "acquire"
  <2>0. call.op = "release" /\ runnable = 0 /\ held
        /\ \/ at[c] = "suspending" /\ lease[LeaseOf(c)] = "waiting_llm"
           \/ at[c] = "leaving"
    BY <1>0, <1>2 DEF PermitInvariant, LockHolder
  <2>1. /\ at' = [at EXCEPT ![c] = IF at[c] = "suspending" THEN "provider" ELSE "idle"]
        /\ lock' = None /\ call' = IdleCall /\ held' = FALSE
        /\ UNCHANGED <<runnable, waiting, lease, late, stray, cancelled, platformVars>>
    BY <1>2 DEF Returns, Goes
  <2>2. TypeOK'
    <3>1. at' \in [Coroutines -> Places]
      BY <2>1 DEF PermitInvariant, TypeOK, Places
    <3>2. call' \in [op : Operations \cup {None}, done : BOOLEAN]
      BY <2>1 DEF IdleCall
    <3> QED
      BY <2>1, <3>1, <3>2 DEF PermitInvariant, TypeOK, Owned
  <2>3. CountsAgree'
    BY <2>1 DEF PermitInvariant, CountsAgree, InState
  <2>4. LockHolder'
    BY <2>1 DEF LockHolder
  <2>5. Belief'
    <3>1. /\ ~stray => late = {}
          /\ ~stray /\ row = "active" /\ call.done = TRUE => ~owned
      BY <2>0 DEF PermitInvariant, Belief
    <3>2. ~stray /\ row = "active" => owned = FALSE
      BY <1>0, <3>1 DEF PermitInvariant, TypeOK
    <3>3. call'.done = FALSE /\ ~(runnable' > 0)
      BY <2>0, <2>1 DEF IdleCall
    <3> QED
      BY <2>1, <3>1, <3>2, <3>3 DEF Belief
  <2>6. LeaseFits'
    <3> SUFFICES ASSUME NEW d \in Branches
                 PROVE  /\ at'[d] = "entering" => lease'[d] = "new"
                        /\ Sections = {} =>
                             /\ at'[d] = "computing" => lease'[d] = "runnable"
                             /\ at'[d] = "suspending" => lease'[d] = "runnable" \/ lock' = d
                             /\ at'[d] \in {"provider", "resuming"} => lease'[d] = "waiting_llm"
                             /\ at'[d] # "gathering"
      BY DEF LeaseFits
    <3>1. CASE d # c
      <4>1. at'[d] = at[d] /\ lock # d
        BY <1>0, <2>1, <3>1 DEF PermitInvariant, TypeOK, Coroutines
      <4> QED
        BY <2>1, <4>1 DEF PermitInvariant, LeaseFits
    <3>2. CASE d = c
      BY <1>0, <2>0, <2>1, <3>2 DEF PermitInvariant, TypeOK
    <3> QED
      BY <3>1, <3>2
  <2> QED
    BY <2>2, <2>3, <2>4, <2>5, <2>6 DEF PermitInvariant
<1> QED
  BY <1>1, <1>2

\* What the last part of suspend and leave does to the permit.
LEMMA ReleaseIf ==
  ASSUME PermitAssumption, PermitInvariant, NEW c \in Coroutines, NEW place,
         TypeOK', LeaseFits', CountsAgree', lock = None,
         release_if_fully_suspended(c, place),
         \/ at[c] = "suspending" /\ lease'[LeaseOf(c)] = "waiting_llm"
         \/ at[c] = "leaving" /\ c \in Branches,
         runnable' > 0 => runnable > 0,
         UNCHANGED <<late, stray, cancelled, platformVars>>
  PROVE  PermitInvariant'
<1>0. c # None /\ call = IdleCall
  BY CoroutineFacts DEF PermitInvariant, LockHolder
<1>1. CASE held /\ runnable' = 0 /\ waiting' > 0
  <2>1. lock' = c /\ call' = [op |-> "release", done |-> FALSE] /\ UNCHANGED <<at, held>>
    BY <1>1 DEF release_if_fully_suspended, Transition
  <2>2. LockHolder'
    BY <1>0, <1>1, <2>1 DEF LockHolder, LeaseOf
  <2>3. Belief'
    BY <1>0, <1>1, <2>1 DEF PermitInvariant, Belief
  <2> QED
    BY <2>2, <2>3 DEF PermitInvariant
<1>2. CASE ~(held /\ runnable' = 0 /\ waiting' > 0)
  <2>1. UNCHANGED <<lock, call, held>>
    BY <1>2 DEF release_if_fully_suspended
  <2>2. LockHolder'
    BY <1>0, <2>1 DEF LockHolder
  <2>3. runnable' \in Nat
    BY DEF TypeOK
  <2>4. Belief'
    BY <1>0, <1>2, <2>1, <2>3 DEF PermitInvariant, Belief, IdleCall
  <2> QED
    BY <2>2, <2>4 DEF PermitInvariant
<1> QED
  BY <1>1, <1>2

LEMMA SuspendStep ==
  ASSUME PermitAssumption, PermitInvariant, NEW c \in Coroutines, suspend_for_llm(c)
  PROVE  PermitInvariant'
<1> DEFINE b == LeaseOf(c)
<1>0. b \in Branches /\ c # None /\ (c \in Branches => b = c) /\ (c \notin Branches => Sections # {})
  BY CoroutineFacts
<1>1. CASE lease[b] = "runnable"
  <2>1. /\ at[c] = "suspending" /\ lock = None
        /\ runnable' = Dec(runnable)
        /\ waiting' = waiting + 1
        /\ lease' = [lease EXCEPT ![b] = "waiting_llm"]
        /\ release_if_fully_suspended(c, "provider")
        /\ UNCHANGED <<late, stray, cancelled, platformVars>>
    BY <1>1 DEF suspend_for_llm
  <2>0. b = LeaseOf(c)
    OBVIOUS
  <2> HIDE DEF b
  <2>2. \/ at' = at /\ lock' = c /\ call' = [op |-> "release", done |-> FALSE] /\ UNCHANGED held
        \/ at' = [at EXCEPT ![c] = "provider"] /\ UNCHANGED <<lock, call, held>>
    BY <2>1 DEF release_if_fully_suspended, Transition, Goes
  <2>3. TypeOK'
    <3>1. lease' \in [Branches -> {"new", "runnable", "waiting_llm", "closed"}]
      BY <2>1 DEF PermitInvariant, TypeOK
    <3>2. at' \in [Coroutines -> Places]
      BY <2>2 DEF PermitInvariant, TypeOK, Places
    <3>3. runnable' \in Nat /\ waiting' \in Nat
      BY <2>1 DEF PermitInvariant, TypeOK, Dec
    <3>4. lock' \in Coroutines \cup {None} /\ held' \in BOOLEAN
      BY <2>2 DEF PermitInvariant, TypeOK
    <3>5. [op |-> "release", done |-> FALSE] \in [op : Operations \cup {None}, done : BOOLEAN]
      BY DEF Operations
    <3>6. call' \in [op : Operations \cup {None}, done : BOOLEAN]
      BY <2>2, <3>5 DEF PermitInvariant, TypeOK
    <3> QED
      BY <2>1, <3>1, <3>2, <3>3, <3>4, <3>6 DEF PermitInvariant, TypeOK, Owned
  <2>4. CountsAgree'
    BY <1>0, <1>1, <2>1, Recount DEF PermitInvariant, LeaseStates
  <2>5. LeaseFits'
    <3> SUFFICES ASSUME NEW d \in Branches
                 PROVE  /\ at'[d] = "entering" => lease'[d] = "new"
                        /\ Sections = {} =>
                             /\ at'[d] = "computing" => lease'[d] = "runnable"
                             /\ at'[d] = "suspending" => lease'[d] = "runnable" \/ lock' = d
                             /\ at'[d] \in {"provider", "resuming"} => lease'[d] = "waiting_llm"
                             /\ at'[d] # "gathering"
      BY DEF LeaseFits
    <3>1. CASE d # b
      <4>1. at'[d] = at[d] /\ lease'[d] = lease[d] /\ lock # d
        BY <1>0, <2>1, <2>2, <3>1 DEF PermitInvariant, TypeOK, Coroutines, PermitAssumption
      <4> QED
        BY <4>1 DEF PermitInvariant, LeaseFits
    <3>2. CASE d = b /\ c = b
      BY <1>0, <2>1, <2>2, <3>2 DEF PermitInvariant, TypeOK
    <3>3. CASE d = b /\ c # b
      <4>1. Sections # {} /\ at'[d] = at[d]
        BY <1>0, <2>2, <3>3 DEF PermitInvariant, TypeOK, Coroutines
      <4> QED
        BY <1>1, <3>3, <4>1 DEF PermitInvariant, LeaseFits
    <3> QED
      BY <3>1, <3>2, <3>3
  <2>6. lease'[b] = "waiting_llm" /\ (runnable' > 0 => runnable > 0)
    BY <1>0, <2>1 DEF PermitInvariant, TypeOK, Dec
  <2>7. at[c] = "suspending" /\ lease'[LeaseOf(c)] = "waiting_llm"
    BY <2>0, <2>1, <2>6
  <2> QED
    BY <2>1, <2>3, <2>4, <2>5, <2>6, <2>7, ReleaseIf
<1>2. CASE lease[b] # "runnable"
  <2>1. /\ at' = [at EXCEPT ![c] = "provider"] /\ lock = None /\ at[c] = "suspending"
        /\ UNCHANGED <<controllerVars, callVars, cancelled, platformVars>>
    BY <1>2 DEF suspend_for_llm, Goes
  <2>2. LeaseFits'
    BY <1>0, <1>2, <2>1 DEF PermitInvariant, TypeOK, LeaseFits, Coroutines
  <2>3. CountsAgree'
    BY <2>1 DEF PermitInvariant, CountsAgree, InState
  <2>4. at' \in [Coroutines -> Places] /\ cancelled' \in [Branches -> BOOLEAN]
        /\ lease' \in [Branches -> LeaseStates]
    BY <2>1 DEF PermitInvariant, TypeOK, Places, LeaseStates
  <2> QED
    BY <2>1, <2>2, <2>3, <2>4, Moves
<1> QED
  BY <1>1, <1>2

LEMMA LeaveStep ==
  ASSUME PermitAssumption, PermitInvariant, NEW b \in Branches, leave_agent(b)
  PROVE  PermitInvariant'
<1>0. b \in Coroutines /\ b # None /\ LeaseOf(b) = b
  BY BranchFacts
<1>1. /\ at[b] = "leaving" /\ lock = None
      /\ runnable' = IF lease[b] = "runnable" THEN Dec(runnable) ELSE runnable
      /\ waiting' = IF lease[b] = "waiting_llm" THEN Dec(waiting) ELSE waiting
      /\ lease' = [lease EXCEPT ![b] = "closed"]
      /\ release_if_fully_suspended(b, "idle")
      /\ UNCHANGED <<late, stray, cancelled, platformVars>>
  BY DEF leave_agent
<1>2. \/ at' = at /\ lock' = b /\ call' = [op |-> "release", done |-> FALSE] /\ UNCHANGED held
      \/ at' = [at EXCEPT ![b] = "idle"] /\ UNCHANGED <<lock, call, held>>
  BY <1>1 DEF release_if_fully_suspended, Transition, Goes
<1>3. TypeOK'
  <2>1. lease' \in [Branches -> {"new", "runnable", "waiting_llm", "closed"}]
    BY <1>1 DEF PermitInvariant, TypeOK
  <2>2. at' \in [Coroutines -> Places]
    BY <1>2 DEF PermitInvariant, TypeOK, Places
  <2>3. runnable' \in Nat /\ waiting' \in Nat
    BY <1>1 DEF PermitInvariant, TypeOK, Dec
  <2>4. lock' \in Coroutines \cup {None} /\ held' \in BOOLEAN
    BY <1>0, <1>2 DEF PermitInvariant, TypeOK
  <2>5. [op |-> "release", done |-> FALSE] \in [op : Operations \cup {None}, done : BOOLEAN]
    BY DEF Operations
  <2>6. call' \in [op : Operations \cup {None}, done : BOOLEAN]
    BY <1>2, <2>5 DEF PermitInvariant, TypeOK
  <2> QED
    BY <1>1, <2>1, <2>2, <2>3, <2>4, <2>6 DEF PermitInvariant, TypeOK, Owned
<1>4. CountsAgree'
  BY <1>1, Recount DEF PermitInvariant, LeaseStates
<1>5. LeaseFits'
  BY <1>0, <1>1, <1>2 DEF PermitInvariant, TypeOK, LeaseFits, Coroutines
<1>6. runnable' > 0 => runnable > 0
  BY <1>1 DEF PermitInvariant, TypeOK, Dec
<1> QED
  BY <1>0, <1>1, <1>3, <1>4, <1>5, <1>6, ReleaseIf

-----------------------------------------------------------------------------
(***************************************************************************)
(* The coroutines.                                                         *)
(***************************************************************************)
\* A coroutine without the lock goes somewhere its lease fits.
LEMMA Walk ==
  ASSUME PermitAssumption, PermitInvariant, NEW c \in Coroutines, NEW place \in Places,
         at[c] \in {"computing", "provider", "gathering"}, Goes(c, place), Walks,
         place \notin {"entering", "gathering"},
         Sections = {} =>
           /\ place \in {"computing", "suspending"} => at[c] = "computing"
           /\ place \in {"provider", "resuming"} => at[c] = "provider"
  PROVE  PermitInvariant'
<1>1. at' = [at EXCEPT ![c] = place] /\ UNCHANGED <<controllerVars, callVars, cancelled, platformVars>>
  BY DEF Goes, Walks
<1>2. lock # c
  BY CoroutineFacts DEF PermitInvariant, LockHolder
<1>3. LeaseFits'
  BY <1>1 DEF PermitInvariant, TypeOK, LeaseFits, Coroutines
<1>4. CountsAgree'
  BY <1>1 DEF PermitInvariant, CountsAgree, InState
<1>5. /\ at' \in [Coroutines -> Places] /\ cancelled' \in [Branches -> BOOLEAN]
      /\ lease' \in [Branches -> LeaseStates]
  BY <1>1 DEF PermitInvariant, TypeOK, LeaseStates
<1>6. lock # None => at'[lock] = at[lock]
  BY <1>1, <1>2 DEF PermitInvariant, TypeOK
<1> QED
  BY <1>1, <1>3, <1>4, <1>5, <1>6, Moves

LEMMA BeginStep ==
  ASSUME PermitAssumption, PermitInvariant, NEW b \in Branches, Begin(b)
  PROVE  PermitInvariant'
<1>0. b \in Coroutines /\ b # None /\ LeaseOf(b) = b
  BY BranchFacts
<1>1. /\ at[b] = "idle" /\ lease[b] \in {"closed", "new"}
      /\ at' = [at EXCEPT ![b] = "entering"] /\ lease' = [lease EXCEPT ![b] = "new"]
      /\ cancelled' = [cancelled EXCEPT ![b] = FALSE]
      /\ UNCHANGED <<held, runnable, waiting, callVars, platformVars>>
  BY DEF Begin, Goes
<1>2. lock # b
  BY <1>0, <1>1 DEF PermitInvariant, LockHolder
<1>3. LeaseFits'
  BY <1>0, <1>1 DEF PermitInvariant, TypeOK, LeaseFits, Coroutines
<1>4. CountsAgree'
  BY <1>1, Recount DEF PermitInvariant, LeaseStates
<1>5. /\ at' \in [Coroutines -> Places] /\ cancelled' \in [Branches -> BOOLEAN]
      /\ lease' \in [Branches -> LeaseStates]
  BY <1>1 DEF PermitInvariant, TypeOK, LeaseStates, Places
<1>6. ASSUME lock # None
      PROVE  at'[lock] = at[lock] /\ lease'[LeaseOf(lock)] = lease[LeaseOf(lock)]
  <2>1. lock \in Coroutines /\ LeaseOf(lock) \in Branches
    BY <1>6, CoroutineFacts DEF PermitInvariant, TypeOK
  <2>2. at'[lock] = at[lock]
    BY <1>1, <1>2, <2>1 DEF PermitInvariant, TypeOK
  <2>3. CASE LeaseOf(lock) = b
    <3>1. lock \notin Branches
      BY <1>2, <2>1, <2>3, CoroutineFacts
    <3>2. lease[LeaseOf(lock)] = "waiting_llm"
      BY <1>6, <3>1 DEF PermitInvariant, LockHolder
    <3> QED
      BY <1>1, <2>3, <3>2
  <2> QED
    BY <1>1, <2>1, <2>2, <2>3 DEF PermitInvariant, TypeOK
<1> QED
  BY <1>1, <1>3, <1>4, <1>5, <1>6, Moves

LEMMA SectionsStart ==
  ASSUME PermitAssumption, PermitInvariant, run_sections
  PROVE  PermitInvariant'
<1>1. /\ at' = [c \in Coroutines |-> IF c \in Sections THEN "computing"
                                     ELSE IF c = Reporter THEN "gathering" ELSE at[c]]
      /\ at[Reporter] = "computing" /\ Sections # {}
      /\ \A s \in Sections : at[s] = "idle"
      /\ UNCHANGED <<controllerVars, callVars, cancelled, platformVars>>
  BY DEF run_sections, Walks
<1>2. Reporter \in Coroutines /\ \A b \in Branches : b \in Coroutines /\ b \notin Sections
  BY DEF PermitAssumption, Coroutines
<1>3. LeaseFits'
  BY <1>1, <1>2 DEF PermitInvariant, LeaseFits
<1>4. CountsAgree'
  BY <1>1 DEF PermitInvariant, CountsAgree, InState
<1>5. /\ at' \in [Coroutines -> Places] /\ cancelled' \in [Branches -> BOOLEAN]
      /\ lease' \in [Branches -> LeaseStates]
  BY <1>1 DEF PermitInvariant, TypeOK, LeaseStates, Places
<1>6. lock # None => at'[lock] = at[lock]
  <2>1. lock # None => lock \in Coroutines /\ lock \notin Sections /\ lock # Reporter
    BY <1>1 DEF PermitInvariant, TypeOK, LockHolder
  <2> QED
    BY <1>1, <2>1
<1> QED
  BY <1>1, <1>3, <1>4, <1>5, <1>6, Moves

\* A section ends without the lock, or gives the transition up.
LEMMA SectionTimeoutStep ==
  ASSUME PermitAssumption, PermitInvariant, NEW s \in Sections, SectionTimeout(s)
  PROVE  PermitInvariant'
<1>0. s \in Coroutines /\ s \notin Branches /\ s # None
  BY DEF PermitAssumption, Coroutines
<1>1. /\ at' = [at EXCEPT ![s] = "idle"]
      /\ Abandon({s})
      /\ UNCHANGED <<controllerVars, cancelled, platformVars>>
  BY DEF SectionTimeout, Goes
<1>2. LeaseFits'
  BY <1>0, <1>1 DEF PermitInvariant, TypeOK, LeaseFits, Coroutines
<1>3. /\ at' \in [Coroutines -> Places] /\ cancelled' \in [Branches -> BOOLEAN]
      /\ lease' \in [Branches -> LeaseStates]
  BY <1>1 DEF PermitInvariant, TypeOK, LeaseStates, Places
<1>4. CASE lock = s
  BY <1>0, <1>1, <1>2, <1>3, <1>4, GivesUp DEF Abandon
<1>5. CASE lock # s
  <2>1. UNCHANGED callVars
    BY <1>1, <1>5 DEF Abandon
  <2>2. lock # None => at'[lock] = at[lock]
    BY <1>1, <1>5 DEF PermitInvariant, TypeOK
  <2>3. CountsAgree'
    BY <1>1 DEF PermitInvariant, CountsAgree, InState
  <2> QED
    BY <1>1, <1>2, <1>3, <2>1, <2>2, <2>3, Moves
<1> QED
  BY <1>4, <1>5

\* So does an agent, with the sections it gathers.
LEMMA AgentTimeoutStep ==
  ASSUME PermitAssumption, PermitInvariant, NEW b \in Branches, AgentTimeout(b)
  PROVE  PermitInvariant'
<1> DEFINE C == IF at[b] = "gathering" THEN {b} \cup Sections ELSE {b}
<1>0. b \in Coroutines /\ b # None /\ b \notin Sections /\ LeaseOf(b) = b
  BY BranchFacts DEF PermitAssumption
<1>1. /\ at' = [c \in Coroutines |->
                  CASE c = b -> IF at[b] \in {"entering", "leaving"} THEN "idle" ELSE "leaving"
                    [] c \in C \ {b} -> "idle"
                    [] OTHER -> at[c]]
      /\ cancelled' = [cancelled EXCEPT ![b] = TRUE]
      /\ Abandon(C)
      /\ UNCHANGED <<controllerVars, platformVars>>
  BY DEF AgentTimeout
<1>2. C \subseteq {b} \cup Sections /\ b \in C /\ None \notin C
  BY DEF PermitAssumption
<1> HIDE DEF C
<1>3. \A c \in Coroutines : at'[c] = IF c = b THEN IF at[b] \in {"entering", "leaving"}
                                                   THEN "idle" ELSE "leaving"
                                    ELSE IF c \in C THEN "idle" ELSE at[c]
  BY <1>1
<1>4. /\ at' \in [Coroutines -> Places] /\ cancelled' \in [Branches -> BOOLEAN]
      /\ lease' \in [Branches -> LeaseStates]
  <2>1. at' \in [Coroutines -> Places]
    BY <1>1 DEF PermitInvariant, TypeOK, Places
  <2> QED
    BY <1>1, <2>1 DEF PermitInvariant, TypeOK, LeaseStates
<1>5. \A d \in Branches : d # b => d \in Coroutines /\ at'[d] = at[d]
  BY <1>2, <1>3 DEF PermitAssumption, Coroutines
<1>6. at'[b] \in {"idle", "leaving"}
  BY <1>0, <1>3
<1>7. CASE lock \in C
  <2>1. /\ lock # None /\ lock' = None /\ call' = IdleCall /\ stray' = TRUE
        /\ late' = late \/ late' = late \cup {call.op}
    BY <1>1, <1>2, <1>7 DEF Abandon
  <2>2. \A d \in Branches : d # b => lock # d
    BY <1>2, <1>7 DEF PermitAssumption
  <2>3. LeaseFits'
    BY <1>1, <1>5, <1>6, <2>2 DEF PermitInvariant, LeaseFits
  <2> QED
    BY <1>1, <1>4, <2>1, <2>3, GivesUp
<1>8. CASE lock \notin C
  <2>1. UNCHANGED callVars
    BY <1>1, <1>8 DEF Abandon
  <2>2. lock # None => at'[lock] = at[lock]
    BY <1>2, <1>3, <1>8 DEF PermitInvariant, TypeOK
  <2>3. CountsAgree'
    BY <1>1 DEF PermitInvariant, CountsAgree, InState
  <2>4. LeaseFits'
    BY <1>1, <1>5, <1>6, <2>1 DEF PermitInvariant, LeaseFits
  <2> QED
    BY <1>1, <1>4, <2>1, <2>2, <2>3, <2>4, Moves
<1> QED
  BY <1>7, <1>8

-----------------------------------------------------------------------------
(***************************************************************************)
(* The control plane.                                                      *)
(***************************************************************************)
\* One permit more is leased only if there is one.
LEMMA ExecuteCapacity ==
  ASSUME PermitAssumption, PermitInvariant, NEW op, op = "acquire" => Grantable, Execute(op),
         UNCHANGED others
  PROVE  owned' \in BOOLEAN /\ others' + Owned' <= Capacity
<1>1. owned' \in BOOLEAN
  BY DEF Execute
<1>2. CASE op = "acquire" /\ row = "active"
  <2>1. owned \/ others + Owned < Capacity
    BY <1>2 DEF Grantable, Free
  <2>2. CASE owned
    BY <1>2, <2>2 DEF PermitInvariant, TypeOK, Owned, Execute
  <2>3. CASE ~owned
    BY <1>2, <2>1, <2>3 DEF PermitInvariant, TypeOK, Owned, Execute, PermitAssumption
  <2> QED
    BY <2>2, <2>3
<1>3. CASE ~(op = "acquire" /\ row = "active")
  <2>1. Owned' = 0
    BY <1>3 DEF Owned, Execute
  <2> QED
    BY <1>1, <2>1 DEF PermitInvariant, TypeOK, Owned, PermitAssumption
<1> QED
  BY <1>1, <1>2, <1>3

LEMMA ServeStep ==
  ASSUME PermitAssumption, PermitInvariant, Serve
  PROVE  PermitInvariant'
<1>1. /\ lock # None /\ call' = [call EXCEPT !.done = TRUE] /\ Execute(call.op)
      /\ UNCHANGED <<controllerVars, lock, late, stray, at, cancelled, row, others>>
  BY DEF Serve
<1>2. owned' \in BOOLEAN /\ others' + Owned' <= Capacity
  BY ExecuteCapacity DEF Serve
<1>3. call'.op = call.op /\ call' \in [op : Operations \cup {None}, done : BOOLEAN]
  BY <1>1 DEF PermitInvariant, TypeOK
<1>4. TypeOK'
  BY <1>1, <1>2, <1>3 DEF PermitInvariant, TypeOK
<1>5. Belief'
  <2>1. ~(runnable > 0)
    <3>1. held => runnable = 0
      BY <1>1 DEF PermitInvariant, LockHolder
    <3> QED
      BY <3>1 DEF PermitInvariant, Belief
  <2>2. /\ row = "active" /\ call.op = "acquire" => owned'
        /\ row = "active" /\ call.op = "release" => ~owned'
    BY <1>1 DEF Execute
  <2> QED
    BY <1>1, <1>3, <2>1, <2>2 DEF PermitInvariant, Belief
<1> QED
  BY <1>1, <1>3, <1>4, <1>5, Executes

LEMMA AnswerLostStep ==
  ASSUME PermitAssumption, PermitInvariant, AnswerLost
  PROVE  PermitInvariant'
<1>1. /\ lock # None /\ call' = [call EXCEPT !.done = FALSE]
      /\ UNCHANGED <<controllerVars, lock, late, stray, at, cancelled, platformVars>>
  BY DEF AnswerLost
<1>2. call'.op = call.op /\ call'.done = FALSE
      /\ call' \in [op : Operations \cup {None}, done : BOOLEAN]
  BY <1>1 DEF PermitInvariant, TypeOK
<1>3. TypeOK'
  BY <1>1, <1>2 DEF PermitInvariant, TypeOK, Owned
<1>4. Belief'
  BY <1>1, <1>2 DEF PermitInvariant, Belief
<1> QED
  BY <1>1, <1>2, <1>3, <1>4, Executes

LEMMA RequestDelayedStep ==
  ASSUME PermitAssumption, PermitInvariant, RequestDelayed
  PROVE  PermitInvariant'
<1>1. /\ lock # None /\ late' = late \cup {call.op} /\ stray' = TRUE
      /\ UNCHANGED <<controllerVars, lock, call, at, cancelled, platformVars>>
  BY DEF RequestDelayed
<1>2. late' \subseteq Operations
  BY <1>1 DEF PermitInvariant, TypeOK, LockHolder, Operations
<1>3. TypeOK'
  BY <1>1, <1>2 DEF PermitInvariant, TypeOK, Owned
<1>4. Belief'
  BY <1>1 DEF PermitInvariant, Belief
<1> QED
  BY <1>1, <1>3, <1>4, Executes

LEMMA ServeLateStep ==
  ASSUME PermitAssumption, PermitInvariant, NEW op \in late, ServeLate(op)
  PROVE  PermitInvariant'
<1>1. /\ late' = late \ {op}
      /\ UNCHANGED <<controllerVars, lock, call, stray, at, cancelled, row, others>>
  BY DEF ServeLate
<1>2. owned' \in BOOLEAN /\ others' + Owned' <= Capacity
  <2>1. CASE op = "acquire" /\ ~Grantable
    BY <2>1 DEF ServeLate, PermitInvariant, TypeOK, Owned
  <2>2. CASE op = "acquire" => Grantable
    BY <2>2, ExecuteCapacity DEF ServeLate
  <2> QED
    BY <2>1, <2>2
<1>3. TypeOK'
  BY <1>1, <1>2 DEF PermitInvariant, TypeOK
<1>4. Belief'
  BY <1>1 DEF PermitInvariant, Belief
<1> QED
  BY <1>1, <1>3, <1>4, Executes

LEMMA RunEndsStep ==
  ASSUME PermitAssumption, PermitInvariant, RunEnds
  PROVE  PermitInvariant'
<1>1. /\ row' = "ended" /\ owned' = FALSE
      /\ UNCHANGED <<controllerVars, callVars, at, cancelled, others>>
  BY DEF RunEnds
<1>2. others' + Owned' <= Capacity
  BY <1>1 DEF PermitInvariant, TypeOK, Owned, PermitAssumption
<1>3. TypeOK'
  BY <1>1, <1>2 DEF PermitInvariant, TypeOK
<1>4. Belief'
  BY <1>1 DEF PermitInvariant, Belief
<1> QED
  BY <1>1, <1>3, <1>4, Executes

LEMMA OthersStep ==
  ASSUME PermitAssumption, PermitInvariant, OthersAcquire \/ OthersRelease
  PROVE  PermitInvariant'
<1>1. UNCHANGED <<controllerVars, callVars, at, cancelled, row, owned>>
  BY DEF OthersAcquire, OthersRelease
<1>2. others' \in Nat /\ others' + Owned' <= Capacity
  BY DEF PermitInvariant, TypeOK, Owned, PermitAssumption, OthersAcquire, OthersRelease, Free
<1>3. TypeOK'
  BY <1>1, <1>2 DEF PermitInvariant, TypeOK
<1>4. Belief'
  BY <1>1 DEF PermitInvariant, Belief
<1> QED
  BY <1>1, <1>3, <1>4, Executes

-----------------------------------------------------------------------------
(***************************************************************************)
(* The results.                                                            *)
(***************************************************************************)
LEMMA PermitStep ==
  ASSUME PermitAssumption, PermitInvariant, [Next]_vars
  PROVE  PermitInvariant'
<1>0. \A b \in Branches : b \in Coroutines /\ b \notin Sections
  BY DEF PermitAssumption, Coroutines
<1>1. ASSUME NEW b \in Branches, Branch(b) PROVE PermitInvariant'
  <2>1. CASE Finish(b)
    BY <1>0, <2>1, Walk DEF Finish, Places
  <2> QED
    BY <1>1, <2>1, EnterStep, LeaveStep, BeginStep, AgentTimeoutStep DEF Branch
<1>2. ASSUME NEW c \in Coroutines, Coroutine(c) PROVE PermitInvariant'
  <2>1. CASE CallLlm(c)
    BY <2>1, Walk DEF CallLlm, Places
  <2>2. CASE ProviderAnswers(c)
    BY <2>2, Walk DEF ProviderAnswers, Places
  <2> QED
    BY <1>2, <2>1, <2>2, SuspendStep, ResumeStep, ReturnsStep DEF Coroutine
<1>3. ASSUME NEW s \in Sections, SectionEnds(s) \/ SectionTimeout(s) PROVE PermitInvariant'
  <2>1. CASE SectionEnds(s)
    <3>1. s \in Coroutines
      BY DEF Coroutines
    <3> QED
      BY <2>1, <3>1, Walk DEF SectionEnds, Places
  <2> QED
    BY <1>3, <2>1, SectionTimeoutStep
<1>4. CASE run_sections
  BY <1>4, SectionsStart
<1>5. CASE SectionsEnded
  <2>1. Reporter \in Branches /\ Reporter \in Coroutines
    BY <1>0 DEF PermitAssumption
  <2>2. Sections # {}
    BY <1>5, <2>1 DEF PermitInvariant, LeaseFits, SectionsEnded
  <2> QED
    BY <1>5, <2>1, <2>2, Walk DEF SectionsEnded, Places
<1>6. CASE Platform
  BY <1>6, ServeStep, AnswerLostStep, RequestDelayedStep, ServeLateStep, RunEndsStep, OthersStep
     DEF Platform
<1>7. CASE UNCHANGED vars
  <2>1. CountsAgree' /\ LeaseFits' /\ LockHolder' /\ Belief'
    BY <1>7 DEF PermitInvariant, CountsAgree, InState, LeaseFits, LockHolder, Belief
  <2>2. TypeOK'
    BY <1>7 DEF PermitInvariant, TypeOK, Owned
  <2> QED
    BY <2>1, <2>2 DEF PermitInvariant
<1> QED
  BY <1>1, <1>2, <1>3, <1>4, <1>5, <1>6, <1>7 DEF Next

\* Counters, leases and the permit stay consistent whatever is cancelled,
\* repeated, delayed or ended.
THEOREM PermitInvariantHolds == Spec => []PermitInvariant
<1>1. Init => PermitInvariant
  BY PermitInit, PermitAssumption
<1>2. PermitInvariant /\ [Next]_vars => PermitInvariant'
  BY PermitStep, PermitAssumption
<1> QED
  BY <1>1, <1>2, PTL DEF Spec

\* Every counter, lease and flag of the controller keeps its type, whatever the
\* branches, sections and control plane do.
THEOREM PermitTypeCorrect == Spec => []TypeOK
<1>1. PermitInvariant => TypeOK
  BY DEF PermitInvariant
<1> QED
  BY <1>1, PermitInvariantHolds, PTL

\* The counters of the controller count the leases (llm.py 48-88).
THEOREM CountsCorrect == Spec => []CountsAgree
<1>1. PermitInvariant => CountsAgree
  BY DEF PermitInvariant
<1> QED
  BY <1>1, PermitInvariantHolds, PTL

\* An active run owns its permit exactly as its branches need it, as long as no
\* transition was given up (llm.py 90-94).
THEOREM PermitFollowsBranches == Spec => []PermitFollows
<1>1. PermitInvariant => PermitFollows
  <2> SUFFICES ASSUME PermitInvariant, ~stray, row = "active"
               PROVE  /\ runnable > 0 => owned
                      /\ runnable = 0 /\ waiting > 0 /\ lock = None => ~owned
    BY DEF PermitFollows
  <2>1. runnable > 0 => owned
    BY DEF PermitInvariant, Belief
  <2>2. ASSUME runnable = 0, waiting > 0, lock = None PROVE ~owned
    <3>1. held = FALSE
      BY <2>2 DEF PermitInvariant, Belief, TypeOK
    <3> QED
      BY <2>2, <3>1 DEF PermitInvariant, Belief
  <2> QED
    BY <2>1, <2>2
<1> QED
  BY <1>1, PermitInvariantHolds, PTL

\* Without parallel sections that share a lease, no agent computes while the
\* permit is detached (executor.py 1413-1414).
THEOREM ComputingIsCovered == ASSUME Sections = {} PROVE Spec => []ComputingCovered
<1>1. PermitInvariant => ComputingCovered
  <2> SUFFICES ASSUME PermitInvariant, ~stray, row = "active",
                      NEW c \in Coroutines, at[c] = "computing"
               PROVE  owned
    BY DEF ComputingCovered
  <2>1. c \in Branches
    BY DEF Coroutines
  <2>2. c \in InState("runnable")
    BY <2>1 DEF PermitInvariant, LeaseFits, InState
  <2>3. IsFiniteSet(InState("runnable"))
    BY PermitAssumption, FS_Subset DEF PermitAssumption, InState
  <2>4. Cardinality(InState("runnable")) # 0 /\ Cardinality(InState("runnable")) \in Nat
    BY <2>2, <2>3, FS_EmptySet, FS_CardinalityType
  <2>5. runnable > 0
    BY <2>4 DEF PermitInvariant, CountsAgree
  <2> QED
    BY <2>5 DEF PermitInvariant, Belief
<1> QED
  BY <1>1, PermitInvariantHolds, PTL
=============================================================================
