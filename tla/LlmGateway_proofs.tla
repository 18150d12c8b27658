------------------------- MODULE LlmGateway_proofs --------------------------
(***************************************************************************)
(* Theorems about LlmGateway and the ledger it charges, for any scopes,    *)
(* limits, callers and slots. The ledger is right because the reserved     *)
(* calls that are outstanding never outnumber the calls that remain: a     *)
(* claim under a reservation takes one from both, any other claim leaves   *)
(* the outstanding ones of the others covered. The gate is right because   *)
(* every slot is free, with a call, or with a caller cancelled before it   *)
(* could return it.                                                        *)
(***************************************************************************)
EXTENDS LlmGateway, FiniteSetTheorems, TLAPS

Pairs == Scopes \X (1..Limit)

\* Outstanding of a ledger that is not the current one.
Out(u, r) == {p \in Pairs : u[p[1]] < p[2] /\ p[2] <= r[p[1]]}

LedgerInv(c, u, r, k) ==
    /\ c \in 0..Limit
    /\ u \in [Scopes -> Nat]
    /\ r \in [Scopes -> 0..Limit]
    /\ k = r["control"]
    /\ Cardinality(Out(u, r)) <= Limit - c

\* The ledger and its last checkpoint.
BudgetInv ==
    /\ LedgerInv(calls, used, reserved, cap)
    /\ stored = <<stored[1], stored[2], stored[3], stored[4]>>
    /\ LedgerInv(stored[1], stored[2], stored[3], stored[4])

LEMMA OutFinite ==
    ASSUME NEW u, NEW r
    PROVE  IsFiniteSet(Out(u, r)) /\ Cardinality(Out(u, r)) \in Nat
<1>1. IsFiniteSet(Scopes)
  <2>1. IsFiniteSet(AgentScopes \union {"terminal"} \union {"control"})
    BY BudgetAssumption, FS_AddElement
  <2>. QED  BY <2>1, SMT DEF Scopes
<1>2. IsFiniteSet(1..Limit)
  BY BudgetAssumption, FS_Interval
<1>3. IsFiniteSet(Pairs)
  BY <1>1, <1>2, FS_Product DEF Pairs
<1>4. Out(u, r) \in SUBSET Pairs
  BY DEF Out
<1>. QED  BY <1>3, <1>4, FS_Subset, FS_CardinalityType

LEMMA OutstandingIsOut == Outstanding = Out(used, reserved)
BY DEF Outstanding, Out, Pairs

\* The reserves of the policy fit into the limit.
LEMMA ReservesFit ==
    /\ terminal_reserve \in Nat /\ control_reserve \in Nat
    /\ terminal_reserve + control_reserve <= Limit
BY BudgetAssumption DEF terminal_reserve, control_reserve, Smaller, Positive

LEMMA BudgetInitInv == BudgetInit => BudgetInv
<1> SUFFICES ASSUME BudgetInit PROVE BudgetInv
  OBVIOUS
<1> DEFINE t == terminal_reserve
<1>0. "terminal" \in Scopes /\ "control" \in Scopes
  BY DEF Scopes
<1>1. /\ t \in Nat /\ control_reserve \in Nat /\ t + control_reserve <= Limit
  BY ReservesFit
<1>2. /\ reserved \in [Scopes -> 0..Limit]
      /\ used \in [Scopes -> Nat]
      /\ cap = reserved["control"]
      /\ calls = 0
      /\ reserved["terminal"] = t
      /\ reserved["control"] = control_reserve
      /\ \A s \in Scopes : s # "terminal" /\ s # "control" => reserved[s] = 0
  BY <1>0, <1>1, BudgetAssumption DEF BudgetInit
<1> HIDE DEF t
<1> DEFINE f == [p \in Out(used, reserved) |->
                    IF p[1] = "terminal" THEN p[2] ELSE t + p[2]]
<1>3. \A p \in Out(used, reserved) :
          /\ p = <<p[1], p[2]>>
          /\ p[2] \in Nat /\ p[2] >= 1
          /\ p[1] = "terminal" => p[2] <= t
          /\ p[1] # "terminal" => p[1] = "control" /\ p[2] <= control_reserve
  <2> SUFFICES ASSUME NEW p \in Out(used, reserved)
               PROVE  /\ p = <<p[1], p[2]>>
                      /\ p[2] \in Nat /\ p[2] >= 1
                      /\ p[1] = "terminal" => p[2] <= t
                      /\ p[1] # "terminal" => p[1] = "control" /\ p[2] <= control_reserve
    OBVIOUS
  <2>1. /\ p[1] \in Scopes /\ p[2] \in 1..Limit /\ p = <<p[1], p[2]>>
        /\ p[2] <= reserved[p[1]]
    BY DEF Out, Pairs
  <2>2. p[1] # "terminal" => p[1] = "control"
    BY <2>1, <1>2, BudgetAssumption
  <2>. QED  BY <2>1, <2>2, <1>2, BudgetAssumption
<1>4. f \in Injection(Out(used, reserved), 1..Limit)
  <2>1. f \in [Out(used, reserved) -> 1..Limit]
    BY <1>1, <1>3, BudgetAssumption
  <2>2. ASSUME NEW p \in Out(used, reserved), NEW q \in Out(used, reserved), f[p] = f[q]
        PROVE  p = q
    BY <2>2, <1>1, <1>3
  <2>. QED  BY <2>1, <2>2 DEF Injection, IsInjective
<1>5. Cardinality(Out(used, reserved)) <= Limit
  <2>1. IsFiniteSet(1..Limit) /\ Cardinality(1..Limit) = Limit
    BY BudgetAssumption, FS_Interval
  <2>. QED  BY <1>4, <2>1, FS_Injection
<1>6. LedgerInv(calls, used, reserved, cap)
  BY <1>2, <1>5, BudgetAssumption DEF LedgerInv
<1>. QED  BY <1>6 DEF BudgetInv, BudgetInit, ledger

\* A claim takes a call that is left, and, under a reservation, an outstanding
\* one.
LEMMA ClaimKeepsLedger ==
    ASSUME LedgerInv(calls, used, reserved, cap), NEW s \in Scopes, claim_llm_call(s)
    PROVE  LedgerInv(calls', used', reserved', cap')
<1> DEFINE O == Out(used, reserved)
           O1 == Out(used', reserved')
           e == <<s, used[s] + 1>>
<1>1. /\ calls \in 0..Limit /\ used \in [Scopes -> Nat]
      /\ reserved \in [Scopes -> 0..Limit] /\ cap = reserved["control"]
      /\ Cardinality(O) <= Limit - calls /\ Limit \in Nat
  BY BudgetAssumption DEF LedgerInv
<1>2. /\ calls < Limit
      /\ used[s] < reserved[s] \/ Limit - calls > Cardinality(OutstandingOthers(s))
      /\ calls' = calls + 1
      /\ used' = [used EXCEPT ![s] = @ + 1]
      /\ reserved' = reserved /\ cap' = cap
  BY DEF claim_llm_call, Claimable
<1>3. IsFiniteSet(O) /\ Cardinality(O) \in Nat
  BY OutFinite
<1>4. used' \in [Scopes -> Nat] /\ calls' \in 0..Limit
  BY <1>1, <1>2
<1>5. \A p \in Pairs : p = <<p[1], p[2]>> /\ p[1] \in Scopes /\ p[2] \in 1..Limit
  BY DEF Pairs
<1>6. O1 = O \ {e}
  <2>1. ASSUME NEW p \in Pairs PROVE p \in O1 <=> p \in O /\ p # e
    <3>1. CASE p[1] = s
      <4>1. used'[p[1]] = used[s] + 1 /\ reserved'[p[1]] = reserved[s]
        BY <1>1, <1>2, <3>1
      <4>2. p # e <=> p[2] # used[s] + 1
        BY <1>5, <3>1, <2>1
      <4>3. used[s] \in Nat /\ p[2] \in 1..Limit /\ reserved[s] \in 0..Limit
        BY <1>1, <1>5, <2>1
      <4>. QED  BY <4>1, <4>2, <4>3, <3>1, <1>1 DEF Out
    <3>2. CASE p[1] # s
      <4>1. used'[p[1]] = used[p[1]] /\ reserved'[p[1]] = reserved[p[1]]
        BY <1>1, <1>2, <1>5, <3>2, <2>1
      <4>2. p # e
        BY <3>2
      <4>. QED  BY <4>1, <4>2 DEF Out
    <3>. QED  BY <3>1, <3>2
  <2>. QED  BY <2>1 DEF Out
<1>7. Cardinality(O1) <= Limit - calls'
  <2>1. CASE used[s] < reserved[s]
    <3>1. e \in O
      <4>1. used[s] + 1 \in 1..Limit /\ used[s] + 1 <= reserved[s] /\ used[s] < used[s] + 1
        BY <1>1, <2>1
      <4>2. e \in Pairs /\ e[1] = s /\ e[2] = used[s] + 1
        BY <4>1 DEF Pairs
      <4>. QED  BY <4>1, <4>2 DEF Out
    <3>2. Cardinality(O1) = Cardinality(O) - 1
      <4> HIDE DEF O, O1, e
      <4>1. Cardinality(O \ {e}) = Cardinality(O) - 1
        BY <3>1, <1>3, FS_RemoveElement
      <4>. QED  BY <4>1, <1>6
    <3>. QED  BY <3>2, <1>1, <1>2, <1>3
  <2>2. CASE ~(used[s] < reserved[s])
    <3>1. O1 = OutstandingOthers(s)
      <4>1. ASSUME NEW p \in O PROVE p[1] # s
        <5> SUFFICES ASSUME p[1] = s PROVE FALSE
          OBVIOUS
        <5>1. used[s] < p[2] /\ p[2] <= reserved[s] /\ p \in Pairs
          BY <4>1 DEF Out
        <5>2. used[s] \in Nat /\ p[2] \in Nat /\ reserved[s] \in Nat
          BY <1>1, <1>5, <5>1
        <5>. QED  BY <5>1, <5>2, <2>2
      <4>2. O1 = O
        BY <1>6, <4>1
      <4>. QED  BY <4>1, <4>2, OutstandingIsOut DEF OutstandingOthers
    <3>2. IsFiniteSet(O1) /\ Cardinality(O1) \in Nat
      BY OutFinite
    <3>. QED  BY <3>1, <3>2, <2>2, <1>1, <1>2
  <2>. QED  BY <2>1, <2>2
<1>. QED  BY <1>1, <1>2, <1>4, <1>7 DEF LedgerInv

\* A release only removes outstanding calls.
LEMMA ReleaseKeepsLedger ==
    ASSUME LedgerInv(calls, used, reserved, cap), release_llm_reservation("control")
    PROVE  LedgerInv(calls', used', reserved', cap')
<1> DEFINE O == Out(used, reserved)
           O1 == Out(used', reserved')
<1>1. /\ calls \in 0..Limit /\ used \in [Scopes -> Nat]
      /\ reserved \in [Scopes -> 0..Limit] /\ cap = reserved["control"]
      /\ Cardinality(O) <= Limit - calls /\ Limit \in Nat
  BY BudgetAssumption DEF LedgerInv
<1>2. /\ calls' = calls /\ used' = used
      /\ reserved' = [reserved EXCEPT !["control"] = Smaller(@, used["control"])]
      /\ cap' = Smaller(cap, used["control"])
  BY DEF release_llm_reservation
<1>3. "control" \in Scopes
  BY DEF Scopes
<1>4. /\ Smaller(reserved["control"], used["control"]) \in 0..Limit
      /\ Smaller(reserved["control"], used["control"]) <= reserved["control"]
  <2>1. reserved["control"] \in 0..Limit /\ used["control"] \in Nat
    BY <1>1, <1>3
  <2>. QED  BY <2>1, <1>1 DEF Smaller
<1>5. /\ reserved' \in [Scopes -> 0..Limit] /\ cap' = reserved'["control"]
      /\ \A s \in Scopes : reserved'[s] <= reserved[s]
  BY <1>1, <1>2, <1>3, <1>4
<1>6. O1 \in SUBSET O
  <2>1. ASSUME NEW p \in O1 PROVE p \in O
    <3>1. p \in Pairs /\ used[p[1]] < p[2] /\ p[2] <= reserved'[p[1]]
      BY <1>2, <2>1 DEF Out
    <3>2. p[1] \in Scopes /\ p[2] \in 1..Limit
      BY <3>1 DEF Pairs
    <3>3. p[2] <= reserved[p[1]]
      BY <3>1, <3>2, <1>1, <1>5
    <3>. QED  BY <3>1, <3>3 DEF Out
  <2>. QED  BY <2>1
<1>7. Cardinality(O1) <= Cardinality(O) /\ Cardinality(O1) \in Nat /\ Cardinality(O) \in Nat
  BY <1>6, OutFinite, FS_Subset
<1>. QED  BY <1>1, <1>2, <1>5, <1>7 DEF LedgerInv

LEMMA BudgetStep == BudgetInv /\ [BudgetNext]_budgetVars => BudgetInv'
<1> SUFFICES ASSUME BudgetInv, [BudgetNext]_budgetVars PROVE BudgetInv'
  OBVIOUS
<1> USE DEF BudgetInv
<1>1. ASSUME NEW s \in Scopes, claim_llm_call(s) PROVE BudgetInv'
  <2>1. stored' = stored
    BY <1>1 DEF claim_llm_call
  <2>. QED  BY <1>1, <2>1, ClaimKeepsLedger
<1>2. CASE release_llm_reservation("control")
  <2>1. stored' = stored
    BY <1>2 DEF release_llm_reservation
  <2>. QED  BY <1>2, <2>1, ReleaseKeepsLedger
<1>3. CASE snapshot
  BY <1>3 DEF snapshot, ledger, LedgerInv, Out
<1>4. CASE restore
  BY <1>4 DEF restore, LedgerInv, Out
<1>5. CASE UNCHANGED budgetVars
  BY <1>5 DEF budgetVars, LedgerInv, Out
<1>. QED  BY <1>1, <1>2, <1>3, <1>4, <1>5 DEF BudgetNext

\* What is left for the others of the calls that remain.
LEMMA OthersBound ==
    ASSUME BudgetInv, NEW s \in Scopes
    PROVE  /\ Cardinality(OutstandingOthers(s)) \in Nat
           /\ used[s] < reserved[s] =>
                 Cardinality(OutstandingOthers(s)) < Limit - calls
<1> DEFINE O == Out(used, reserved)
           e == <<s, used[s] + 1>>
<1>1. /\ calls \in 0..Limit /\ used[s] \in Nat /\ reserved[s] \in 0..Limit
      /\ Cardinality(O) <= Limit - calls /\ Limit \in Nat
  BY BudgetAssumption DEF BudgetInv, LedgerInv
<1>2. IsFiniteSet(O) /\ Cardinality(O) \in Nat
  BY OutFinite
<1>3. OutstandingOthers(s) \in SUBSET (O \ {e})
  BY OutstandingIsOut DEF OutstandingOthers
<1>4. IsFiniteSet(O \ {e})
      /\ Cardinality(O \ {e}) = IF e \in O THEN Cardinality(O) - 1 ELSE Cardinality(O)
  BY <1>2, FS_RemoveElement
<1>5. /\ IsFiniteSet(OutstandingOthers(s))
      /\ Cardinality(OutstandingOthers(s)) <= Cardinality(O \ {e})
  BY <1>3, <1>4, FS_Subset
<1>6. Cardinality(OutstandingOthers(s)) \in Nat
  BY <1>5, FS_CardinalityType
<1>7. ASSUME used[s] < reserved[s] PROVE e \in O
  <2>1. used[s] + 1 \in 1..Limit /\ used[s] + 1 <= reserved[s] /\ used[s] < used[s] + 1
    BY <1>1, <1>7
  <2>2. e \in Pairs /\ e[1] = s /\ e[2] = used[s] + 1
    BY <2>1 DEF Pairs
  <2>. QED  BY <2>1, <2>2 DEF Out
<1>. QED  BY <1>1, <1>2, <1>4, <1>5, <1>6, <1>7

LEMMA InvProtectsReserves == BudgetInv => ReservedCallsSucceed
<1> SUFFICES ASSUME BudgetInv, NEW s \in Scopes, used[s] < reserved[s]
             PROVE  Claimable(s)
  BY DEF ReservedCallsSucceed
<1>1. Cardinality(OutstandingOthers(s)) \in Nat
      /\ Cardinality(OutstandingOthers(s)) < Limit - calls
  BY OthersBound
<1>2. calls \in 0..Limit /\ Limit \in Nat /\ cap = reserved["control"]
  BY BudgetAssumption DEF BudgetInv, LedgerInv
<1>. QED  BY <1>1, <1>2 DEF Claimable

LEMMA InvPredictsClaims == BudgetInv => AvailableIsClaimable
<1> SUFFICES ASSUME BudgetInv, NEW s \in Scopes
             PROVE  available_llm_calls_for_scope(s) > 0 <=> Claimable(s)
  BY DEF AvailableIsClaimable
<1> DEFINE others == Cardinality(OutstandingOthers(s))
<1>1. others \in Nat /\ (used[s] < reserved[s] => others < Limit - calls)
  BY OthersBound
<1>2. /\ calls \in 0..Limit /\ Limit \in Nat /\ cap \in Nat /\ used[s] \in Nat
      /\ reserved[s] \in Nat
  <2>1. "control" \in Scopes
    BY DEF Scopes
  <2>. QED  BY <2>1, BudgetAssumption DEF BudgetInv, LedgerInv
<1> HIDE DEF others
<1>3. Claimable(s) <=> /\ s = "control" => used[s] < cap
                       /\ Limit - calls > others
  BY <1>1, <1>2 DEF Claimable, others
<1>. QED  BY <1>1, <1>2, <1>3
          DEF available_llm_calls_for_scope, Smaller, Positive, others

(***************************************************************************)
(* The gateway                                                             *)
(***************************************************************************)

\* Whatever the callers, the provider, cancellations and restarts do, they use
\* the ledger by its operations only: the gateway implements the ledger.
THEOREM GatewayKeepsLedger == Spec => BudgetSpec
<1>1. Init => BudgetInit
  BY DEF Init
<1>2. [Next]_vars => [BudgetNext]_budgetVars
  <2> SUFFICES ASSUME [Next]_vars PROVE BudgetNext \/ UNCHANGED budgetVars
    OBVIOUS
  <2>1. ASSUME NEW c \in Callers, Attempt(c) PROVE BudgetNext \/ UNCHANGED budgetVars
    <3>1. ScopesOf[c] \subseteq Scopes
      BY GatewayAssumption
    <3>. QED  BY <2>1, <3>1 DEF Attempt, BudgetNext
  <2>2. ASSUME NEW c \in Callers,
               Enter(c) \/ Send(c) \/ Judge(c) \/ Retry(c) \/ AcquireSlot(c)
               \/ Cancel(c) \/ NextCall(c) \/ \E a \in Answers : Answer(c, a)
        PROVE  UNCHANGED budgetVars
    BY <2>2 DEF Enter, Send, Judge, Retry, AcquireSlot, Cancel, NextCall, Answer
  <2>3. ASSUME CooldownEnds \/ WindowPasses PROVE UNCHANGED budgetVars
    BY <2>3 DEF CooldownEnds, WindowPasses
  <2>4. ASSUME PlanningEnds \/ Checkpoint \/ Resume \/ Restart PROVE BudgetNext
    BY <2>4 DEF PlanningEnds, Checkpoint, Resume, Restart, BudgetNext
  <2>5. CASE UNCHANGED vars
    BY <2>5 DEF vars
  <2>. QED  BY <2>1, <2>2, <2>3, <2>4, <2>5 DEF Next, Step
<1>. QED  BY <1>1, <1>2, PTL DEF Spec, BudgetSpec

\* In every state of the gateway the reservations still held fit in what the
\* limit leaves, in the ledger and in its last checkpoint.
THEOREM LedgerHolds == Spec => []BudgetInv
<1>1. BudgetInit => BudgetInv
  BY BudgetInitInv
<1>2. BudgetInv /\ [BudgetNext]_budgetVars => BudgetInv'
  BY BudgetStep
<1>. QED  BY <1>1, <1>2, GatewayKeepsLedger, PTL DEF BudgetSpec

\* A reserved call of the report or of planning is never refused for the budget,
\* for any limits, callers, cancellations, releases, checkpoints and restarts.
THEOREM ReservesProtected == Spec => []ReservedCallsSucceed
BY LedgerHolds, InvProtectsReserves, PTL

\* A repair turn that is granted for available calls can be claimed.
THEOREM AvailabilityIsRight == Spec => []AvailableIsClaimable
BY LedgerHolds, InvPredictsClaims, PTL

(***************************************************************************)
(* The gate                                                                *)
(***************************************************************************)

\* Cardinality(InFlight) is right because every step moves at most one caller
\* in or out of a slot, except Restart, which starts with a new gate.
Places == {"idle", "claim", "queued", "starting", "sent", "backoff"}
              \cup Answers \cup Ended

GateInv ==
    /\ pc \in [Callers -> Places]
    /\ free \in Nat /\ leaked \in Nat
    /\ SlotsConserved

\* The callers in flight when c alone moves to a place.
LEMMA Moves ==
    ASSUME pc \in [Callers -> Places], NEW c \in Callers, NEW place \in Places,
           Goes(c, place)
    PROVE  /\ pc' \in [Callers -> Places]
           /\ InFlight' = IF place \in {"starting", "sent"} THEN InFlight \cup {c}
                          ELSE InFlight \ {c}
<1>1. pc' = [pc EXCEPT ![c] = place]
  BY DEF Goes
<1>2. pc'[c] = place /\ \A d \in Callers : d # c => pc'[d] = pc[d]
  BY <1>1
<1>3. \A d \in Callers : d \in InFlight' <=> pc'[d] \in {"starting", "sent"}
  BY DEF InFlight
<1>4. \A d \in Callers : d \in InFlight <=> pc[d] \in {"starting", "sent"}
  BY DEF InFlight
<1>5. InFlight \subseteq Callers /\ InFlight' \subseteq Callers
  BY DEF InFlight
<1>. QED  BY <1>1, <1>2, <1>3, <1>4, <1>5

LEMMA InFlightFinite ==
    /\ IsFiniteSet(InFlight)
    /\ Cardinality(InFlight) \in Nat
<1>1. InFlight \in SUBSET Callers
  BY DEF InFlight
<1>. QED  BY <1>1, GatewayAssumption, FS_Subset, FS_CardinalityType

\* A step that moves a caller to where it holds a slot as little, or as much, as
\* before.
LEMMA Stays ==
    ASSUME GateInv, NEW c \in Callers, NEW place \in Places, Goes(c, place),
           c \in InFlight <=> place \in {"starting", "sent"},
           free' = free, leaked' = leaked
    PROVE  GateInv'
<1>1. pc' \in [Callers -> Places] /\ InFlight' = InFlight
  BY Moves DEF GateInv
<1>. QED  BY <1>1 DEF GateInv, SlotsConserved

\* A step that takes a caller out of its slot gives the slot back or loses it.
LEMMA Leaves ==
    ASSUME GateInv, NEW c \in InFlight, NEW place \in Places, Goes(c, place),
           place \notin {"starting", "sent"},
           \/ free' = free + 1 /\ leaked' = leaked
           \/ free' = free /\ leaked' = leaked + 1
    PROVE  GateInv'
<1>1. c \in Callers
  BY DEF InFlight
<1>2. pc' \in [Callers -> Places] /\ InFlight' = InFlight \ {c}
  BY <1>1, Moves DEF GateInv
<1>3. Cardinality(InFlight \ {c}) = Cardinality(InFlight) - 1
  BY InFlightFinite, FS_RemoveElement
<1>4. free + Cardinality(InFlight) + leaked = Slots /\ free \in Nat /\ leaked \in Nat
  BY DEF GateInv, SlotsConserved
<1>5. Cardinality(InFlight') = Cardinality(InFlight) - 1
  BY <1>2, <1>3
<1>6. free' \in Nat /\ leaked' \in Nat /\ free' + Cardinality(InFlight') + leaked' = Slots
  BY <1>4, <1>5, InFlightFinite
<1>. QED  BY <1>2, <1>6 DEF GateInv, SlotsConserved

LEMMA GateInit == Init => GateInv
<1> SUFFICES ASSUME Init PROVE GateInv
  OBVIOUS
<1>1. InFlight = {} /\ free = Slots /\ leaked = 0
  BY DEF Init, InFlight
<1>2. Cardinality(InFlight) = 0
  BY <1>1, FS_EmptySet
<1>3. pc \in [Callers -> Places]
  BY DEF Init, Places
<1>. QED  BY <1>1, <1>2, <1>3, GatewayAssumption DEF GateInv, SlotsConserved

LEMMA GateStep == GateInv /\ [Next]_vars => GateInv'
<1> SUFFICES ASSUME GateInv, [Next]_vars PROVE GateInv'
  OBVIOUS
<1>0. \A c \in Callers : c \in InFlight <=> pc[c] \in {"starting", "sent"}
  BY DEF InFlight
<1>1. ASSUME NEW c \in Callers, Enter(c) PROVE GateInv'
  <2>1. c \notin InFlight /\ free' = free /\ leaked' = leaked
    BY <1>0, <1>1 DEF Enter, shared
  <2>2. Goes(c, "claim") \/ Goes(c, "failed")
    BY <1>1 DEF Enter
  <2>. QED  BY <2>1, <2>2, Stays DEF Places, Ended
<1>2. ASSUME NEW c \in Callers, Attempt(c) PROVE GateInv'
  <2>1. c \notin InFlight /\ free' = free /\ leaked' = leaked
    BY <1>0, <1>2 DEF Attempt, shared
  <2>2. Goes(c, "queued") \/ Goes(c, "failed")
    BY <1>2 DEF Attempt
  <2>. QED  BY <2>1, <2>2, Stays DEF Places, Ended
<1>3. ASSUME NEW c \in Callers, AcquireSlot(c) PROVE GateInv'
  <2>1. c \notin InFlight /\ Goes(c, "starting")
        /\ free > 0 /\ free' = free - 1 /\ leaked' = leaked
    BY <1>0, <1>3 DEF AcquireSlot
  <2>2. pc' \in [Callers -> Places] /\ InFlight' = InFlight \cup {c}
    BY <2>1, Moves DEF GateInv, Places
  <2>3. Cardinality(InFlight \cup {c}) = Cardinality(InFlight) + 1
    BY <2>1, InFlightFinite, FS_AddElement
  <2>4. free + Cardinality(InFlight) + leaked = Slots /\ free \in Nat /\ leaked \in Nat
    BY DEF GateInv, SlotsConserved
  <2>5. Cardinality(InFlight') = Cardinality(InFlight) + 1
    BY <2>2, <2>3
  <2>6. free' \in Nat /\ leaked' \in Nat /\ free' + Cardinality(InFlight') + leaked' = Slots
    BY <2>1, <2>4, <2>5, InFlightFinite
  <2>. QED  BY <2>2, <2>6 DEF GateInv, SlotsConserved
<1>4. ASSUME NEW c \in Callers, Send(c) PROVE GateInv'
  <2>1. c \in InFlight /\ Goes(c, "sent") /\ free' = free /\ leaked' = leaked
    BY <1>0, <1>4 DEF Send, shared
  <2>. QED  BY <2>1, Stays DEF Places
<1>5. ASSUME NEW c \in Callers, NEW answer \in Answers, Answer(c, answer) PROVE GateInv'
  <2>1. c \in InFlight /\ Goes(c, answer) /\ free' = free + 1 /\ leaked' = leaked
    BY <1>0, <1>5 DEF Answer
  <2>2. answer \in Places /\ answer \notin {"starting", "sent"}
    BY DEF Places, Answers
  <2>. QED  BY <2>1, <2>2, Leaves
<1>6. ASSUME NEW c \in Callers, Judge(c) PROVE GateInv'
  <2>1. c \notin InFlight /\ free' = free /\ leaked' = leaked
    BY <1>0, <1>6 DEF Judge, Answers
  <2>2. Goes(c, "done") \/ Goes(c, "backoff") \/ Goes(c, "failed")
    BY <1>6 DEF Judge
  <2>. QED  BY <2>1, <2>2, Stays DEF Places, Ended
<1>7. ASSUME NEW c \in Callers, Retry(c) PROVE GateInv'
  <2>1. c \notin InFlight /\ Goes(c, "claim") /\ free' = free /\ leaked' = leaked
    BY <1>0, <1>7 DEF Retry, shared
  <2>. QED  BY <2>1, Stays DEF Places
<1>8. ASSUME NEW c \in Callers, Cancel(c) PROVE GateInv'
  <2>1. /\ Goes(c, "cancelled")
        /\ free' = IF pc[c] = "sent" THEN free + 1 ELSE free
        /\ leaked' = IF pc[c] = "starting" THEN leaked + 1 ELSE leaked
    BY <1>8 DEF Cancel
  <2>2. "cancelled" \in Places
    BY DEF Places, Ended
  <2>3. CASE c \in InFlight
    <3>1. \/ free' = free + 1 /\ leaked' = leaked
          \/ free' = free /\ leaked' = leaked + 1
      BY <1>0, <2>1, <2>3
    <3>. QED  BY <2>1, <2>2, <2>3, <3>1, Leaves
  <2>4. CASE c \notin InFlight
    <3>1. free' = free /\ leaked' = leaked
      BY <1>0, <2>1, <2>4
    <3>. QED  BY <2>1, <2>2, <2>4, <3>1, Stays
  <2>. QED  BY <2>3, <2>4
<1>9. ASSUME NEW c \in Callers, NextCall(c) PROVE GateInv'
  <2>1. c \notin InFlight /\ Goes(c, "idle") /\ free' = free /\ leaked' = leaked
    BY <1>0, <1>9 DEF NextCall, shared, Ended
  <2>. QED  BY <2>1, Stays DEF Places
<1>10. CASE Restart
  <2>1. pc' = [c \in Callers |-> "cancelled"] /\ free' = Slots /\ leaked' = 0
    BY <1>10 DEF Restart
  <2>2. pc' \in [Callers -> Places] /\ InFlight' = {}
    BY <2>1 DEF InFlight, Places, Ended
  <2>3. Cardinality(InFlight') = 0
    BY <2>2, FS_EmptySet
  <2>. QED  BY <2>1, <2>2, <2>3, GatewayAssumption DEF GateInv, SlotsConserved
<1>11. ASSUME UNCHANGED <<pc, free, leaked>> PROVE GateInv'
  BY <1>11 DEF GateInv, SlotsConserved, InFlight
<1>12. CASE CooldownEnds \/ WindowPasses \/ PlanningEnds \/ Checkpoint \/ Resume
  BY <1>11, <1>12 DEF CooldownEnds, WindowPasses, PlanningEnds, Checkpoint, Resume,
                      Untouched, shared
<1>13. CASE UNCHANGED vars
  BY <1>11, <1>13 DEF vars
<1>. QED  BY <1>1, <1>2, <1>3, <1>4, <1>5, <1>6, <1>7, <1>8, <1>9, <1>10, <1>12, <1>13
          DEF Next, Step

LEMMA GateHolds == Spec => []GateInv
BY GateInit, GateStep, PTL DEF Spec

\* Every slot of the gate is free, taken by a call under way or lost by a call
\* that was cancelled before its request, whatever answers, retries,
\* cancellations and restarts of the process happen.
THEOREM SlotsKept == Spec => []SlotsConserved
<1>1. GateInv => SlotsConserved
  BY DEF GateInv
<1>. QED  BY <1>1, GateHolds, PTL

\* The runs of one process never have more calls at the provider than the gate
\* has slots, with or without slots that were lost.
THEOREM GateBoundsCalls == Spec => [](Cardinality(InFlight) <= Slots)
<1>1. GateInv => Cardinality(InFlight) <= Slots
  BY InFlightFinite, GatewayAssumption DEF GateInv, SlotsConserved
<1>. QED  BY <1>1, GateHolds, PTL
=============================================================================
