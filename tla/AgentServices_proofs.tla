---------------------- MODULE AgentServices_proofs ----------------------
(***************************************************************************)
(* Inductive invariants of the services an agent uses, for any values of   *)
(* their constants. Each section names the slots of one service after the  *)
(* variables of its module, states the inductive invariant of the service  *)
(* and proves that every step of the service keeps it.                     *)
(***************************************************************************)
EXTENDS AgentServices, Sequences, FiniteSetTheorems, WellFoundedInduction, TLAPS

-----------------------------------------------------------------------------
(***************************************************************************)
(* The MCP registry.                                                       *)
(*                                                                         *)
(* The live catalog is whole because a probe builds a registry aside that  *)
(* is whole at every step, and the swap takes everything a server has from *)
(* one of the two. A server in its cooldown is spared because the requests *)
(* that may still reach it are those that the callers inside its gate have *)
(* left: the caller that heard of the quota has none.                      *)
(***************************************************************************)

live == s1
staged == s2
prober == s3
probed == s4
due == s5
cooling == s6
caller == s7
processes == s8
overrun == s9

Gates == /\ IsFiniteSet(Callers)
         /\ MaxConcurrent \in Nat \ {0}
         /\ Retries \in Nat

Statuses == {Mcp!Unknown, "AVAILABLE"} \union Mcp!Failures

Registries ==
  [health : [McpServers -> Statuses], tools : SUBSET McpServers, client : [McpServers -> Nat]]

InGate == {"pacing", "sent", "backoff"}

CallStates ==
  [pc : {"idle", "queued"} \union InGate, server : McpServers \union {Mcp!Idle.server},
   attempt : 0..Retries, client : Nat]

McpTyped ==
  /\ live \in Registries /\ staged \in Registries
  /\ prober \in [pc : {"idle", "probing", "closing"}, force : BOOLEAN,
                 targets : SUBSET McpServers, n : Nat]
  /\ cooling \in SUBSET McpServers
  /\ caller \in [Callers -> CallStates]
  /\ \A c \in Callers : caller[c].pc # "idle" => caller[c].server \in McpServers
  /\ overrun \in [McpServers -> Nat]

\* A registry that has the tools and the client of every server it calls
\* available.
IsWhole(registry) == \A s \in McpServers :
  /\ registry.health[s] = "AVAILABLE" => s \in registry.tools
  /\ s \in registry.tools => registry.client[s] # Mcp!NoClient

BothWhole == IsWhole(live) /\ IsWhole(staged) /\ (prober.pc = "probing" => prober.n # 0)

\* The requests that the callers inside the gate of a server may still send.
Owed(s) == {p \in Callers \X (0..Retries) :
  /\ p[1] \in Mcp!Inside(s)
  /\ p[2] >= caller[p[1]].attempt
  /\ p[2] = caller[p[1]].attempt => caller[p[1]].pc # "sent"}

GateHolds == \A s \in McpServers : Cardinality(Mcp!Inside(s)) <= MaxConcurrent

Spared == \A s \in McpServers :
  /\ s \notin cooling => overrun[s] = 0
  /\ s \in cooling =>
       overrun[s] + Cardinality(Owed(s)) <= (MaxConcurrent - 1) * (Retries + 1)

RegistryInv == McpTyped /\ BothWhole /\ GateHolds /\ Spared

-----------------------------------------------------------------------------
\* A set with at most one element more.
LEMMA OneMore ==
  ASSUME NEW S, IsFiniteSet(S), NEW x, NEW T, T \subseteq S \union {x}
  PROVE  /\ IsFiniteSet(T) /\ Cardinality(T) \in Nat /\ Cardinality(S) \in Nat
         /\ Cardinality(T) <= Cardinality(S) + 1
<1>1. /\ IsFiniteSet(S \union {x}) /\ Cardinality(S) \in Nat
      /\ Cardinality(S \union {x}) = Cardinality(S)
         \/ Cardinality(S \union {x}) = Cardinality(S) + 1
  BY FS_AddElement, FS_CardinalityType
<1>2. /\ IsFiniteSet(T) /\ Cardinality(T) \in Nat
      /\ Cardinality(T) <= Cardinality(S \union {x})
  BY <1>1, FS_Subset, FS_CardinalityType
<1> QED
  BY <1>1, <1>2

\* A set with no more elements.
LEMMA NoMore ==
  ASSUME NEW S, IsFiniteSet(S), NEW T, T \subseteq S
  PROVE  /\ IsFiniteSet(T) /\ Cardinality(T) \in Nat /\ Cardinality(S) \in Nat
         /\ Cardinality(T) <= Cardinality(S)
BY FS_Subset, FS_CardinalityType

\* A set with one element less.
LEMMA OneLess ==
  ASSUME NEW S, IsFiniteSet(S), NEW x \in S, NEW T, T = S \ {x}
  PROVE  /\ IsFiniteSet(T) /\ Cardinality(T) \in Nat /\ Cardinality(S) \in Nat
         /\ Cardinality(T) = Cardinality(S) - 1
BY FS_RemoveElement, FS_CardinalityType

USE DEF live, staged, prober, probed, due, cooling, caller, processes, overrun

\* Every module counts alike.
LEMMA Cardinalities ==
  ASSUME NEW S
  PROVE  Mcp!Cardinality(S) = Cardinality(S)
BY DEF Mcp!Cardinality, Cardinality

\* The sets that are counted are finite.
LEMMA OwedFinite ==
  ASSUME Gates, NEW s \in McpServers
  PROVE  /\ IsFiniteSet(Owed(s)) /\ Cardinality(Owed(s)) \in Nat
         /\ IsFiniteSet(Mcp!Inside(s)) /\ Cardinality(Mcp!Inside(s)) \in Nat
<1>1. IsFiniteSet(0..Retries)
  BY FS_Interval DEF Gates
<1>2. IsFiniteSet(Callers \X (0..Retries))
  BY <1>1, FS_Product DEF Gates
<1>3. Owed(s) \subseteq Callers \X (0..Retries) /\ Mcp!Inside(s) \subseteq Callers
  BY DEF Owed, Mcp!Inside
<1> QED
  BY <1>2, <1>3, FS_Subset, FS_CardinalityType DEF Gates

\* Idle is a state of a caller.
LEMMA IdleIs ==
  ASSUME Gates
  PROVE  Mcp!Idle \in CallStates /\ Mcp!Idle.pc = "idle"
BY DEF Gates, Mcp!Idle, CallStates, Mcp!NoClient

\* Steps that move no caller count as before: a server keeps its cooldown and
\* its overrun, or has neither.
LEMMA CallersStay ==
  ASSUME Gates, RegistryInv, UNCHANGED caller, cooling' \in SUBSET McpServers,
         overrun' \in [McpServers -> Nat],
         \A s \in McpServers : \/ (s \in cooling' <=> s \in cooling) /\ overrun'[s] = overrun[s]
                               \/ s \notin cooling' /\ overrun'[s] = 0
  PROVE  GateHolds' /\ Spared'
<1>1. ASSUME NEW s \in McpServers
      PROVE  Mcp!Inside(s)' = Mcp!Inside(s) /\ Owed(s)' = Owed(s)
  <2>1. Mcp!Inside(s)' = Mcp!Inside(s)
    BY DEF Mcp!Inside
  <2> QED
    BY <2>1 DEF Owed
<1>2. GateHolds'
  BY <1>1 DEF RegistryInv, GateHolds
<1>3. Spared'
  BY <1>1 DEF RegistryInv, Spared
<1> QED
  BY <1>2, <1>3

\* A caller that does not enter a gate adds no request: it is outside, or goes
\* on inside with what it had left.
LEMMA CallerGoesOn ==
  ASSUME Gates, RegistryInv, NEW c \in Callers, NEW x \in CallStates,
         caller' = [caller EXCEPT ![c] = x], UNCHANGED <<cooling, overrun>>,
         \/ x.pc \in {"idle", "queued"}
         \/ /\ caller[c].pc \in InGate /\ x.server = caller[c].server
            /\ \/ x.attempt = caller[c].attempt /\ caller[c].pc # "sent"
               \/ x.attempt = caller[c].attempt + 1
  PROVE  GateHolds' /\ Spared'
<1>0. caller \in [Callers -> CallStates] /\ overrun \in [McpServers -> Nat]
  BY DEF RegistryInv, McpTyped
<1>1. caller' \in [Callers -> CallStates]
  BY <1>0
<1>2. ASSUME NEW d \in Callers PROVE caller'[d] = IF d = c THEN x ELSE caller[d]
  BY <1>0
<1>3. ASSUME NEW s \in McpServers
      PROVE  Mcp!Inside(s)' \subseteq Mcp!Inside(s) /\ Owed(s)' \subseteq Owed(s)
  <2>1. Mcp!Inside(s)' \subseteq Mcp!Inside(s)
    BY <1>2 DEF Mcp!Inside, InGate
  <2>2. ASSUME NEW d \in Callers, NEW k \in 0..Retries, <<d, k>> \in Owed(s)'
        PROVE  <<d, k>> \in Owed(s)
    <3>1. d \in Mcp!Inside(s) /\ k >= caller'[d].attempt
          /\ (k = caller'[d].attempt => caller'[d].pc # "sent")
      BY <2>1, <2>2 DEF Owed
    <3>2. CASE d # c
      BY <1>2, <3>1, <3>2 DEF Owed
    <3>3. CASE d = c
      <4>1. x.pc \notin {"idle", "queued"}
        BY <1>2, <2>2, <3>3 DEF Owed, Mcp!Inside
      <4>2. k \in Int /\ x.attempt \in Int /\ caller[c].attempt \in Int
        BY <1>0 DEF CallStates, Gates
      <4> QED
        BY <1>2, <3>1, <3>3, <4>1, <4>2 DEF Owed
    <3> QED
      BY <3>2, <3>3
  <2> QED
    BY <2>1, <2>2 DEF Owed
<1>4. ASSUME NEW s \in McpServers
      PROVE  /\ Cardinality(Mcp!Inside(s)') <= Cardinality(Mcp!Inside(s))
             /\ Cardinality(Owed(s)') <= Cardinality(Owed(s))
             /\ Cardinality(Mcp!Inside(s)') \in Nat /\ Cardinality(Mcp!Inside(s)) \in Nat
             /\ Cardinality(Owed(s)') \in Nat /\ Cardinality(Owed(s)) \in Nat
  BY <1>3, OwedFinite, FS_Subset, FS_CardinalityType
<1>5. GateHolds'
  BY <1>4 DEF RegistryInv, GateHolds, Gates
<1>6. Spared'
  <2>1. (MaxConcurrent - 1) * (Retries + 1) \in Int
    BY DEF Gates
  <2> QED
    BY <1>0, <1>4, <2>1 DEF RegistryInv, Spared
<1> QED
  BY <1>5, <1>6

\* A step of a caller leaves the other servers as they are.
LEMMA OtherServers ==
  ASSUME NEW c \in Callers, NEW x \in CallStates, caller \in [Callers -> CallStates],
         caller' = [caller EXCEPT ![c] = x], x.server = caller[c].server,
         NEW t \in McpServers, t # x.server
  PROVE  Mcp!Inside(t)' = Mcp!Inside(t) /\ Owed(t)' = Owed(t)
<1>1. ASSUME NEW d \in Callers PROVE caller'[d] = IF d = c THEN x ELSE caller[d]
  OBVIOUS
<1>2. Mcp!Inside(t)' = Mcp!Inside(t)
  BY <1>1 DEF Mcp!Inside
<1>3. c \notin Mcp!Inside(t)
  BY DEF Mcp!Inside
<1> QED
  BY <1>1, <1>2, <1>3 DEF Owed

\* A caller goes to another place and keeps the rest of its state.
LEMMA Goes ==
  ASSUME NEW y \in CallStates, NEW place \in {"idle", "queued"} \union InGate
  PROVE  LET x == [y EXCEPT !.pc = place]
         IN x \in CallStates /\ x.pc = place /\ x.server = y.server
            /\ x.attempt = y.attempt /\ x.client = y.client
BY DEF CallStates

\* A caller that sends has the client the server has by now.
LEMMA IsSent ==
  ASSUME NEW y \in CallStates, NEW n \in Nat
  PROVE  \E x \in CallStates : /\ x = [y EXCEPT !.pc = "sent", !.client = n]
                               /\ x.server = y.server /\ x.pc = "sent" /\ x.attempt = y.attempt
<1> DEFINE z == [y EXCEPT !.pc = "sent", !.client = n]
<1>1. z \in CallStates /\ z.server = y.server /\ z.pc = "sent" /\ z.attempt = y.attempt
  BY DEF CallStates, InGate
<1> QED
  BY <1>1

\* A caller that tries again has one attempt less.
LEMMA IsRetry ==
  ASSUME Gates, NEW y \in CallStates, y.attempt < Retries
  PROVE  LET x == [y EXCEPT !.pc = "backoff", !.attempt = @ + 1]
         IN x \in CallStates /\ x.pc = "backoff" /\ x.server = y.server
            /\ x.attempt = y.attempt + 1
<1>1. y.attempt + 1 \in 0..Retries
  BY DEF CallStates, Gates
<1> QED
  BY <1>1 DEF CallStates, InGate

\* Only a caller whose server does not cool down enters its gate.
LEMMA EnterKeeps ==
  ASSUME Gates, RegistryInv, NEW c \in Callers, Mcp!Enter(c)
  PROVE  GateHolds' /\ Spared'
<1>0. /\ caller \in [Callers -> CallStates] /\ caller[c].pc = "queued"
      /\ overrun \in [McpServers -> Nat] /\ cooling \in SUBSET McpServers
      /\ UNCHANGED <<cooling, overrun>>
  BY DEF RegistryInv, McpTyped, Mcp!Enter
<1>a. Cardinality(Mcp!Inside(caller[c].server)) < MaxConcurrent
  BY Cardinalities DEF Mcp!Enter
<1>1. PICK s \in McpServers : s = caller[c].server
  BY <1>0 DEF RegistryInv, McpTyped
<1>2. CASE s \in cooling
  <2>1. caller' = [caller EXCEPT ![c] = Mcp!Idle]
    BY <1>1, <1>2 DEF Mcp!Enter, Mcp!Becomes
  <2> QED
    BY <1>0, <2>1, IdleIs, CallerGoesOn
<1>3. CASE s \notin cooling
  <2>0. caller[c] \in CallStates /\ "pacing" \in {"idle", "queued"} \union InGate
    BY <1>0 DEF InGate
  <2>1. PICK x \in CallStates : /\ x = [caller[c] EXCEPT !.pc = "pacing"]
                                /\ x.server = s /\ x.pc = "pacing"
    BY <1>1, <2>0, Goes
  <2>2. caller' = [caller EXCEPT ![c] = x]
    BY <1>1, <1>3, <2>1 DEF Mcp!Enter, Mcp!Becomes, Mcp!At
  <2>3. ASSUME NEW d \in Callers PROVE caller'[d] = IF d = c THEN x ELSE caller[d]
    BY <1>0, <2>2
  <2>4. ASSUME NEW t \in McpServers, t # s
        PROVE  Mcp!Inside(t)' = Mcp!Inside(t) /\ Owed(t)' = Owed(t)
    BY <1>0, <1>1, <2>1, <2>2, <2>4, OtherServers
  <2>5. Mcp!Inside(s)' = Mcp!Inside(s) \union {c}
    BY <1>1, <2>1, <2>3 DEF Mcp!Inside
  <2>6. Cardinality(Mcp!Inside(s)') <= Cardinality(Mcp!Inside(s)) + 1
    <3>1. IsFiniteSet(Mcp!Inside(s)) /\ Cardinality(Mcp!Inside(s)) \in Nat
      BY OwedFinite
    <3>2. Cardinality(Mcp!Inside(s) \union {c}) \in {Cardinality(Mcp!Inside(s)),
                                                   Cardinality(Mcp!Inside(s)) + 1}
      BY <3>1, FS_AddElement
    <3> QED
      BY <2>5, <3>1, <3>2
  <2>7. Cardinality(Mcp!Inside(s)) < MaxConcurrent
    BY <1>a, <1>1
  <2>8. Cardinality(Mcp!Inside(s)') <= MaxConcurrent
    <3>1. Cardinality(Mcp!Inside(s)) \in Nat
      BY OwedFinite
    <3>2. Cardinality(Mcp!Inside(s)') \in Nat
      BY <2>5, OwedFinite, FS_AddElement, FS_CardinalityType
    <3> QED
      BY <2>6, <2>7, <3>1, <3>2 DEF Gates
  <2>9. GateHolds'
    BY <2>4, <2>8 DEF RegistryInv, GateHolds
  <2>10. Spared'
    BY <1>0, <1>3, <2>4 DEF RegistryInv, Spared
  <2> QED
    BY <2>9, <2>10
<1> QED
  BY <1>2, <1>3

\* A request that is sent is one less to send.
LEMMA SendKeeps ==
  ASSUME Gates, RegistryInv, NEW c \in Callers, Mcp!Send(c)
  PROVE  GateHolds' /\ Spared'
<1>0. /\ caller \in [Callers -> CallStates] /\ caller[c].pc = "pacing"
      /\ overrun \in [McpServers -> Nat] /\ live.client \in [McpServers -> Nat]
      /\ cooling' = cooling
  BY DEF RegistryInv, McpTyped, Mcp!Send, Registries
<1>1. PICK s \in McpServers : s = caller[c].server
  BY <1>0 DEF RegistryInv, McpTyped
<1>2. CASE live.client[s] = Mcp!NoClient
  <2>1. caller' = [caller EXCEPT ![c] = Mcp!Idle] /\ overrun' = overrun
    BY <1>1, <1>2 DEF Mcp!Send, Mcp!Becomes
  <2> QED
    BY <1>0, <2>1, IdleIs, CallerGoesOn
<1>3. CASE live.client[s] # Mcp!NoClient
  <2>0. caller[c] \in CallStates
    BY <1>0
  <2>1. PICK x \in CallStates : /\ x = [caller[c] EXCEPT !.pc = "sent", !.client = live.client[s]]
                                /\ x.server = s /\ x.pc = "sent"
                                /\ x.attempt = caller[c].attempt
    <3>1. live.client[s] \in Nat
      BY <1>0
    <3>2. \E x \in CallStates :
             /\ x = [caller[c] EXCEPT !.pc = "sent", !.client = live.client[s]]
             /\ x.server = caller[c].server /\ x.pc = "sent" /\ x.attempt = caller[c].attempt
      BY <2>0, <3>1, IsSent, Zenon
    <3> QED
      BY <1>1, <3>2
  <2>2. caller' = [caller EXCEPT ![c] = x]
    <3>1. caller' = [caller EXCEPT ![c] = [caller[c] EXCEPT !.pc = "sent",
                                                   !.client = live.client[s]]]
      BY <1>1, <1>3 DEF Mcp!Send, Mcp!Becomes
    <3> QED
      BY <2>1, <3>1
  <2>3. overrun' = IF s \in cooling THEN [overrun EXCEPT ![s] = @ + 1] ELSE overrun
    BY <1>1, <1>3 DEF Mcp!Send
  <2>4. ASSUME NEW d \in Callers PROVE caller'[d] = IF d = c THEN x ELSE caller[d]
    BY <1>0, <2>2
  <2>5. ASSUME NEW t \in McpServers, t # s
        PROVE  Mcp!Inside(t)' = Mcp!Inside(t) /\ Owed(t)' = Owed(t) /\ overrun'[t] = overrun[t]
    BY <1>0, <1>1, <2>1, <2>2, <2>3, <2>5, OtherServers
  <2>6. Mcp!Inside(s)' = Mcp!Inside(s)
    BY <1>0, <1>1, <2>1, <2>4 DEF Mcp!Inside
  <2>7. c \in Mcp!Inside(s) /\ caller[c].attempt \in 0..Retries
    BY <1>0, <1>1, <2>0 DEF Mcp!Inside, CallStates
  <2>8. PICK k \in 0..Retries : k = caller[c].attempt
    BY <2>7
  <2>9. <<c, k>> \in Owed(s) /\ Owed(s)' = Owed(s) \ {<<c, k>>}
    <3>1. <<c, k>> \in Owed(s)
      BY <1>0, <2>7, <2>8 DEF Owed
    <3>2. ASSUME NEW d \in Callers, NEW j \in 0..Retries
          PROVE  <<d, j>> \in Owed(s)' <=> <<d, j>> \in Owed(s) /\ <<d, j>> # <<c, k>>
      <4>1. CASE d = c
        <5>1. /\ <<d, j>> \in Owed(s) <=> j >= k /\ (j = k => caller[c].pc # "sent")
              /\ <<d, j>> \in Owed(s)' <=> j >= x.attempt /\ (j = x.attempt => x.pc # "sent")
          BY <2>4, <2>6, <2>7, <2>8, <4>1 DEF Owed
        <5>2. k \in Int /\ j \in Int /\ x.attempt = k /\ x.pc = "sent" /\ caller[c].pc # "sent"
          BY <1>0, <2>1, <2>8 DEF Gates
        <5> QED
          BY <4>1, <5>1, <5>2
      <4>2. CASE d # c
        BY <2>4, <2>6, <4>2 DEF Owed
      <4> QED
        BY <4>1, <4>2
    <3>3. Owed(s) \subseteq Callers \X (0..Retries) /\ Owed(s)' \subseteq Callers \X (0..Retries)
      BY DEF Owed
    <3> QED
      BY <3>1, <3>2, <3>3
  <2>10. Cardinality(Owed(s)') = Cardinality(Owed(s)) - 1 /\ Cardinality(Owed(s)) \in Nat
    BY <2>9, OwedFinite, FS_RemoveElement
  <2>11. GateHolds'
    BY <2>5, <2>6 DEF RegistryInv, GateHolds
  <2>12. Spared'
    <3>1. (MaxConcurrent - 1) * (Retries + 1) \in Int
      BY DEF Gates
    <3>2. ASSUME NEW t \in McpServers, t = s
          PROVE  /\ t \notin cooling' => overrun'[t] = 0
                 /\ t \in cooling' => overrun'[t] + Cardinality(Owed(t)')
                                        <= (MaxConcurrent - 1) * (Retries + 1)
      <4>1. CASE s \in cooling
        <5>1. overrun'[s] = overrun[s] + 1 /\ overrun[s] \in Nat
          BY <1>0, <2>3, <4>1
        <5>2. overrun[s] + Cardinality(Owed(s)) <= (MaxConcurrent - 1) * (Retries + 1)
          BY <4>1 DEF RegistryInv, Spared
        <5> QED
          BY <1>0, <2>10, <3>1, <3>2, <4>1, <5>1, <5>2
      <4>2. CASE s \notin cooling
        BY <1>0, <2>3, <3>2, <4>2 DEF RegistryInv, Spared
      <4> QED
        BY <4>1, <4>2
    <3>3. ASSUME NEW t \in McpServers, t # s
          PROVE  /\ t \notin cooling' => overrun'[t] = 0
                 /\ t \in cooling' => overrun'[t] + Cardinality(Owed(t)')
                                        <= (MaxConcurrent - 1) * (Retries + 1)
      BY <1>0, <2>5, <3>3 DEF RegistryInv, Spared
    <3> QED
      BY <3>2, <3>3 DEF Spared
  <2> QED
    BY <2>11, <2>12
<1> QED
  BY <1>2, <1>3

\* When the quota of a server is exhausted, the caller that hears of it has no
\* request left, and the others inside the gate have theirs.
LEMMA MarkKeeps ==
  ASSUME Gates, RegistryInv, NEW c \in Callers, NEW s \in McpServers,
         s = caller[c].server, caller[c].pc = "sent",
         caller' = [caller EXCEPT ![c] = Mcp!Idle],
         cooling' = cooling \union {s}, overrun' = overrun
  PROVE  GateHolds' /\ Spared'
<1>0. /\ caller \in [Callers -> CallStates] /\ overrun \in [McpServers -> Nat]
      /\ cooling \in SUBSET McpServers /\ Mcp!Idle \in CallStates /\ Mcp!Idle.pc = "idle"
  BY IdleIs DEF RegistryInv, McpTyped
<1>1. ASSUME NEW d \in Callers PROVE caller'[d] = IF d = c THEN Mcp!Idle ELSE caller[d]
  BY <1>0
<1>2. ASSUME NEW t \in McpServers
      PROVE  Mcp!Inside(t)' = Mcp!Inside(t) \ {c} /\ Owed(t)' \subseteq Owed(t)
  <2>1. Mcp!Inside(t)' = Mcp!Inside(t) \ {c}
    BY <1>0, <1>1 DEF Mcp!Inside
  <2> QED
    BY <1>1, <2>1 DEF Owed
<1>3. ASSUME NEW t \in McpServers
      PROVE  /\ Cardinality(Mcp!Inside(t)') <= Cardinality(Mcp!Inside(t))
             /\ Cardinality(Owed(t)') <= Cardinality(Owed(t))
             /\ Cardinality(Mcp!Inside(t)') \in Nat /\ Cardinality(Mcp!Inside(t)) \in Nat
             /\ Cardinality(Owed(t)') \in Nat /\ Cardinality(Owed(t)) \in Nat
  BY <1>2, OwedFinite, FS_Subset, FS_CardinalityType
<1>4. GateHolds'
  BY <1>3 DEF RegistryInv, GateHolds, Gates
<1>5. c \in Mcp!Inside(s)
  BY DEF Mcp!Inside
<1>6. Cardinality(Mcp!Inside(s)') = Cardinality(Mcp!Inside(s)) - 1
  BY <1>2, <1>5, OwedFinite, FS_RemoveElement
<1>7. Cardinality(Owed(s)') <= (MaxConcurrent - 1) * (Retries + 1)
  <2> DEFINE pairs == Mcp!Inside(s)' \X (0..Retries)
  <2>1. Owed(s)' \subseteq pairs
    BY DEF Owed
  <2>2. IsFiniteSet(0..Retries) /\ Cardinality(0..Retries) = Retries + 1
    BY FS_Interval DEF Gates
  <2>3. IsFiniteSet(Mcp!Inside(s)')
    BY <1>2, OwedFinite, FS_Subset
  <2>4. IsFiniteSet(pairs)
        /\ Cardinality(pairs) = Cardinality(Mcp!Inside(s)') * (Retries + 1)
    BY <2>2, <2>3, FS_Product
  <2>5. Cardinality(Owed(s)') <= Cardinality(pairs)
    BY <2>1, <2>4, FS_Subset
  <2>6. Cardinality(Mcp!Inside(s)') <= MaxConcurrent - 1
    BY <1>3, <1>6 DEF RegistryInv, GateHolds, Gates
  <2>7. \A a, b, k \in Nat : a <= b => a * k <= b * k
    BY SMTT(30)
  <2>8. Cardinality(Mcp!Inside(s)') * (Retries + 1) <= (MaxConcurrent - 1) * (Retries + 1)
    BY <1>3, <2>6, <2>7 DEF Gates
  <2>9. /\ Cardinality(Owed(s)') \in Nat
        /\ Cardinality(Mcp!Inside(s)') * (Retries + 1) \in Int
        /\ (MaxConcurrent - 1) * (Retries + 1) \in Int
    BY <1>3 DEF Gates
  <2> HIDE DEF pairs
  <2> QED
    BY <2>4, <2>5, <2>8, <2>9
<1>8. Spared'
  <2>1. (MaxConcurrent - 1) * (Retries + 1) \in Int
    BY DEF Gates
  <2>2. ASSUME NEW t \in McpServers, t \in cooling
        PROVE  overrun'[t] + Cardinality(Owed(t)') <= (MaxConcurrent - 1) * (Retries + 1)
    BY <1>0, <1>3, <2>1, <2>2 DEF RegistryInv, Spared
  <2>3. ASSUME s \notin cooling
        PROVE  overrun'[s] + Cardinality(Owed(s)') <= (MaxConcurrent - 1) * (Retries + 1)
    BY <1>3, <1>7, <2>1, <2>3 DEF RegistryInv, Spared
  <2>4. ASSUME NEW t \in McpServers, t \notin cooling'
        PROVE  overrun'[t] = 0
    BY <2>4 DEF RegistryInv, Spared
  <2> QED
    BY <2>2, <2>3, <2>4 DEF Spared
<1> QED
  BY <1>4, <1>8

\* What a caller does leaves the registries whole: what it learns is written
\* over a health, and is never that a server is available.
LEMMA CallerStep ==
  ASSUME Gates, RegistryInv, NEW c \in Callers,
         \/ \E s \in McpServers : Mcp!Call(c, s)
         \/ Mcp!Enter(c) \/ Mcp!Send(c) \/ Mcp!Answer(c) \/ Mcp!Backoff(c)
         \/ Mcp!CancelCall(c)
  PROVE  RegistryInv'
<1>0. /\ caller \in [Callers -> CallStates] /\ overrun \in [McpServers -> Nat]
      /\ cooling \in SUBSET McpServers /\ live \in Registries /\ staged \in Registries
      /\ \A d \in Callers : caller[d].pc # "idle" => caller[d].server \in McpServers
      /\ IsWhole(live) /\ live.client \in [McpServers -> Nat] /\ caller[c] \in CallStates
  BY DEF RegistryInv, McpTyped, BothWhole, Registries
<1> DEFINE Aside == /\ staged' = staged /\ prober' = prober
                    /\ live' \in Registries /\ IsWhole(live')
                    /\ cooling' \in SUBSET McpServers /\ overrun' \in [McpServers -> Nat]
<1>1. ASSUME NEW x \in CallStates, caller' = [caller EXCEPT ![c] = x],
             x.pc = "idle" \/ x.server \in McpServers,
             Aside, GateHolds', Spared'
      PROVE  RegistryInv'
  <2>1. /\ caller' \in [Callers -> CallStates]
        /\ \A d \in Callers : caller'[d].pc # "idle" => caller'[d].server \in McpServers
    BY <1>0, <1>1
  <2>2. McpTyped'
    BY <1>1, <2>1 DEF RegistryInv, McpTyped
  <2>3. BothWhole'
    BY <1>1 DEF RegistryInv, BothWhole, IsWhole
  <2> QED
    BY <1>1, <2>2, <2>3 DEF RegistryInv
<1> HIDE DEF Aside
<1>2. UNCHANGED <<live, staged, prober, cooling, overrun>> => Aside
  BY <1>0 DEF Aside
<1>3. Mcp!Idle \in CallStates /\ Mcp!Idle.pc = "idle"
  BY IdleIs
<1>4. ASSUME NEW place \in {"idle", "queued"} \union InGate
      PROVE  LET x == [caller[c] EXCEPT !.pc = place]
             IN x \in CallStates /\ x.pc = place /\ x.server = caller[c].server
                /\ x.attempt = caller[c].attempt /\ x.client = caller[c].client
  BY <1>0, Goes
<1>5. ASSUME NEW s \in McpServers, Mcp!Call(c, s)
      PROVE  RegistryInv'
  <2>1. UNCHANGED <<live, staged, prober, cooling, overrun>>
        /\ caller' = [caller EXCEPT ![c] = [Mcp!Idle EXCEPT !.pc = "queued", !.server = s]]
    BY <1>5 DEF Mcp!Call, Mcp!Becomes, Mcp!probing
  <2>2. PICK x \in CallStates : x = [Mcp!Idle EXCEPT !.pc = "queued", !.server = s]
                                /\ x.pc = "queued" /\ x.server = s
    <3>1. LET y == [Mcp!Idle EXCEPT !.pc = "queued", !.server = s]
          IN y \in CallStates /\ y.pc = "queued" /\ y.server = s
      BY <1>3 DEF CallStates
    <3> QED
      BY <3>1
  <2> QED
    BY <1>1, <1>2, <2>1, <2>2, CallerGoesOn DEF Aside
<1>6. CASE Mcp!Enter(c)
  <2>1. UNCHANGED <<live, staged, prober, cooling, overrun>>
        /\ caller[c].pc = "queued"
        /\ \/ caller' = [caller EXCEPT ![c] = Mcp!Idle]
           \/ caller' = [caller EXCEPT ![c] = [caller[c] EXCEPT !.pc = "pacing"]]
    BY <1>6 DEF Mcp!Enter, Mcp!Becomes, Mcp!At, Mcp!probing
  <2>2. "pacing" \in {"idle", "queued"} \union InGate
    BY DEF InGate
  <2> QED
    BY <1>0, <1>1, <1>2, <1>3, <1>4, <1>6, <2>1, <2>2, EnterKeeps
<1>7. CASE Mcp!Send(c)
  <2>1. /\ UNCHANGED <<live, staged, prober, cooling>> /\ caller[c].pc = "pacing"
        /\ LET s == caller[c].server IN
           \/ caller' = [caller EXCEPT ![c] = Mcp!Idle] /\ overrun' = overrun
           \/ /\ caller' = [caller EXCEPT ![c] = [caller[c] EXCEPT !.pc = "sent",
                                                   !.client = live.client[s]]]
              /\ overrun' = overrun \/ overrun' = [overrun EXCEPT ![s] = @ + 1]
    BY <1>7 DEF Mcp!Send, Mcp!Becomes, Mcp!probing
  <2>2. caller[c].server \in McpServers
    BY <1>0, <2>1
  <2>3. live.client[caller[c].server] \in Nat
    BY <1>0, <2>2
  <2>4. PICK x \in CallStates : x = [caller[c] EXCEPT !.pc = "sent",
                                        !.client = live.client[caller[c].server]]
                                /\ x.server = caller[c].server
    <3>1. caller[c] \in CallStates
      BY <1>0
    <3>2. \E x \in CallStates :
             /\ x = [caller[c] EXCEPT !.pc = "sent", !.client = live.client[caller[c].server]]
             /\ x.server = caller[c].server /\ x.pc = "sent" /\ x.attempt = caller[c].attempt
      BY <2>3, <3>1, IsSent, Zenon
    <3> QED
      BY <3>2
  <2>5. overrun' \in [McpServers -> Nat]
    <3>1. overrun' = overrun \/ overrun' = [overrun EXCEPT ![caller[c].server] = @ + 1]
      BY <2>1
    <3> QED
      BY <1>0, <2>2, <3>1
  <2>6. Aside
    BY <1>0, <2>1, <2>5 DEF Aside
  <2> QED
    BY <1>1, <1>3, <1>7, <2>1, <2>2, <2>4, <2>6, SendKeeps
<1>8. CASE Mcp!Backoff(c)
  <2>1. UNCHANGED <<live, staged, prober, cooling, overrun>> /\ caller[c].pc = "backoff"
        /\ caller' = [caller EXCEPT ![c] = [caller[c] EXCEPT !.pc = "pacing"]]
    BY <1>8 DEF Mcp!Backoff, Mcp!Becomes, Mcp!At, Mcp!probing
  <2>2. "pacing" \in {"idle", "queued"} \union InGate /\ "backoff" \in InGate
    BY DEF InGate
  <2>3. GateHolds' /\ Spared'
    BY <1>4, <2>1, <2>2, CallerGoesOn
  <2> QED
    BY <1>0, <1>1, <1>2, <1>4, <2>1, <2>2, <2>3
<1>9. CASE Mcp!CancelCall(c)
  <2>1. UNCHANGED <<live, staged, prober, cooling, overrun>>
        /\ caller' = [caller EXCEPT ![c] = Mcp!Idle]
    BY <1>9 DEF Mcp!CancelCall, Mcp!Becomes, Mcp!probing
  <2> QED
    BY <1>1, <1>2, <1>3, <2>1, CallerGoesOn
<1>10. ASSUME NEW s \in McpServers, NEW status \in Statuses, status # "AVAILABLE",
              live' = [live EXCEPT !.health[s] = IF @ = Mcp!Unknown THEN @ ELSE status]
       PROVE  live' \in Registries /\ IsWhole(live')
  <2>1. /\ live.health \in [McpServers -> Statuses] /\ live.tools \in SUBSET McpServers
        /\ live.client \in [McpServers -> Nat]
    BY <1>0 DEF Registries
  <2>2. /\ live'.health = [live.health EXCEPT ![s] = IF @ = Mcp!Unknown THEN @ ELSE status]
        /\ live'.tools = live.tools /\ live'.client = live.client
        /\ live' = [live EXCEPT !.health = live'.health]
    BY <1>0, <1>10 DEF Registries
  <2>3. live'.health \in [McpServers -> Statuses]
        /\ \A t \in McpServers : live'.health[t] = "AVAILABLE" => live.health[t] = "AVAILABLE"
    BY <1>10, <2>1, <2>2
  <2>4. live' \in Registries
    BY <1>0, <2>2, <2>3 DEF Registries
  <2> QED
    BY <1>0, <2>2, <2>3, <2>4 DEF IsWhole
<1>11. CASE Mcp!Answer(c)
  <2>0. caller[c].pc = "sent" /\ UNCHANGED <<staged, prober, overrun>>
    BY <1>11 DEF Mcp!Answer
  <2>1. PICK s \in McpServers : s = caller[c].server
    BY <1>0, <2>0
  <2>2. \/ caller' = [caller EXCEPT ![c] = Mcp!Idle] /\ UNCHANGED <<live, cooling>>
        \/ \E status \in {"AUTH_REQUIRED", "DOWN"} :
             /\ live' = [live EXCEPT !.health[s] = IF @ = Mcp!Unknown THEN @ ELSE status]
             /\ caller' = [caller EXCEPT ![c] = Mcp!Idle] /\ UNCHANGED cooling
        \/ /\ caller[c].attempt < Retries /\ UNCHANGED <<live, cooling>>
           /\ caller' = [caller EXCEPT ![c] = [caller[c] EXCEPT !.pc = "backoff",
                                                               !.attempt = @ + 1]]
        \/ /\ caller' = [caller EXCEPT ![c] = Mcp!Idle] /\ cooling' = cooling \union {s}
           /\ live' = [live EXCEPT !.health[s] = IF @ = Mcp!Unknown THEN @ ELSE "RATE_LIMITED"]
    BY <1>11, <2>1 DEF Mcp!Answer, Mcp!Becomes, Mcp!_mark_rate_limited
  <2>3. CASE caller' = [caller EXCEPT ![c] = Mcp!Idle] /\ UNCHANGED <<live, cooling>>
    BY <1>1, <1>2, <1>3, <2>0, <2>3, CallerGoesOn
  <2>4. ASSUME NEW status \in {"AUTH_REQUIRED", "DOWN"},
               live' = [live EXCEPT !.health[s] = IF @ = Mcp!Unknown THEN @ ELSE status],
               caller' = [caller EXCEPT ![c] = Mcp!Idle], UNCHANGED cooling
        PROVE  RegistryInv'
    <3>1. status \in Statuses /\ status # "AVAILABLE"
      BY DEF Statuses, Mcp!Failures
    <3>2. Aside
      BY <1>0, <1>10, <2>0, <2>4, <3>1 DEF Aside
    <3> QED
      BY <1>1, <1>3, <2>0, <2>4, <3>2, CallerGoesOn
  <2>5. CASE /\ caller[c].attempt < Retries /\ UNCHANGED <<live, cooling>>
             /\ caller' = [caller EXCEPT ![c] = [caller[c] EXCEPT !.pc = "backoff",
                                                                 !.attempt = @ + 1]]
    <3>1. PICK x \in CallStates : /\ x = [caller[c] EXCEPT !.pc = "backoff", !.attempt = @ + 1]
                                  /\ x.pc = "backoff" /\ x.server = s
                                  /\ x.attempt = caller[c].attempt + 1
      BY <1>0, <2>1, <2>5, IsRetry
    <3>2. caller[c].pc \in InGate
      BY <2>0 DEF InGate
    <3>3. GateHolds' /\ Spared'
      BY <2>0, <2>1, <2>5, <3>1, <3>2, CallerGoesOn
    <3> QED
      BY <1>1, <1>2, <2>0, <2>5, <3>1, <3>3
  <2>6. CASE /\ caller' = [caller EXCEPT ![c] = Mcp!Idle] /\ cooling' = cooling \union {s}
             /\ live' = [live EXCEPT !.health[s] = IF @ = Mcp!Unknown THEN @ ELSE "RATE_LIMITED"]
    <3>1. "RATE_LIMITED" \in Statuses
      BY DEF Statuses, Mcp!Failures
    <3>2. Aside
      BY <1>0, <1>10, <2>0, <2>6, <3>1 DEF Aside
    <3> QED
      BY <1>1, <1>3, <2>0, <2>1, <2>6, <3>2, MarkKeeps
  <2> QED
    BY <2>2, <2>3, <2>4, <2>5, <2>6
<1> QED
  BY <1>5, <1>6, <1>7, <1>8, <1>9, <1>11

\* What a probe records of a server leaves the registry it builds whole.
LEMMA RecordWhole ==
  ASSUME NEW r \in Registries, IsWhole(r), NEW s \in McpServers,
         NEW status \in Mcp!Failures \union {"AVAILABLE"}, NEW n \in Nat, n # Mcp!NoClient
  PROVE  Mcp!Record(r, s, status, n) \in Registries /\ IsWhole(Mcp!Record(r, s, status, n))
<1> DEFINE q == Mcp!Record(r, s, status, n)
<1>1. /\ r.health \in [McpServers -> Statuses] /\ r.tools \in SUBSET McpServers
      /\ r.client \in [McpServers -> Nat] /\ status \in Statuses /\ Mcp!NoClient \in Nat
  BY DEF Registries, Statuses, Mcp!NoClient
<1>2. /\ q.health = [r.health EXCEPT ![s] = status]
      /\ q.tools = IF status = "AVAILABLE" THEN r.tools \union {s} ELSE r.tools \ {s}
      /\ q.client = [r.client EXCEPT ![s] = IF status = "AVAILABLE" THEN n ELSE Mcp!NoClient]
      /\ q = [health |-> q.health, tools |-> q.tools, client |-> q.client]
  BY DEF Mcp!Record
<1> HIDE DEF q
<1>3. q.health \in [McpServers -> Statuses] /\ q.tools \in SUBSET McpServers
      /\ q.client \in [McpServers -> Nat]
  BY <1>1, <1>2
<1>4. q \in Registries
  BY <1>2, <1>3 DEF Registries
<1>5. IsWhole(q)
  <2> SUFFICES ASSUME NEW t \in McpServers
               PROVE  /\ q.health[t] = "AVAILABLE" => t \in q.tools
                      /\ t \in q.tools => q.client[t] # Mcp!NoClient
    BY DEF IsWhole
  <2>1. CASE t = s
    BY <1>1, <1>2, <2>1
  <2>2. CASE t # s
    BY <1>1, <1>2, <2>2 DEF IsWhole
  <2> QED
    BY <2>1, <2>2
<1> QED
  BY <1>4, <1>5 DEF q

\* The swap takes all a server has from one of two whole registries.
LEMMA PickWhole ==
  ASSUME NEW targets \in SUBSET McpServers, live \in Registries, staged \in Registries,
         IsWhole(live), IsWhole(staged)
  PROVE  Mcp!Pick(live, targets) \in Registries /\ IsWhole(Mcp!Pick(live, targets))
<1> DEFINE q == Mcp!Pick(live, targets)
<1>1. /\ live.health \in [McpServers -> Statuses] /\ live.tools \in SUBSET McpServers
      /\ live.client \in [McpServers -> Nat]
      /\ staged.health \in [McpServers -> Statuses] /\ staged.tools \in SUBSET McpServers
      /\ staged.client \in [McpServers -> Nat]
  BY DEF Registries
<1>2. /\ q.health = [s \in McpServers |-> IF s \in targets THEN staged.health[s]
                                       ELSE live.health[s]]
      /\ q.tools = (live.tools \ targets) \union (staged.tools \intersect targets)
      /\ q.client = [s \in McpServers |-> IF s \in targets THEN staged.client[s]
                                       ELSE live.client[s]]
      /\ q = [health |-> q.health, tools |-> q.tools, client |-> q.client]
  BY DEF Mcp!Pick
<1> HIDE DEF q
<1>3. q.health \in [McpServers -> Statuses] /\ q.tools \in SUBSET McpServers
      /\ q.client \in [McpServers -> Nat]
  BY <1>1, <1>2
<1>4. q \in Registries
  BY <1>2, <1>3 DEF Registries
<1>5. IsWhole(q)
  <2> SUFFICES ASSUME NEW t \in McpServers
               PROVE  /\ q.health[t] = "AVAILABLE" => t \in q.tools
                      /\ t \in q.tools => q.client[t] # Mcp!NoClient
    BY DEF IsWhole
  <2>1. CASE t \in targets
    BY <1>2, <2>1 DEF IsWhole
  <2>2. CASE t \notin targets
    BY <1>2, <2>2 DEF IsWhole
  <2> QED
    BY <2>1, <2>2
<1> QED
  BY <1>4, <1>5 DEF q

\* A probe that begins, records, is cancelled or is swapped in keeps the
\* registries whole, and takes no cooldown away without forgetting its overrun.
LEMMA RegistryStep ==
  ASSUME Gates, RegistryInv,
         \/ \E force \in BOOLEAN : Mcp!BeginProbe(force)
         \/ \E s \in McpServers, status \in Mcp!Failures \union {"AVAILABLE"} :
               Mcp!_probe_server(s, status)
         \/ Mcp!CancelProbe \/ Mcp!Swap \/ Mcp!Close
         \/ Mcp!TtlOver \/ \E s \in McpServers : Mcp!CooldownOver(s)
  PROVE  RegistryInv'
<1>0. /\ live \in Registries /\ staged \in Registries
      /\ prober \in [pc : {"idle", "probing", "closing"}, force : BOOLEAN,
                     targets : SUBSET McpServers, n : Nat]
      /\ cooling \in SUBSET McpServers /\ overrun \in [McpServers -> Nat]
      /\ IsWhole(live) /\ IsWhole(staged)
      /\ prober.pc = "probing" => prober.n # 0
  BY DEF RegistryInv, McpTyped, BothWhole
<1> DEFINE Probers == [pc : {"idle", "probing", "closing"}, force : BOOLEAN,
                       targets : SUBSET McpServers, n : Nat]
<1>1. ASSUME caller' = caller, live' \in Registries, staged' \in Registries,
             IsWhole(live'), IsWhole(staged'),
             prober' \in Probers, prober'.pc = "probing" => prober'.n # 0,
             cooling' \in SUBSET McpServers, overrun' \in [McpServers -> Nat],
             \A s \in McpServers : \/ (s \in cooling' <=> s \in cooling) /\ overrun'[s] = overrun[s]
                                   \/ s \notin cooling' /\ overrun'[s] = 0
      PROVE  RegistryInv'
  <2>1. GateHolds' /\ Spared'
    BY <1>1, CallersStay
  <2>2. McpTyped'
    BY <1>1 DEF RegistryInv, McpTyped
  <2>3. BothWhole'
    BY <1>1 DEF BothWhole, IsWhole
  <2> QED
    BY <2>1, <2>2, <2>3 DEF RegistryInv
<1>2. /\ Mcp!Empty \in Registries /\ IsWhole(Mcp!Empty)
      /\ \A clients \in [McpServers -> Nat] :
            LET left == [Mcp!Empty EXCEPT !.client = clients]
            IN left \in Registries /\ IsWhole(left)
  <2>1. /\ [s \in McpServers |-> Mcp!Unknown] \in [McpServers -> Statuses]
        /\ [s \in McpServers |-> Mcp!NoClient] \in [McpServers -> Nat]
    BY DEF Statuses, Mcp!NoClient
  <2> QED
    BY <2>1 DEF Mcp!Empty, Registries, IsWhole, Mcp!Unknown
<1>3. ASSUME NEW x, prober' = x, x \in Probers, x.pc = "probing" => x.n # 0
      PROVE  prober' \in Probers /\ (prober'.pc = "probing" => prober'.n # 0)
  BY <1>3
<1>4. ASSUME NEW force \in BOOLEAN, Mcp!BeginProbe(force)
      PROVE  RegistryInv'
  <2>1. staged' = Mcp!Empty /\ UNCHANGED <<live, cooling, caller, overrun>>
    BY <1>4 DEF Mcp!BeginProbe
  <2>2. prober' \in Probers /\ (prober'.pc = "probing" => prober'.n # 0)
    BY <1>0, <1>4 DEF Mcp!BeginProbe, Mcp!Reprobable
  <2> QED
    BY <1>0, <1>1, <1>2, <2>1, <2>2
<1>5. ASSUME NEW s \in McpServers, NEW status \in Mcp!Failures \union {"AVAILABLE"},
             Mcp!_probe_server(s, status)
      PROVE  RegistryInv'
  <2>1. /\ staged' = Mcp!Record(staged, s, status, prober.n) /\ prober.pc = "probing"
        /\ UNCHANGED <<live, prober, cooling, caller, overrun>>
    BY <1>5 DEF Mcp!_probe_server
  <2>2. prober.n \in Nat /\ prober.n # Mcp!NoClient
    BY <1>0, <2>1 DEF Mcp!NoClient
  <2>3. staged' \in Registries /\ IsWhole(staged')
    BY <1>0, <2>1, <2>2, RecordWhole
  <2> QED
    BY <1>0, <1>1, <2>1, <2>3
<1>6. CASE Mcp!CancelProbe
  <2>1. UNCHANGED <<live, staged, cooling, caller, overrun>>
        /\ prober' = [prober EXCEPT !.pc = "idle"]
    BY <1>6 DEF Mcp!CancelProbe
  <2>2. prober' \in Probers /\ prober'.pc = "idle"
    BY <1>0, <2>1
  <2> QED
    BY <1>0, <1>1, <2>1, <2>2
<1>7. CASE Mcp!Swap
  <2>1. /\ live' = Mcp!Pick(live, prober.targets) /\ caller' = caller
        /\ staged' = [Mcp!Empty EXCEPT !.client = live.client]
        /\ prober' = [prober EXCEPT !.pc = "closing"]
        /\ \E over \in SUBSET (cooling \union McpServers) :
              /\ cooling' = cooling \ over
              /\ overrun' = [s \in McpServers |-> IF s \in over THEN 0 ELSE overrun[s]]
    <3> DEFINE over == IF prober.force THEN cooling
                       ELSE {s \in prober.targets : live'.health[s] = "AVAILABLE"}
    <3>1. over \in SUBSET (cooling \union McpServers)
      BY <1>0
    <3> QED
      BY <1>7, <3>1 DEF Mcp!Swap
  <2>2. live' \in Registries /\ IsWhole(live')
    BY <1>0, <2>1, PickWhole
  <2>3. staged' \in Registries /\ IsWhole(staged')
    BY <1>0, <1>2, <2>1 DEF Registries
  <2>4. prober' \in Probers /\ prober'.pc = "closing"
    BY <1>0, <2>1
  <2>5. /\ cooling' \in SUBSET McpServers /\ overrun' \in [McpServers -> Nat]
        /\ \A s \in McpServers : \/ (s \in cooling' <=> s \in cooling) /\ overrun'[s] = overrun[s]
                                 \/ s \notin cooling' /\ overrun'[s] = 0
    BY <1>0, <2>1
  <2> QED
    BY <1>1, <2>1, <2>2, <2>3, <2>4, <2>5
<1>8. CASE Mcp!Close
  <2>1. /\ staged' = Mcp!Empty /\ prober' = [prober EXCEPT !.pc = "idle"]
        /\ UNCHANGED <<live, cooling, caller, overrun>>
    BY <1>8 DEF Mcp!Close
  <2>2. prober' \in Probers /\ prober'.pc = "idle"
    BY <1>0, <2>1
  <2> QED
    BY <1>0, <1>1, <1>2, <2>1, <2>2
<1>9. CASE Mcp!TtlOver
  BY <1>0, <1>1, <1>9 DEF Mcp!TtlOver, Mcp!probing
<1>10. ASSUME NEW s \in McpServers, Mcp!CooldownOver(s)
       PROVE  RegistryInv'
  <2>1. /\ UNCHANGED <<live, staged, prober, caller>> /\ cooling' = cooling \ {s}
        /\ overrun' = [overrun EXCEPT ![s] = 0]
    BY <1>10 DEF Mcp!CooldownOver, Mcp!probing
  <2> QED
    BY <1>0, <1>1, <2>1
<1> QED
  BY <1>4, <1>5, <1>6, <1>7, <1>8, <1>9, <1>10

\* It is so at the start, when nothing is known of a server.
LEMMA RegistryStart ==
  ASSUME Gates, Mcp!Init
  PROVE  RegistryInv
<1>1. /\ Mcp!Empty \in Registries /\ IsWhole(Mcp!Empty)
  <2>1. /\ [s \in McpServers |-> Mcp!Unknown] \in [McpServers -> Statuses]
        /\ [s \in McpServers |-> Mcp!NoClient] \in [McpServers -> Nat]
    BY DEF Statuses, Mcp!NoClient
  <2> QED
    BY <2>1 DEF Mcp!Empty, Registries, IsWhole, Mcp!Unknown
<1>2. \A c \in Callers : caller[c] = Mcp!Idle
  BY DEF Mcp!Init
<1>3. McpTyped
  BY <1>1, <1>2, IdleIs DEF McpTyped, Mcp!Init
<1>4. BothWhole
  BY <1>1 DEF BothWhole, Mcp!Init
<1>5. ASSUME NEW s \in McpServers PROVE Mcp!Inside(s) = {} /\ overrun[s] = 0 /\ s \notin cooling
  BY <1>2, IdleIs DEF Mcp!Inside, Mcp!Init
<1>6. GateHolds /\ Spared
  BY <1>5, FS_EmptySet DEF GateHolds, Spared, Gates
<1> QED
  BY <1>3, <1>4, <1>6 DEF RegistryInv

\* Every step of the registry keeps the invariant.
LEMMA RegistryKeeps ==
  ASSUME Gates, RegistryInv, [Mcp!Next]_Mcp!vars
  PROVE  RegistryInv'
<1>1. CASE UNCHANGED Mcp!vars
  <2>1. UNCHANGED <<live, staged, prober, cooling, caller, overrun>>
    BY <1>1 DEF Mcp!vars
  <2>2. GateHolds' /\ Spared'
    BY <2>1, CallersStay DEF RegistryInv, McpTyped
  <2> QED
    BY <2>1, <2>2 DEF RegistryInv, McpTyped, BothWhole, IsWhole
<1>2. CASE Mcp!Next
  BY <1>2, CallerStep, RegistryStep DEF Mcp!Next
<1> QED
  BY <1>1, <1>2

-----------------------------------------------------------------------------
(***************************************************************************)
(* The tool calls of a run.                                                *)
(*                                                                         *)
(* The limits hold because a call that is under way counts already: what   *)
(* was executed and what is under way are together no more than was        *)
(* charged (Charged). The trace tells the truth because the number of a    *)
(* proposal is never used twice, not even by a run that resumes: whatever  *)
(* is told is told of the call that holds the number (TraceFits).          *)
(***************************************************************************)

budget == s1
counts == s2
log == s3
ledgered == s4
cached == s5
loaded == s6
call == s7
proposals == s8
events == s9
cancelled == s10
saved == s11

Limits == IsFiniteSet(ToolAgents) /\ MaxCalls \in Nat /\ MaxDuplicates \in Nat

Running == {"cache", "dispatch", "sleep"}
Told == {"hit", "completed", "failing", "failed"}
Ids == ToolAgents \X Nat
LogEntries == [id : Ids, tool : Tools, status : {"REJECTED", "SUCCEEDED", "UNAVAILABLE", "FAILED"}]
Calls == [pc : {"idle", "over"} \union Running \union Told, id : Ids \union {<<>>},
          tool : Tools \union {"none"}, retries : Nat]

ToolsTyped ==
  /\ budget \in Nat /\ counts \in [Tools -> Nat]
  /\ log \in SUBSET LogEntries /\ IsFiniteSet(log)
  /\ call \in [ToolAgents -> Calls]
  /\ \A a \in ToolAgents : /\ call[a].pc \in {"idle", "over"} <=> call[a].id = <<>>
                           /\ call[a].id # <<>> => call[a].tool \in Tools
  /\ proposals \in [ToolAgents -> Nat]
  /\ saved \in [budget : Nat, counts : [Tools -> Nat], log : SUBSET LogEntries,
                ledgered : SUBSET Ids]
  /\ IsFiniteSet(saved.log)

\* The calls under way, and the entries of calls that were not rejected.
Busy == {a \in ToolAgents : call[a].pc \in Running}
BusyWith(t) == {a \in Busy : call[a].tool = t}
Ran(entries) == {e \in entries : e.status # "REJECTED"}
RanOf(entries, t) == {e \in Ran(entries) : e.tool = t}

Charged ==
  /\ Cardinality(Ran(log)) + Cardinality(Busy) <= budget /\ budget <= MaxCalls
  /\ \A t \in Tools :
       /\ Cardinality(RanOf(log, t)) + Cardinality(BusyWith(t)) <= counts[t]
       /\ Cardinality(RanOf(log, t)) + Cardinality(BusyWith(t)) <= MaxDuplicates

\* The same of the checkpoint, in which nothing is under way.
ChargedThen ==
  /\ Cardinality(Ran(saved.log)) <= saved.budget /\ saved.budget <= MaxCalls
  /\ \A t \in Tools : /\ Cardinality(RanOf(saved.log, t)) <= saved.counts[t]
                      /\ Cardinality(RanOf(saved.log, t)) <= MaxDuplicates

Used(id) == id \in Ids /\ 1 <= id[2] /\ id[2] <= proposals[id[1]]

EndOf(status) == IF status = "REJECTED" THEN "rejected"
                 ELSE IF status = "FAILED" THEN "failed" ELSE "completed"

\* What the call log says of a call whose end is not told yet.
Says(place, status) ==
  /\ place \in Told /\ status # "REJECTED"
  /\ place = "hit" => status = "SUCCEEDED"
  /\ place \in {"failing", "failed"} <=> status = "FAILED"

IsTold(entry) ==
  \/ entry.id \in cancelled
  \/ /\ \E e \in events : e.id = entry.id /\ e.kind = EndOf(entry.status)
     /\ \A e \in events : e.id = entry.id => e.kind \in {"started", EndOf(entry.status)}

TraceFits ==
  /\ \A a \in ToolAgents : call[a].id # <<>> => Used(call[a].id) /\ call[a].id[1] = a
  /\ \A entry \in log \union saved.log : Used(entry.id)
  /\ \A e \in events : Used(e.id)
  /\ \A a \in ToolAgents : \A e \in events : e.id = call[a].id => e.kind = "started"
  /\ \A a \in ToolAgents : \A entry \in log :
       entry.id = call[a].id => Says(call[a].pc, entry.status)
  /\ \A entry \in log : IsTold(entry) \/ \E a \in ToolAgents : entry.id = call[a].id
  /\ \A entry \in saved.log :
       IsTold(entry) /\ \A a \in ToolAgents : entry.id # call[a].id

Grounded ==
  /\ \A id \in ledgered : \E entry \in log : entry.id = id /\ entry.status = "SUCCEEDED"
  /\ \A id \in saved.ledgered :
       \E entry \in saved.log : entry.id = id /\ entry.status = "SUCCEEDED"

ToolsInv == ToolsTyped /\ Charged /\ ChargedThen /\ TraceFits /\ Grounded

USE DEF budget, counts, log, ledgered, cached, loaded, call, proposals, events, cancelled, saved

\* The sets that are counted are finite.
LEMMA CallsFinite ==
  ASSUME Limits, ToolsTyped, NEW t \in Tools
  PROVE  /\ IsFiniteSet(Busy) /\ Cardinality(Busy) \in Nat
         /\ IsFiniteSet(BusyWith(t)) /\ Cardinality(BusyWith(t)) \in Nat
         /\ IsFiniteSet(Ran(log)) /\ Cardinality(Ran(log)) \in Nat
         /\ IsFiniteSet(RanOf(log, t)) /\ Cardinality(RanOf(log, t)) \in Nat
<1>1. Busy \subseteq ToolAgents /\ BusyWith(t) \subseteq ToolAgents
  BY DEF Busy, BusyWith
<1>2. Ran(log) \subseteq log /\ RanOf(log, t) \subseteq log
  BY DEF Ran, RanOf
<1> QED
  BY <1>1, <1>2, FS_Subset, FS_CardinalityType DEF Limits, ToolsTyped

\* The calls under way are finitely many even when no tool exists.
LEMMA BusyFinite ==
  ASSUME Limits, ToolsTyped
  PROVE  /\ IsFiniteSet(Busy) /\ Cardinality(Busy) \in Nat
         /\ IsFiniteSet(Ran(log)) /\ Cardinality(Ran(log)) \in Nat
<1>1. Busy \subseteq ToolAgents /\ Ran(log) \subseteq log
  BY DEF Busy, Ran
<1> QED
  BY <1>1, FS_Subset, FS_CardinalityType DEF Limits, ToolsTyped

\* A step that puts no call under way and executes none leaves the charges.
LEMMA ChargesStay ==
  ASSUME Limits, ToolsInv, Busy' \subseteq Busy,
         \A t \in Tools : BusyWith(t)' \subseteq BusyWith(t),
         Ran(log)' = Ran(log), counts' \in [Tools -> Nat],
         \A t \in Tools : counts'[t] >= counts[t],
         budget' = budget \/ (budget' = budget + 1 /\ budget < MaxCalls)
  PROVE  Charged'
<1>0. ToolsTyped /\ Charged /\ budget \in Nat /\ counts \in [Tools -> Nat]
  BY DEF ToolsInv, ToolsTyped
<1>1. Cardinality(Busy') <= Cardinality(Busy) /\ Cardinality(Busy') \in Nat
      /\ Cardinality(Busy) \in Nat /\ Cardinality(Ran(log)) \in Nat
  BY <1>0, BusyFinite, NoMore
<1>2. ASSUME NEW t \in Tools
      PROVE  /\ Cardinality(RanOf(log, t)') + Cardinality(BusyWith(t)') <= counts'[t]
             /\ Cardinality(RanOf(log, t)') + Cardinality(BusyWith(t)') <= MaxDuplicates
  <2>1. RanOf(log, t)' = RanOf(log, t)
    BY DEF RanOf
  <2>2. IsFiniteSet(BusyWith(t)) /\ Cardinality(BusyWith(t)) \in Nat
        /\ Cardinality(RanOf(log, t)) \in Nat
    BY <1>0, CallsFinite
  <2>3. BusyWith(t)' \subseteq BusyWith(t)
    OBVIOUS
  <2>4. Cardinality(BusyWith(t)') <= Cardinality(BusyWith(t)) /\ Cardinality(BusyWith(t)') \in Nat
    BY <2>2, <2>3, NoMore
  <2>5. /\ Cardinality(RanOf(log, t)) + Cardinality(BusyWith(t)) <= counts[t]
        /\ Cardinality(RanOf(log, t)) + Cardinality(BusyWith(t)) <= MaxDuplicates
        /\ counts[t] \in Nat /\ counts'[t] \in Nat /\ counts'[t] >= counts[t]
    BY <1>0 DEF Charged
  <2> QED
    BY <2>1, <2>2, <2>4, <2>5 DEF Limits
<1>3. Cardinality(Ran(log)') + Cardinality(Busy') <= budget' /\ budget' <= MaxCalls
  BY <1>0, <1>1 DEF Charged, Limits
<1> QED
  BY <1>2, <1>3 DEF Charged

\* A call that begins was charged before.
LEMMA ChargedToBegin ==
  ASSUME Limits, ToolsInv, NEW a \in ToolAgents, NEW t \in Tools, NEW x \in Calls,
         call' = [call EXCEPT ![a] = x], x.pc \in Running, x.tool = t,
         log' = log, budget < MaxCalls, budget' = budget + 1,
         counts[t] + 1 <= MaxDuplicates, counts' = [counts EXCEPT ![t] = @ + 1]
  PROVE  Charged'
<1>0. /\ ToolsTyped /\ Charged /\ budget \in Nat /\ counts \in [Tools -> Nat]
      /\ call \in [ToolAgents -> Calls]
  BY DEF ToolsInv, ToolsTyped
<1>1. ASSUME NEW b \in ToolAgents PROVE call'[b] = IF b = a THEN x ELSE call[b]
  BY <1>0
<1>2. Busy' = Busy \union {a}
  BY <1>1 DEF Busy
<1>3. ASSUME NEW u \in Tools
      PROVE  BusyWith(u)' \subseteq (IF u = t THEN BusyWith(u) \union {a} ELSE BusyWith(u))
  BY <1>1, <1>2 DEF BusyWith, Busy
<1>4. Cardinality(Busy') <= Cardinality(Busy) + 1 /\ Cardinality(Busy') \in Nat
      /\ Cardinality(Busy) \in Nat /\ Cardinality(Ran(log)) \in Nat
  <2>1. IsFiniteSet(Busy) /\ Busy' \subseteq Busy \union {a}
    BY <1>0, <1>2, BusyFinite
  <2> QED
    BY <1>0, <2>1, OneMore, BusyFinite
<1>5. Cardinality(Ran(log)') + Cardinality(Busy') <= budget' /\ budget' <= MaxCalls
  <2>1. Ran(log)' = Ran(log)
    BY DEF Ran
  <2> QED
    BY <1>0, <1>4, <2>1 DEF Charged, Limits
<1>6. ASSUME NEW u \in Tools
      PROVE  /\ Cardinality(RanOf(log, u)') + Cardinality(BusyWith(u)') <= counts'[u]
             /\ Cardinality(RanOf(log, u)') + Cardinality(BusyWith(u)') <= MaxDuplicates
  <2>1. RanOf(log, u)' = RanOf(log, u)
    BY DEF RanOf, Ran
  <2>2. IsFiniteSet(BusyWith(u)) /\ Cardinality(BusyWith(u)) \in Nat
        /\ Cardinality(RanOf(log, u)) \in Nat
    BY <1>0, CallsFinite
  <2>3. /\ Cardinality(RanOf(log, u)) + Cardinality(BusyWith(u)) <= counts[u]
        /\ Cardinality(RanOf(log, u)) + Cardinality(BusyWith(u)) <= MaxDuplicates
        /\ counts[u] \in Nat
    BY <1>0 DEF Charged
  <2>4. CASE u = t
    <3>1. BusyWith(u)' \subseteq BusyWith(u) \union {a}
      BY <1>3, <2>4
    <3>3. Cardinality(BusyWith(u)') <= Cardinality(BusyWith(u)) + 1
          /\ Cardinality(BusyWith(u)') \in Nat
      BY <2>2, <3>1, OneMore
    <3>4. counts'[u] = counts[u] + 1 /\ counts[u] + 1 <= MaxDuplicates
      BY <1>0, <2>4
    <3> QED
      BY <2>1, <2>2, <2>3, <3>3, <3>4 DEF Limits
  <2>5. CASE u # t
    <3>1. BusyWith(u)' \subseteq BusyWith(u)
      BY <1>3, <2>5
    <3>2. Cardinality(BusyWith(u)') <= Cardinality(BusyWith(u)) /\ Cardinality(BusyWith(u)') \in Nat
      BY <2>2, <3>1, NoMore
    <3>3. counts'[u] = counts[u]
      BY <1>0, <2>5
    <3> QED
      BY <2>1, <2>2, <2>3, <3>2, <3>3 DEF Limits
  <2> QED
    BY <2>4, <2>5
<1> QED
  BY <1>5, <1>6 DEF Charged

\* A call that is logged was under way.
LEMMA ChargedWhenLogged ==
  ASSUME Limits, ToolsInv, NEW a \in ToolAgents, NEW x \in Calls, NEW e \in LogEntries,
         call' = [call EXCEPT ![a] = x], x.pc \notin Running, call[a].pc \in Running,
         log' = log \union {e}, e.tool = call[a].tool, UNCHANGED <<budget, counts>>
  PROVE  Charged'
<1>0. /\ ToolsTyped /\ Charged /\ budget \in Nat /\ counts \in [Tools -> Nat]
      /\ call \in [ToolAgents -> Calls]
  BY DEF ToolsInv, ToolsTyped
<1>1. ASSUME NEW b \in ToolAgents PROVE call'[b] = IF b = a THEN x ELSE call[b]
  BY <1>0
<1>2. Busy' = Busy \ {a} /\ a \in Busy
  BY <1>1 DEF Busy
<1>3. Ran(log)' \subseteq Ran(log) \union {e}
  BY DEF Ran
<1>4. Cardinality(Busy') = Cardinality(Busy) - 1 /\ Cardinality(Busy) \in Nat
      /\ Cardinality(Ran(log)) \in Nat
  BY <1>0, <1>2, BusyFinite, OneLess
<1>5. Cardinality(Ran(log)') <= Cardinality(Ran(log)) + 1 /\ Cardinality(Ran(log)') \in Nat
  <2>1. IsFiniteSet(Ran(log))
    BY <1>0, BusyFinite
  <2> QED
    BY <1>3, <2>1, OneMore
<1>6. Cardinality(Ran(log)') + Cardinality(Busy') <= budget' /\ budget' <= MaxCalls
  BY <1>0, <1>4, <1>5 DEF Charged, Limits
<1>7. ASSUME NEW u \in Tools
      PROVE  /\ Cardinality(RanOf(log, u)') + Cardinality(BusyWith(u)') <= counts'[u]
             /\ Cardinality(RanOf(log, u)') + Cardinality(BusyWith(u)') <= MaxDuplicates
  <2>2. /\ IsFiniteSet(BusyWith(u)) /\ Cardinality(BusyWith(u)) \in Nat
        /\ IsFiniteSet(RanOf(log, u)) /\ Cardinality(RanOf(log, u)) \in Nat
    BY <1>0, CallsFinite
  <2>3. /\ Cardinality(RanOf(log, u)) + Cardinality(BusyWith(u)) <= counts[u]
        /\ Cardinality(RanOf(log, u)) + Cardinality(BusyWith(u)) <= MaxDuplicates
        /\ counts[u] \in Nat /\ counts'[u] = counts[u]
    BY <1>0 DEF Charged
  <2>4. CASE u = e.tool
    <3>1. BusyWith(u)' = BusyWith(u) \ {a} /\ a \in BusyWith(u)
      BY <1>1, <1>2, <2>4 DEF BusyWith, Busy
    <3>2. RanOf(log, u)' \subseteq RanOf(log, u) \union {e}
      BY <1>3 DEF RanOf
    <3>4. Cardinality(RanOf(log, u)') <= Cardinality(RanOf(log, u)) + 1
          /\ Cardinality(RanOf(log, u)') \in Nat
      BY <2>2, <3>2, OneMore
    <3>5. Cardinality(BusyWith(u)') = Cardinality(BusyWith(u)) - 1
      BY <2>2, <3>1, OneLess
    <3> QED
      BY <2>2, <2>3, <3>4, <3>5 DEF Limits
  <2>5. CASE u # e.tool
    <3>1. BusyWith(u)' \subseteq BusyWith(u) /\ RanOf(log, u)' = RanOf(log, u)
      BY <1>1, <1>2, <2>5 DEF BusyWith, Busy, RanOf, Ran
    <3>2. Cardinality(BusyWith(u)') <= Cardinality(BusyWith(u)) /\ Cardinality(BusyWith(u)') \in Nat
      BY <2>2, <3>1, NoMore
    <3> QED
      BY <2>2, <2>3, <3>1, <3>2 DEF Limits
  <2> QED
    BY <2>4, <2>5
<1> QED
  BY <1>6, <1>7 DEF Charged

\* What is told of an entry stays told when nothing more is told of it.
LEMMA ToldStays ==
  ASSUME NEW entry, IsTold(entry), cancelled \subseteq cancelled', events \subseteq events',
         \A e \in events' : e.id = entry.id => e \in events
  PROVE  IsTold(entry)'
BY DEF IsTold

\* A proposal has a number that nothing bears yet.
LEMMA NumberIsFresh ==
  ASSUME ToolsInv, NEW a \in ToolAgents
  PROVE  /\ Tooling!NextId(a) \in Ids /\ ~Used(Tooling!NextId(a))
         /\ Tooling!NextId(a) = <<a, proposals[a] + 1>> /\ Tooling!NextId(a) # <<>>
BY DEF ToolsInv, ToolsTyped, Tooling!NextId, Ids, Used

\* A proposal that is rejected, that ends the agent, that is answered at once or
\* that begins a call.
LEMMA ProposalTold ==
  ASSUME ToolsInv, NEW a \in ToolAgents, NEW x \in Calls, NEW kinds,
         call[a].id = <<>>, call' = [call EXCEPT ![a] = x],
         proposals' = [proposals EXCEPT ![a] = @ + 1],
         events' = events \union {[id |-> Tooling!NextId(a), kind |-> k] : k \in kinds},
         UNCHANGED <<ledgered, cancelled, saved>>,
         \/ x.id = <<>> /\ log' = log
         \/ x.id = Tooling!NextId(a) /\ kinds = {"started"} /\ log' = log
         \/ /\ x.id = <<>> /\ kinds = {"rejected"}
            /\ \E t \in Tools : log' = log \union {[id |-> Tooling!NextId(a), tool |-> t,
                                                    status |-> "REJECTED"]}
  PROVE  TraceFits' /\ Grounded'
<1>0. /\ call \in [ToolAgents -> Calls] /\ proposals \in [ToolAgents -> Nat]
      /\ TraceFits /\ Grounded /\ log \in SUBSET LogEntries /\ saved.log \in SUBSET LogEntries
  BY DEF ToolsInv, ToolsTyped
<1>1. PICK new \in Ids : /\ new = Tooling!NextId(a) /\ ~Used(new)
                          /\ new = <<a, proposals[a] + 1>> /\ new # <<>>
  BY NumberIsFresh
<1>2. ASSUME NEW b \in ToolAgents PROVE call'[b] = IF b = a THEN x ELSE call[b]
  BY <1>0
<1>3. ASSUME NEW id PROVE Used(id)' <=> Used(id) \/ id = new
  <2>1. ASSUME NEW b \in ToolAgents
        PROVE  proposals'[b] = IF b = a THEN proposals[b] + 1 ELSE proposals[b]
    BY <1>0
  <2>2. ASSUME NEW b \in ToolAgents, NEW n \in Nat
        PROVE  1 <= n /\ n <= proposals'[b] <=>
                 (1 <= n /\ n <= proposals[b]) \/ (b = a /\ n = proposals[a] + 1)
    BY <1>0, <2>1
  <2>3. CASE id \in Ids
    <3>1. PICK b \in ToolAgents, n \in Nat : id = <<b, n>>
      BY <2>3 DEF Ids
    <3> QED
      BY <1>1, <2>2, <3>1 DEF Used, Ids
  <2>4. CASE id \notin Ids
    BY <1>1, <2>4 DEF Used
  <2> QED
    BY <2>3, <2>4
<1>4. ASSUME NEW e \in events' PROVE e \in events \/ e.id = new
  BY <1>1, <1>4
<1>5. ASSUME NEW e \in events', e.id # new PROVE e \in events
  BY <1>4, <1>5
<1>6. ASSUME NEW e \in log' PROVE e \in log \/ (e.id = new /\ e.status = "REJECTED"
                                               /\ x.id = <<>> /\ kinds = {"rejected"})
  BY <1>1, <1>6
<1>7. x.id = <<>> \/ x.id = new
  BY <1>1
<1>8. \A b \in ToolAgents : call'[b].id # <<>> => Used(call[b].id)' /\ call'[b].id[1] = b
  <2> SUFFICES ASSUME NEW b \in ToolAgents, call'[b].id # <<>>
               PROVE  Used(call[b].id)' /\ call'[b].id[1] = b
    OBVIOUS
  <2>1. CASE b = a
    <3>1. call'[b].id = new /\ new[1] = a /\ Used(new)'
      BY <1>1, <1>2, <1>3, <1>7, <2>1
    <3> QED
      BY <2>1, <3>1 DEF Used
  <2>2. CASE b # a
    <3>1. PICK id : id = call[b].id
      OBVIOUS
    <3>2. call'[b].id = id /\ Used(id) /\ id[1] = b
      BY <1>0, <1>2, <2>2, <3>1 DEF TraceFits
    <3>3. Used(id)'
      BY <1>3, <3>2
    <3> QED
      BY <3>2, <3>3 DEF Used
  <2> QED
    BY <2>1, <2>2
<1>9. \A e \in log \union saved.log : Used(e.id) /\ e.id # new
  BY <1>0, <1>1 DEF TraceFits
<1>10. \A e \in events : Used(e.id) /\ e.id # new
  BY <1>0, <1>1 DEF TraceFits
<1>11. \A b \in ToolAgents : call[b].id # new
  BY <1>0, <1>1 DEF TraceFits
<1>12. ASSUME NEW entry, entry.id # new, IsTold(entry) PROVE IsTold(entry)'
  BY <1>5, <1>12, ToldStays
<1>13. \A e \in events' : Used(e.id)'
  BY <1>3, <1>4, <1>10
<1>14. \A entry \in log' \union saved'.log : Used(entry.id)'
  BY <1>3, <1>6, <1>9
<1>15. \A b \in ToolAgents : \A e \in events' : e.id = call'[b].id => e.kind = "started"
  <2> SUFFICES ASSUME NEW b \in ToolAgents, NEW e \in events', e.id = call'[b].id
               PROVE  e.kind = "started"
    OBVIOUS
  <2>1. CASE b = a /\ x.id = new
    <3>1. e \notin events
      BY <1>2, <1>10, <2>1
    <3>2. kinds = {"started"}
      BY <1>1, <2>1
    <3> QED
      BY <3>1, <3>2
  <2>2. CASE b = a /\ x.id = <<>>
    <3>1. e.id # <<>>
      BY <1>1, <1>4, <1>10 DEF Used, Ids
    <3> QED
      BY <1>2, <2>2, <3>1
  <2>3. CASE b # a
    BY <1>0, <1>2, <1>4, <1>11, <2>3 DEF TraceFits
  <2> QED
    BY <1>7, <2>1, <2>2, <2>3
<1>16. \A b \in ToolAgents : \A entry \in log' :
         entry.id = call'[b].id => Says(call'[b].pc, entry.status)
  <2> SUFFICES ASSUME NEW b \in ToolAgents, NEW entry \in log', entry.id = call'[b].id
               PROVE  Says(call'[b].pc, entry.status)
    OBVIOUS
  <2>1. CASE b # a
    BY <1>0, <1>2, <1>6, <1>11, <2>1 DEF TraceFits
  <2>2. CASE b = a
    <3>1. entry.id = x.id
      BY <1>2, <2>2
    <3>2. entry \in log
      BY <1>1, <1>6, <3>1
    <3>3. x.id = <<>>
      BY <1>7, <1>9, <3>1, <3>2
    <3> QED
      BY <1>0, <1>9, <3>1, <3>2, <3>3 DEF Used, Ids
  <2> QED
    BY <2>1, <2>2
<1>17. \A entry \in log' : IsTold(entry)' \/ \E b \in ToolAgents : entry.id = call'[b].id
  <2> SUFFICES ASSUME NEW entry \in log'
               PROVE  IsTold(entry)' \/ \E b \in ToolAgents : entry.id = call'[b].id
    OBVIOUS
  <2>1. CASE entry \in log
    <3>1. CASE IsTold(entry)
      BY <1>9, <1>12, <2>1, <3>1
    <3>2. ASSUME NEW b \in ToolAgents, entry.id = call[b].id
          PROVE  entry.id = call'[b].id
      <4>1. b # a
        BY <1>0, <1>9, <2>1, <3>2 DEF Used, Ids
      <4> QED
        BY <1>2, <3>2, <4>1
    <3> QED
      BY <1>0, <2>1, <3>1, <3>2 DEF TraceFits
  <2>2. CASE entry \notin log
    <3>1. entry.id = new /\ entry.status = "REJECTED" /\ kinds = {"rejected"}
      BY <1>6, <2>2
    <3>2. /\ \E e \in events' : e.id = new /\ e.kind = "rejected"
          /\ \A e \in events' : e.id = new => e.kind = "rejected"
      <4>1. [id |-> new, kind |-> "rejected"] \in events'
        BY <1>1, <3>1
      <4>2. \A e \in events' : e.id = new => e.kind = "rejected"
        BY <1>1, <1>10, <3>1
      <4> QED
        BY <4>1, <4>2
    <3> QED
      BY <3>1, <3>2 DEF IsTold, EndOf
  <2> QED
    BY <2>1, <2>2
<1>18. \A entry \in saved'.log :
         IsTold(entry)' /\ \A b \in ToolAgents : entry.id # call'[b].id
  <2> SUFFICES ASSUME NEW entry \in saved.log
               PROVE  IsTold(entry)' /\ \A b \in ToolAgents : entry.id # call'[b].id
    OBVIOUS
  <2>1. IsTold(entry) /\ entry.id # new /\ entry.id # <<>>
    BY <1>0, <1>9 DEF TraceFits, Used, Ids
  <2>2. IsTold(entry)'
    BY <1>12, <2>1
  <2>3. ASSUME NEW b \in ToolAgents PROVE entry.id # call'[b].id
    BY <1>0, <1>2, <1>7, <2>1 DEF TraceFits
  <2> QED
    BY <2>2, <2>3
<1>19. TraceFits'
  BY <1>8, <1>13, <1>14, <1>15, <1>16, <1>17, <1>18 DEF TraceFits
<1>20. Grounded'
  BY <1>0 DEF Grounded
<1> QED
  BY <1>19, <1>20

\* A step inside a call: it goes on, or its result is logged.
LEMMA CallTold ==
  ASSUME ToolsInv, NEW a \in ToolAgents, NEW x \in Calls,
         call' = [call EXCEPT ![a] = x], x.id = call[a].id, call[a].pc \in Running,
         UNCHANGED <<proposals, events, ledgered, cancelled, saved>>,
         \/ log' = log
         \/ \E e \in LogEntries : /\ log' = log \union {e} /\ e.id = call[a].id
                                  /\ Says(x.pc, e.status)
  PROVE  TraceFits' /\ Grounded'
<1>0. /\ call \in [ToolAgents -> Calls] /\ TraceFits /\ Grounded /\ call[a].id # <<>>
  BY DEF ToolsInv, ToolsTyped, Running
<1>2. ASSUME NEW b \in ToolAgents
      PROVE  call'[b].id = call[b].id /\ (b # a => call'[b] = call[b])
  BY <1>0
<1>3. Used(call[a].id) /\ \A id : Used(id)' <=> Used(id)
  BY <1>0 DEF TraceFits, Used
<1>4. ASSUME NEW entry PROVE IsTold(entry)' <=> IsTold(entry)
  BY DEF IsTold
<1>5. ASSUME NEW e \in log PROVE e.id # call[a].id
  BY <1>0 DEF TraceFits, Says, Running, Told
<1>6. ASSUME NEW e \in log'
      PROVE  e \in log \/ (e.id = call[a].id /\ Says(x.pc, e.status))
  OBVIOUS
<1>7. \A b \in ToolAgents : b # a => call[b].id # call[a].id
  BY <1>0 DEF TraceFits
<1>8. \A b \in ToolAgents : \A entry \in log' :
        entry.id = call'[b].id => Says(call'[b].pc, entry.status)
  BY <1>0, <1>2, <1>5, <1>6, <1>7 DEF TraceFits
<1>9. \A entry \in log' : IsTold(entry)' \/ \E b \in ToolAgents : entry.id = call'[b].id
  BY <1>0, <1>2, <1>4, <1>6 DEF TraceFits
<1>10. \A entry \in saved'.log : IsTold(entry)' /\ \A b \in ToolAgents : entry.id # call'[b].id
  BY <1>0, <1>2, <1>4 DEF TraceFits
<1>11. \A b \in ToolAgents : call'[b].id # <<>> => Used(call[b].id)' /\ call'[b].id[1] = b
  <2> SUFFICES ASSUME NEW b \in ToolAgents, call[b].id # <<>>
               PROVE  Used(call[b].id)' /\ call'[b].id[1] = b
    BY <1>2
  <2>1. PICK id : id = call[b].id
    OBVIOUS
  <2>2. call'[b].id = id /\ Used(id) /\ id[1] = b
    BY <1>0, <1>2, <2>1 DEF TraceFits
  <2>3. Used(id)'
    BY <1>3, <2>2
  <2> QED
    BY <2>2, <2>3 DEF Used
<1>12. /\ \A entry \in log' \union saved'.log : Used(entry.id)'
       /\ \A e \in events' : Used(e.id)'
       /\ \A b \in ToolAgents : \A e \in events' : e.id = call'[b].id => e.kind = "started"
  BY <1>0, <1>2, <1>3, <1>6 DEF TraceFits
<1>13. TraceFits'
  BY <1>8, <1>9, <1>10, <1>11, <1>12 DEF TraceFits
<1>14. Grounded'
  BY <1>0 DEF Grounded
<1> QED
  BY <1>13, <1>14

\* The end of a call is told, or the call is cancelled.
LEMMA CallOverTold ==
  ASSUME ToolsInv, NEW a \in ToolAgents, NEW x \in Calls, NEW kinds,
         call' = [call EXCEPT ![a] = x], x.id = <<>>, call[a].id # <<>>,
         UNCHANGED <<proposals, log, saved>>,
         events' = events \union {[id |-> call[a].id, kind |-> k] : k \in kinds},
         cancelled \subseteq cancelled',
         \/ call[a].id \in cancelled'
         \/ \A entry \in log : entry.id = call[a].id => kinds = {EndOf(entry.status)},
         \A id \in ledgered' \ ledgered :
           \E entry \in log : entry.id = id /\ entry.status = "SUCCEEDED"
  PROVE  TraceFits' /\ Grounded'
<1> DEFINE held == call[a].id
<1>0. call \in [ToolAgents -> Calls] /\ TraceFits /\ Grounded
  BY DEF ToolsInv, ToolsTyped
<1>1. Used(held) /\ held # <<>> /\ \A b \in ToolAgents : b # a => call[b].id # held
  BY <1>0 DEF TraceFits
<1> HIDE DEF held
<1>2. ASSUME NEW b \in ToolAgents PROVE call'[b] = IF b = a THEN x ELSE call[b]
  BY <1>0
<1>3. \A id : Used(id)' <=> Used(id)
  BY DEF Used
<1>4. ASSUME NEW e \in events' PROVE e \in events \/ e.id = held
  BY <1>4 DEF held
<1>5. ASSUME NEW entry, entry.id # held, IsTold(entry) PROVE IsTold(entry)'
  BY <1>4, <1>5, ToldStays
<1>6. ASSUME NEW entry \in log, entry.id = held PROVE IsTold(entry)'
  <2>1. CASE held \in cancelled'
    BY <1>6, <2>1 DEF IsTold
  <2>2. CASE \A e \in log : e.id = call[a].id => kinds = {EndOf(e.status)}
    <3>1. kinds = {EndOf(entry.status)}
      BY <1>6, <2>2 DEF held
    <3>2. [id |-> held, kind |-> EndOf(entry.status)] \in events'
      BY <3>1 DEF held
    <3>3. \A e \in events : e.id = held => e.kind = "started"
      BY <1>0 DEF TraceFits, held
    <3>4. \A e \in events' : e.id = held => e.kind \in {"started", EndOf(entry.status)}
      BY <3>1, <3>3 DEF held
    <3> QED
      BY <1>6, <3>2, <3>4 DEF IsTold
  <2> QED
    BY <2>1, <2>2 DEF held
<1>7. \A entry \in log' : IsTold(entry)' \/ \E b \in ToolAgents : entry.id = call'[b].id
  <2> SUFFICES ASSUME NEW entry \in log
               PROVE  IsTold(entry)' \/ \E b \in ToolAgents : entry.id = call'[b].id
    OBVIOUS
  <2>1. CASE entry.id = held
    BY <1>6, <2>1
  <2>2. CASE entry.id # held
    <3>1. CASE IsTold(entry)
      BY <1>5, <2>2, <3>1
    <3>2. ASSUME NEW b \in ToolAgents, entry.id = call[b].id
          PROVE  entry.id = call'[b].id
      BY <1>2, <2>2, <3>2 DEF held
    <3> QED
      BY <1>0, <3>1, <3>2 DEF TraceFits
  <2> QED
    BY <2>1, <2>2
<1>8. \A entry \in saved'.log : IsTold(entry)' /\ \A b \in ToolAgents : entry.id # call'[b].id
  <2> SUFFICES ASSUME NEW entry \in saved.log
               PROVE  IsTold(entry)' /\ \A b \in ToolAgents : entry.id # call'[b].id
    OBVIOUS
  <2>1. IsTold(entry) /\ entry.id # held /\ entry.id # <<>>
    BY <1>0 DEF TraceFits, Used, Ids, held
  <2>2. IsTold(entry)'
    BY <1>5, <2>1
  <2> QED
    BY <1>0, <1>2, <2>1, <2>2 DEF TraceFits
<1>9. \A b \in ToolAgents : call'[b].id # <<>> => Used(call[b].id)' /\ call'[b].id[1] = b
  <2> SUFFICES ASSUME NEW b \in ToolAgents, call'[b].id # <<>>
               PROVE  Used(call[b].id)' /\ call'[b].id[1] = b
    OBVIOUS
  <2>1. PICK id : id = call[b].id
    OBVIOUS
  <2>2. call'[b].id = id /\ Used(id) /\ id[1] = b
    BY <1>0, <1>2, <2>1 DEF TraceFits
  <2>3. Used(id)'
    BY <1>3, <2>2
  <2> QED
    BY <2>2, <2>3 DEF Used
<1>10. /\ \A entry \in log' \union saved'.log : Used(entry.id)'
       /\ \A e \in events' : Used(e.id)'
  BY <1>0, <1>1, <1>3, <1>4 DEF TraceFits
<1>11. \A b \in ToolAgents : \A e \in events' : e.id = call'[b].id => e.kind = "started"
  <2> SUFFICES ASSUME NEW b \in ToolAgents, NEW e \in events', e.id = call'[b].id
               PROVE  e.kind = "started"
    OBVIOUS
  <2>1. e.id # <<>>
    BY <1>3, <1>10 DEF Used, Ids
  <2>2. b # a /\ call'[b] = call[b] /\ e.id # held
    BY <1>1, <1>2, <2>1
  <2> QED
    BY <1>0, <1>4, <2>2 DEF TraceFits
<1>12. \A b \in ToolAgents : \A entry \in log' :
         entry.id = call'[b].id => Says(call'[b].pc, entry.status)
  <2> SUFFICES ASSUME NEW b \in ToolAgents, NEW entry \in log, entry.id = call'[b].id
               PROVE  Says(call'[b].pc, entry.status)
    OBVIOUS
  <2>1. entry.id # <<>>
    BY <1>0 DEF TraceFits, Used, Ids
  <2>2. b # a /\ call'[b] = call[b]
    BY <1>2, <2>1
  <2> QED
    BY <1>0, <2>2 DEF TraceFits
<1>13. TraceFits'
  BY <1>7, <1>8, <1>9, <1>10, <1>11, <1>12 DEF TraceFits
<1>14. Grounded'
  BY <1>0 DEF Grounded
<1> QED
  BY <1>13, <1>14

\* A checkpoint is taken when no call is under way or about to be told.
LEMMA CheckpointKeeps ==
  ASSUME Limits, ToolsInv, Tooling!export_snapshot
  PROVE  ToolsInv'
<1>1. /\ UNCHANGED <<budget, counts, log, ledgered, call, proposals, events, cancelled>>
      /\ saved' = [budget |-> budget, counts |-> counts, log |-> log, ledgered |-> ledgered]
      /\ \A a \in ToolAgents : call[a].pc \in {"idle", "over"}
  BY DEF Tooling!export_snapshot, Tooling!Snapshot, Tooling!run
<1>2. ledgered \subseteq Ids
  BY DEF ToolsInv, Grounded, ToolsTyped, LogEntries
<1>3. /\ saved'.budget = budget /\ saved'.counts = counts /\ saved'.log = log
      /\ saved'.ledgered = ledgered
  BY <1>1
<1>4. ToolsTyped'
  BY <1>1, <1>2, <1>3 DEF ToolsInv, ToolsTyped
<1>5. Charged'
  <2>1. Busy' = Busy /\ Ran(log)' = Ran(log)
    BY <1>1 DEF Busy, Ran
  <2>2. ASSUME NEW t \in Tools PROVE BusyWith(t)' = BusyWith(t) /\ RanOf(log, t)' = RanOf(log, t)
    BY <1>1, <2>1 DEF BusyWith, RanOf
  <2> QED
    BY <1>1, <2>1, <2>2 DEF ToolsInv, Charged
<1>6. ChargedThen'
  <2>1. Cardinality(Ran(log)) <= budget
    BY BusyFinite DEF ToolsInv, Charged, ToolsTyped
  <2>2. ASSUME NEW t \in Tools
        PROVE  Cardinality(RanOf(log, t)) <= counts[t] /\ Cardinality(RanOf(log, t)) <= MaxDuplicates
    BY <2>2, CallsFinite DEF ToolsInv, Charged, ToolsTyped, Limits
  <2>3. Ran(saved.log)' = Ran(log) /\ \A t \in Tools : RanOf(saved.log, t)' = RanOf(log, t)
    BY <1>3 DEF Ran, RanOf
  <2> QED
    BY <1>3, <2>1, <2>2, <2>3 DEF ToolsInv, Charged, ChargedThen
<1>7. \A a \in ToolAgents : call[a].id = <<>>
  BY <1>1 DEF ToolsInv, ToolsTyped
<1>8. \A entry \in log : IsTold(entry) /\ entry.id # <<>>
  BY <1>7 DEF ToolsInv, TraceFits, Used, Ids
<1>9. ASSUME NEW entry PROVE IsTold(entry)' <=> IsTold(entry)
  BY <1>1 DEF IsTold
<1>10. \A id : Used(id)' <=> Used(id)
  BY <1>1 DEF Used
<1>11. TraceFits'
  <2>1. \A entry \in log' \union saved'.log : Used(entry.id)'
    BY <1>1, <1>3, <1>10 DEF ToolsInv, TraceFits
  <2>2. \A e \in events' : Used(e.id)'
    BY <1>1, <1>10 DEF ToolsInv, TraceFits
  <2> QED
    BY <1>1, <1>3, <1>7, <1>8, <1>9, <2>1, <2>2 DEF ToolsInv, TraceFits
<1>12. Grounded'
  BY <1>1, <1>3 DEF ToolsInv, Grounded
<1> QED
  BY <1>4, <1>5, <1>6, <1>11, <1>12 DEF ToolsInv

\* A run that resumes has the checkpoint's limits and log; the calls that were
\* under way count as cancelled.
LEMMA ResumeKeeps ==
  ASSUME Limits, ToolsInv, Tooling!_restore_snapshot
  PROVE  ToolsInv'
<1>1. /\ budget' = saved.budget /\ counts' = saved.counts /\ log' = saved.log
      /\ ledgered' = saved.ledgered
      /\ call' = [a \in ToolAgents |-> Tooling!NoCall]
      /\ cancelled \subseteq cancelled'
      /\ UNCHANGED <<proposals, events, saved>>
  BY DEF Tooling!_restore_snapshot, Tooling!Resumed
<1>2. Tooling!NoCall \in Calls /\ Tooling!NoCall.pc = "idle" /\ Tooling!NoCall.id = <<>>
  BY DEF Tooling!NoCall, Calls
<1>3. ToolsTyped'
  BY <1>1, <1>2 DEF ToolsInv, ToolsTyped
<1>4. Busy' = {} /\ \A t \in Tools : BusyWith(t)' = {}
  BY <1>1, <1>2 DEF Busy, BusyWith, Running
<1>5. Ran(log)' = Ran(saved.log) /\ \A t \in Tools : RanOf(log, t)' = RanOf(saved.log, t)
  BY <1>1 DEF Ran, RanOf
<1>6. Charged'
  <2>1. IsFiniteSet(Ran(saved.log)) /\ \A t \in Tools : IsFiniteSet(RanOf(saved.log, t))
    <3>1. Ran(saved.log) \subseteq saved.log
          /\ \A t \in Tools : RanOf(saved.log, t) \subseteq saved.log
      BY DEF Ran, RanOf
    <3> QED
      BY <3>1, FS_Subset DEF ToolsInv, ToolsTyped
  <2>2. /\ Cardinality(Ran(saved.log)) \in Nat
        /\ \A t \in Tools : Cardinality(RanOf(saved.log, t)) \in Nat
    BY <2>1, FS_CardinalityType
  <2> QED
    BY <1>1, <1>4, <1>5, <2>2, FS_EmptySet DEF ToolsInv, ChargedThen, Charged
<1>7. ChargedThen'
  <2>1. Ran(saved.log)' = Ran(saved.log)
        /\ \A t \in Tools : RanOf(saved.log, t)' = RanOf(saved.log, t)
    BY <1>1 DEF Ran, RanOf
  <2> QED
    BY <1>1, <2>1 DEF ToolsInv, ChargedThen
<1>8. TraceFits'
  <2>1. ASSUME NEW entry, IsTold(entry) PROVE IsTold(entry)'
    BY <1>1, <2>1, ToldStays
  <2>2. \A id : Used(id)' <=> Used(id)
    BY <1>1 DEF Used
  <2>3. \A a \in ToolAgents : call'[a].id = <<>>
    BY <1>1, <1>2
  <2>4. /\ \A e \in events' : Used(e.id)' /\ e.id # <<>>
        /\ \A entry \in log' \union saved'.log : Used(entry.id)' /\ entry.id # <<>>
    BY <1>1, <2>2 DEF ToolsInv, TraceFits, Used, Ids
  <2>5. \A entry \in saved.log : IsTold(entry)'
    BY <2>1 DEF ToolsInv, TraceFits
  <2> QED
    BY <1>1, <2>3, <2>4, <2>5 DEF TraceFits
<1>9. Grounded'
  BY <1>1 DEF ToolsInv, Grounded
<1> QED
  BY <1>3, <1>6, <1>7, <1>8, <1>9 DEF ToolsInv

\* The types after a step that moves one agent at most.
LEMMA ToolsStayTyped ==
  ASSUME ToolsTyped, NEW a \in ToolAgents, NEW x \in Calls, call' = [call EXCEPT ![a] = x],
         x.pc \in {"idle", "over"} <=> x.id = <<>>, x.id # <<>> => x.tool \in Tools,
         budget' \in Nat, counts' \in [Tools -> Nat], proposals' \in [ToolAgents -> Nat],
         log' = log \/ \E e \in LogEntries : log' = log \union {e}, saved' = saved
  PROVE  ToolsTyped'
<1>1. log' \in SUBSET LogEntries /\ IsFiniteSet(log')
  <2>1. CASE log' = log
    BY <2>1 DEF ToolsTyped
  <2>2. ASSUME NEW e \in LogEntries, log' = log \union {e}
        PROVE  log' \in SUBSET LogEntries /\ IsFiniteSet(log')
    BY <2>2, OneMore DEF ToolsTyped
  <2> QED
    BY <2>1, <2>2
<1> QED
  BY <1>1 DEF ToolsTyped

\* An agent goes to another place with the call it has.
LEMMA CallMoves ==
  ASSUME NEW y \in Calls, NEW place \in {"idle", "over"} \union Running \union Told
  PROVE  \E x \in Calls : /\ x = [y EXCEPT !.pc = place] /\ x.pc = place
                          /\ x.id = y.id /\ x.tool = y.tool
<1> DEFINE z == [y EXCEPT !.pc = place]
<1>1. z \in Calls /\ z.pc = place /\ z.id = y.id /\ z.tool = y.tool
  BY DEF Calls
<1> QED
  BY <1>1

\* What every proposal does.
LEMMA ProposalTyped ==
  ASSUME ToolsInv, NEW a \in ToolAgents, Tooling!Proposes(a)
  PROVE  /\ call[a] \in Calls /\ call[a].pc = "idle" /\ call[a].id = <<>>
         /\ proposals' = [proposals EXCEPT ![a] = @ + 1]
         /\ proposals' \in [ToolAgents -> Nat]
         /\ call = [call EXCEPT ![a] = call[a]]
BY DEF ToolsInv, ToolsTyped, Tooling!Proposes

\* The guard counts.
LEMMA GuardTyped ==
  ASSUME ToolsInv, NEW t \in Tools, Tooling!check_tool_call(t)
  PROVE  /\ counts' = [counts EXCEPT ![t] = @ + 1] /\ counts' \in [Tools -> Nat]
         /\ \A u \in Tools : counts'[u] >= counts[u]
BY DEF ToolsInv, ToolsTyped, Tooling!check_tool_call

\* A step that leaves the checkpoint leaves what holds of it.
LEMMA ChargedThenStays ==
  ASSUME ChargedThen, saved' = saved
  PROVE  ChargedThen'
<1>1. Ran(saved.log)' = Ran(saved.log)
      /\ \A t \in Tools : RanOf(saved.log, t)' = RanOf(saved.log, t)
  BY DEF Ran, RanOf
<1> QED
  BY <1>1 DEF ChargedThen

\* A proposal that does not become a call.
LEMMA RefusalKeeps ==
  ASSUME Limits, ToolsInv, NEW a \in ToolAgents, NEW t \in Tools,
         Tooling!GuardTrips(a, t) \/ Tooling!Reject(a, t) \/ Tooling!OverBudget(a, t)
  PROVE  ToolsInv'
<1> DEFINE new == Tooling!NextId(a)
<1>1. /\ Tooling!Proposes(a) /\ Tooling!check_tool_call(t)
      /\ UNCHANGED <<budget, ledgered, cancelled, saved>>
  BY DEF Tooling!GuardTrips, Tooling!Reject, Tooling!OverBudget
<1>2. /\ call[a] \in Calls /\ call[a].pc = "idle" /\ call[a].id = <<>>
      /\ proposals' = [proposals EXCEPT ![a] = @ + 1]
      /\ proposals' \in [ToolAgents -> Nat] /\ call = [call EXCEPT ![a] = call[a]]
  BY <1>1, ProposalTyped
<1>3. /\ counts' = [counts EXCEPT ![t] = @ + 1] /\ counts' \in [Tools -> Nat]
      /\ \A u \in Tools : counts'[u] >= counts[u]
  BY <1>1, GuardTyped
<1>4. new \in Ids /\ budget \in Nat /\ ToolsTyped /\ ChargedThen
      /\ call \in [ToolAgents -> Calls]
  BY NumberIsFresh DEF ToolsInv, ToolsTyped
<1> HIDE DEF new
<1>5. PICK x \in Calls : /\ x.pc \in {"idle", "over"} /\ x.id = <<>>
                         /\ call' = [call EXCEPT ![a] = x]
  <2>1. CASE Tooling!OverBudget(a, t)
    <3>0. "over" \in {"idle", "over"} \union Running \union Told
      OBVIOUS
    <3>1. PICK x \in Calls : x = [call[a] EXCEPT !.pc = "over"] /\ x.pc = "over" /\ x.id = <<>>
      <4>1. PICK y \in Calls : y = call[a] /\ y.id = <<>>
        BY <1>2
      <4>2. LET x == [y EXCEPT !.pc = "over"]
            IN x \in Calls /\ x.pc = "over" /\ x.id = y.id /\ x.tool = y.tool
        BY <3>0, CallMoves
      <4> QED
        BY <4>1, <4>2
    <3>2. call' = [call EXCEPT ![a] = x]
      BY <2>1, <3>1 DEF Tooling!OverBudget, Tooling!Goes
    <3> QED
      BY <3>1, <3>2
  <2>2. CASE Tooling!GuardTrips(a, t) \/ Tooling!Reject(a, t)
    BY <1>2, <2>2 DEF Tooling!GuardTrips, Tooling!Reject
  <2> QED
    BY <2>1, <2>2
<1>6. PICK kinds \in {{}, {"rejected"}} :
        /\ events' = events \union {[id |-> Tooling!NextId(a), kind |-> k] : k \in kinds}
        /\ \/ log' = log
           \/ kinds = {"rejected"} /\ log' = log \union {[id |-> Tooling!NextId(a), tool |-> t,
                                                          status |-> "REJECTED"]}
  BY DEF Tooling!GuardTrips, Tooling!Reject, Tooling!OverBudget, Tooling!Rejected
<1>7. [id |-> new, tool |-> t, status |-> "REJECTED"] \in LogEntries
  BY <1>4 DEF LogEntries
<1>8. ToolsTyped'
  BY <1>1, <1>2, <1>3, <1>4, <1>5, <1>6, <1>7, ToolsStayTyped DEF new
<1>9. Charged'
  <2>1. ASSUME NEW b \in ToolAgents PROVE call'[b] = IF b = a THEN x ELSE call[b]
    BY <1>4, <1>5
  <2>2. Busy' = Busy
    BY <1>2, <1>5, <2>1 DEF Busy, Running
  <2>3. \A u \in Tools : BusyWith(u)' = BusyWith(u)
    BY <1>2, <1>5, <2>1, <2>2 DEF BusyWith, Busy, Running
  <2>4. Ran(log)' = Ran(log)
    BY <1>6 DEF Ran
  <2> QED
    BY <1>1, <1>3, <2>2, <2>3, <2>4, ChargesStay
<1>10. TraceFits' /\ Grounded'
  BY <1>1, <1>2, <1>5, <1>6, ProposalTold
<1>11. ChargedThen'
  BY <1>1, <1>4, ChargedThenStays
<1> QED
  BY <1>8, <1>9, <1>10, <1>11 DEF ToolsInv

\* A skill's resource is charged when it is loaded.
LEMMA SkillKeeps ==
  ASSUME Limits, ToolsInv, NEW a \in ToolAgents, NEW t, NEW s,
         Tooling!_execute_skill_proposal(a, t, s)
  PROVE  ToolsInv'
<1>1. /\ Tooling!Proposes(a) /\ UNCHANGED <<counts, log, ledgered, call, cancelled, saved>>
      /\ budget' = budget \/ (budget' = budget + 1 /\ budget < MaxCalls)
  <2>1. budget \in Nat /\ MaxCalls \in Nat
    BY DEF ToolsInv, ToolsTyped, Limits
  <2> QED
    BY <2>1 DEF Tooling!_execute_skill_proposal
<1>2. /\ call[a] \in Calls /\ call[a].pc = "idle" /\ call[a].id = <<>>
      /\ proposals' = [proposals EXCEPT ![a] = @ + 1]
      /\ proposals' \in [ToolAgents -> Nat] /\ call = [call EXCEPT ![a] = call[a]]
  BY <1>1, ProposalTyped
<1>3. budget \in Nat /\ counts \in [Tools -> Nat] /\ ToolsTyped /\ ChargedThen
  BY DEF ToolsInv, ToolsTyped
<1>4. \E kinds : events' = events \union {[id |-> Tooling!NextId(a), kind |-> k] : k \in kinds}
  <2>1. CASE budget >= MaxCalls
    <3>1. events' = events \union {[id |-> Tooling!NextId(a), kind |-> k] : k \in {"rejected"}}
      BY <2>1 DEF Tooling!_execute_skill_proposal, Tooling!Rejected
    <3> QED
      BY <3>1
  <2>2. CASE ~(budget >= MaxCalls)
    <3> DEFINE ok == IF t = "load_skill" THEN s \in Skills ELSE s \in loaded[a]
    <3>1. events' = events \union {[id |-> Tooling!NextId(a), kind |-> k] :
                                    k \in {"started", IF ok THEN "completed" ELSE "failed"}}
      BY <2>2 DEF Tooling!_execute_skill_proposal
    <3> QED
      BY <3>1
  <2> QED
    BY <2>1, <2>2
<1>5. PICK kinds :
        events' = events \union {[id |-> Tooling!NextId(a), kind |-> k] : k \in kinds}
  BY <1>4
<1>6. call' = [call EXCEPT ![a] = call[a]]
  BY <1>1, <1>2
<1>7. ToolsTyped'
  <2>1. budget' \in Nat /\ counts' \in [Tools -> Nat] /\ log' = log /\ saved' = saved
    BY <1>1, <1>3
  <2>2. PICK x \in Calls : x.pc = "idle" /\ x.id = <<>> /\ call' = [call EXCEPT ![a] = x]
    BY <1>2, <1>6
  <2> QED
    BY <1>2, <1>3, <2>1, <2>2, ToolsStayTyped
<1>8. Charged'
  <2>1. Busy' = Busy /\ Ran(log)' = Ran(log) /\ \A u \in Tools : BusyWith(u)' = BusyWith(u)
    BY <1>1 DEF Busy, Ran, BusyWith
  <2>2. \A u \in Tools : counts'[u] >= counts[u]
    BY <1>1, <1>3
  <2> QED
    BY <1>1, <1>3, <2>1, <2>2, ChargesStay
<1>9. TraceFits' /\ Grounded'
  BY <1>1, <1>2, <1>5, <1>6, ProposalTold
<1>10. ChargedThen'
  BY <1>1, <1>3, ChargedThenStays
<1> QED
  BY <1>7, <1>8, <1>9, <1>10 DEF ToolsInv

\* execute: a call is counted and charged before it begins, or rejected.
LEMMA ExecuteKeeps ==
  ASSUME Limits, ToolsInv, NEW a \in ToolAgents, NEW t \in Tools, Tooling!execute(a, t)
  PROVE  ToolsInv'
<1>1. /\ Tooling!Proposes(a) /\ Tooling!check_tool_call(t)
      /\ counts[t] + 1 <= MaxDuplicates /\ budget < MaxCalls /\ budget' = budget + 1
      /\ UNCHANGED <<log, ledgered, cancelled, saved>>
  <2>1. counts[t] \in Nat /\ MaxDuplicates \in Nat
    BY DEF ToolsInv, ToolsTyped, Limits
  <2> QED
    BY <2>1 DEF Tooling!execute, Tooling!Duplicate
<1>2. /\ call[a] \in Calls /\ call[a].pc = "idle" /\ call[a].id = <<>>
      /\ proposals' = [proposals EXCEPT ![a] = @ + 1]
      /\ proposals' \in [ToolAgents -> Nat]
  BY <1>1, ProposalTyped
<1>3. counts' = [counts EXCEPT ![t] = @ + 1] /\ counts' \in [Tools -> Nat]
  BY <1>1, GuardTyped
<1>4. budget \in Nat /\ ToolsTyped /\ ChargedThen /\ Tooling!NextId(a) \in Ids
      /\ Tooling!NextId(a) # <<>>
  BY NumberIsFresh DEF ToolsInv, ToolsTyped
<1>5. PICK x \in Calls : /\ x.pc \in Running /\ x.id = Tooling!NextId(a) /\ x.tool = t
                         /\ call' = [call EXCEPT ![a] = x]
  <2> DEFINE y == [pc |-> IF t \in Cacheable THEN "cache" ELSE "dispatch",
                   id |-> Tooling!NextId(a), tool |-> t, retries |-> 0]
  <2>1. y \in Calls /\ y.pc \in Running /\ y.id = Tooling!NextId(a) /\ y.tool = t
    BY <1>4 DEF Calls, Running
  <2>2. call' = [call EXCEPT ![a] = y]
    BY DEF Tooling!execute
  <2> QED
    BY <2>1, <2>2
<1>6. events' = events \union {[id |-> Tooling!NextId(a), kind |-> k] : k \in {"started"}}
  BY DEF Tooling!execute
<1>7. ToolsTyped'
  <2>1. budget' \in Nat /\ log' = log /\ saved' = saved
    BY <1>1, <1>4
  <2>2. x.pc \notin {"idle", "over"} /\ x.id # <<>> /\ x.tool \in Tools
    BY <1>4, <1>5 DEF Running
  <2> QED
    BY <1>2, <1>3, <1>4, <1>5, <2>1, <2>2, ToolsStayTyped
<1>8. Charged'
  BY <1>1, <1>3, <1>5, ChargedToBegin
<1>9. TraceFits' /\ Grounded'
  BY <1>1, <1>2, <1>5, <1>6, ProposalTold
<1>10. ChargedThen'
  BY <1>1, <1>4, ChargedThenStays
<1> QED
  BY <1>7, <1>8, <1>9, <1>10 DEF ToolsInv

\* A call under way goes on.
LEMMA GoingOnKeeps ==
  ASSUME Limits, ToolsInv, NEW a \in ToolAgents, NEW x \in Calls,
         call[a].pc \in Running, call' = [call EXCEPT ![a] = x],
         x.pc \in Running, x.id = call[a].id, x.tool = call[a].tool,
         UNCHANGED <<budget, counts, log, ledgered, proposals, events, cancelled, saved>>
  PROVE  ToolsInv'
<1>1. /\ ToolsTyped /\ ChargedThen /\ budget \in Nat /\ counts \in [Tools -> Nat]
      /\ proposals \in [ToolAgents -> Nat] /\ call \in [ToolAgents -> Calls]
      /\ call[a].id # <<>> /\ call[a].tool \in Tools
  BY DEF ToolsInv, ToolsTyped, Running
<1>2. ToolsTyped'
  BY <1>1, ToolsStayTyped DEF Running
<1>3. Charged'
  <2>1. ASSUME NEW b \in ToolAgents PROVE call'[b] = IF b = a THEN x ELSE call[b]
    BY <1>1
  <2>2. Busy' = Busy
    BY <2>1 DEF Busy
  <2>3. \A u \in Tools : BusyWith(u)' = BusyWith(u)
    BY <2>1, <2>2 DEF BusyWith
  <2>4. Ran(log)' = Ran(log) /\ \A u \in Tools : counts'[u] >= counts[u]
    BY <1>1 DEF Ran
  <2> QED
    BY <1>1, <2>2, <2>3, <2>4, ChargesStay
<1>4. TraceFits' /\ Grounded'
  BY CallTold
<1>5. ChargedThen'
  BY <1>1, ChargedThenStays
<1> QED
  BY <1>2, <1>3, <1>4, <1>5 DEF ToolsInv

\* The result of a call under way is logged.
LEMMA LoggingKeeps ==
  ASSUME Limits, ToolsInv, NEW a \in ToolAgents, NEW place \in Told, NEW status,
         status \in {"SUCCEEDED", "UNAVAILABLE", "FAILED"}, Says(place, status),
         call[a].pc \in Running, Tooling!Goes(a, place), Tooling!Log(a, status),
         UNCHANGED <<budget, counts, ledgered, proposals, events, cancelled, saved>>
  PROVE  ToolsInv'
<1>1. /\ ToolsTyped /\ ChargedThen /\ budget \in Nat /\ counts \in [Tools -> Nat]
      /\ proposals \in [ToolAgents -> Nat] /\ call[a] \in Calls
      /\ call[a].id # <<>> /\ call[a].tool \in Tools /\ call[a].id \in Ids
  BY DEF ToolsInv, ToolsTyped, Running, Calls
<1>2. PICK x \in Calls : /\ x = [call[a] EXCEPT !.pc = place] /\ x.pc = place
                         /\ x.id = call[a].id /\ x.tool = call[a].tool
  BY <1>1, CallMoves
<1>3. call' = [call EXCEPT ![a] = x]
  <2>1. call' = [call EXCEPT ![a] = [call[a] EXCEPT !.pc = place]]
    BY DEF Tooling!Goes
  <2> QED
    BY <1>2, <2>1
<1>4. PICK e \in LogEntries : /\ log' = log \union {e} /\ e.id = call[a].id
                              /\ e.tool = call[a].tool /\ e.status = status
  <2> DEFINE f == [id |-> call[a].id, tool |-> call[a].tool, status |-> status]
  <2>1. f \in LogEntries /\ f.id = call[a].id /\ f.tool = call[a].tool /\ f.status = status
    BY <1>1 DEF LogEntries
  <2>2. log' = log \union {f}
    BY DEF Tooling!Log
  <2> QED
    BY <2>1, <2>2
<1>5. x.pc \notin Running /\ x.pc \notin {"idle", "over"}
  BY <1>2 DEF Running, Told
<1>6. ToolsTyped'
  BY <1>1, <1>2, <1>3, <1>4, <1>5, ToolsStayTyped
<1>7. Charged'
  BY <1>2, <1>3, <1>4, <1>5, ChargedWhenLogged
<1>8. TraceFits' /\ Grounded'
  BY <1>2, <1>3, <1>4, CallTold
<1>9. ChargedThen'
  BY <1>1, ChargedThenStays
<1> QED
  BY <1>6, <1>7, <1>8, <1>9 DEF ToolsInv

\* A call that is over, told or cancelled.
LEMMA OverKeeps ==
  ASSUME Limits, ToolsInv, NEW a \in ToolAgents, NEW x \in Calls, NEW kinds,
         call' = [call EXCEPT ![a] = x], x.pc \in {"idle", "over"}, x.id = <<>>,
         call[a].id # <<>>,
         UNCHANGED <<budget, counts, log, proposals, saved>>,
         events' = events \union {[id |-> call[a].id, kind |-> k] : k \in kinds},
         cancelled \subseteq cancelled',
         \/ call[a].id \in cancelled'
         \/ \A entry \in log : entry.id = call[a].id => kinds = {EndOf(entry.status)},
         \A id \in ledgered' \ ledgered :
           \E entry \in log : entry.id = id /\ entry.status = "SUCCEEDED"
  PROVE  ToolsInv'
<1>1. /\ ToolsTyped /\ ChargedThen /\ budget \in Nat /\ counts \in [Tools -> Nat]
      /\ proposals \in [ToolAgents -> Nat] /\ call \in [ToolAgents -> Calls]
  BY DEF ToolsInv, ToolsTyped
<1>2. ToolsTyped'
  BY <1>1, ToolsStayTyped
<1>3. Charged'
  <2>1. ASSUME NEW b \in ToolAgents PROVE call'[b] = IF b = a THEN x ELSE call[b]
    BY <1>1
  <2>2. Busy' \subseteq Busy
    BY <2>1 DEF Busy, Running
  <2>3. \A u \in Tools : BusyWith(u)' \subseteq BusyWith(u)
    BY <2>1 DEF BusyWith, Busy, Running
  <2>4. Ran(log)' = Ran(log) /\ \A u \in Tools : counts'[u] >= counts[u]
    BY <1>1 DEF Ran
  <2> QED
    BY <1>1, <2>2, <2>3, <2>4, ChargesStay
<1>4. TraceFits' /\ Grounded'
  BY CallOverTold
<1>5. ChargedThen'
  BY <1>1, ChargedThenStays
<1> QED
  BY <1>2, <1>3, <1>4, <1>5 DEF ToolsInv

\* The end of a call is told once, and as its entry of the log has it.
LEMMA EndKeeps ==
  ASSUME Limits, ToolsInv, NEW a \in ToolAgents, Tooling!Ends(a)
  PROVE  ToolsInv'
<1> DEFINE kind == IF call[a].pc \in {"failing", "failed"} THEN "failed" ELSE "completed"
<1>1. /\ call[a].pc \in Told /\ call' = [call EXCEPT ![a] = Tooling!NoCall]
      /\ UNCHANGED <<budget, counts, log, proposals, cancelled, saved>>
      /\ events' = events \union {[id |-> call[a].id, kind |-> k] : k \in {kind}}
      /\ \E entry \in log : entry.id = call[a].id /\ Tooling!_record_tool_success(entry)
  BY DEF Tooling!Ends, Tooling!Emit, Told
<1>2. Tooling!NoCall \in Calls /\ Tooling!NoCall.pc = "idle" /\ Tooling!NoCall.id = <<>>
  BY DEF Tooling!NoCall, Calls
<1>3. call[a].id # <<>>
  BY <1>1 DEF ToolsInv, ToolsTyped, Told
<1>4. ASSUME NEW entry \in log, entry.id = call[a].id PROVE kind = EndOf(entry.status)
  <2>1. Says(call[a].pc, entry.status)
    BY <1>4 DEF ToolsInv, TraceFits
  <2> QED
    BY <2>1 DEF Says, EndOf
<1>5. ASSUME NEW id \in ledgered' \ ledgered
      PROVE  \E entry \in log : entry.id = id /\ entry.status = "SUCCEEDED"
  BY <1>1 DEF Tooling!_record_tool_success
<1> HIDE DEF kind
<1> QED
  BY <1>1, <1>2, <1>3, <1>4, <1>5, OverKeeps

\* A cancelled call may have told its end or not.
LEMMA CancelKeeps ==
  ASSUME Limits, ToolsInv, NEW a \in ToolAgents, Tooling!Cancel(a)
  PROVE  ToolsInv'
<1>1. /\ call[a].pc \notin {"idle", "over"}
      /\ call' = [call EXCEPT ![a] = [Tooling!NoCall EXCEPT !.pc = "over"]]
      /\ UNCHANGED <<budget, counts, log, ledgered, proposals, saved>>
      /\ cancelled' = cancelled \union {call[a].id}
      /\ \E told \in SUBSET {"completed", "failed"} :
            events' = events \union {[id |-> call[a].id, kind |-> k] : k \in told}
  BY DEF Tooling!Cancel, Tooling!run
<1>2. PICK kinds \in SUBSET {"completed", "failed"} :
        events' = events \union {[id |-> call[a].id, kind |-> k] : k \in kinds}
  BY <1>1
<1>3. PICK x \in Calls : x = [Tooling!NoCall EXCEPT !.pc = "over"] /\ x.pc = "over" /\ x.id = <<>>
  <2>1. LET y == [Tooling!NoCall EXCEPT !.pc = "over"]
        IN y \in Calls /\ y.pc = "over" /\ y.id = <<>>
    BY DEF Tooling!NoCall, Calls
  <2> QED
    BY <2>1
<1>4. call[a].id # <<>>
  BY <1>1 DEF ToolsInv, ToolsTyped
<1> QED
  BY <1>1, <1>2, <1>3, <1>4, OverKeeps

\* What happens inside a call: cache, dispatch, retries.
LEMMA InsideCallKeeps ==
  ASSUME Limits, ToolsInv, NEW a \in ToolAgents,
         \/ Tooling!CacheHit(a) \/ Tooling!CacheMiss(a) \/ Tooling!Retry(a)
         \/ \E outcome \in Tooling!Outcomes : Tooling!_dispatch(a, outcome)
         \/ \E schema \in BOOLEAN : Tooling!DispatchFails(a, schema)
  PROVE  ToolsInv'
<1>0. call \in [ToolAgents -> Calls] /\ call[a] \in Calls
  BY DEF ToolsInv, ToolsTyped
<1>1. ASSUME NEW place \in Running, Tooling!Goes(a, place), call[a].pc \in Running,
             UNCHANGED <<budget, counts, log, ledgered, proposals, events, cancelled, saved>>
      PROVE  ToolsInv'
  <2>1. PICK x \in Calls : /\ x = [call[a] EXCEPT !.pc = place] /\ x.pc = place
                           /\ x.id = call[a].id /\ x.tool = call[a].tool
    BY <1>0, CallMoves
  <2>2. call' = [call EXCEPT ![a] = x]
    BY <1>1, <2>1 DEF Tooling!Goes
  <2> QED
    BY <1>1, <2>1, <2>2, GoingOnKeeps
<1>2. CASE Tooling!CacheHit(a)
  <2>1. /\ call[a].pc \in Running /\ Tooling!Goes(a, "hit") /\ Tooling!Log(a, "SUCCEEDED")
        /\ UNCHANGED <<budget, counts, ledgered, proposals, events, cancelled, saved>>
    BY <1>2 DEF Tooling!CacheHit, Running
  <2>2. "hit" \in Told /\ Says("hit", "SUCCEEDED")
    BY DEF Told, Says
  <2> QED
    BY <2>1, <2>2, LoggingKeeps
<1>3. CASE Tooling!CacheMiss(a)
  <2>1. /\ call[a].pc \in Running /\ Tooling!Goes(a, "dispatch") /\ "dispatch" \in Running
        /\ UNCHANGED <<budget, counts, log, ledgered, proposals, events, cancelled, saved>>
    BY <1>3 DEF Tooling!CacheMiss, Tooling!run, Running
  <2> QED
    BY <1>1, <2>1
<1>4. CASE Tooling!Retry(a)
  <2>1. /\ call[a].pc \in Running /\ Tooling!Goes(a, "dispatch") /\ "dispatch" \in Running
        /\ UNCHANGED <<budget, counts, log, ledgered, proposals, events, cancelled, saved>>
    BY <1>4 DEF Tooling!Retry, Tooling!run, Running
  <2> QED
    BY <1>1, <2>1
<1>5. ASSUME NEW outcome \in Tooling!Outcomes, Tooling!_dispatch(a, outcome)
      PROVE  ToolsInv'
  <2> DEFINE place == IF outcome = "FAILED" THEN "failing" ELSE "completed"
  <2>1. /\ call[a].pc \in Running /\ Tooling!Goes(a, place) /\ Tooling!Log(a, outcome)
        /\ UNCHANGED <<budget, counts, ledgered, proposals, events, cancelled, saved>>
    BY <1>5 DEF Tooling!_dispatch, Running
  <2>2. /\ place \in Told /\ Says(place, outcome)
        /\ outcome \in {"SUCCEEDED", "UNAVAILABLE", "FAILED"}
    BY DEF Told, Says, Tooling!Outcomes
  <2> HIDE DEF place
  <2> QED
    BY <2>1, <2>2, LoggingKeeps
<1>6. ASSUME NEW schema \in BOOLEAN, Tooling!DispatchFails(a, schema)
      PROVE  ToolsInv'
  <2>1. /\ call[a].pc \in Running
        /\ UNCHANGED <<budget, counts, ledgered, proposals, events, cancelled, saved>>
        /\ \/ call' = [call EXCEPT ![a].pc = "sleep", ![a].retries = 1] /\ log' = log
           \/ Tooling!Goes(a, "failed") /\ Tooling!Log(a, "FAILED")
    BY <1>6 DEF Tooling!DispatchFails, Running
  <2>2. CASE call' = [call EXCEPT ![a].pc = "sleep", ![a].retries = 1] /\ log' = log
    <3>1. PICK x \in Calls : /\ x = [call[a] EXCEPT !.pc = "sleep", !.retries = 1]
                             /\ x.pc = "sleep" /\ x.id = call[a].id /\ x.tool = call[a].tool
      <4>1. LET y == [call[a] EXCEPT !.pc = "sleep", !.retries = 1]
            IN y \in Calls /\ y.pc = "sleep" /\ y.id = call[a].id /\ y.tool = call[a].tool
        BY <1>0 DEF Calls, Running
      <4> QED
        BY <4>1
    <3>2. call' = [call EXCEPT ![a] = x] /\ x.pc \in Running
      BY <1>0, <2>2, <3>1 DEF Running
    <3> QED
      BY <2>1, <2>2, <3>1, <3>2, GoingOnKeeps
  <2>3. CASE Tooling!Goes(a, "failed") /\ Tooling!Log(a, "FAILED")
    <3>1. "failed" \in Told /\ Says("failed", "FAILED")
      BY DEF Told, Says
    <3> QED
      BY <2>1, <2>3, <3>1, LoggingKeeps
  <2> QED
    BY <2>1, <2>2, <2>3
<1> QED
  BY <1>2, <1>3, <1>4, <1>5, <1>6

\* A run starts with nothing counted.
LEMMA ToolsStart ==
  ASSUME Limits, Tooling!Init
  PROVE  ToolsInv
<1>1. /\ budget = 0 /\ counts = [t \in Tools |-> 0] /\ log = {} /\ ledgered = {}
      /\ call = [a \in ToolAgents |-> Tooling!NoCall] /\ proposals = [a \in ToolAgents |-> 0]
      /\ events = {} /\ cancelled = {}
      /\ saved = [budget |-> budget, counts |-> counts, log |-> log, ledgered |-> ledgered]
  BY DEF Tooling!Init, Tooling!Zero, Tooling!Snapshot
<1>2. Tooling!NoCall \in Calls /\ Tooling!NoCall.pc = "idle" /\ Tooling!NoCall.id = <<>>
  BY DEF Tooling!NoCall, Calls
<1>3. ToolsTyped
  BY <1>1, <1>2, FS_EmptySet DEF ToolsTyped
<1>4. Busy = {} /\ Ran(log) = {} /\ Ran(saved.log) = {}
  BY <1>1, <1>2 DEF Busy, Ran, Running
<1>5. \A t \in Tools : BusyWith(t) = {} /\ RanOf(log, t) = {} /\ RanOf(saved.log, t) = {}
  BY <1>4 DEF BusyWith, RanOf
<1>6. Charged /\ ChargedThen
  BY <1>1, <1>4, <1>5, FS_EmptySet DEF Charged, ChargedThen, Limits
<1>7. TraceFits /\ Grounded
  BY <1>1, <1>2 DEF TraceFits, Grounded
<1> QED
  BY <1>3, <1>6, <1>7 DEF ToolsInv

\* A step of the tool calls keeps the whole of it.
LEMMA ToolsStep ==
  ASSUME Limits, ToolsInv, [Tooling!Next]_Tooling!vars
  PROVE  ToolsInv'
<1>1. CASE UNCHANGED Tooling!vars
  <2>1. UNCHANGED <<budget, counts, log, ledgered, call, proposals, events, cancelled, saved>>
    BY <1>1 DEF Tooling!vars, Tooling!run
  <2>2. ToolsTyped' /\ Grounded'
    BY <2>1 DEF ToolsInv, ToolsTyped, Grounded
  <2>3. /\ Busy' = Busy /\ Ran(log)' = Ran(log)
        /\ \A t \in Tools : BusyWith(t)' = BusyWith(t) /\ RanOf(log, t)' = RanOf(log, t)
    BY <2>1 DEF Busy, BusyWith, Ran, RanOf
  <2>4. Charged'
    BY <2>1, <2>3 DEF ToolsInv, Charged
  <2>5. ChargedThen'
    BY <2>1, ChargedThenStays DEF ToolsInv
  <2>6. TraceFits'
    BY <2>1 DEF ToolsInv, TraceFits, Used, IsTold
  <2> QED
    BY <2>2, <2>4, <2>5, <2>6 DEF ToolsInv
<1>2. CASE Tooling!Next
  BY <1>2, RefusalKeeps, ExecuteKeeps, SkillKeeps, InsideCallKeeps, EndKeeps, CancelKeeps,
     CheckpointKeeps, ResumeKeeps
  DEF Tooling!Next
<1> QED
  BY <1>1, <1>2

\* Every module counts alike.
LEMMA ToolCardinalities ==
  ASSUME NEW S
  PROVE  Tooling!Cardinality(S) = Cardinality(S)
BY DEF Tooling!Cardinality, Cardinality
-----------------------------------------------------------------------------
(***************************************************************************)
(* A turn of the dialogue. The rounds a reply had bound the requests it    *)
(* made, and a decision of the model is one of those that the rules leave  *)
(* to it.                                                                  *)
(***************************************************************************)

decision == s2
reply == s3
unanswered == s4
evidence == s5
answer == s6

Replies == [pc : {"local", "request", "tool", "replied"}, allowed : BOOLEAN, live : BOOLEAN,
            compacting : BOOLEAN, requests : Nat, rounds : Nat]

TalkTyped ==
    /\ reply \in Replies
    /\ unanswered \in Nat
    /\ evidence \in Seq(BOOLEAN)

\* Requests and rounds at each place of a reply.
Counted ==
    /\ reply.pc \in {"local", "request"} => unanswered = 0 /\ reply.requests = reply.rounds
    /\ reply.pc = "tool" => /\ unanswered = 1 /\ reply.requests = reply.rounds + 1
                            /\ reply.rounds < 2
    /\ reply.rounds <= 2 /\ reply.requests <= 3

Honest ==
    /\ reply.pc # "replied" => answer = Talk!NoAnswer
    /\ answer.cites = "external" => \E i \in DOMAIN evidence : evidence[i]
    /\ answer.summary => reply.compacting

TalkInv ==
    /\ TalkTyped /\ Counted /\ Honest
    /\ decision \in Talk!resolve_turn_with_model(s1)

USE DEF decision, reply, unanswered, evidence, answer

\* Of rules of which the last applies there is a first that does.
LEMMA FirstRule ==
  ASSUME NEW n \in Nat \ {0}, NEW applies, applies[n]
  PROVE  \E i \in 1..n : applies[i] /\ \A j \in 1..(i - 1) : ~applies[j]
<1> DEFINE T == {i \in Nat : i \in 1..n /\ applies[i]}
<1>1. PICK i \in T : \A j \in T : ~(j < i)
  <2>1. T # {} /\ T \subseteq Nat
    OBVIOUS
  <2>2. IsWellFoundedOn(OpToRel(<, Nat), Nat)
    BY NatLessThanWellFounded
  <2>3. \E i \in T : \A j \in T : ~(<<j, i>> \in OpToRel(<, Nat))
    BY <2>1, <2>2, WFMin
  <2> QED
    BY <2>3 DEF OpToRel
<1>2. ASSUME NEW j \in 1..(i - 1) PROVE ~applies[j]
  <2>1. j \in Nat /\ j \in 1..n /\ j < i
    OBVIOUS
  <2> QED
    BY <1>1, <2>1
<1> QED
  BY <1>1, <1>2

\* What resolve_turn says is said by the rules.
LEMMA RulesDecide ==
  ASSUME NEW m
  PROVE  Talk!resolve_turn(m).by = "rules"
<1> DEFINE rules == Talk!Rules(m)
<1>1. DOMAIN rules = 1..13 /\ rules[13].applies
  BY DEF Talk!Rules
<1>2. \A i \in 1..13 : rules[i].decides.by = "rules"
  BY DEF Talk!Rules, Talk!Decide
<1>3. \E i \in 1..13 : rules[i].applies /\ \A j \in 1..(i - 1) : ~rules[j].applies
  <2> DEFINE applies == [i \in 1..13 |-> rules[i].applies]
  <2>1. applies[13]
    BY <1>1
  <2> HIDE DEF rules
  <2>2. PICK i \in 1..13 : applies[i] /\ \A j \in 1..(i - 1) : ~applies[j]
    <3> HIDE DEF applies
    <3> QED
      BY <2>1, FirstRule
  <2> QED
    BY <2>2
<1> HIDE DEF rules
<1> QED
  BY <1>1, <1>2, <1>3 DEF Talk!resolve_turn, rules

\* A reply that moves.
LEMMA ReplyMoves ==
  ASSUME NEW y \in Replies, NEW place \in {"local", "request", "tool", "replied"}
  PROVE  /\ LET x == [y EXCEPT !.pc = place, !.requests = @ + 1]
            IN /\ x \in Replies /\ x.pc = place /\ x.requests = y.requests + 1
               /\ x.rounds = y.rounds /\ x.compacting = y.compacting
         /\ LET x == [y EXCEPT !.pc = place, !.rounds = @ + 1]
            IN /\ x \in Replies /\ x.pc = place /\ x.requests = y.requests
               /\ x.rounds = y.rounds + 1 /\ x.compacting = y.compacting
<1>1. ASSUME NEW n \in Nat
      PROVE  LET x == [y EXCEPT !.pc = place, !.requests = n]
             IN /\ x \in Replies /\ x.pc = place /\ x.requests = n
                /\ x.rounds = y.rounds /\ x.compacting = y.compacting
  BY DEF Replies
<1>2. ASSUME NEW n \in Nat
      PROVE  LET x == [y EXCEPT !.pc = place, !.rounds = n]
             IN /\ x \in Replies /\ x.pc = place /\ x.requests = y.requests
                /\ x.rounds = n /\ x.compacting = y.compacting
  BY DEF Replies
<1>3. y.requests + 1 \in Nat /\ y.rounds + 1 \in Nat
  BY DEF Replies
<1>4. LET x == [y EXCEPT !.pc = place, !.requests = y.requests + 1]
      IN /\ x \in Replies /\ x.pc = place /\ x.requests = y.requests + 1
         /\ x.rounds = y.rounds /\ x.compacting = y.compacting
  BY <1>1, <1>3, Zenon
<1>5. LET x == [y EXCEPT !.pc = place, !.rounds = y.rounds + 1]
      IN /\ x \in Replies /\ x.pc = place /\ x.requests = y.requests
         /\ x.rounds = y.rounds + 1 /\ x.compacting = y.compacting
  BY <1>2, <1>3, Zenon
<1> QED
  BY <1>4, <1>5, Zenon

\* Every step of a reply keeps its counts and its honesty.
LEMMA TalkKeeps ==
  ASSUME TalkInv, [Talk!Next]_Talk!cvars
  PROVE  TalkInv'
<1>0. TalkTyped /\ Counted /\ Honest
  BY DEF TalkInv
<1>1. UNCHANGED <<s1, decision>>
  BY DEF Talk!Next, Talk!cvars, Talk!_local_answer, Talk!CallTool, Talk!Fallback,
         Talk!ToolAnswers, Talk!Write, Talk!Answers
<1>2. decision' \in Talk!resolve_turn_with_model(s1)'
  BY <1>1 DEF TalkInv, Talk!resolve_turn_with_model
<1>3. CASE UNCHANGED Talk!cvars
  BY <1>0, <1>2, <1>3 DEF TalkInv, TalkTyped, Counted, Honest, Talk!cvars
<1>4. CASE Talk!_local_answer
  BY <1>0, <1>2, <1>4 DEF TalkInv, TalkTyped, Replies, Counted, Honest, Talk!_local_answer,
    Talk!Answers, Talk!Goes, Talk!NoAnswer
<1>5. CASE Talk!CallTool
  <2>1. /\ reply' \in Replies /\ reply'.pc = "tool" /\ reply.pc = "request"
        /\ reply'.requests = reply.requests + 1 /\ reply'.rounds = reply.rounds
        /\ reply'.compacting = reply.compacting /\ reply.rounds < 2
    BY <1>0, <1>5, ReplyMoves DEF TalkTyped, Talk!CallTool
  <2>2. unanswered' = unanswered + 1 /\ UNCHANGED <<evidence, answer>>
    BY <1>5 DEF Talk!CallTool
  <2> QED
    BY <1>0, <1>2, <2>1, <2>2 DEF TalkInv, TalkTyped, Replies, Counted, Honest
<1>6. CASE Talk!Fallback
  BY <1>0, <1>2, <1>6 DEF TalkInv, TalkTyped, Replies, Counted, Honest, Talk!Fallback,
    Talk!Answers, Talk!Goes
<1>7. ASSUME NEW ok \in BOOLEAN, Talk!ToolAnswers(ok) PROVE TalkInv'
  <2>1. /\ reply' \in Replies /\ reply'.pc = "request" /\ reply.pc = "tool"
        /\ reply'.requests = reply.requests /\ reply'.rounds = reply.rounds + 1
        /\ reply'.compacting = reply.compacting
    BY <1>0, <1>7, ReplyMoves DEF TalkTyped, Talk!ToolAnswers
  <2>2. /\ unanswered' = unanswered - 1 /\ evidence' = Append(evidence, ok)
        /\ answer' = answer
    BY <1>7 DEF Talk!ToolAnswers
  <2>3. TalkTyped' /\ Counted'
    BY <1>0, <2>1, <2>2 DEF TalkTyped, Replies, Counted
  <2>4. answer' = Talk!NoAnswer
    BY <1>0, <2>1, <2>2 DEF Honest
  <2>5. Honest'
    BY <2>4 DEF Honest, Talk!NoAnswer
  <2> QED
    BY <1>2, <2>3, <2>5 DEF TalkInv
<1>8. ASSUME NEW json \in BOOLEAN, NEW cited \in BOOLEAN, NEW written \in BOOLEAN,
             Talk!Write(json, cited, written)
      PROVE  TalkInv'
  <2>1. /\ reply' \in Replies /\ reply'.pc = "replied" /\ reply.pc = "request"
        /\ reply'.requests = reply.requests + 1 /\ reply'.rounds = reply.rounds
        /\ reply'.compacting = reply.compacting
    BY <1>0, <1>8, ReplyMoves DEF TalkTyped, Talk!Write
  <2>2. UNCHANGED <<unanswered, evidence>>
    BY <1>8 DEF Talk!Write
  <2>3. /\ answer'.summary => reply.compacting
        /\ answer'.cites = "external" => \E k \in DOMAIN evidence : evidence[k]
    BY <1>8 DEF Talk!Write, Talk!Compacted, Talk!_tool_evidence_citations
  <2>4. TalkTyped' /\ Counted'
    BY <1>0, <2>1, <2>2 DEF TalkTyped, Replies, Counted
  <2>5. Honest'
    BY <2>1, <2>2, <2>3 DEF Honest
  <2> QED
    BY <1>2, <2>4, <2>5 DEF TalkInv
<1> QED
  BY <1>3, <1>4, <1>5, <1>6, <1>7, <1>8 DEF Talk!Next

\* A turn starts with no reply.
LEMMA TalkStart ==
  ASSUME Talk!Init
  PROVE  TalkInv
BY DEF Talk!Init, Talk!NoAnswer, TalkInv, TalkTyped, Replies, Counted, Honest

\* Whatever the model decides, it neither controls the run nor overrules a rule.
LEMMA ModelDecides ==
  ASSUME TalkInv, decision.by = "model"
  PROVE  ~Talk!resolve_turn(s1).sure /\ ~Talk!control_action(decision)
<1> DEFINE baseline == Talk!resolve_turn(s1)
<1>1. baseline.by = "rules"
  BY RulesDecide
<1> HIDE DEF baseline
<1>2. decision \in IF Talk!control_action(baseline) \/ baseline.sure THEN {baseline}
                   ELSE {baseline} \union
                        {Talk!Routed(baseline, intent, affects, confirm) :
                           intent \in Talk!Intents \union Talk!Controls, affects \in BOOLEAN,
                           confirm \in BOOLEAN}
  BY DEF TalkInv, Talk!resolve_turn_with_model, baseline
<1>3. ~baseline.sure
  BY <1>1, <1>2
<1>4. PICK intent \in Talk!Intents \union Talk!Controls, affects \in BOOLEAN, confirm \in BOOLEAN :
         decision = Talk!Routed(baseline, intent, affects, confirm)
  BY <1>1, <1>2
<1>5. intent \notin Talk!Controls /\ decision.intent = intent
  BY <1>1, <1>4 DEF Talk!Routed, Talk!Routed_Control
<1> QED
  BY <1>3, <1>5 DEF baseline, Talk!control_action
-----------------------------------------------------------------------------
(***************************************************************************)
(* The memories. A profile counts each run once because a run adds itself  *)
(* in one step and never again, and it stays with one job because its key  *)
(* names the job: whoever writes under a key has the job of everybody it   *)
(* was derived from (KeysMeanJobs).                                        *)
(***************************************************************************)

asked == s1
stage == s2
hits == s4
draft == s5
memories == s6
accepted == s7

\* The key of a run without a category is "JD:" and a hash in lower case,
\* categories are in upper case; and what was stored before was derived from
\* none of the runs.
Jobs == /\ \A p, q \in Requests : p.category # Memories!NoJob /\ q.category = Memories!NoJob
                                     => p.category # q.jd
        /\ \A m \in Old : m.runs = {} /\ m.samples = 0

Stages == {"search", "work", "case", "profile", "retire", "insert", "ended"}
Entered == {"retire", "insert", "ended"}

MemoryTyped ==
    /\ asked \in [Runs -> Requests] /\ stage \in [Runs -> Stages]
    /\ DOMAIN hits = Runs /\ DOMAIN draft = Runs

\* A row says how many accepted runs of its job it was derived from.
Learned(m) ==
    /\ m.runs \subseteq accepted /\ IsFiniteSet(m.runs) /\ m.samples = Cardinality(m.runs)
    /\ \A s \in m.runs : /\ s \in Runs /\ asked[s].category = m.category
                         /\ m.type = "JOB_PROFILE" => asked[s].jd = m.jd

\* The runs in a profile have its key and will not add themselves again.
Profiled(m) ==
    m.type = "JOB_PROFILE" =>
        \A s \in m.runs : stage[s] \in Entered /\ Memories!profile_fact_key(s) = m.key

Writes(r) == /\ stage[r] \in {"case", "profile", "retire", "insert"} => r \in accepted
             /\ stage[r] \in {"retire", "insert"} =>
                   draft[r].type = "JOB_PROFILE" /\ Learned(draft[r]) /\ Profiled(draft[r])

Reads(r) == \A m \in hits[r] :
    /\ Learned(m)
    /\ asked[r].category # Memories!NoJob => m.category = asked[r].category
    /\ m.type = "JOB_PROFILE" /\ asked[r].jd # Memories!NoJob => m.jd = asked[r].jd

MemoryInv ==
    /\ MemoryTyped
    /\ \A m \in memories : Learned(m) /\ Profiled(m)
    /\ \A r \in Runs : Writes(r) /\ Reads(r)

USE DEF asked, stage, hits, draft, memories, accepted

\* Every module counts alike.
LEMMA MemoryCardinalities ==
  ASSUME NEW S
  PROVE  Memories!Cardinality(S) = Cardinality(S)
BY DEF Memories!Cardinality, Cardinality

\* Runs that write under the same key have the same job.
LEMMA KeysMeanJobs ==
  ASSUME Jobs, MemoryTyped, NEW r \in Runs, NEW s \in Runs,
         Memories!profile_fact_key(r) = Memories!profile_fact_key(s)
  PROVE  asked[r].category = asked[s].category /\ asked[r].jd = asked[s].jd
<1>1. asked[r] \in Requests /\ asked[s] \in Requests
  BY DEF MemoryTyped
<1>2. Memories!job_key(r) = Memories!job_key(s) /\ asked[r].jd = asked[s].jd
  BY DEF Memories!profile_fact_key
<1> QED
  BY <1>1, <1>2 DEF Jobs, Memories!job_key

\* A step that neither adds a row nor moves a run back keeps what the rows,
\* the drafts and the hits of the other runs say.
LEMMA OthersStay ==
  ASSUME MemoryInv, asked' = asked, accepted \subseteq accepted',
         \A s \in Runs : stage[s] \in Entered => stage'[s] \in Entered
  PROVE  /\ \A m \in memories : m \in memories' => Learned(m)' /\ Profiled(m)'
         /\ \A s \in Runs : /\ stage'[s] = stage[s] /\ draft'[s] = draft[s] => Writes(s)'
                            /\ hits'[s] = hits[s] => Reads(s)'
<1>1. \A m : Learned(m) => /\ m.runs \subseteq accepted' /\ IsFiniteSet(m.runs)
                           /\ m.samples = Cardinality(m.runs)
                           /\ \A s \in m.runs : s \in Runs /\ asked'[s].category = m.category
                           /\ m.type = "JOB_PROFILE" => \A s \in m.runs : asked'[s].jd = m.jd
  BY DEF Learned
<1>2. \A s : Memories!profile_fact_key(s)' = Memories!profile_fact_key(s)
  BY DEF Memories!profile_fact_key, Memories!job_key
<1>3. ASSUME NEW m, Learned(m), Profiled(m)
      PROVE  m.type = "JOB_PROFILE" => \A s \in m.runs :
                stage'[s] \in Entered /\ Memories!profile_fact_key(s)' = m.key
  BY <1>2, <1>3 DEF Learned, Profiled
<1>4. ASSUME NEW m \in memories, m \in memories' PROVE Learned(m)' /\ Profiled(m)'
  BY <1>1, <1>3, <1>4 DEF MemoryInv, Learned, Profiled
<1>5. ASSUME NEW s \in Runs, stage'[s] = stage[s], draft'[s] = draft[s] PROVE Writes(s)'
  <2>1. Writes(s)
    BY DEF MemoryInv
  <2>2. CASE stage[s] \in {"retire", "insert"}
    BY <1>1, <1>3, <1>5, <2>1, <2>2 DEF Writes, Learned, Profiled
  <2>3. CASE stage[s] \notin {"retire", "insert"}
    BY <1>5, <2>1, <2>3 DEF Writes
  <2> QED
    BY <2>2, <2>3
<1>6. ASSUME NEW s \in Runs, hits'[s] = hits[s] PROVE Reads(s)'
  <2>1. Reads(s)
    BY DEF MemoryInv
  <2> QED
    BY <1>1, <1>6, <2>1 DEF Reads, Learned
<1> QED
  BY <1>4, <1>5, <1>6

\* A step that moves one run, and adds no row.
LEMMA MoveKeeps ==
  ASSUME MemoryInv, NEW r \in Runs, NEW place \in Stages,
         stage[r] \in Entered => place \in Entered,
         stage' = [stage EXCEPT ![r] = place], asked' = asked, accepted \subseteq accepted',
         memories' \subseteq memories, DOMAIN hits' = Runs, DOMAIN draft' = Runs,
         \A s \in Runs \ {r} : hits'[s] = hits[s] /\ draft'[s] = draft[s],
         Writes(r)', Reads(r)'
  PROVE  MemoryInv'
<1>1. MemoryTyped /\ MemoryTyped'
  BY DEF MemoryInv, MemoryTyped
<1>2. \A s \in Runs : stage'[s] = IF s = r THEN place ELSE stage[s]
  BY <1>1 DEF MemoryTyped
<1>3. \A s \in Runs : stage[s] \in Entered => stage'[s] \in Entered
  BY <1>2
<1>4. \A m \in memories' : Learned(m)' /\ Profiled(m)'
  BY <1>3, OthersStay
<1>5. ASSUME NEW s \in Runs PROVE Writes(s)' /\ Reads(s)'
  <2>1. CASE s = r
    BY <2>1
  <2>2. CASE s # r
    BY <1>2, <1>3, <2>2, OthersStay
  <2> QED
    BY <2>1, <2>2
<1> QED
  BY <1>1, <1>4, <1>5 DEF MemoryInv

\* What a search may return was learned for the job that is asked for.
LEMMA SearchKeeps ==
  ASSUME MemoryInv, NEW r \in Runs, NEW type \in Memories!Types, Memories!search(r, type)
  PROVE  MemoryInv'
<1>1. PICK few \in SUBSET memories :
         /\ hits' = [hits EXCEPT ![r] = @ \union
                        {m \in few : Memories!_business_memory_matches_request(m, r)}]
         /\ UNCHANGED <<asked, stage, draft, memories, accepted>>
  BY DEF Memories!search, Memories!visible
<1>2. MemoryTyped /\ MemoryTyped'
  BY <1>1 DEF MemoryInv, MemoryTyped
<1>3. ASSUME NEW m \in hits'[r]
      PROVE  m \in hits[r] \/ (m \in memories /\ Memories!_business_memory_matches_request(m, r))
  BY <1>1, <1>2 DEF MemoryTyped
<1>4. Reads(r)'
  BY <1>1, <1>3
  DEF Reads, MemoryInv, Learned, Memories!_business_memory_matches_request
<1>5. \A s \in Runs : Writes(s)' /\ (s # r => Reads(s)')
  BY <1>1, <1>2, OthersStay DEF MemoryTyped
<1>6. \A m \in memories' : Learned(m)' /\ Profiled(m)'
  BY <1>1, OthersStay
<1> QED
  BY <1>2, <1>4, <1>5, <1>6 DEF MemoryInv

\* Reading ends, and the run's outcome decides what is written.
LEMMA WorkKeeps ==
  ASSUME MemoryInv, NEW r \in Runs,
         Memories!_merge_memory_hits(r) \/ Memories!Accept(r) \/ Memories!Fail(r)
  PROVE  MemoryInv'
<1>0. MemoryTyped /\ Reads(r) /\ Writes(r)
  BY DEF MemoryInv
<1>1. PICK place \in {"work", "ended", "case"} : stage' = [stage EXCEPT ![r] = place]
  BY DEF Memories!_merge_memory_hits, Memories!Accept, Memories!Fail, Memories!Moves
<1>2. /\ asked' = asked /\ memories' = memories /\ draft' = draft
      /\ accepted' = accepted \/ accepted' = accepted \union {r}
      /\ place = "case" => r \in accepted'
      /\ stage[r] \in {"search", "work"}
  BY <1>0, <1>1 DEF MemoryTyped, Memories!_merge_memory_hits, Memories!Accept, Memories!Fail,
     Memories!Moves
<1>3. PICK left : left \subseteq hits[r] /\ hits' = [hits EXCEPT ![r] = left]
  BY DEF Memories!_merge_memory_hits, Memories!Accept, Memories!Fail, Memories!Forget
<1>4. hits'[r] = left /\ DOMAIN hits' = Runs /\ \A s \in Runs \ {r} : hits'[s] = hits[s]
  BY <1>0, <1>3 DEF MemoryTyped
<1>5. Reads(r)'
  BY <1>0, <1>2, <1>3, <1>4 DEF Reads, Learned
<1>6. stage'[r] = place
  BY <1>0, <1>1 DEF MemoryTyped
<1>7. Writes(r)'
  BY <1>2, <1>6 DEF Writes
<1> QED
  BY <1>0, <1>1, <1>2, <1>4, <1>5, <1>7, MoveKeeps DEF MemoryTyped, Stages, Entered

\* A case is derived from the run that writes it.
LEMMA CaseKeeps ==
  ASSUME MemoryInv, NEW r \in Runs, NEW seen, Memories!WriteCase(r, seen)
  PROVE  MemoryInv'
<1> DEFINE case == Memories!Row("RECENT_CASE", <<Memories!job_key(r), r>>, asked[r], {r}, 1,
                                seen, "run")
<1>0. MemoryTyped /\ Reads(r) /\ Writes(r) /\ stage[r] = "case" /\ r \in accepted
  BY DEF MemoryInv, Writes, Memories!WriteCase
<1>1. /\ stage' = [stage EXCEPT ![r] = "profile"]
      /\ memories' \subseteq memories \union {case}
      /\ draft' = [draft EXCEPT ![r] = [Memories!NoRow EXCEPT !.seen = seen]]
      /\ UNCHANGED <<asked, hits, accepted>>
  BY DEF Memories!WriteCase, Memories!Moves
<1>2. MemoryTyped'
  BY <1>0, <1>1 DEF MemoryTyped, Stages
<1>3. /\ case.type = "RECENT_CASE" /\ case.runs = {r} /\ case.samples = 1
      /\ case.category = asked[r].category
  BY DEF Memories!Row
<1> HIDE DEF case
<1>4. IsFiniteSet({r}) /\ Cardinality({r}) = 1
  BY FS_Singleton
<1>5. Learned(case) /\ Profiled(case)
  BY <1>0, <1>3, <1>4 DEF Learned, Profiled
<1>6. \A s \in Runs : stage'[s] = IF s = r THEN "profile" ELSE stage[s]
  BY <1>0, <1>1 DEF MemoryTyped
<1>7. \A s \in Runs : stage[s] \in Entered => stage'[s] \in Entered
  BY <1>0, <1>6 DEF Entered
<1>8. ASSUME NEW m \in memories' PROVE Learned(m)' /\ Profiled(m)'
  <2>1. CASE m \in memories
    BY <1>1, <1>7, <1>8, <2>1, OthersStay
  <2>2. CASE m = case
    BY <1>1, <1>3, <1>5, <2>2 DEF Learned, Profiled
  <2> QED
    BY <1>1, <2>1, <2>2
<1>9. ASSUME NEW s \in Runs PROVE Writes(s)' /\ Reads(s)'
  <2>1. Reads(s)'
    BY <1>1, <1>7, OthersStay
  <2>2. CASE s = r
    BY <1>0, <1>1, <1>6, <2>1, <2>2 DEF Writes
  <2>3. CASE s # r
    <3>1. draft'[s] = draft[s] /\ stage'[s] = stage[s]
      BY <1>0, <1>1, <1>6, <2>3 DEF MemoryTyped
    <3> QED
      BY <1>1, <1>7, <2>1, <3>1, OthersStay
  <2> QED
    BY <2>2, <2>3
<1> QED
  BY <1>2, <1>8, <1>9 DEF MemoryInv

\* A run adds itself to a profile of its job, in which it was not.
LEMMA ConsolidateKeeps ==
  ASSUME Jobs, MemoryInv, NEW r \in Runs, Memories!consolidateJobProfile(r)
  PROVE  MemoryInv'
<1>0. /\ MemoryTyped /\ Reads(r) /\ Writes(r) /\ stage[r] = "profile" /\ r \in accepted
      /\ stage' = [stage EXCEPT ![r] = "retire"]
      /\ UNCHANGED <<asked, hits, memories, accepted>>
  BY DEF MemoryInv, Writes, Memories!consolidateJobProfile, Memories!Moves
<1>1. PICK old : /\ \/ old = Memories!NoRow
                    \/ /\ old \in memories /\ old.type = "JOB_PROFILE"
                       /\ old.key = Memories!profile_fact_key(r)
                 /\ draft' = [draft EXCEPT ![r] =
                       Memories!Row("JOB_PROFILE", Memories!profile_fact_key(r), asked[r],
                                    old.runs \union {r}, old.samples + 1,
                                    old.seen \union draft[r].seen, "run")]
  BY DEF Memories!consolidateJobProfile
<1>2. PICK new : /\ new.type = "JOB_PROFILE" /\ new.key = Memories!profile_fact_key(r)
                 /\ new.category = asked[r].category /\ new.jd = asked[r].jd
                 /\ new.runs = old.runs \union {r} /\ new.samples = old.samples + 1
                 /\ draft' = [draft EXCEPT ![r] = new]
  BY <1>1 DEF Memories!Row
<1>3. /\ old.runs \subseteq accepted /\ IsFiniteSet(old.runs)
      /\ old.samples = Cardinality(old.runs)
      /\ \A s \in old.runs : /\ s \in Runs /\ stage[s] \in Entered
                             /\ Memories!profile_fact_key(s) = Memories!profile_fact_key(r)
  <2>1. CASE old = Memories!NoRow
    <3>1. old.runs = {} /\ old.samples = 0
      BY <2>1 DEF Memories!NoRow, Memories!Row
    <3> QED
      BY <3>1, FS_EmptySet
  <2>2. CASE old \in memories /\ old.type = "JOB_PROFILE" /\ old.key = Memories!profile_fact_key(r)
    BY <2>2 DEF MemoryInv, Learned, Profiled
  <2> QED
    BY <1>1, <2>1, <2>2
<1>4. r \notin old.runs
  BY <1>0, <1>3 DEF Entered
<1>5. IsFiniteSet(new.runs) /\ new.samples = Cardinality(new.runs)
  BY <1>2, <1>3, <1>4, FS_AddElement, FS_CardinalityType
<1>6. ASSUME NEW s \in new.runs
      PROVE  /\ s \in Runs /\ asked[s].category = new.category /\ asked[s].jd = new.jd
             /\ s = r \/ stage[s] \in Entered
             /\ Memories!profile_fact_key(s) = new.key
  BY <1>0, <1>2, <1>3, KeysMeanJobs
<1>7. Learned(new)
  BY <1>0, <1>2, <1>3, <1>5, <1>6 DEF Learned
<1>8. \A s \in Runs : stage'[s] = IF s = r THEN "retire" ELSE stage[s]
  BY <1>0 DEF MemoryTyped
<1>9. Learned(new)' /\ Profiled(new)'
  <2>1. Learned(new)'
    BY <1>0, <1>7 DEF Learned
  <2>2. ASSUME NEW s \in new.runs
        PROVE  stage'[s] \in Entered /\ Memories!profile_fact_key(s)' = new.key
    BY <1>0, <1>6, <1>8, <2>2 DEF Entered, Memories!profile_fact_key, Memories!job_key
  <2> QED
    BY <2>1, <2>2 DEF Profiled
<1>10. draft'[r] = new /\ DOMAIN draft' = Runs /\ \A s \in Runs \ {r} : draft'[s] = draft[s]
  BY <1>0, <1>2 DEF MemoryTyped
<1>11. Writes(r)'
  BY <1>0, <1>2, <1>9, <1>10 DEF Writes, Learned, Profiled
<1>12. Reads(r)'
  BY <1>0 DEF Reads, Learned
<1> QED
  BY <1>0, <1>10, <1>11, <1>12, MoveKeeps DEF MemoryTyped, Stages, Entered

\* Rows are retired and the draft becomes one, unless the text is known.
LEMMA ProfileKeeps ==
  ASSUME MemoryInv, NEW r \in Runs,
         Memories!Retire(r) \/ Memories!Insert(r) \/ Memories!Crash(r)
  PROVE  MemoryInv'
<1>0. MemoryTyped /\ Reads(r) /\ Writes(r)
  BY DEF MemoryInv
<1>1. /\ UNCHANGED <<asked, hits, accepted>>
      /\ draft' = draft \/ draft' = [draft EXCEPT ![r] = Memories!NoRow]
      /\ stage[r] \in {"case", "profile", "retire", "insert"}
  BY DEF Memories!Retire, Memories!Insert, Memories!Crash, Memories!Forget
<1>2. PICK place \in {"insert", "ended"} :
         /\ stage' = [stage EXCEPT ![r] = place]
         /\ place = "insert" => draft' = draft /\ stage[r] = "retire"
  BY <1>0 DEF Memories!Retire, Memories!Insert, Memories!Crash, Memories!Moves
<1>3. /\ DOMAIN draft' = Runs /\ \A s \in Runs \ {r} : draft'[s] = draft[s]
      /\ stage'[r] = place /\ \A s \in Runs \ {r} : stage'[s] = stage[s]
  BY <1>0, <1>1, <1>2 DEF MemoryTyped
<1>4. \A s \in Runs : stage[s] \in Entered => stage'[s] \in Entered
  BY <1>3 DEF Entered
<1>5. Reads(r)'
  BY <1>0, <1>1 DEF Reads, Learned
<1>6. Writes(r)'
  <2>1. CASE place = "ended"
    BY <1>3, <2>1 DEF Writes
  <2>2. CASE place = "insert"
    <3>1. /\ draft'[r] = draft[r] /\ draft[r].type = "JOB_PROFILE" /\ Learned(draft[r])
          /\ Profiled(draft[r]) /\ r \in accepted
      BY <1>0, <1>2, <2>2 DEF Writes
    <3>2. PICK new : new = draft[r]
      OBVIOUS
    <3>3. Learned(new)' /\ Profiled(new)'
      BY <1>1, <1>4, <3>1, <3>2
      DEF Learned, Profiled, Memories!profile_fact_key, Memories!job_key
    <3> QED
      BY <1>1, <3>1, <3>2, <3>3 DEF Writes, Learned, Profiled
  <2> QED
    BY <2>1, <2>2
<1>7. CASE memories' \subseteq memories
  BY <1>0, <1>1, <1>2, <1>3, <1>5, <1>6, <1>7, MoveKeeps DEF MemoryTyped, Stages, Entered
<1>8. CASE Memories!Insert(r)
  <2>1. /\ stage[r] = "insert" /\ memories' = memories \union {draft[r]}
        /\ Learned(draft[r]) /\ Profiled(draft[r])
    BY <1>0, <1>8 DEF Writes, Memories!Insert
  <2>2. PICK new : new = draft[r]
    OBVIOUS
  <2>3. Learned(new)' /\ Profiled(new)'
    BY <1>1, <1>4, <2>1, <2>2
    DEF Learned, Profiled, Memories!profile_fact_key, Memories!job_key
  <2>4. ASSUME NEW m \in memories' PROVE Learned(m)' /\ Profiled(m)'
    <3>1. CASE m \in memories
      BY <1>1, <1>4, <2>4, <3>1, OthersStay
    <3>2. CASE m = new
      BY <2>3, <3>2
    <3> QED
      BY <2>1, <2>2, <3>1, <3>2
  <2>5. MemoryTyped'
    BY <1>0, <1>1, <1>2, <1>3 DEF MemoryTyped, Stages
  <2>6. \A s \in Runs : Writes(s)' /\ Reads(s)'
    BY <1>1, <1>3, <1>4, <1>5, <1>6, OthersStay
  <2> QED
    BY <2>4, <2>5, <2>6 DEF MemoryInv
<1> QED
  BY <1>7, <1>8 DEF Memories!Retire, Memories!Crash

\* Every step of a memory keeps the invariant.
LEMMA MemoryKeeps ==
  ASSUME Jobs, MemoryInv, [Memories!Next]_Memories!mvars
  PROVE  MemoryInv'
<1>1. ASSUME UNCHANGED <<asked, stage, hits, draft, accepted>>, memories' \subseteq memories
      PROVE  MemoryInv'
  BY <1>1, OthersStay DEF MemoryInv, MemoryTyped
<1>2. CASE UNCHANGED Memories!mvars
  BY <1>1, <1>2 DEF Memories!mvars
<1>3. ASSUME NEW m \in memories, Memories!cleanupExpired(m) PROVE MemoryInv'
  BY <1>1, <1>3 DEF Memories!cleanupExpired
<1> QED
  BY <1>2, <1>3, SearchKeeps, WorkKeeps, CaseKeeps, ConsolidateKeeps, ProfileKeeps
  DEF Memories!Next

\* At the start nobody has learned anything.
LEMMA MemoryStart ==
  ASSUME Jobs, Memories!Init
  PROVE  MemoryInv
<1>1. MemoryTyped
  BY DEF Memories!Init, MemoryTyped, Stages
<1>2. \A m \in memories : Learned(m) /\ Profiled(m)
  BY FS_EmptySet DEF Jobs, Memories!Init, Learned, Profiled
<1>3. \A r \in Runs : Writes(r) /\ Reads(r)
  BY DEF Memories!Init, Writes, Reads
<1> QED
  BY <1>1, <1>2, <1>3 DEF MemoryInv
-----------------------------------------------------------------------------
(***************************************************************************)
(* The shared state. What an agent said of a key stands there until an     *)
(* output disputes it, and a dispute is never forgotten; the same holds of *)
(* the checkpoint, to which a run may return.                              *)
(***************************************************************************)

store == s1
conflicts == s2
checkpoint == s4
told == s5

\* Three keys; an agent has a name, and what it writes is not nothing.
Names == /\ DictKey # ListKey /\ DictKey # TextKey /\ ListKey # TextKey
         /\ Shared!None \notin Words /\ Shared!None \notin Writers

Facts == [Fields -> Words \union {Shared!None}]
Entries == [dict : Facts, text : Words \union {Shared!None}, by : Writers \union {Shared!None}]
SignedEntries == [dict : Facts, text : Words \union {Shared!None}, by : Writers]
Outputs == [key : Shared!Keys, value : Shared!Written, by : Writers]

\* The shapes of a section; the entries of a list section say whose they are.
IsSigned(x) == \E l \in Seq(SignedEntries) : x = Shared!List(l)
IsList(x) == \E l \in Seq(Entries) : x = Shared!List(l)
IsDict(x) == \E d \in Facts, l \in Seq(Entries) : x = Shared!Value("dict", d, l, Shared!None)
IsScalar(x) == \E w \in Words : x = Shared!Scalar(w)

IsSection(k, x) == \/ x = Shared!Absent
                   \/ IF k = ListKey THEN IsSigned(x) ELSE IsList(x) \/ IsDict(x) \/ IsScalar(x)

Shaped(st) == /\ st = [k \in Shared!Keys |-> st[k]]
              /\ \A k \in Shared!Keys : IsSection(k, st[k])

Saying(o) == Shared!ToSet(Shared!_coerce_list_shaped_value(o.value, o.by))

\* A list stands for what it says, not for a list that is written like it.
StandsAs(x, o) ==
    \/ x = o.value /\ x.kind # "list"
    \/ Saying(o) \subseteq Shared!ToSet(x.list)
    \/ /\ x.kind = "dict" /\ o.value.kind = "dict"
       /\ \A f \in Fields : o.value.dict[f] # Shared!None => x.dict[f] = o.value.dict[f]

Disputed(known, o) == \E c \in known : /\ c.section = o.key
                                       /\ \/ c.incoming = o.value /\ c.by = o.by
                                          \/ c.existing = o.value

Accounted(st, known, said) ==
    \A o \in said : o \in Outputs /\ (StandsAs(st[o.key], o) \/ Disputed(known, o))

SharedInv ==
    /\ Shaped(store) /\ Accounted(store, conflicts, told)
    /\ Shaped(checkpoint.store)
    /\ Accounted(checkpoint.store, checkpoint.conflicts, checkpoint.told)

USE DEF store, conflicts, checkpoint, told

\* What an agent may write: one fact, one entry or one text.
LEMMA WrittenIs ==
  ASSUME NEW v \in Shared!Written
  PROVE  \/ \E f \in Fields, w \in Words : v = Shared!Dict([Shared!NoFields EXCEPT ![f] = w])
         \/ \E w \in Words : v = Shared!List(<<Shared!Entry(Shared!NoFields, w, Shared!None)>>)
         \/ \E w \in Words : v = Shared!Scalar(w)
BY DEF Shared!Written

\* Whatever the shape, it is one entry, and it is signed.
LEMMA OneEntry ==
  ASSUME NEW v \in Shared!Written, NEW a \in Writers
  PROVE  \E e \in SignedEntries : Shared!_coerce_list_shaped_value(v, a) = <<e>>
<1>1. Shared!NoFields \in Facts
  BY DEF Shared!NoFields, Facts
<1>2. CASE \E f \in Fields, w \in Words : v = Shared!Dict([Shared!NoFields EXCEPT ![f] = w])
  <2>1. v.kind = "dict" /\ v.dict \in Facts
    BY <1>1, <1>2 DEF Shared!Dict, Shared!Value, Facts
  <2>2. PICK e : e = Shared!Entry(v.dict, Shared!None, a)
    OBVIOUS
  <2>3. e \in SignedEntries
    BY <2>1, <2>2 DEF SignedEntries, Shared!Entry
  <2> QED
    BY <2>1, <2>2, <2>3 DEF Shared!_coerce_list_shaped_value
<1>3. CASE \E w \in Words : v = Shared!List(<<Shared!Entry(Shared!NoFields, w, Shared!None)>>)
  <2>1. PICK w \in Words : v = Shared!List(<<Shared!Entry(Shared!NoFields, w, Shared!None)>>)
    BY <1>3
  <2>2. PICK x : x = Shared!Entry(Shared!NoFields, w, Shared!None)
    OBVIOUS
  <2>3. PICK e : e = Shared!Entry(Shared!NoFields, w, a)
    OBVIOUS
  <2>4. x.by = Shared!None /\ [x EXCEPT !.by = a] = e /\ e \in SignedEntries
    BY <1>1, <2>2, <2>3 DEF SignedEntries, Shared!Entry
  <2>5. v.kind = "list" /\ v.list = <<x>>
    BY <2>1, <2>2 DEF Shared!List, Shared!Value
  <2>6. Shared!Signed(<<x>>, a) = <<e>>
    BY <2>4 DEF Shared!Signed
  <2> QED
    BY <2>4, <2>5, <2>6 DEF Shared!_coerce_list_shaped_value
<1>4. CASE \E w \in Words : v = Shared!Scalar(w)
  <2>1. PICK w \in Words : v = Shared!Scalar(w)
    BY <1>4
  <2>2. v.kind = "scalar" /\ v.scalar = w
    BY <2>1 DEF Shared!Scalar, Shared!Value
  <2>3. PICK e : e = Shared!Entry(Shared!NoFields, w, a)
    OBVIOUS
  <2>4. e \in SignedEntries
    BY <1>1, <2>3 DEF SignedEntries, Shared!Entry
  <2> QED
    BY <2>2, <2>3, <2>4 DEF Shared!_coerce_list_shaped_value
<1> QED
  BY <1>2, <1>3, <1>4, WrittenIs

\* So an output says one thing.
LEMMA SaidOnce ==
  ASSUME NEW o \in Outputs
  PROVE  \E e \in SignedEntries :
            /\ Saying(o) = {e}
            /\ Shared!_coerce_list_shaped_value(o.value, o.by) = <<e>>
<1>1. o.value \in Shared!Written /\ o.by \in Writers
  BY DEF Outputs
<1>2. PICK e \in SignedEntries : Shared!_coerce_list_shaped_value(o.value, o.by) = <<e>>
  BY <1>1, OneEntry
<1>3. Shared!ToSet(<<e>>) = {e}
  BY DEF Shared!ToSet
<1> QED
  BY <1>2, <1>3 DEF Saying

\* Signed entries are not signed again.
LEMMA SignedStays ==
  ASSUME Names, NEW l \in Seq(SignedEntries), NEW a
  PROVE  Shared!Signed(l, a) = l
<1>1. ASSUME NEW i \in DOMAIN l PROVE l[i].by # Shared!None
  <2>1. PICK e \in SignedEntries : e = l[i]
    OBVIOUS
  <2>2. e.by \in Writers
    BY DEF SignedEntries
  <2> QED
    BY <2>1, <2>2 DEF Names
<1> QED
  BY <1>1 DEF Shared!Signed

\* The parts of a section.
LEMMA Shapes ==
  /\ \A l : Shared!List(l).kind = "list" /\ Shared!List(l).list = l
            /\ Shared!List(l).dict = Shared!NoFields
  /\ \A d : Shared!Dict(d).kind = "dict" /\ Shared!Dict(d).dict = d /\ Shared!Dict(d).list = <<>>
  /\ \A w : Shared!Scalar(w).kind = "scalar" /\ Shared!Scalar(w).scalar = w
            /\ Shared!Scalar(w).list = <<>>
  /\ Shared!Absent.kind = "absent" /\ Shared!Absent.list = <<>>
  /\ \A d, l : LET x == Shared!Value("dict", d, l, Shared!None)
               IN x.kind = "dict" /\ x.dict = d /\ x.list = l
BY DEF Shared!List, Shared!Dict, Shared!Scalar, Shared!Absent, Shared!Value

\* Nothing that was said stands as an empty section.
LEMMA EmptySaysNothing ==
  ASSUME Names, NEW x, Shared!Falsy(x), NEW o \in Outputs
  PROVE  ~StandsAs(x, o)
<1>1. o.value \in Shared!Written /\ o.by \in Writers
  BY DEF Outputs
<1>2. PICK e : Saying(o) = {e}
  BY <1>1, SaidOnce
<1>3. x = Shared!Absent \/ x = Shared!Dict(Shared!NoFields) \/ x = Shared!List(<<>>)
  BY DEF Shared!Falsy
<1>4. x.list = <<>>
  BY <1>3, Shapes
<1>5. Shared!ToSet(<<>>) = {}
  BY DEF Shared!ToSet
<1>6. CASE \E f \in Fields, w \in Words :
              o.value = Shared!Dict([Shared!NoFields EXCEPT ![f] = w])
  <2>1. PICK f \in Fields : o.value.dict[f] # Shared!None /\ o.value.kind = "dict"
    BY <1>6, Shapes DEF Names, Shared!NoFields
  <2>2. x.kind = "dict" => x.dict = Shared!NoFields
    BY <1>3, Shapes
  <2>3. x.kind = "dict" => x.dict[f] = Shared!None
    BY <2>2 DEF Shared!NoFields
  <2> QED
    BY <1>2, <1>4, <1>5, <2>1, <2>3 DEF StandsAs
<1>7. CASE \E w \in Words :
              o.value = Shared!List(<<Shared!Entry(Shared!NoFields, w, Shared!None)>>)
  <2>1. o.value.kind = "list" /\ o.value.list # <<>>
    BY <1>7, Shapes
  <2> QED
    BY <1>2, <1>4, <1>5, <2>1 DEF StandsAs
<1>8. CASE \E w \in Words : o.value = Shared!Scalar(w)
  <2>1. o.value.kind = "scalar" /\ x.kind # "scalar"
    BY <1>3, <1>8, Shapes
  <2> QED
    BY <1>2, <1>4, <1>5, <2>1 DEF StandsAs
<1> QED
  BY <1>1, <1>6, <1>7, <1>8, WrittenIs

\* What stands in a list is said there, and stays when entries are added.
LEMMA ListStands ==
  ASSUME NEW l, NEW o
  PROVE  StandsAs(Shared!List(l), o) <=> Saying(o) \subseteq Shared!ToSet(l)
<1>1. PICK x : x = Shared!List(l) /\ x.kind = "list" /\ x.list = l
  BY Shapes
<1> QED
  BY <1>1 DEF StandsAs

\* An entry appended to a list section.
LEMMA ListGrows ==
  ASSUME NEW S, NEW l \in Seq(S), NEW e \in S
  PROVE  /\ l \o <<e>> \in Seq(S)
         /\ Shared!ToSet(l) \subseteq Shared!ToSet(l \o <<e>>)
         /\ e \in Shared!ToSet(l \o <<e>>)
<1>1. ASSUME NEW i \in DOMAIN l PROVE i \in DOMAIN (l \o <<e>>) /\ (l \o <<e>>)[i] = l[i]
  OBVIOUS
<1>2. /\ l \o <<e>> \in Seq(S)
      /\ Len(l) + 1 \in DOMAIN (l \o <<e>>) /\ (l \o <<e>>)[Len(l) + 1] = e
  OBVIOUS
<1> QED
  BY <1>1, <1>2 DEF Shared!ToSet

\* What is written is a section, but for the list section.
LEMMA WrittenSection ==
  ASSUME NEW k \in Shared!Keys \ {ListKey}, NEW v \in Shared!Written
  PROVE  IsSection(k, v)
<1>1. Shared!NoFields \in Facts
  BY DEF Shared!NoFields, Facts
<1>2. CASE \E f \in Fields, w \in Words : v = Shared!Dict([Shared!NoFields EXCEPT ![f] = w])
  <2>1. PICK d \in Facts : v = Shared!Dict(d)
    BY <1>1, <1>2 DEF Facts
  <2>2. v = Shared!Value("dict", d, <<>>, Shared!None) /\ <<>> \in Seq(Entries)
    BY <2>1 DEF Shared!Dict
  <2> QED
    BY <2>2 DEF IsSection, IsDict
<1>3. CASE \E w \in Words : v = Shared!List(<<Shared!Entry(Shared!NoFields, w, Shared!None)>>)
  <2>1. PICK e : /\ v = Shared!List(<<e>>)
                 /\ \E w \in Words : e = Shared!Entry(Shared!NoFields, w, Shared!None)
    BY <1>3
  <2>2. e \in Entries
    BY <1>1, <2>1 DEF Entries, Shared!Entry
  <2>3. <<e>> \in Seq(Entries)
    BY <2>2
  <2> QED
    BY <2>1, <2>3 DEF IsSection, IsList
<1>4. CASE \E w \in Words : v = Shared!Scalar(w)
  BY <1>4 DEF IsSection, IsScalar
<1> QED
  BY <1>2, <1>3, <1>4, WrittenIs

\* The parts of a conflict.
LEMMA Clashes ==
  \A k, x, v, a : LET c == Shared!Clash(k, x, v, a)
                  IN c.section = k /\ c.existing = x /\ c.incoming = v /\ c.by = a
BY DEF Shared!Clash

\* An output is merged into a section as it is: nothing that stands in it falls
\* undisputed, and the output stands or is disputed.
Answered(x, known, k, v, a, old) ==
    \A o \in Outputs : o.key = k /\ (StandsAs(old, o) \/ (o.value = v /\ o.by = a))
                         => StandsAs(x, o) \/ Disputed(known, o)

Merges(k, v, a) == LET m == Shared!_merge_into(k, v, a)
                   IN IsSection(k, m.value) /\ Answered(m.value, m.conflicts, k, v, a, store[k])

\* Into the list section, whatever the output is.
LEMMA MergeList ==
  ASSUME Names, NEW v \in Shared!Written, NEW a \in Writers, IsSection(ListKey, store[ListKey])
  PROVE  Merges(ListKey, v, a)
<1> DEFINE old == store[ListKey]
<1>1. PICK l \in Seq(SignedEntries) : /\ Shared!_coerce_list_shaped_value(old, a) = l
                                      /\ \A o \in Outputs : StandsAs(old, o) =>
                                            Saying(o) \subseteq Shared!ToSet(l)
  <2>1. CASE old = Shared!Absent
    <3>1. Shared!_coerce_list_shaped_value(old, a) = <<>>
      BY <2>1, Shapes DEF Shared!_coerce_list_shaped_value
    <3>2. \A o \in Outputs : ~StandsAs(old, o)
      BY <2>1, EmptySaysNothing DEF Shared!Falsy
    <3>3. <<>> \in Seq(SignedEntries)
      OBVIOUS
    <3> QED
      BY <3>1, <3>2, <3>3
  <2>2. CASE IsSigned(old)
    <3>1. PICK l \in Seq(SignedEntries) : old = Shared!List(l)
      BY <2>2 DEF IsSigned
    <3>2. Shared!_coerce_list_shaped_value(old, a) = Shared!Signed(l, a)
      BY <3>1, Shapes DEF Shared!_coerce_list_shaped_value
    <3>3. Shared!_coerce_list_shaped_value(old, a) = l
      BY <3>2, SignedStays
    <3> QED
      BY <3>1, <3>3, ListStands
  <2> QED
    BY <2>1, <2>2 DEF IsSection
<1>2. PICK e \in SignedEntries : Shared!_coerce_list_shaped_value(v, a) = <<e>>
  BY OneEntry
<1>3. Shared!_merge_into(ListKey, v, a) = [value |-> Shared!List(l \o <<e>>), conflicts |-> {}]
  BY <1>1, <1>2 DEF Shared!_merge_into
<1>4. /\ l \o <<e>> \in Seq(SignedEntries) /\ e \in Shared!ToSet(l \o <<e>>)
      /\ Shared!ToSet(l) \subseteq Shared!ToSet(l \o <<e>>)
  BY ListGrows
<1>5. IsSection(ListKey, Shared!List(l \o <<e>>))
  BY <1>4 DEF IsSection, IsSigned
<1>6. ASSUME NEW o \in Outputs, StandsAs(old, o) \/ (o.value = v /\ o.by = a)
      PROVE  Saying(o) \subseteq Shared!ToSet(l \o <<e>>)
  <2>1. CASE o.value = v /\ o.by = a
    BY <1>2, <1>4, <2>1 DEF Saying, Shared!ToSet
  <2> QED
    BY <1>1, <1>4, <1>6, <2>1
<1>7. Answered(Shared!List(l \o <<e>>), {}, ListKey, v, a, old)
  BY <1>6, ListStands DEF Answered
<1> QED
  BY <1>3, <1>5, <1>7 DEF Merges

\* Into an empty section.
LEMMA MergeEmpty ==
  ASSUME Names, NEW k \in Shared!Keys \ {ListKey}, NEW v \in Shared!Written, NEW a \in Writers,
         Shared!Falsy(store[k])
  PROVE  Merges(k, v, a)
<1>1. \A o \in Outputs : ~StandsAs(store[k], o)
  BY EmptySaysNothing
<1>2. ASSUME NEW x, IsSection(k, x),
             Shared!_merge_into(k, v, a) = [value |-> x, conflicts |-> {}],
             \/ x = v /\ x.kind # "list"
             \/ Shared!ToSet(Shared!_coerce_list_shaped_value(v, a)) \subseteq Shared!ToSet(x.list)
      PROVE  Merges(k, v, a)
  BY <1>1, <1>2 DEF Merges, Answered, StandsAs, Saying
<1>0. PICK old : old = store[k] /\ Shared!Falsy(old) /\ old.kind # "scalar" /\ k # ListKey
  BY Shapes DEF Shared!Falsy
<1>3. CASE v.kind # "list"
  <2>1. Shared!_merge_into(k, v, a) = [value |-> v, conflicts |-> {}]
    BY <1>0, <1>3 DEF Shared!_merge_into
  <2>2. IsSection(k, v)
    BY <1>3, WrittenSection
  <2> QED
    BY <1>2, <1>3, <2>1, <2>2
<1>4. CASE v.kind = "list"
  <2>1. PICK e \in SignedEntries : Shared!_coerce_list_shaped_value(v, a) = <<e>>
    BY OneEntry
  <2>2. Shared!Signed(v.list, a) = <<e>>
    BY <1>4, <2>1 DEF Shared!_coerce_list_shaped_value
  <2>3. <<e>> \in Seq(Entries)
    BY DEF Entries, SignedEntries
  <2>4. CASE k = DictKey
    <3>1. PICK x : x = [Shared!Dict(Shared!NoFields) EXCEPT !.list = <<e>>]
      OBVIOUS
    <3>2. Shared!_merge_into(k, v, a) = [value |-> x, conflicts |-> {}]
      BY <1>0, <1>4, <2>2, <2>4, <3>1 DEF Shared!_merge_into, Shared!_coerce_dict_shaped_list
    <3>3. x = Shared!Value("dict", Shared!NoFields, <<e>>, Shared!None)
      BY <3>1 DEF Shared!Dict, Shared!Value
    <3>4. Shared!NoFields \in Facts
      BY DEF Shared!NoFields, Facts
    <3>5. IsSection(k, x)
      BY <2>3, <3>3, <3>4 DEF IsSection, IsDict
    <3>6. x.list = <<e>>
      BY <3>3 DEF Shared!Value
    <3> QED
      BY <1>2, <2>1, <3>2, <3>5, <3>6
  <2>5. CASE k # DictKey
    <3>1. Shared!_merge_into(k, v, a) = [value |-> Shared!List(<<e>>), conflicts |-> {}]
      BY <1>0, <1>4, <2>2, <2>5 DEF Shared!_merge_into
    <3>2. IsSection(k, Shared!List(<<e>>)) /\ Shared!List(<<e>>).list = <<e>>
      BY <2>3, Shapes DEF IsSection, IsList
    <3> QED
      BY <1>2, <2>1, <3>1, <3>2
  <2> QED
    BY <2>4, <2>5
<1> QED
  BY <1>3, <1>4

\* Into facts: what is known stays, what differs is disputed.
LEMMA MergeFacts ==
  ASSUME Names, NEW k \in Shared!Keys \ {ListKey}, NEW v \in Shared!Written, NEW a \in Writers,
         ~Shared!Falsy(store[k]), IsDict(store[k])
  PROVE  Merges(k, v, a)
<1>1. PICK d \in Facts, l \in Seq(Entries) :
         store[k] = Shared!Value("dict", d, l, Shared!None)
  BY DEF IsDict
<1>2. PICK old : /\ old = store[k] /\ old.kind = "dict" /\ old.dict = d /\ old.list = l
                 /\ old = Shared!Value("dict", d, l, Shared!None)
  BY <1>1, Shapes
<1>3. CASE v.kind # "dict"
  <2>1. PICK c : c = Shared!Clash(k, old, v, a) /\ c.section = k /\ c.incoming = v /\ c.by = a
    BY Clashes
  <2>2. Shared!_merge_into(k, v, a) = [value |-> old, conflicts |-> {c}]
    BY <1>2, <1>3, <2>1 DEF Shared!_merge_into
  <2>3. IsSection(k, old)
    BY <1>2 DEF IsSection
  <2>4. Answered(old, {c}, k, v, a, old)
    BY <2>1 DEF Answered, Disputed
  <2> QED
    BY <1>2, <2>2, <2>3, <2>4 DEF Merges
<1>4. CASE v.kind = "dict"
  <2>1. PICK f \in Fields, w \in Words : v = Shared!Dict([Shared!NoFields EXCEPT ![f] = w])
    BY <1>4, WrittenIs, Shapes
  <2>2. /\ v.dict \in Facts /\ v.dict[f] = w /\ w # Shared!None
        /\ v.dict = [Shared!NoFields EXCEPT ![f] = w]
        /\ \A g \in Fields \ {f} : v.dict[g] = Shared!None
    <3>1. PICK y : y = [Shared!NoFields EXCEPT ![f] = w]
      OBVIOUS
    <3>2. /\ y \in Facts /\ y[f] = w /\ \A g \in Fields \ {f} : y[g] = Shared!None
      BY <3>1 DEF Facts, Shared!NoFields
    <3>3. v.dict = y /\ w # Shared!None
      BY <2>1, <3>1, Shapes DEF Names
    <3> QED
      BY <3>1, <3>2, <3>3
  <2>3. PICK new : new = Shared!Merged(old, v)
    OBVIOUS
  <2>4. /\ new \in Facts
        /\ \A g \in Fields : new[g] = IF d[g] = Shared!None THEN v.dict[g] ELSE d[g]
    BY <1>2, <2>2, <2>3 DEF Shared!Merged, Facts
  <2>5. PICK known : known = {Shared!Clash(k, Shared!Field(old, g), Shared!Field(v, g), a) :
                                g \in Shared!Differing(old, v)}
    OBVIOUS
  <2>6. PICK x : x = [old EXCEPT !.dict = new]
    OBVIOUS
  <2>7. Shared!_merge_into(k, v, a) = [value |-> x, conflicts |-> known]
    BY <1>2, <1>4, <2>3, <2>5, <2>6 DEF Shared!_merge_into
  <2>8. x = Shared!Value("dict", new, l, Shared!None)
    BY <1>2, <2>6 DEF Shared!Value
  <2>9. x.kind = "dict" /\ x.dict = new /\ x.list = l /\ IsSection(k, x)
    BY <2>4, <2>8, Shapes DEF IsSection, IsDict
  <2>10. ASSUME NEW o \in Outputs, StandsAs(old, o) PROVE StandsAs(x, o)
    <3>1. CASE Saying(o) \subseteq Shared!ToSet(old.list)
      BY <1>2, <2>9, <3>1 DEF StandsAs
    <3>2. CASE /\ o.value.kind = "dict"
               /\ \A g \in Fields : o.value.dict[g] # Shared!None => old.dict[g] = o.value.dict[g]
      BY <1>2, <2>4, <2>9, <3>2 DEF StandsAs
    <3> QED
      BY <1>2, <2>10, <3>1, <3>2 DEF StandsAs
  <2>11. ASSUME NEW o \in Outputs, o.key = k, o.value = v, o.by = a
         PROVE  StandsAs(x, o) \/ Disputed(known, o)
    <3>1. CASE f \in Shared!Differing(old, v)
      <4>1. Shared!Field(v, f) = v
        BY <2>1, <2>2 DEF Shared!Field
      <4>2. PICK c : /\ c = Shared!Clash(k, Shared!Field(old, f), v, a) /\ c.section = k
                     /\ c.incoming = v /\ c.by = a
        BY Clashes
      <4>3. c \in known
        BY <2>5, <3>1, <4>1, <4>2
      <4> QED
        BY <2>11, <4>2, <4>3 DEF Disputed
    <3>2. CASE f \notin Shared!Differing(old, v)
      <4>1. new[f] = v.dict[f]
        BY <1>2, <2>2, <2>4, <3>2 DEF Shared!Differing
      <4> QED
        BY <1>4, <2>2, <2>9, <2>11, <4>1 DEF StandsAs
    <3> QED
      BY <3>1, <3>2
  <2>12. Answered(x, known, k, v, a, old)
    BY <2>10, <2>11 DEF Answered
  <2> QED
    BY <1>2, <2>7, <2>9, <2>12 DEF Merges
<1> QED
  BY <1>3, <1>4

\* Into a list that is none of the list sections, and over a text.
LEMMA MergeOther ==
  ASSUME Names, NEW k \in Shared!Keys \ {ListKey}, NEW v \in Shared!Written, NEW a \in Writers,
         ~Shared!Falsy(store[k]), IsList(store[k]) \/ IsScalar(store[k])
  PROVE  Merges(k, v, a)
<1>1. CASE IsList(store[k])
  <2>1. PICK l \in Seq(Entries) : store[k] = Shared!List(l)
    BY <1>1 DEF IsList
  <2>2. PICK old : old = store[k] /\ old = Shared!List(l) /\ old.kind = "list" /\ old.list = l
    BY <2>1, Shapes
  <2>3. PICK e \in SignedEntries : Shared!_coerce_list_shaped_value(v, a) = <<e>>
    BY OneEntry
  <2>4. e \in Entries
    BY DEF Entries, SignedEntries
  <2>5. /\ l \o <<e>> \in Seq(Entries) /\ e \in Shared!ToSet(l \o <<e>>)
        /\ Shared!ToSet(l) \subseteq Shared!ToSet(l \o <<e>>)
    BY <2>4, ListGrows
  <2>6. Shared!_merge_into(k, v, a) = [value |-> Shared!List(l \o <<e>>), conflicts |-> {}]
    BY <2>2, <2>3 DEF Shared!_merge_into
  <2>7. IsSection(k, Shared!List(l \o <<e>>))
    BY <2>5 DEF IsSection, IsList
  <2>8. ASSUME NEW o \in Outputs, StandsAs(old, o) \/ (o.value = v /\ o.by = a)
        PROVE  Saying(o) \subseteq Shared!ToSet(l \o <<e>>)
    <3>1. CASE o.value = v /\ o.by = a
      BY <2>3, <2>5, <3>1 DEF Saying, Shared!ToSet
    <3>2. CASE StandsAs(old, o)
      BY <2>2, <2>5, <3>2, ListStands
    <3> QED
      BY <2>8, <3>1, <3>2
  <2>9. Answered(Shared!List(l \o <<e>>), {}, k, v, a, old)
    BY <2>8, ListStands DEF Answered
  <2> QED
    BY <2>2, <2>6, <2>7, <2>9 DEF Merges
<1>2. CASE IsScalar(store[k])
  <2>1. PICK w \in Words : store[k] = Shared!Scalar(w)
    BY <1>2 DEF IsScalar
  <2>2. PICK old : /\ old = store[k] /\ old = Shared!Scalar(w) /\ old.kind = "scalar"
                   /\ old.list = <<>>
    BY <2>1, Shapes
  <2>3. \A o \in Outputs : StandsAs(old, o) => o.value = old
    <3>1. Shared!ToSet(<<>>) = {}
      BY DEF Shared!ToSet
    <3> QED
      BY <2>2, <3>1, SaidOnce DEF StandsAs
  <2>4. PICK c : /\ c = Shared!Clash(k, old, v, a) /\ c.section = k /\ c.existing = old
                 /\ c.incoming = v /\ c.by = a
    BY Clashes
  <2>5. PICK x : x = IF k = DictKey /\ v.kind = "list" THEN old ELSE v
    OBVIOUS
  <2>6. Shared!_merge_into(k, v, a) = [value |-> x, conflicts |-> IF v = old THEN {} ELSE {c}]
    BY <2>2, <2>4, <2>5 DEF Shared!_merge_into
  <2>7. IsSection(k, x)
    BY <1>2, <2>2, <2>5, WrittenSection DEF IsSection
  <2>8. Answered(x, IF v = old THEN {} ELSE {c}, k, v, a, old)
    BY <2>2, <2>3, <2>4, <2>5 DEF Answered, Disputed, StandsAs
  <2> QED
    BY <2>2, <2>6, <2>7, <2>8 DEF Merges
<1> QED
  BY <1>1, <1>2

\* Into every section, whatever is there.
LEMMA Merging ==
  ASSUME Names, Shaped(store), NEW k \in Shared!Keys, NEW v \in Shared!Written, NEW a \in Writers
  PROVE  Merges(k, v, a)
<1>1. IsSection(k, store[k])
  BY DEF Shaped
<1>2. CASE k = ListKey
  BY <1>1, <1>2, MergeList
<1>3. CASE k # ListKey /\ store[k] = Shared!Absent
  BY <1>3, MergeEmpty DEF Shared!Falsy
<1>4. CASE k # ListKey /\ store[k] # Shared!Absent
  BY <1>1, <1>4, MergeEmpty, MergeFacts, MergeOther DEF IsSection
<1> QED
  BY <1>2, <1>3, <1>4
\* A store whose sections are well shaped but for one that is again.
LEMMA SectionSet ==
  ASSUME NEW st, Shaped(st), NEW k \in Shared!Keys, NEW x, IsSection(k, x)
  PROVE  LET new == [st EXCEPT ![k] = x]
         IN Shaped(new) /\ new[k] = x /\ \A j \in Shared!Keys \ {k} : new[j] = st[j]
BY DEF Shaped

\* An output: what stood is answered by the merge, or in another section.
LEMMA OutputKeeps ==
  ASSUME Names, SharedInv, NEW a \in Writers, NEW k \in Shared!Keys, NEW v \in Shared!Written,
         Shared!apply_output(a, k, v)
  PROVE  SharedInv'
<1>1. PICK m : /\ m = Shared!_merge_into(k, v, a)
               /\ store' = [store EXCEPT ![k] = m.value]
               /\ conflicts' = conflicts \union m.conflicts
               /\ told' = told \union {[key |-> k, value |-> v, by |-> a]}
               /\ checkpoint' = checkpoint
  BY DEF Shared!apply_output
<1>2. IsSection(k, m.value) /\ Answered(m.value, m.conflicts, k, v, a, store[k])
  BY <1>1, Merging DEF SharedInv, Merges
<1>3. Shaped(store') /\ store'[k] = m.value /\ \A j \in Shared!Keys \ {k} : store'[j] = store[j]
  <2>1. LET new == [store EXCEPT ![k] = m.value]
        IN Shaped(new) /\ new[k] = m.value /\ \A j \in Shared!Keys \ {k} : new[j] = store[j]
    BY <1>2, SectionSet DEF SharedInv
  <2> QED
    BY <1>1, <2>1
<1>4. ASSUME NEW o \in told'
      PROVE  o \in Outputs /\ (StandsAs(store'[o.key], o) \/ Disputed(conflicts', o))
  <2>1. Disputed(conflicts, o) => Disputed(conflicts', o)
    BY <1>1 DEF Disputed
  <2>2. Disputed(m.conflicts, o) => Disputed(conflicts', o)
    BY <1>1 DEF Disputed
  <2>3. CASE o \in told
    <3>1. o \in Outputs /\ o.key \in Shared!Keys
          /\ (StandsAs(store[o.key], o) \/ Disputed(conflicts, o))
      BY <2>3 DEF SharedInv, Accounted, Outputs
    <3>2. CASE o.key = k
      BY <1>1, <1>2, <1>3, <2>1, <2>2, <3>1, <3>2 DEF Answered
    <3>3. CASE o.key # k
      BY <1>1, <1>3, <2>1, <3>1, <3>3
    <3> QED
      BY <3>2, <3>3
  <2>4. CASE o = [key |-> k, value |-> v, by |-> a]
    <3>1. o \in Outputs /\ o.key = k /\ o.value = v /\ o.by = a
      BY <2>4 DEF Outputs
    <3> QED
      BY <1>2, <1>3, <2>2, <3>1 DEF Answered
  <2> QED
    BY <1>1, <2>3, <2>4
<1> QED
  BY <1>1, <1>3, <1>4 DEF SharedInv, Accounted

\* Preflight fills a section in which nothing stands.
LEMMA ArtifactsKeep ==
  ASSUME Names, SharedInv, NEW k \in Shared!Keys, NEW v \in Shared!Written,
         Shared!apply_artifacts(k, v)
  PROVE  SharedInv'
<1>1. /\ k \in Shared!Keys \ {ListKey} /\ Shared!Falsy(store[k])
      /\ store' = [store EXCEPT ![k] = v]
      /\ UNCHANGED <<conflicts, checkpoint, told>>
  BY DEF Names, Shared!apply_artifacts
<1>2. Shaped(store') /\ \A j \in Shared!Keys \ {k} : store'[j] = store[j]
  <2>1. LET new == [store EXCEPT ![k] = v]
        IN Shaped(new) /\ new[k] = v /\ \A j \in Shared!Keys \ {k} : new[j] = store[j]
    <3>1. IsSection(k, v) /\ Shaped(store)
      BY <1>1, WrittenSection DEF SharedInv
    <3> QED
      BY <3>1, SectionSet
  <2> QED
    BY <1>1, <2>1
<1>3. ASSUME NEW o \in told
      PROVE  o \in Outputs /\ (StandsAs(store'[o.key], o) \/ Disputed(conflicts, o))
  <2>1. o \in Outputs /\ o.key \in Shared!Keys
        /\ (StandsAs(store[o.key], o) \/ Disputed(conflicts, o))
    BY DEF SharedInv, Accounted, Outputs
  <2>2. o.key = k => ~StandsAs(store[k], o)
    BY <1>1, <2>1, EmptySaysNothing
  <2> QED
    BY <1>2, <2>1, <2>2
<1> QED
  BY <1>1, <1>2, <1>3 DEF SharedInv, Accounted

\* A run goes back to a checkpoint, whose list section is signed already.
LEMMA BackKeeps ==
  ASSUME Names, SharedInv, NEW artifacts, Shaped(artifacts),
         \A k \in Shared!Keys : artifacts[k] = checkpoint.store[k] \/ artifacts[k] = Shared!Absent,
         Shared!Restored(artifacts)
  PROVE  SharedInv'
<1>1. /\ store' = [artifacts EXCEPT ![ListKey] =
                      IF artifacts[ListKey] = Shared!Absent THEN artifacts[ListKey]
                      ELSE Shared!List(Shared!_coerce_list_shaped_value(artifacts[ListKey],
                                                                        "checkpoint"))]
      /\ conflicts' = checkpoint.conflicts /\ checkpoint' = checkpoint
      /\ told' = {t \in checkpoint.told : artifacts[t.key] # Shared!Absent}
  BY DEF Shared!Restored, Shared!Back
<1>2. ListKey \in Shared!Keys
  BY DEF Shared!Keys
<1>3. CASE artifacts[ListKey] = Shared!Absent
  <2>1. store' = artifacts
    BY <1>1, <1>2, <1>3 DEF Shaped
  <2> QED
    BY <1>1, <2>1 DEF SharedInv, Accounted, Outputs
<1>4. CASE artifacts[ListKey] # Shared!Absent
  <2>1. PICK l \in Seq(SignedEntries) : artifacts[ListKey] = Shared!List(l)
    BY <1>2, <1>4 DEF Shaped, IsSection, IsSigned
  <2>2. Shared!_coerce_list_shaped_value(artifacts[ListKey], "checkpoint")
           = Shared!Signed(l, "checkpoint")
    BY <2>1, Shapes DEF Shared!_coerce_list_shaped_value
  <2>3. Shared!_coerce_list_shaped_value(artifacts[ListKey], "checkpoint") = l
    BY <2>2, SignedStays
  <2>4. store' = artifacts
    BY <1>1, <1>2, <1>4, <2>1, <2>3 DEF Shaped
  <2> QED
    BY <1>1, <2>4 DEF SharedInv, Accounted, Outputs
<1> QED
  BY <1>3, <1>4

\* Every step keeps what was said.
LEMMA SharedKeeps ==
  ASSUME Names, SharedInv, [Shared!Next]_Shared!vars
  PROVE  SharedInv'
<1>1. CASE UNCHANGED Shared!vars
  BY <1>1 DEF Shared!vars, SharedInv, Accounted
<1>2. CASE Shared!Checkpoint
  <2>1. /\ checkpoint'.store = store /\ checkpoint'.conflicts = conflicts
        /\ checkpoint'.told = told /\ UNCHANGED <<store, conflicts, told>>
    BY <1>2 DEF Shared!Checkpoint, Shared!snapshot
  <2> QED
    BY <2>1 DEF SharedInv, Accounted
<1>3. CASE Shared!restore
  <2>1. CASE Shared!Restored(checkpoint.store)
    BY <2>1, BackKeeps DEF SharedInv
  <2>2. PICK old : old = [k \in Shared!Keys |-> IF k \in Shared!_sync_legacy_mirrors
                                                THEN checkpoint.store[k] ELSE Shared!Absent]
    OBVIOUS
  <2>3. Shaped(old)
    BY <2>2 DEF SharedInv, Shaped, IsSection
  <2>4. CASE Shared!Restored(old)
    BY <2>2, <2>3, <2>4, BackKeeps
  <2> QED
    BY <1>3, <2>1, <2>2, <2>4 DEF Shared!restore
<1> QED
  BY <1>1, <1>2, <1>3, OutputKeeps, ArtifactsKeep DEF Shared!Next

\* At the start nothing was said.
LEMMA SharedStart ==
  ASSUME Names, Shared!Init
  PROVE  SharedInv
<1>1. Shared!NoFields \in Facts
  BY DEF Shared!NoFields, Facts
<1>2. \A S : <<>> \in Seq(S)
  OBVIOUS
<1>3. /\ IsSection(DictKey, Shared!Dict(Shared!NoFields)) /\ DictKey \in Shared!Keys
      /\ IsSection(ListKey, Shared!List(<<>>)) /\ IsSection(TextKey, Shared!Absent)
  BY <1>1, <1>2 DEF Names, IsSection, IsDict, IsSigned, Shared!Dict, Shared!Keys
<1>4. Shaped(Shared!Fresh)
  BY <1>3 DEF Names, Shaped, Shared!Fresh, Shared!Keys
<1>5. /\ store = Shared!Fresh /\ told = {}
      /\ checkpoint.store = store /\ checkpoint.told = told
  BY DEF Shared!Init, Shared!snapshot
<1> QED
  BY <1>4, <1>5 DEF SharedInv, Accounted
-----------------------------------------------------------------------------
(***************************************************************************)
(* The deployments.                                                        *)
(***************************************************************************)

op == s1
disk == s2
images == s3
stack == s4
control == s5
killed == s6
torn == s7
stuck == s8

Contents == [Deploying!Files -> Int]
Scripts == {"none", "sync", "aliyun", "patch", "bootstrap", "repair"}
Steps == {"idle", "done", "upload", "unpack", "overlay", "delete", "swap out", "swap in",
          "stale", "env", "lock", "verify", "drain", "poll", "build", "up", "health",
          "resume", "docker", "git", "compose", "patch", "repair"}
Envs == [secrets : {"absent", "none", "own", "default"}, build : Int]
Trees == [files : Contents, env : Envs, marker : Int, manifest : Contents]

DeployTyped ==
    /\ op \in [how : Scripts, pc : Steps, n : Int, armed : BOOLEAN]
    /\ disk \in [src : Trees, incoming : Trees, previous : Trees, tar : Int,
                 checkout : Contents, git : BOOLEAN, platform : Envs]
    /\ images \in Contents
    /\ stack \in [up : BOOLEAN, files : Contents, env : Envs]
    /\ control \in [drained : BOOLEAN, picked : BOOLEAN,
                    run : {"none", "fresh", "saved"}, late : BOOLEAN]
    /\ killed \in BOOLEAN /\ torn \in BOOLEAN /\ stuck \in BOOLEAN

\* The script that runs is at one of these steps.
Script(how, pcs) == op.how = how /\ op.pc \in pcs

\* The files of the commit with the operator's edits, as far as the steps up
\* to the current one have put them together.
Gathered(files) ==
    /\ files["kept"] = op.n
    /\ op.pc # "overlay" => files["edited"] = Deploying!Work(op.n)
    /\ op.pc \notin {"overlay", "delete"} => files["deleted"] = Deploying!Absent

Pruned(files) ==
    /\ Gathered(files)
    /\ op.pc # "stale" => files["stale"] = Deploying!Absent
    /\ op.pc \notin {"stale", "env", "lock"} => files["lock"] = Deploying!Resolved

\* What a safe deployment has put together by now is what it will have built.
Assembled ==
    /\ Script("sync", {"unpack"}) => disk.tar = op.n
    /\ ~torn /\ Script("sync", {"overlay", "delete", "swap out", "swap in"}) =>
          Gathered(disk.incoming.files)
    /\ ~torn /\ Script("sync", {"stale", "env", "lock", "verify", "drain", "poll", "build"}) =>
          Pruned(disk.src.files)
    /\ ~torn /\ Script("sync", {"up"}) => images = Deploying!Released(op.n)
    /\ ~torn /\ Script("sync", {"health", "resume", "done"}) =>
          stack.files = Deploying!Released(op.n)

\* From its check on, it has secrets and its own stamp.
Stamped ==
    /\ Script("sync", {"drain", "poll", "build", "up"}) =>
          Deploying!Usable(disk.src.env) /\ disk.src.env.build = op.n
    /\ Script("sync", {"health", "resume", "done"}) =>
          Deploying!Usable(stack.env) /\ stack.env.build = op.n

\* A deployment from the checkout builds the commit it has reset it to.
FromCheckout ==
    /\ Script("aliyun", {"env", "compose"}) => disk.checkout = Deploying!Committed(op.n)
    /\ Script("aliyun", {"health", "done"}) =>
          stack.files = Deploying!Committed(op.n) /\ Deploying!Usable(stack.env)

\* From the drain to the restart of a stack that is up, the dispatcher is
\* drained, and once the script has seen that all runs have a checkpoint, a
\* new one can only be one that was picked before.
Drained ==
    /\ ~stack.up => control.run = "none" /\ ~control.picked
    /\ Script("sync", {"poll"}) => stack.up
    /\ Script("sync", {"poll", "build", "up"}) /\ stack.up => control.drained
    /\ Script("sync", {"build", "up"}) /\ control.run = "fresh" => control.late
    /\ ~killed

\* A dispatcher that is drained has a script that will undo it, or one could
\* not reach it.
Undone ==
    control.drained => stuck \/ (Script("sync", {"poll", "build", "up"}) /\ op.armed)

DeployInv ==
    DeployTyped /\ Assembled /\ Stamped /\ FromCheckout /\ Drained /\ Undone

USE DEF op, disk, images, stack, control, killed, torn, stuck

\* What a script writes somewhere has the type of that place.
LEMMA WhatIsWritten ==
  /\ Deploying!NoFiles \in Contents /\ Deploying!NoTree \in Trees
  /\ Deploying!NoEnv \in Envs /\ Deploying!EmptyEnv \in Envs
  /\ \A n \in Int :
        /\ Deploying!Committed(n) \in Contents
        /\ \A f \in Deploying!Files :
              Deploying!Committed(n)[f] = IF f = "built" THEN Deploying!Absent ELSE n
BY DEF Deploying!NoFiles, Deploying!NoTree, Deploying!Tree, Deploying!NoEnv,
   Deploying!EmptyEnv, Deploying!Committed, Deploying!Absent, Contents, Trees, Envs

\* So has a tree of which one file was written.
LEMMA FileWritten ==
  ASSUME NEW tree \in Trees, NEW f \in Deploying!Files, NEW v \in Int
  PROVE  [tree EXCEPT !.files[f] = v] \in Trees
<1>1. tree.files \in Contents
  BY DEF Trees
<1>2. [tree.files EXCEPT ![f] = v] \in Contents
  BY <1>1 DEF Contents
<1> QED
  BY <1>2 DEF Trees

\* A script goes on to its next step.
LEMMA StepTaken ==
  ASSUME DeployTyped, NEW pc \in Steps, Deploying!To(pc)
  PROVE  /\ op' \in [how : Scripts, pc : Steps, n : Int, armed : BOOLEAN]
         /\ op'.pc = pc /\ op'.how = op.how /\ op'.n = op.n /\ op'.armed = op.armed
BY DEF DeployTyped, Deploying!To

\* A step of a script before it drains, of one that does not drain, or of one
\* that ends, leaves what is said of the dispatcher as it is.
LEMMA DispatcherUntouched ==
  ASSUME DeployInv, UNCHANGED <<stack, control, killed, stuck>>,
         ~Script("sync", {"poll", "build", "up"}),
         ~Script("sync", {"poll", "build", "up"})'
  PROVE  Drained' /\ Undone'
BY DEF DeployInv, Drained, Undone, Script

\* A step of the dispatcher leaves what the scripts have put together as it is.
LEMMA StackUntouched ==
  ASSUME DeployInv, UNCHANGED <<op, disk, images, stack, torn>>
  PROVE  Assembled' /\ Stamped' /\ FromCheckout'
<1>1. op' = op /\ disk' = disk /\ images' = images /\ stack' = stack
  OBVIOUS
<1>2. torn \in BOOLEAN /\ torn' = torn
  BY DEF DeployInv, DeployTyped
<1>3. torn' <=> torn
  BY <1>2
<1>4. Gathered(disk.incoming.files)' <=> Gathered(disk.incoming.files)
  BY <1>1 DEF Gathered
<1>5. Pruned(disk.src.files)' <=> Pruned(disk.src.files)
  BY <1>1 DEF Pruned, Gathered
<1>6. Assembled'
  <2>1. Assembled
    BY DEF DeployInv
  <2>2. op'.how = "sync" /\ op'.pc = "unpack" => disk'.tar = op'.n
    BY <1>1, <2>1 DEF Assembled, Script
  <2>3. ASSUME ~torn', op'.how = "sync",
               op'.pc \in {"overlay", "delete", "swap out", "swap in"}
        PROVE  Gathered(disk.incoming.files)'
    <3>1. ~torn /\ op.how = "sync"
      <4>1. ~torn
        BY <1>3, <2>3
      <4>2. op.how = "sync"
        BY <1>1, <2>3
      <4> QED
        BY <4>1, <4>2
    <3>2. op.pc \in {"overlay", "delete", "swap out", "swap in"}
      BY <1>1, <2>3
    <3>3. Gathered(disk.incoming.files)
      BY <2>1, <3>1, <3>2 DEF Assembled, Script
    <3> QED
      BY <1>4, <3>3
  <2>4. ASSUME ~torn', op'.how = "sync",
               op'.pc \in {"stale", "env", "lock", "verify", "drain", "poll", "build"}
        PROVE  Pruned(disk.src.files)'
    <3>1. ~torn /\ op.how = "sync"
      <4>1. ~torn
        BY <1>3, <2>4
      <4>2. op.how = "sync"
        BY <1>1, <2>4
      <4> QED
        BY <4>1, <4>2
    <3>2. op.pc \in {"stale", "env", "lock", "verify", "drain", "poll", "build"}
      BY <1>1, <2>4
    <3>3. Pruned(disk.src.files)
      BY <2>1, <3>1, <3>2 DEF Assembled, Script
    <3> QED
      BY <1>5, <3>3
  <2>5. ~torn' /\ op'.how = "sync" /\ op'.pc = "up" => images' = Deploying!Released(op.n)
    BY <1>1, <1>3, <2>1 DEF Assembled, Script
  <2>6. ASSUME ~torn', op'.how = "sync", op'.pc \in {"health", "resume", "done"}
        PROVE  stack'.files = Deploying!Released(op.n)
    <3>1. ~torn /\ op.how = "sync"
      <4>1. ~torn
        BY <1>3, <2>6
      <4>2. op.how = "sync"
        BY <1>1, <2>6
      <4> QED
        BY <4>1, <4>2
    <3>2. op.pc \in {"health", "resume", "done"}
      BY <1>1, <2>6
    <3>3. stack.files = Deploying!Released(op.n)
      BY <2>1, <3>1, <3>2 DEF Assembled, Script
    <3> QED
      BY <1>1, <3>3
  <2> QED
    BY <1>1, <2>2, <2>3, <2>4, <2>5, <2>6 DEF Assembled, Script
<1>7. Stamped'
  BY <1>1 DEF DeployInv, Stamped, Script
<1>8. FromCheckout'
  BY <1>1 DEF DeployInv, FromCheckout, Script
<1> QED
  BY <1>6, <1>7, <1>8

\* What is said of a safe deployment says nothing of the others, nor of one
\* that has ended before its time.
LEMMA OtherScript ==
  ASSUME op'.how # "sync" \/ op'.pc = "idle"
  PROVE  Assembled' /\ Stamped'
BY DEF Assembled, Stamped, Script

\* Nor does what is said of a deployment from the checkout.
LEMMA NotFromCheckout ==
  ASSUME op'.how # "aliyun" \/ op'.pc \notin {"env", "compose", "health", "done"}
  PROVE  FromCheckout'
BY DEF FromCheckout, Script

\* A new script has done nothing yet.
LEMMA ScriptStarts ==
  ASSUME DeployInv, NEW how \in Scripts \ {"none"}, Deploying!Start(how)
  PROVE  DeployInv'
<1>1. op.pc \in {"idle", "done"} /\ DeployTyped
  BY DEF DeployInv, Deploying!Start
<1>2. PICK pc \in {"upload", "docker", "env", "patch", "repair"} :
         /\ op' = [how |-> how, n |-> op.n + 1, armed |-> FALSE, pc |-> pc]
         /\ how = "sync" => pc = "upload"
         /\ how = "aliyun" => pc = "docker"
  <2>1. CASE how = "sync"
    BY <2>1 DEF Deploying!Start
  <2>2. CASE how = "aliyun"
    BY <2>2 DEF Deploying!Start
  <2>3. CASE how = "bootstrap"
    BY <2>3 DEF Deploying!Start
  <2>4. CASE how \in {"patch", "repair"}
    BY <2>4 DEF Deploying!Start
  <2> QED
    BY <2>1, <2>2, <2>3, <2>4 DEF Scripts
<1>3. UNCHANGED <<disk, images, stack, control, killed, stuck>> /\ torn' = FALSE
  BY DEF Deploying!Start
<1>4. DeployTyped'
  <2>1. op' \in [how : Scripts, pc : Steps, n : Int, armed : BOOLEAN]
    <3>1. op.n \in Int
      BY <1>1 DEF DeployTyped
    <3>2. op.n + 1 \in Int /\ how \in Scripts
      BY <3>1
    <3>3. pc \in Steps
      BY DEF Steps
    <3> QED
      BY <1>2, <3>2, <3>3
  <2> QED
    BY <1>1, <1>3, <2>1 DEF DeployTyped
<1>5. Assembled' /\ Stamped' /\ FromCheckout'
  BY <1>2 DEF Assembled, Stamped, FromCheckout, Script
<1>6. Drained' /\ Undone'
  BY <1>1, <1>2, <1>3, DispatcherUntouched DEF Script
<1> QED
  BY <1>4, <1>5, <1>6 DEF DeployInv

-----------------------------------------------------------------------------
\* The steps that put a release together.
Gathers ==
    \/ Deploying!Upload \/ Deploying!Unpack \/ Deploying!Overlay
    \/ Deploying!DeleteRemoved \/ Deploying!SwapOut \/ Deploying!SwapIn
    \/ Deploying!RemoveStale \/ Deploying!MergeEnv \/ Deploying!Relock

\* They are steps of the safe deployment, before it drains.
LEMMA GatheringMoves ==
  ASSUME DeployTyped, Gathers
  PROVE  /\ op' \in [how : Scripts, pc : Steps, n : Int, armed : BOOLEAN]
         /\ op.how = "sync" /\ op'.how = "sync" /\ op'.n = op.n
         /\ op.pc \notin {"poll", "build", "up"}
         /\ op'.pc \in {"unpack", "overlay", "delete", "swap out", "swap in", "stale", "env",
                        "lock", "verify"}
         /\ UNCHANGED <<images, stack, control, killed, stuck>>
         /\ torn' \in BOOLEAN
<1>1. PICK pc \in {"unpack", "overlay", "delete", "swap out", "swap in", "stale", "env",
                   "lock", "verify"} : Deploying!To(pc)
  BY DEF Gathers, Deploying!Upload, Deploying!Unpack, Deploying!Overlay,
     Deploying!DeleteRemoved, Deploying!SwapOut, Deploying!SwapIn, Deploying!RemoveStale,
     Deploying!MergeEnv, Deploying!Relock
<1>2. /\ op.how = "sync" /\ op.pc \notin {"poll", "build", "up"}
      /\ UNCHANGED <<images, stack, control, killed, stuck>>
      /\ torn' = torn \/ \E complete \in BOOLEAN : torn' = ~complete
  BY DEF Gathers, Deploying!Upload, Deploying!Unpack, Deploying!Overlay,
     Deploying!DeleteRemoved, Deploying!SwapOut, Deploying!SwapIn, Deploying!RemoveStale,
     Deploying!MergeEnv, Deploying!Relock, Deploying!At, Deploying!Rest
<1>3. pc \in Steps
  BY DEF Steps
<1> QED
  BY <1>1, <1>2, <1>3, StepTaken DEF DeployTyped

\* What such a step leaves on the disk, and what the release has then.
LEMMA Gathering ==
  ASSUME DeployInv, Gathers
  PROVE  /\ disk' \in [src : Trees, incoming : Trees, previous : Trees, tar : Int,
                       checkout : Contents, git : BOOLEAN, platform : Envs]
         /\ Assembled'
<1>0. DeployTyped /\ Assembled
  BY DEF DeployInv
<1> DEFINE Disks == [src : Trees, incoming : Trees, previous : Trees, tar : Int,
                     checkout : Contents, git : BOOLEAN, platform : Envs]
<1>1. CASE Deploying!Upload
  <2>1. op'.how = "sync" /\ op'.pc = "unpack" /\ op'.n = op.n
    BY <1>0, <1>1, StepTaken DEF Deploying!Upload, Deploying!At, Steps
  <2>2. disk' \in Disks /\ disk'.tar = op.n
    BY <1>0, <1>1 DEF DeployTyped, Deploying!Upload
  <2> QED
    BY <2>1, <2>2 DEF Assembled, Script
<1>2. CASE Deploying!Unpack
  <2>1. op'.how = "sync" /\ op'.pc = "overlay" /\ op'.n = op.n /\ disk.tar = op.n
    BY <1>0, <1>2, StepTaken DEF Deploying!Unpack, Deploying!At, Steps, Assembled, Script
  <2>2. PICK complete \in BOOLEAN :
           /\ torn' = ~complete
           /\ disk' = [disk EXCEPT !.incoming =
                 Deploying!Tree([Deploying!Committed(disk.tar) EXCEPT !["kept"] =
                                    IF complete THEN @ ELSE Deploying!Absent],
                                disk.src.env, op.n)]
    BY <1>2 DEF Deploying!Unpack
  <2> DEFINE files == [Deploying!Committed(op.n) EXCEPT !["kept"] =
                         IF complete THEN @ ELSE Deploying!Absent]
  <2>3. op.n \in Int
    BY <1>0 DEF DeployTyped
  <2>4. files \in Contents /\ (complete => files["kept"] = op.n)
    BY <2>3, WhatIsWritten DEF Contents, Deploying!Files, Deploying!Absent
  <2> HIDE DEF files
  <2>5. Deploying!Tree(files, disk.src.env, op.n) \in Trees
    BY <1>0, <2>3, <2>4 DEF DeployTyped, Deploying!Tree, Trees
  <2>6. disk' = [disk EXCEPT !.incoming = Deploying!Tree(files, disk.src.env, op.n)]
    BY <2>1, <2>2 DEF files
  <2>7. disk' \in Disks /\ disk'.incoming.files = files
    BY <1>0, <2>5, <2>6 DEF DeployTyped, Deploying!Tree
  <2> QED
    BY <2>1, <2>2, <2>4, <2>7 DEF Assembled, Script, Gathered
<1>3. CASE Deploying!Overlay
  <2>1. op.how = "sync" /\ op.pc = "overlay" /\ torn' = torn
    BY <1>3 DEF Deploying!Overlay, Deploying!At, Deploying!Rest
  <2>2. op'.how = "sync" /\ op'.pc = "delete" /\ op'.n = op.n
    BY <1>0, <1>3, <2>1, StepTaken DEF Deploying!Overlay, Steps
  <2>3. disk' = [disk EXCEPT !.incoming.files["edited"] = Deploying!Work(op.n)]
    BY <1>3 DEF Deploying!Overlay
  <2>4. disk' \in Disks
    <3> DEFINE tree == [disk.incoming EXCEPT !.files["edited"] = Deploying!Work(op.n)]
    <3>1. disk.incoming \in Trees /\ Deploying!Work(op.n) \in Int /\ "edited" \in Deploying!Files
      BY <1>0 DEF DeployTyped, Deploying!Files, Deploying!Work
    <3>2. tree \in Trees
      BY <3>1, FileWritten
    <3>3. disk' = [disk EXCEPT !.incoming = tree]
      BY <1>0, <2>3 DEF DeployTyped
    <3> HIDE DEF tree
    <3> QED
      BY <1>0, <3>2, <3>3 DEF DeployTyped
  <2>5. disk'.incoming.files = [disk.incoming.files EXCEPT !["edited"] = Deploying!Work(op.n)]
    BY <1>0, <2>3 DEF DeployTyped, Trees
  <2>6. disk.incoming.files \in Contents
    BY <1>0 DEF DeployTyped, Trees
  <2>7. ~torn => Gathered(disk.incoming.files)
    BY <1>0, <2>1 DEF Assembled, Script
  <2> QED
    BY <2>1, <2>2, <2>4, <2>5, <2>6, <2>7
    DEF Assembled, Script, Gathered, Contents, Deploying!Files
<1>4. CASE Deploying!DeleteRemoved
  <2>1. op.how = "sync" /\ op.pc = "delete" /\ torn' = torn
    BY <1>4 DEF Deploying!DeleteRemoved, Deploying!At, Deploying!Rest
  <2>2. op'.how = "sync" /\ op'.pc = "swap out" /\ op'.n = op.n
    BY <1>0, <1>4, <2>1, StepTaken DEF Deploying!DeleteRemoved, Steps
  <2>3. disk' = [disk EXCEPT !.incoming.files["deleted"] = Deploying!Absent]
    BY <1>4 DEF Deploying!DeleteRemoved
  <2>4. disk' \in Disks
    <3> DEFINE tree == [disk.incoming EXCEPT !.files["deleted"] = Deploying!Absent]
    <3>1. disk.incoming \in Trees /\ Deploying!Absent \in Int /\ "deleted" \in Deploying!Files
      BY <1>0 DEF DeployTyped, Deploying!Files, Deploying!Absent
    <3>2. tree \in Trees
      BY <3>1, FileWritten
    <3>3. disk' = [disk EXCEPT !.incoming = tree]
      BY <1>0, <2>3 DEF DeployTyped
    <3> HIDE DEF tree
    <3> QED
      BY <1>0, <3>2, <3>3 DEF DeployTyped
  <2>5. disk'.incoming.files = [disk.incoming.files EXCEPT !["deleted"] = Deploying!Absent]
    BY <1>0, <2>3 DEF DeployTyped, Trees
  <2>6. disk.incoming.files \in Contents
    BY <1>0 DEF DeployTyped, Trees
  <2>7. ~torn => Gathered(disk.incoming.files)
    BY <1>0, <2>1 DEF Assembled, Script
  <2> QED
    BY <2>1, <2>2, <2>4, <2>5, <2>6, <2>7
    DEF Assembled, Script, Gathered, Contents, Deploying!Files
<1>5. CASE Deploying!SwapOut
  <2>1. op.how = "sync" /\ op.pc = "swap out" /\ torn' = torn
    BY <1>5 DEF Deploying!SwapOut, Deploying!At, Deploying!Rest
  <2>2. op'.how = "sync" /\ op'.pc = "swap in" /\ op'.n = op.n
    BY <1>0, <1>5, <2>1, StepTaken DEF Deploying!SwapOut, Steps
  <2>3. disk' \in Disks /\ disk'.incoming = disk.incoming
    BY <1>0, <1>5, WhatIsWritten DEF DeployTyped, Deploying!SwapOut
  <2>4. ~torn => Gathered(disk.incoming.files)
    BY <1>0, <2>1 DEF Assembled, Script
  <2> QED
    BY <2>1, <2>2, <2>3, <2>4 DEF Assembled, Script, Gathered
<1>6. CASE Deploying!SwapIn
  <2>1. op.how = "sync" /\ op.pc = "swap in" /\ torn' = torn
    BY <1>6 DEF Deploying!SwapIn, Deploying!At, Deploying!Rest
  <2>2. op'.how = "sync" /\ op'.pc = "stale" /\ op'.n = op.n
    BY <1>0, <1>6, <2>1, StepTaken DEF Deploying!SwapIn, Steps
  <2>3. disk' = [disk EXCEPT !.src = disk.incoming, !.incoming = Deploying!NoTree, !.tar = 0]
    BY <1>6 DEF Deploying!SwapIn
  <2>4. disk' \in Disks /\ disk'.src = disk.incoming
    <3>1. disk.incoming \in Trees /\ Deploying!NoTree \in Trees
      BY <1>0, WhatIsWritten DEF DeployTyped
    <3>2. disk' = [src |-> disk.incoming, incoming |-> Deploying!NoTree,
                   previous |-> disk.previous, tar |-> 0, checkout |-> disk.checkout,
                   git |-> disk.git, platform |-> disk.platform]
      BY <1>0, <2>3 DEF DeployTyped
    <3>3. /\ disk.previous \in Trees /\ disk.checkout \in Contents /\ disk.git \in BOOLEAN
          /\ disk.platform \in Envs
      BY <1>0 DEF DeployTyped
    <3> QED
      BY <3>1, <3>2, <3>3
  <2>5. ~torn => Gathered(disk.incoming.files)
    BY <1>0, <2>1 DEF Assembled, Script
  <2> QED
    BY <2>1, <2>2, <2>4, <2>5 DEF Assembled, Script, Gathered, Pruned
<1>7. CASE Deploying!RemoveStale
  <2>1. op.how = "sync" /\ op.pc = "stale" /\ torn' = torn
    BY <1>7 DEF Deploying!RemoveStale, Deploying!At, Deploying!Rest
  <2>2. op'.how = "sync" /\ op'.pc = "env" /\ op'.n = op.n
    BY <1>0, <1>7, <2>1, StepTaken DEF Deploying!RemoveStale, Steps
  <2>3. disk' = [disk EXCEPT !.src.files["stale"] = Deploying!Absent]
    BY <1>7 DEF Deploying!RemoveStale
  <2>4. disk' \in Disks
    <3> DEFINE tree == [disk.src EXCEPT !.files["stale"] = Deploying!Absent]
    <3>1. disk.src \in Trees /\ Deploying!Absent \in Int /\ "stale" \in Deploying!Files
      BY <1>0 DEF DeployTyped, Deploying!Files, Deploying!Absent
    <3>2. tree \in Trees
      BY <3>1, FileWritten
    <3>3. disk' = [disk EXCEPT !.src = tree]
      BY <1>0, <2>3 DEF DeployTyped
    <3> HIDE DEF tree
    <3> QED
      BY <1>0, <3>2, <3>3 DEF DeployTyped
  <2>5. disk'.src.files = [disk.src.files EXCEPT !["stale"] = Deploying!Absent]
    BY <1>0, <2>3 DEF DeployTyped, Trees
  <2>6. disk.src.files \in Contents
    BY <1>0 DEF DeployTyped, Trees
  <2>7. ~torn => Pruned(disk.src.files)
    BY <1>0, <2>1 DEF Assembled, Script
  <2> QED
    BY <2>1, <2>2, <2>4, <2>5, <2>6, <2>7
    DEF Assembled, Script, Gathered, Pruned, Contents, Deploying!Files
<1>8. CASE Deploying!MergeEnv
  <2>1. op.how = "sync" /\ op.pc = "env" /\ torn' = torn
    BY <1>8 DEF Deploying!MergeEnv, Deploying!At, Deploying!Rest
  <2>2. op'.how = "sync" /\ op'.pc = "lock" /\ op'.n = op.n
    BY <1>0, <1>8, <2>1, StepTaken DEF Deploying!MergeEnv, Steps
  <2>3. PICK env \in Envs : disk' = [disk EXCEPT !.src.env = env]
    BY <1>0, <1>8, WhatIsWritten DEF DeployTyped, Trees, Deploying!MergeEnv
  <2>4. disk' \in Disks /\ disk'.src.files = disk.src.files
    BY <1>0, <2>3 DEF DeployTyped, Trees
  <2>5. ~torn => Pruned(disk.src.files)
    BY <1>0, <2>1 DEF Assembled, Script
  <2> QED
    BY <2>1, <2>2, <2>4, <2>5 DEF Assembled, Script, Gathered, Pruned
<1>9. CASE Deploying!Relock
  <2>1. op.how = "sync" /\ op.pc = "lock" /\ torn' = torn
    BY <1>9 DEF Deploying!Relock, Deploying!At, Deploying!Rest
  <2>2. op'.how = "sync" /\ op'.pc = "verify" /\ op'.n = op.n
    BY <1>0, <1>9, <2>1, StepTaken DEF Deploying!Relock, Steps
  <2> DEFINE files == [disk.src.files EXCEPT !["lock"] = Deploying!Resolved,
                                             !["built"] = Deploying!Absent]
  <2>3. disk' = [disk EXCEPT !.src.files = files, !.src.manifest = files]
    BY <1>9 DEF Deploying!Relock
  <2>4. disk.src.files \in Contents /\ disk.src \in Trees
    BY <1>0 DEF DeployTyped, Trees
  <2>5. /\ files \in Contents /\ files["lock"] = Deploying!Resolved
        /\ \A f \in {"kept", "edited", "deleted", "stale"} : files[f] = disk.src.files[f]
    BY <2>4 DEF Contents, Deploying!Files, Deploying!Absent, Deploying!Resolved
  <2> HIDE DEF files
  <2>6. disk' \in Disks /\ disk'.src.files = files
    BY <1>0, <2>3, <2>4, <2>5 DEF DeployTyped, Trees
  <2>7. ~torn => Pruned(disk.src.files)
    BY <1>0, <2>1 DEF Assembled, Script
  <2> QED
    BY <2>1, <2>2, <2>5, <2>6, <2>7 DEF Assembled, Script, Gathered, Pruned
<1> QED
  BY <1>1, <1>2, <1>3, <1>4, <1>5, <1>6, <1>7, <1>8, <1>9 DEF Gathers

\* Putting a release together touches neither the stack nor its dispatcher.
LEMMA GathersKeeps ==
  ASSUME DeployInv, Gathers
  PROVE  DeployInv'
<1>1. DeployTyped /\ DeployTyped'
  BY GatheringMoves, Gathering DEF DeployInv, DeployTyped
<1>2. Assembled'
  BY Gathering
<1>3. Stamped' /\ FromCheckout'
  BY <1>1, GatheringMoves DEF Stamped, FromCheckout, Script
<1>4. Drained' /\ Undone'
  BY <1>1, GatheringMoves, DispatcherUntouched DEF Script
<1> QED
  BY <1>1, <1>2, <1>3, <1>4 DEF DeployInv

-----------------------------------------------------------------------------
\* A step of ecs_safe_deploy.sh from one stage to another, or to the end.
LEMMA StageMoves ==
  ASSUME DeployTyped, NEW from \in Steps, NEW pc \in Steps,
         Deploying!At("sync", from), Deploying!To(pc)
  PROVE  /\ op' \in [how : Scripts, pc : Steps, n : Int, armed : BOOLEAN]
         /\ op.how = "sync" /\ op.pc = from
         /\ op'.how = "sync" /\ op'.pc = pc /\ op'.n = op.n /\ op'.armed = op.armed
BY StepTaken DEF Deploying!At

\* The trap undoes the drain of the script, or nobody will.
LEMMA ScriptFailsKeeps ==
  ASSUME DeployInv, Deploying!ScriptFails
  PROVE  DeployInv'
<1>1. DeployTyped /\ Drained /\ Undone /\ op.how = "sync"
  BY DEF DeployInv, Deploying!ScriptFails
<1>2. /\ op' \in [how : Scripts, pc : Steps, n : Int, armed : BOOLEAN]
      /\ op'.how = "sync" /\ op'.pc = "idle"
  BY <1>1, StepTaken DEF Deploying!ScriptFails, Steps
<1>3. PICK reached \in BOOLEAN :
         /\ stuck' = (stuck \/ (op.armed /\ ~reached))
         /\ control' = [control EXCEPT !.drained = @ /\ ~(op.armed /\ reached)]
  BY DEF Deploying!ScriptFails, Deploying!restore_dispatch_on_exit
<1>4. UNCHANGED <<disk, images, stack, killed, torn>>
  BY DEF Deploying!ScriptFails
<1>5. /\ control'.drained = (control.drained /\ ~(op.armed /\ reached))
      /\ control'.run = control.run /\ control'.picked = control.picked
      /\ control' \in [drained : BOOLEAN, picked : BOOLEAN,
                       run : {"none", "fresh", "saved"}, late : BOOLEAN]
  BY <1>1, <1>3 DEF DeployTyped
<1>6. stuck' \in BOOLEAN
  BY <1>1, <1>3 DEF DeployTyped
<1>7. DeployTyped'
  BY <1>1, <1>2, <1>4, <1>5, <1>6 DEF DeployTyped
<1>8. Assembled' /\ Stamped' /\ FromCheckout'
  BY <1>2, OtherScript, NotFromCheckout
<1>9. Drained'
  BY <1>1, <1>2, <1>4, <1>5 DEF Drained, Script
<1>10. Undone'
  BY <1>1, <1>3, <1>5 DEF Undone
<1> QED
  BY <1>7, <1>8, <1>9, <1>10 DEF DeployInv

\* The check stamps what it has found right.
LEMMA VerifyKeeps ==
  ASSUME DeployInv, Deploying!verify_fresh_archive_manifest
  PROVE  DeployInv'
<1>1. DeployTyped /\ Assembled
  BY DEF DeployInv
<1>2. /\ op' \in [how : Scripts, pc : Steps, n : Int, armed : BOOLEAN]
      /\ op.how = "sync" /\ op.pc = "verify"
      /\ op'.how = "sync" /\ op'.pc = "drain" /\ op'.n = op.n
  BY <1>1, StageMoves DEF Deploying!verify_fresh_archive_manifest, Steps
<1>3. /\ UNCHANGED <<images, stack, control, killed, torn, stuck>>
      /\ Deploying!Usable(disk.src.env)
      /\ disk' = [disk EXCEPT !.src.env.build = op.n]
  BY DEF Deploying!verify_fresh_archive_manifest, Deploying!Rest
<1> DEFINE env == [disk.src.env EXCEPT !.build = op.n]
<1>4. env \in Envs /\ env.build = op.n /\ env.secrets = disk.src.env.secrets
  BY <1>1 DEF DeployTyped, Trees, Envs
<1>5. disk' = [disk EXCEPT !.src.env = env]
  BY <1>1, <1>3 DEF DeployTyped, Trees
<1> HIDE DEF env
<1>6. /\ disk' \in [src : Trees, incoming : Trees, previous : Trees, tar : Int,
                    checkout : Contents, git : BOOLEAN, platform : Envs]
      /\ disk'.src.files = disk.src.files /\ disk'.src.env = env
  BY <1>1, <1>4, <1>5 DEF DeployTyped, Trees
<1>7. DeployTyped'
  BY <1>1, <1>2, <1>3, <1>6 DEF DeployTyped
<1>8. ~torn => Pruned(disk.src.files)
  BY <1>1, <1>2 DEF Assembled, Script
<1>9. Assembled'
  BY <1>2, <1>3, <1>6, <1>8 DEF Assembled, Script, Pruned, Gathered
<1>10. Stamped'
  BY <1>2, <1>3, <1>4, <1>6 DEF Stamped, Script, Deploying!Usable
<1>11. FromCheckout' /\ Drained' /\ Undone'
  BY <1>2, <1>3, NotFromCheckout, DispatcherUntouched DEF Script
<1> QED
  BY <1>7, <1>9, <1>10, <1>11 DEF DeployInv

\* A stack that runs is drained; one that does not has no run.
LEMMA BeginDrainKeeps ==
  ASSUME DeployInv, Deploying!BeginDrain
  PROVE  DeployInv'
<1>1. DeployTyped /\ Assembled /\ Stamped /\ Drained
  BY DEF DeployInv
<1>2. PICK pc \in {"poll", "build"} :
         /\ op' = [op EXCEPT !.pc = pc, !.armed = stack.up] /\ (pc = "poll" <=> stack.up)
  BY <1>1 DEF Deploying!BeginDrain, DeployTyped
<1>3. /\ op' \in [how : Scripts, pc : Steps, n : Int, armed : BOOLEAN]
      /\ op.how = "sync" /\ op.pc = "drain"
      /\ op'.how = "sync" /\ op'.pc = pc /\ op'.n = op.n /\ op'.armed = stack.up
  BY <1>1, <1>2 DEF Deploying!BeginDrain, Deploying!At, DeployTyped, Steps
<1>4. /\ UNCHANGED <<disk, images, stack, killed, torn, stuck>>
      /\ control' = [control EXCEPT !.drained = stack.up]
  BY DEF Deploying!BeginDrain
<1>5. /\ control' \in [drained : BOOLEAN, picked : BOOLEAN,
                       run : {"none", "fresh", "saved"}, late : BOOLEAN]
      /\ control'.drained = stack.up
      /\ control'.run = control.run /\ control'.picked = control.picked
  BY <1>1, <1>4 DEF DeployTyped
<1>6. DeployTyped'
  BY <1>1, <1>3, <1>4, <1>5 DEF DeployTyped
<1>7. ~torn => Pruned(disk.src.files)
  BY <1>1, <1>3 DEF Assembled, Script
<1>8. Assembled'
  BY <1>3, <1>4, <1>7 DEF Assembled, Script, Pruned, Gathered
<1>9. Stamped' /\ FromCheckout'
  BY <1>1, <1>3, <1>4, NotFromCheckout DEF Stamped, Script
<1>10. Drained' /\ Undone'
  BY <1>1, <1>2, <1>3, <1>4, <1>5 DEF Drained, Undone, Script
<1> QED
  BY <1>6, <1>8, <1>9, <1>10 DEF DeployInv

\* The script waits until no run is without a checkpoint.
LEMMA PollKeeps ==
  ASSUME DeployInv, Deploying!Poll
  PROVE  DeployInv'
<1>1. DeployTyped /\ Assembled /\ Stamped /\ Drained /\ Undone
  BY DEF DeployInv
<1>2. /\ op' \in [how : Scripts, pc : Steps, n : Int, armed : BOOLEAN]
      /\ op.how = "sync" /\ op.pc = "poll"
      /\ op'.how = "sync" /\ op'.pc = "build" /\ op'.n = op.n /\ op'.armed = op.armed
  BY <1>1, StageMoves DEF Deploying!Poll, Steps
<1>3. /\ UNCHANGED <<disk, images, stack, control, killed, torn, stuck>>
      /\ control.run # "fresh"
  BY DEF Deploying!Poll, Deploying!readyToRestart, Deploying!Rest
<1>4. DeployTyped'
  BY <1>1, <1>2, <1>3 DEF DeployTyped
<1>5. ~torn => Pruned(disk.src.files)
  BY <1>1, <1>2 DEF Assembled, Script
<1>6. Assembled'
  BY <1>2, <1>3, <1>5 DEF Assembled, Script, Pruned, Gathered
<1>7. Stamped' /\ FromCheckout'
  BY <1>1, <1>2, <1>3, NotFromCheckout DEF Stamped, Script
<1>8. Drained' /\ Undone'
  BY <1>1, <1>2, <1>3 DEF Drained, Undone, Script
<1> QED
  BY <1>4, <1>6, <1>7, <1>8 DEF DeployInv

\* The images are built from what was put together.
LEMMA BuildKeeps ==
  ASSUME DeployInv, Deploying!Build
  PROVE  DeployInv'
<1>1. DeployTyped /\ Assembled /\ Stamped /\ Drained /\ Undone
  BY DEF DeployInv
<1>2. /\ op' \in [how : Scripts, pc : Steps, n : Int, armed : BOOLEAN]
      /\ op.how = "sync" /\ op.pc = "build"
      /\ op'.how = "sync" /\ op'.pc = "up" /\ op'.n = op.n /\ op'.armed = op.armed
  BY <1>1, StageMoves DEF Deploying!Build, Steps
<1>3. /\ UNCHANGED <<stack, control, killed, torn, stuck>>
      /\ images' = [disk.src.files EXCEPT !["built"] = op.n]
      /\ disk' = [disk EXCEPT !.src.files["built"] = op.n]
  BY DEF Deploying!Build
<1>4. disk.src \in Trees /\ disk.src.files \in Contents /\ op.n \in Int
  BY <1>1 DEF DeployTyped, Trees
<1>5. images' \in Contents
  BY <1>3, <1>4 DEF Contents
<1>6. /\ disk' \in [src : Trees, incoming : Trees, previous : Trees, tar : Int,
                    checkout : Contents, git : BOOLEAN, platform : Envs]
      /\ disk'.src.env = disk.src.env
  <2> DEFINE tree == [disk.src EXCEPT !.files["built"] = op.n]
  <2>1. tree \in Trees /\ tree.env = disk.src.env
    BY <1>4, FileWritten DEF Deploying!Files, Trees
  <2>2. disk' = [disk EXCEPT !.src = tree]
    BY <1>1, <1>3 DEF DeployTyped
  <2> HIDE DEF tree
  <2> QED
    BY <1>1, <2>1, <2>2 DEF DeployTyped
<1>7. DeployTyped'
  BY <1>1, <1>2, <1>3, <1>5, <1>6 DEF DeployTyped
<1>8. ~torn => images' = Deploying!Released(op.n)
  <2> SUFFICES ASSUME ~torn PROVE images' = Deploying!Released(op.n)
    OBVIOUS
  <2>1. Pruned(disk.src.files)
    BY <1>1, <1>2 DEF Assembled, Script
  <2>2. \A f \in Deploying!Files : images'[f] = Deploying!Released(op.n)[f]
    BY <1>2, <1>3, <1>4, <2>1
    DEF Pruned, Gathered, Contents, Deploying!Files, Deploying!Released
  <2> QED
    BY <1>5, <2>2 DEF Contents, Deploying!Released
<1>9. Assembled'
  BY <1>2, <1>3, <1>8 DEF Assembled, Script
<1>10. Stamped' /\ FromCheckout'
  BY <1>1, <1>2, <1>6, NotFromCheckout DEF Stamped, Script
<1>11. Drained' /\ Undone'
  BY <1>1, <1>2, <1>3 DEF Drained, Undone, Script
<1> QED
  BY <1>7, <1>9, <1>10, <1>11 DEF DeployInv

\* A restart leaves the dispatcher dispatching and no run without a checkpoint.
LEMMA Restarted ==
  ASSUME DeployTyped, NEW files \in Contents, NEW env \in Envs,
         Deploying!Restart(files, env)
  PROVE  /\ stack' \in [up : BOOLEAN, files : Contents, env : Envs]
         /\ stack'.up /\ stack'.files = files /\ stack'.env = env
         /\ control' \in [drained : BOOLEAN, picked : BOOLEAN,
                          run : {"none", "fresh", "saved"}, late : BOOLEAN]
         /\ ~control'.drained /\ control'.run # "fresh"
<1>1. PICK left \in {"saved", "none"} :
         control' = [drained |-> FALSE, picked |-> FALSE, late |-> FALSE, run |-> left]
  BY DEF Deploying!Restart
<1> QED
  BY <1>1 DEF Deploying!Restart

\* The stack is replaced by what was built, when it has no run to lose.
LEMMA UpKeeps ==
  ASSUME DeployInv, Deploying!Up
  PROVE  DeployInv'
<1>1. DeployTyped /\ Assembled /\ Stamped /\ Drained
  BY DEF DeployInv
<1>2. /\ op' \in [how : Scripts, pc : Steps, n : Int, armed : BOOLEAN]
      /\ op.how = "sync" /\ op.pc = "up"
      /\ op'.how = "sync" /\ op'.pc = "health" /\ op'.n = op.n
  BY <1>1, StageMoves DEF Deploying!Up, Steps
<1>3. /\ UNCHANGED <<disk, images, torn, stuck>>
      /\ killed' = (killed \/ (control.run = "fresh" /\ ~control.late))
      /\ Deploying!Restart(images, disk.src.env)
  BY DEF Deploying!Up
<1>4. images \in Contents /\ disk.src.env \in Envs
  BY <1>1 DEF DeployTyped, Trees
<1>5. /\ stack' \in [up : BOOLEAN, files : Contents, env : Envs]
      /\ stack'.up /\ stack'.files = images /\ stack'.env = disk.src.env
      /\ control' \in [drained : BOOLEAN, picked : BOOLEAN,
                       run : {"none", "fresh", "saved"}, late : BOOLEAN]
      /\ ~control'.drained /\ control'.run # "fresh"
  BY <1>1, <1>3, <1>4, Restarted
<1>6. killed' = FALSE
  BY <1>1, <1>2, <1>3 DEF Drained, Script, DeployTyped
<1>7. DeployTyped'
  BY <1>1, <1>2, <1>3, <1>5, <1>6 DEF DeployTyped
<1>8. Assembled' /\ Stamped'
  BY <1>1, <1>2, <1>3, <1>5 DEF Assembled, Stamped, Script
<1>9. FromCheckout' /\ Drained' /\ Undone'
  BY <1>2, <1>5, <1>6, NotFromCheckout DEF Drained, Undone, Script
<1> QED
  BY <1>7, <1>8, <1>9 DEF DeployInv

\* The script waits for the stack, and resumes the dispatcher.
LEMMA FinishKeeps ==
  ASSUME DeployInv, Deploying!Healthy \/ Deploying!ResumeDispatch
  PROVE  DeployInv'
<1>1. DeployTyped /\ Assembled /\ Stamped /\ Drained /\ Undone
  BY DEF DeployInv
<1>2. /\ op' \in [how : Scripts, pc : Steps, n : Int, armed : BOOLEAN]
      /\ op.how = "sync" /\ op.pc \in {"health", "resume"}
      /\ op'.how = "sync" /\ op'.pc \in {"resume", "done"} /\ op'.n = op.n
  <2>1. CASE Deploying!Healthy
    BY <1>1, <2>1, StageMoves DEF Deploying!Healthy, Steps
  <2>2. CASE Deploying!ResumeDispatch
    BY <1>1, <2>2 DEF Deploying!ResumeDispatch, Deploying!At, DeployTyped, Steps
  <2> QED
    BY <2>1, <2>2
<1>3. /\ UNCHANGED <<disk, images, stack, killed, torn, stuck>>
      /\ control' = control \/ control' = [control EXCEPT !.drained = FALSE]
  BY DEF Deploying!Healthy, Deploying!ResumeDispatch, Deploying!Rest
<1>4. /\ control' \in [drained : BOOLEAN, picked : BOOLEAN,
                       run : {"none", "fresh", "saved"}, late : BOOLEAN]
      /\ control'.drained => control.drained
      /\ control'.run = control.run /\ control'.picked = control.picked
  BY <1>1, <1>3 DEF DeployTyped
<1>5. DeployTyped'
  BY <1>1, <1>2, <1>3, <1>4 DEF DeployTyped
<1>6. Assembled' /\ Stamped'
  BY <1>1, <1>2, <1>3 DEF Assembled, Stamped, Script
<1>7. FromCheckout' /\ Drained' /\ Undone'
  BY <1>1, <1>2, <1>3, <1>4, NotFromCheckout DEF Drained, Undone, Script
<1> QED
  BY <1>5, <1>6, <1>7 DEF DeployInv

-----------------------------------------------------------------------------
\* The steps of the other scripts.
OtherSteps ==
    \/ Deploying!configure_docker_mirror \/ Deploying!sync_repository
    \/ Deploying!upload_env \/ Deploying!bootstrap_env \/ Deploying!apply_patch
    \/ Deploying!repair_queue \/ Deploying!compose_up \/ Deploying!wait_health

\* They are not steps of the safe deployment.
LEMMA OtherMoves ==
  ASSUME DeployTyped, OtherSteps
  PROVE  /\ op' \in [how : Scripts, pc : Steps, n : Int, armed : BOOLEAN]
         /\ op.how # "sync" /\ op'.how = op.how /\ op'.n = op.n
<1>1. PICK pc \in {"git", "env", "compose", "idle", "done", "health"} : Deploying!To(pc)
  <2>1. CASE Deploying!upload_env
    BY <2>1 DEF Deploying!upload_env
  <2>2. CASE ~Deploying!upload_env
    BY <2>2
    DEF OtherSteps, Deploying!configure_docker_mirror, Deploying!sync_repository,
        Deploying!bootstrap_env, Deploying!apply_patch, Deploying!repair_queue,
        Deploying!compose_up, Deploying!wait_health
  <2> QED
    BY <2>1, <2>2
<1>2. op.how # "sync"
  BY DEF OtherSteps, Deploying!configure_docker_mirror, Deploying!sync_repository,
     Deploying!upload_env, Deploying!bootstrap_env, Deploying!apply_patch,
     Deploying!repair_queue, Deploying!compose_up, Deploying!wait_health, Deploying!At
<1>3. pc \in Steps
  BY DEF Steps
<1> QED
  BY <1>1, <1>2, <1>3, StepTaken

\* What such a step does to the stack and its dispatcher: nothing, or it is
\* restarted.
LEMMA OtherStack ==
  ASSUME DeployInv, OtherSteps
  PROVE  /\ UNCHANGED <<killed, torn, stuck>>
         /\ images' \in Contents
         /\ stack' \in [up : BOOLEAN, files : Contents, env : Envs]
         /\ control' \in [drained : BOOLEAN, picked : BOOLEAN,
                          run : {"none", "fresh", "saved"}, late : BOOLEAN]
         /\ \/ UNCHANGED <<stack, control>>
            \/ stack'.up /\ ~control'.drained
<1>1. DeployTyped
  BY DEF DeployInv
<1>2. stack.files \in Contents /\ stack.env \in Envs
  BY <1>1 DEF DeployTyped
<1>3. disk.checkout \in Contents /\ disk.platform \in Envs
  BY <1>1 DEF DeployTyped
<1>4. UNCHANGED <<killed, torn, stuck>>
  BY DEF OtherSteps, Deploying!configure_docker_mirror, Deploying!sync_repository,
     Deploying!upload_env, Deploying!bootstrap_env, Deploying!apply_patch,
     Deploying!repair_queue, Deploying!compose_up, Deploying!wait_health, Deploying!Rest
<1>5. images' = images \/ images' = disk.checkout
  BY DEF OtherSteps, Deploying!configure_docker_mirror, Deploying!sync_repository,
     Deploying!upload_env, Deploying!bootstrap_env, Deploying!apply_patch,
     Deploying!repair_queue, Deploying!compose_up, Deploying!wait_health, Deploying!Rest
<1>6. \/ UNCHANGED <<stack, control>>
      \/ Deploying!Restart(stack.files, stack.env)
      \/ Deploying!Restart(disk.checkout, disk.platform)
  BY DEF OtherSteps, Deploying!configure_docker_mirror, Deploying!sync_repository,
     Deploying!upload_env, Deploying!bootstrap_env, Deploying!apply_patch,
     Deploying!repair_queue, Deploying!compose_up, Deploying!wait_health, Deploying!Rest
<1>7. \/ UNCHANGED <<stack, control>>
      \/ /\ stack' \in [up : BOOLEAN, files : Contents, env : Envs] /\ stack'.up
         /\ control' \in [drained : BOOLEAN, picked : BOOLEAN,
                          run : {"none", "fresh", "saved"}, late : BOOLEAN]
         /\ ~control'.drained
  BY <1>1, <1>2, <1>3, <1>6, Restarted
<1> QED
  BY <1>1, <1>3, <1>4, <1>5, <1>7 DEF DeployTyped

\* And to the disk.
LEMMA OtherDisk ==
  ASSUME DeployInv, OtherSteps
  PROVE  disk' \in [src : Trees, incoming : Trees, previous : Trees, tar : Int,
                    checkout : Contents, git : BOOLEAN, platform : Envs]
<1>1. DeployTyped
  BY DEF DeployInv
<1>2. disk.checkout \in Contents /\ disk.platform \in Envs /\ op.n \in Int
  BY <1>1 DEF DeployTyped
<1>3. CASE Deploying!sync_repository
  <2>1. PICK platform \in Envs :
           disk' = [disk EXCEPT !.checkout = Deploying!Committed(op.n), !.git = TRUE,
                                !.platform = platform]
    BY <1>1, <1>2, <1>3, WhatIsWritten DEF Deploying!sync_repository, DeployTyped
  <2>2. PICK files \in Contents : files = Deploying!Committed(op.n)
    BY <1>2, WhatIsWritten
  <2>3. disk' = [disk EXCEPT !.checkout = files, !.git = TRUE, !.platform = platform]
    BY <2>1, <2>2
  <2> QED
    BY <1>1, <2>3 DEF DeployTyped
<1>4. CASE Deploying!upload_env \/ Deploying!bootstrap_env
  <2>1. CASE Deploying!upload_env
    <3> DEFINE env == [disk.platform EXCEPT !.secrets = "own"]
    <3>1. env \in Envs
      BY <1>2 DEF Envs
    <3>2. \/ disk' = disk
          \/ \E mine \in BOOLEAN :
                disk' = [disk EXCEPT !.platform.secrets = IF mine THEN "own" ELSE @]
      BY <2>1 DEF Deploying!upload_env
    <3>3. \/ disk' = disk
          \/ disk' = [disk EXCEPT !.platform = env]
          \/ disk' = [disk EXCEPT !.platform = disk.platform]
      BY <1>1, <1>2, <3>2 DEF DeployTyped, Envs
    <3> HIDE DEF env
    <3> QED
      BY <1>1, <1>2, <3>1, <3>3 DEF DeployTyped
  <2>2. CASE Deploying!bootstrap_env
    <3>1. PICK secrets \in {"own", "default"} :
             disk' = [disk EXCEPT !.platform = [secrets |-> secrets, build |-> 0]]
      BY <2>2 DEF Deploying!bootstrap_env
    <3>2. [secrets |-> secrets, build |-> 0] \in Envs
      BY DEF Envs
    <3> QED
      BY <1>1, <3>1, <3>2 DEF DeployTyped
  <2> QED
    BY <1>4, <2>1, <2>2
<1>5. CASE Deploying!apply_patch
  <2>1. \/ disk' = disk
        \/ disk' = [disk EXCEPT !.checkout["edited"] = Deploying!Work(op.n)]
    <3>1. PICK applied \in BOOLEAN :
             disk' = IF applied
                     THEN [disk EXCEPT !.checkout["edited"] = Deploying!Work(op.n)] ELSE disk
      BY <1>5 DEF Deploying!apply_patch
    <3>2. CASE applied
      BY <3>1, <3>2
    <3>3. CASE ~applied
      BY <3>1, <3>3
    <3> QED
      BY <3>2, <3>3
  <2> DEFINE files == [disk.checkout EXCEPT !["edited"] = Deploying!Work(op.n)]
  <2>2. files \in Contents
    <3>1. Deploying!Work(op.n) \in Int
      BY <1>2 DEF Deploying!Work
    <3> QED
      BY <1>2, <3>1 DEF Contents
  <2>3. disk' = disk \/ disk' = [disk EXCEPT !.checkout = files]
    BY <1>1, <2>1 DEF DeployTyped
  <2> HIDE DEF files
  <2> QED
    BY <1>1, <2>2, <2>3 DEF DeployTyped
<1>6. CASE \/ Deploying!configure_docker_mirror \/ Deploying!repair_queue
           \/ Deploying!compose_up \/ Deploying!wait_health
  BY <1>1, <1>6
  DEF DeployTyped, Deploying!configure_docker_mirror, Deploying!repair_queue,
      Deploying!compose_up, Deploying!wait_health
<1> QED
  BY <1>3, <1>4, <1>5, <1>6 DEF OtherSteps

\* A deployment from the checkout runs the commit it has reset it to.
LEMMA OtherCheckout ==
  ASSUME DeployInv, OtherSteps
  PROVE  FromCheckout'
<1>1. DeployTyped /\ FromCheckout
  BY DEF DeployInv
<1>2. op'.how = op.how /\ op'.n = op.n
  BY <1>1, OtherMoves
<1>3. CASE op.how # "aliyun"
  BY <1>2, <1>3, NotFromCheckout
<1>4. CASE op.how = "aliyun"
  <2>1. CASE Deploying!configure_docker_mirror
    <3>1. op'.pc = "git"
      BY <1>1, <2>1, StepTaken DEF Deploying!configure_docker_mirror, Steps
    <3> QED
      BY <3>1, NotFromCheckout
  <2>2. CASE Deploying!sync_repository
    <3>1. op'.pc = "env"
      BY <1>1, <2>2, StepTaken DEF Deploying!sync_repository, Steps
    <3>2. disk'.checkout = Deploying!Committed(op.n)
      BY <1>1, <2>2 DEF Deploying!sync_repository, DeployTyped
    <3> QED
      BY <1>2, <3>1, <3>2 DEF FromCheckout, Script
  <2>3. CASE Deploying!upload_env
    <3>1. op.pc = "env"
      BY <2>3 DEF Deploying!upload_env, Deploying!At
    <3>2. disk.checkout = Deploying!Committed(op.n)
      BY <1>1, <1>4, <3>1 DEF FromCheckout, Script
    <3>3. Deploying!To("compose") \/ Deploying!To("idle")
      BY <2>3 DEF Deploying!upload_env
    <3>4. op'.pc \in {"compose", "idle"}
      BY <1>1, <3>3, StepTaken DEF Steps
    <3>5. \/ disk' = disk
          \/ \E own \in BOOLEAN :
                disk' = [disk EXCEPT !.platform.secrets = IF own THEN "own" ELSE @]
      BY <2>3 DEF Deploying!upload_env
    <3>6. disk'.checkout = disk.checkout
      BY <1>1, <3>5 DEF DeployTyped
    <3> QED
      BY <1>2, <3>2, <3>4, <3>6 DEF FromCheckout, Script
  <2>4. CASE Deploying!compose_up
    <3>1. op.pc = "compose" /\ Deploying!Usable(disk.platform)
      BY <2>4 DEF Deploying!compose_up
    <3>2. disk.checkout = Deploying!Committed(op.n)
      BY <1>1, <1>4, <3>1 DEF FromCheckout, Script
    <3>3. op'.pc = "health"
      BY <1>1, <2>4, StepTaken DEF Deploying!compose_up, Steps
    <3>4. disk.checkout \in Contents /\ disk.platform \in Envs
      BY <1>1 DEF DeployTyped
    <3>5. stack'.files = disk.checkout /\ stack'.env = disk.platform
      BY <1>1, <2>4, <3>4, Restarted DEF Deploying!compose_up
    <3> QED
      BY <1>2, <3>1, <3>2, <3>3, <3>5 DEF FromCheckout, Script
  <2>5. CASE Deploying!wait_health
    <3>1. op.pc = "health" /\ UNCHANGED stack
      BY <2>5 DEF Deploying!wait_health, Deploying!Rest
    <3>2. op'.pc = "done"
      BY <1>1, <2>5, StepTaken DEF Deploying!wait_health, Steps
    <3> QED
      BY <1>1, <1>2, <1>4, <3>1, <3>2 DEF FromCheckout, Script
  <2> QED
    BY <1>4, <2>1, <2>2, <2>3, <2>4, <2>5
    DEF OtherSteps, Deploying!bootstrap_env, Deploying!apply_patch, Deploying!repair_queue,
        Deploying!At
<1> QED
  BY <1>3, <1>4

\* The other scripts drain nothing.
LEMMA OthersKeep ==
  ASSUME DeployInv, OtherSteps
  PROVE  DeployInv'
<1>1. DeployTyped /\ Drained /\ Undone
  BY DEF DeployInv
<1>2. op.how # "sync" /\ op'.how = op.how
  BY <1>1, OtherMoves
<1>3. DeployTyped'
  BY <1>1, OtherMoves, OtherStack, OtherDisk DEF DeployTyped
<1>4. Assembled' /\ Stamped'
  BY <1>2, OtherScript
<1>5. Drained' /\ Undone'
  BY <1>1, <1>2, OtherStack DEF Drained, Undone, Script
<1> QED
  BY <1>3, <1>4, <1>5, OtherCheckout DEF DeployInv

\* A script that dies elsewhere has drained nothing.
LEMMA DiesKeeps ==
  ASSUME DeployInv, Deploying!Dies
  PROVE  DeployInv'
<1>1. DeployTyped
  BY DEF DeployInv
<1>2. /\ op' \in [how : Scripts, pc : Steps, n : Int, armed : BOOLEAN]
      /\ op'.pc = "idle"
  BY <1>1, StepTaken DEF Deploying!Dies, Steps
<1>3. /\ UNCHANGED <<images, stack, control, killed, torn, stuck>>
      /\ op.how = "sync" => op.pc \notin {"poll", "build", "up"}
      /\ disk' = disk \/ disk' = [disk EXCEPT !.platform = Deploying!EmptyEnv]
  BY DEF Deploying!Dies, Deploying!Stages, Deploying!Rest
<1>4. DeployTyped'
  BY <1>1, <1>2, <1>3, WhatIsWritten DEF DeployTyped
<1>5. Assembled' /\ Stamped' /\ FromCheckout'
  BY <1>2, OtherScript, NotFromCheckout
<1>6. Drained' /\ Undone'
  BY <1>2, <1>3, DispatcherUntouched DEF Script
<1> QED
  BY <1>4, <1>5, <1>6 DEF DeployInv

\* The dispatcher starts nothing that it had not picked before it was drained,
\* and nothing where no stack runs.
LEMMA DispatcherKeeps ==
  ASSUME DeployInv, Deploying!Pick \/ Deploying!Dispatch \/ Deploying!RunMoves
  PROVE  DeployInv'
<1>1. DeployTyped /\ Drained
  BY DEF DeployInv
<1>2. UNCHANGED <<op, disk, images, stack, killed, torn, stuck>>
  BY DEF Deploying!Pick, Deploying!Dispatch, Deploying!RunMoves
<1>3. /\ control' \in [drained : BOOLEAN, picked : BOOLEAN,
                       run : {"none", "fresh", "saved"}, late : BOOLEAN]
      /\ control'.drained = control.drained
      /\ ~stack.up => control'.run = "none" /\ ~control'.picked
      /\ control'.run = "fresh" =>
            \/ control.run = "fresh" /\ control'.late = control.late
            \/ control'.late = control.drained /\ stack.up
  <2>1. CASE Deploying!Pick
    BY <1>1, <2>1 DEF DeployTyped, Drained, Deploying!Pick
  <2>2. CASE Deploying!Dispatch
    <3>1. /\ control' = [control EXCEPT !.picked = FALSE, !.run = "fresh",
                                        !.late = control.drained]
          /\ control.picked /\ stack.up
      BY <1>1, <2>2 DEF DeployTyped, Drained, Deploying!Dispatch
    <3>2. /\ control'.drained = control.drained /\ control'.late = control.drained
          /\ control' \in [drained : BOOLEAN, picked : BOOLEAN,
                           run : {"none", "fresh", "saved"}, late : BOOLEAN]
      BY <1>1, <3>1 DEF DeployTyped
    <3> QED
      BY <3>1, <3>2
  <2>3. CASE Deploying!RunMoves
    <3>1. PICK to \in {"saved", "none"} :
             control' = [control EXCEPT !.run = to] /\ control.run # "none"
      BY <2>3 DEF Deploying!RunMoves
    <3>2. stack.up
      BY <1>1, <3>1 DEF DeployTyped, Drained
    <3> QED
      BY <1>1, <3>1, <3>2 DEF DeployTyped
  <2> QED
    BY <2>1, <2>2, <2>3
<1>4. DeployTyped'
  BY <1>1, <1>2, <1>3 DEF DeployTyped
<1>5. Assembled' /\ Stamped' /\ FromCheckout'
  BY <1>2, StackUntouched
<1>6. Drained'
  BY <1>1, <1>2, <1>3 DEF Drained, Script
<1>7. Undone'
  BY <1>2, <1>3 DEF DeployInv, Undone, Script
<1> QED
  BY <1>4, <1>5, <1>6, <1>7 DEF DeployInv

\* No step of any script, nor of the dispatcher, breaks the invariant.
LEMMA DeployKeeps ==
  ASSUME DeployInv, [Deploying!Next]_Deploying!dvars
  PROVE  DeployInv'
<1>1. CASE UNCHANGED Deploying!dvars
  <2>1. UNCHANGED <<op, disk, images, stack, control, killed, torn, stuck>>
    BY <1>1 DEF Deploying!dvars
  <2>2. DeployTyped'
    <3>1. op' = op /\ disk' = disk /\ images' = images /\ stack' = stack
      BY <2>1
    <3>2. control' = control /\ killed' = killed /\ torn' = torn /\ stuck' = stuck
      BY <2>1
    <3> QED
      BY <3>1, <3>2 DEF DeployInv, DeployTyped
  <2>3. Assembled' /\ Stamped' /\ FromCheckout'
    BY <2>1, StackUntouched
  <2>4. Drained' /\ Undone'
    BY <2>1 DEF DeployInv, Drained, Undone, Script
  <2> QED
    BY <2>2, <2>3, <2>4 DEF DeployInv
<1>2. CASE \E how \in Scripts \ {"none"} : Deploying!Start(how)
  BY <1>2, ScriptStarts
<1>3. CASE Gathers
  BY <1>3, GathersKeeps
<1>4. CASE \/ Deploying!ScriptFails \/ Deploying!verify_fresh_archive_manifest
           \/ Deploying!BeginDrain \/ Deploying!Poll \/ Deploying!Build \/ Deploying!Up
           \/ Deploying!Healthy \/ Deploying!ResumeDispatch
  BY <1>4, ScriptFailsKeeps, VerifyKeeps, BeginDrainKeeps, PollKeeps, BuildKeeps, UpKeeps,
     FinishKeeps
<1>5. CASE OtherSteps \/ Deploying!Dies
  BY <1>5, OthersKeep, DiesKeeps
<1>6. CASE Deploying!Pick \/ Deploying!Dispatch \/ Deploying!RunMoves
  BY <1>6, DispatcherKeeps
<1>7. {"sync", "aliyun", "patch", "bootstrap", "repair"} = Scripts \ {"none"}
  BY DEF Scripts
<1> QED
  BY <1>1, <1>2, <1>3, <1>4, <1>5, <1>6, <1>7 DEF Deploying!Next, Gathers, OtherSteps

\* Before the first script, nothing runs that could be lost.
LEMMA DeployStart == Deploying!Init => DeployInv
<1> SUFFICES ASSUME Deploying!Init PROVE DeployInv
  OBVIOUS
<1>1. op = [how |-> "none", pc |-> "idle", n |-> 0, armed |-> FALSE]
  BY DEF Deploying!Init, Deploying!Idle
<1>2. op \in [how : Scripts, pc : Steps, n : Int, armed : BOOLEAN]
  BY <1>1 DEF Scripts, Steps
<1>3. disk \in [src : Trees, incoming : Trees, previous : Trees, tar : Int,
                checkout : Contents, git : BOOLEAN, platform : Envs]
  <2>1. PICK env \in {Deploying!NoEnv, [secrets |-> "own", build |-> 0]}, git \in BOOLEAN :
           disk = [src |-> Deploying!NoTree, incoming |-> Deploying!NoTree,
                   previous |-> Deploying!NoTree, tar |-> 0,
                   checkout |-> IF git THEN Deploying!Committed(0) ELSE Deploying!NoFiles,
                   git |-> git, platform |-> env]
    BY DEF Deploying!Init
  <2>2. env \in Envs
    BY <2>1 DEF Deploying!NoEnv, Envs
  <2>3. (IF git THEN Deploying!Committed(0) ELSE Deploying!NoFiles) \in Contents
    BY WhatIsWritten
  <2> QED
    BY <2>1, <2>2, <2>3, WhatIsWritten
<1>4. images \in Contents
  BY WhatIsWritten DEF Deploying!Init
<1>5. stack \in [up : BOOLEAN, files : Contents, env : Envs]
  BY WhatIsWritten DEF Deploying!Init
<1>6. /\ control = [drained |-> FALSE, picked |-> FALSE, run |-> "none", late |-> FALSE]
      /\ killed = FALSE /\ torn = FALSE /\ stuck = FALSE
  BY DEF Deploying!Init
<1>7. DeployTyped
  BY <1>2, <1>3, <1>4, <1>5, <1>6 DEF DeployTyped
<1> QED
  BY <1>1, <1>6, <1>7
  DEF DeployInv, Assembled, Stamped, FromCheckout, Drained, Undone, Script
-----------------------------------------------------------------------------
(***************************************************************************)
(* The preflight and the grounds of the agents.                            *)
(*                                                                         *)
(* The description of the job may change until the preflight has matched   *)
(* it, and no agent is asked before. What a checkpoint brings back was     *)
(* whole when it was saved, and starts the agents anew with it.            *)
(***************************************************************************)

request == s1
prepared == s3
reused == s4
agent == s5
kept == s6

Described == {Preflight!None, Preflight!Supplied, Preflight!Catalogue}
Prepared ==
    [parsed : BOOLEAN, facts : {Preflight!None, "parsed", "raw"}, jd : Described,
     matches : {Preflight!None, "some", "empty"}, requirements : Described, focus : Described,
     coverage : Described, timeline : BOOLEAN]
Queries == [source : {"resume", "knowledge"}, about : Described \union {"question", "risks"}]
Asked == [pc : {"waits", "rag", "asked"}, steps : Seq(Queries), blocks : SUBSET Queries,
          jd : Described]

PreflightTyped ==
    /\ request \in [resume : BOOLEAN, jd : BOOLEAN, followup : BOOLEAN, by : Executors]
    /\ stage \in {"parse", "match", "focus", "agents"}
    /\ prepared \in Prepared /\ kept \in Prepared /\ reused \in Described
    /\ agent \in [Preflight!Agents -> Asked]

\* What was prepared fits together: it has facts of a resume there is, its
\* requirements and the coverage computed by this run are of one description.
Fits(made) ==
    /\ request.resume => made.facts # Preflight!None
    /\ made.requirements = made.jd
    /\ reused = Preflight!None => made.coverage \in {Preflight!None, made.jd}

\* It does from the end of the preflight on, and in every checkpoint; the
\* agents that were asked read what is prepared now.
Unmatched(made) ==
    /\ made.jd = Preflight!None => made.requirements = Preflight!None
    /\ reused = Preflight!None => made.coverage = Preflight!None

PreflightInv ==
    /\ PreflightTyped
    /\ stage # "parse" /\ request.resume => prepared.facts # Preflight!None
    /\ stage \in {"parse", "match"} => Unmatched(prepared)
    /\ stage \in {"focus", "agents"} => Fits(prepared)
    /\ kept # Preflight!NoCheckpoint => Fits(kept)
    /\ \A a \in Preflight!Agents :
          /\ agent[a].pc # "waits" => stage = "agents"
          /\ agent[a].pc = "asked" => agent[a].jd = prepared.jd

USE DEF request, prepared, reused, agent, kept

\* Nothing prepared yet and agents that wait have their types.
LEMMA PreflightTypes ==
  /\ Preflight!NoCheckpoint \in Prepared
  /\ Preflight!Fresh \in [Preflight!Agents -> Asked]
  /\ \A a \in Preflight!Agents : Preflight!Fresh[a].pc = "waits"
<1>1. Preflight!NoCheckpoint \in Prepared
  BY DEF Preflight!NoCheckpoint, Prepared, Described
<1>2. [pc |-> "waits", steps |-> <<>>, blocks |-> {}, jd |-> Preflight!None] \in Asked
  BY DEF Asked, Described
<1> QED
  BY <1>1, <1>2 DEF Preflight!Fresh

\* Before the matches are stored nothing was asked, and no description of this
\* run has been measured against.
LEMMA PreflightStart ==
  ASSUME Preflight!Init PROVE PreflightInv
<1> USE DEF Preflight!Init
<1>1. PICK jd \in Described, matches \in {Preflight!None, "some"} :
        \/ prepared = Preflight!NoCheckpoint
        \/ prepared = [Preflight!NoCheckpoint EXCEPT !.parsed = TRUE, !.facts = "parsed"]
        \/ jd # Preflight!None /\ prepared = Preflight!Previous(jd, matches)
  BY DEF Described, Preflight!None, Preflight!Supplied, Preflight!Catalogue
<1> USE DEF Preflight!NoCheckpoint, Prepared, Described, Preflight!None
<1>2. prepared \in Prepared /\ (prepared.jd = Preflight!None =>
                                     prepared.requirements = Preflight!None)
  <2>1. CASE prepared = Preflight!NoCheckpoint
    BY <2>1
  <2>2. CASE prepared = [Preflight!NoCheckpoint EXCEPT !.parsed = TRUE, !.facts = "parsed"]
    BY <2>2
  <2>3. CASE jd # Preflight!None /\ prepared = Preflight!Previous(jd, matches)
    BY <2>3 DEF Preflight!Previous
  <2> QED
    BY <1>1, <2>1, <2>2, <2>3
<1>3. reused \in Described /\ Unmatched(prepared)
  BY <1>2 DEF Unmatched
<1>4. PreflightTyped
  BY <1>2, <1>3, PreflightTypes DEF PreflightTyped
<1> QED
  BY <1>3, <1>4, PreflightTypes DEF PreflightInv

\* The parse settles the facts and the description of the request.
LEMMA ParseKeeps ==
  ASSUME PreflightInv, NEW called \in BOOLEAN, NEW parsed \in BOOLEAN,
         Preflight!Parse(called, parsed)
  PROVE  PreflightInv'
<1> USE DEF Preflight!Parse
<1>1. PICK success \in BOOLEAN :
        LET facts == IF success /\ parsed THEN Preflight!_resume_facts_from_parse(TRUE)
                     ELSE prepared.facts
        IN prepared' = [prepared EXCEPT
             !.parsed = @ \/ parsed,
             !.facts = IF request.resume /\ facts = Preflight!None THEN "raw" ELSE facts,
             !.jd = IF request.jd /\ @ = Preflight!None THEN Preflight!Supplied ELSE @]
  OBVIOUS
<1>2. /\ prepared'.facts \in {Preflight!None, "parsed", "raw"}
      /\ request.resume => prepared'.facts # Preflight!None
      /\ prepared'.parsed \in BOOLEAN
      /\ prepared'.jd \in Described
      /\ prepared'.jd = Preflight!None => prepared.jd = Preflight!None
  BY <1>1 DEF PreflightInv, PreflightTyped, Prepared, Described, Preflight!None,
    Preflight!Supplied, Preflight!_resume_facts_from_parse
<1>3. prepared' = [prepared EXCEPT !.parsed = prepared'.parsed, !.facts = prepared'.facts,
                                   !.jd = prepared'.jd]
  BY <1>1 DEF PreflightInv, PreflightTyped, Prepared
<1>4. prepared' \in Prepared /\ Unmatched(prepared)'
  BY <1>2, <1>3 DEF PreflightInv, PreflightTyped, Prepared, Unmatched
<1>5. PreflightTyped'
  BY <1>4 DEF PreflightInv, PreflightTyped
<1>6. \A a \in Preflight!Agents : agent'[a].pc = "waits"
  BY DEF PreflightInv, PreflightTyped, Asked
<1>7. kept' # Preflight!NoCheckpoint => Fits(kept)'
  BY DEF PreflightInv, Fits
<1> QED
  BY <1>2, <1>4, <1>5, <1>6, <1>7 DEF PreflightInv

\* The matches settle the description, and the requirements are taken from it.
LEMMA MatchKeeps ==
  ASSUME PreflightInv, NEW ok \in BOOLEAN, NEW found \in BOOLEAN, Preflight!Match(ok, found)
  PROVE  PreflightInv'
<1> USE DEF Preflight!Match
<1> DEFINE made == IF ok THEN Preflight!_store_jd_match_artifacts(prepared, found)
                   ELSE prepared
<1>0. prepared \in Prepared /\ Unmatched(prepared)
  BY DEF PreflightInv, PreflightTyped
<1>1. made \in Prepared /\ Unmatched(made)
  <2>1. CASE ok /\ found
    <3>1. made = [prepared EXCEPT !.matches = "some", !.jd = Preflight!Catalogue]
      BY <2>1 DEF Preflight!_store_jd_match_artifacts
    <3>2. made \in Prepared
      <4>1. Preflight!Catalogue \in Described
        BY DEF Described
      <4>2. prepared \in Prepared
        BY <1>0
      <4> HIDE DEF made
      <4> QED
        BY <3>1, <4>1, <4>2 DEF Prepared
    <3>3. made.jd = Preflight!Catalogue /\ made.coverage = prepared.coverage
      BY <1>0, <3>1 DEF Prepared
    <3> QED
      BY <1>0, <3>2, <3>3 DEF Unmatched, Preflight!None, Preflight!Catalogue
  <2>2. CASE ok /\ ~found
    <3>1. made = [prepared EXCEPT !.matches = "empty"]
      BY <2>2 DEF Preflight!_store_jd_match_artifacts
    <3> QED
      BY <1>0, <3>1 DEF Prepared, Unmatched
  <2> QED
    BY <1>0, <2>1, <2>2
<1>2. made.facts = prepared.facts
  BY DEF PreflightInv, PreflightTyped, Prepared, Preflight!_store_jd_match_artifacts
<1>3. prepared' = Preflight!_prepare_jd_requirements(made)
  OBVIOUS
<1> HIDE DEF made
<1>4. /\ prepared' \in Prepared /\ prepared'.facts = made.facts
      /\ prepared'.requirements = prepared'.jd
      /\ prepared'.coverage = made.coverage
  BY <1>1, <1>3 DEF Prepared, Described, Unmatched, Preflight!_prepare_jd_requirements
<1>5. Fits(prepared)' /\ (request'.resume => prepared'.facts # Preflight!None)
  BY <1>1, <1>2, <1>4 DEF PreflightInv, Fits, Unmatched
<1>6. PreflightTyped'
  BY <1>4 DEF PreflightInv, PreflightTyped
<1>7. \A a \in Preflight!Agents : agent'[a].pc = "waits"
  BY DEF PreflightInv, PreflightTyped, Asked
<1>8. kept' # Preflight!NoCheckpoint => Fits(kept)'
  BY DEF PreflightInv, Fits
<1> QED
  BY <1>5, <1>6, <1>7, <1>8 DEF PreflightInv

\* The passages change nothing else.
LEMMA FocusKeeps ==
  ASSUME PreflightInv, NEW ok \in BOOLEAN, Preflight!_prepare_jd_focus(ok)
  PROVE  PreflightInv'
<1> USE DEF Preflight!_prepare_jd_focus
<1>1. /\ prepared' \in Prepared
      /\ prepared'.facts = prepared.facts /\ prepared'.requirements = prepared.requirements
      /\ prepared'.jd = prepared.jd /\ prepared'.coverage = prepared.coverage
  BY DEF PreflightInv, PreflightTyped, Prepared, Described, Preflight!Supplied
<1>2. Fits(prepared)'
  BY <1>1 DEF PreflightInv, Fits
<1>3. PreflightTyped'
  BY <1>1 DEF PreflightInv, PreflightTyped
<1>4. \A a \in Preflight!Agents : agent'[a].pc = "waits"
  BY DEF PreflightInv, PreflightTyped, Asked
<1>5. kept' # Preflight!NoCheckpoint => Fits(kept)'
  BY DEF PreflightInv, Fits
<1> QED
  BY <1>1, <1>2, <1>3, <1>4, <1>5 DEF PreflightInv, Fits

\* The queries of an agent have their type.
LEMMA QueriesOfAnAgent ==
  ASSUME PreflightTyped, NEW a \in Preflight!Agents
  PROVE  Preflight!_rag_steps(a) \in Seq(Queries)
<1> DEFINE About == Described \union {"question", "risks"}
<1>1. \A raw \in About : Preflight!_jd_focus_text(raw) \in About
  BY DEF PreflightTyped, Prepared, Described, Preflight!_jd_focus_text,
    Preflight!_jd_focus_fallback
<1>2. /\ Preflight!_build_project_search_query \in About
      /\ Preflight!_build_tech_search_query \in About
      /\ Preflight!_build_knowledge_query(a) \in About
  BY <1>1 DEF PreflightTyped, Prepared, Described, Preflight!Supplied,
    Preflight!_build_project_search_query, Preflight!_build_tech_search_query,
    Preflight!_build_knowledge_query
<1> HIDE DEF About
<1>3. /\ \A about \in About : Preflight!Step("resume", about) \in Queries
      /\ \A about \in About : Preflight!Step("knowledge", about) \in Queries
  BY DEF About, Preflight!Step, Queries
<1> QED
  BY <1>2, <1>3 DEF Preflight!_rag_steps

\* A step of one agent that leaves what is prepared of the job alone.
LEMMA AgentMoves ==
  ASSUME PreflightInv, stage = "agents", NEW a \in Preflight!Agents, NEW state \in Asked,
         Preflight!Changes(a, state), prepared' \in Prepared,
         UNCHANGED <<request, stage, reused, kept>>,
         prepared'.facts = prepared.facts, prepared'.jd = prepared.jd,
         prepared'.requirements = prepared.requirements,
         prepared'.coverage \in {prepared.coverage, prepared.jd},
         state.pc = "asked" => state.jd = prepared.jd
  PROVE  PreflightInv'
<1>1. agent' = [agent EXCEPT ![a] = state]
  BY DEF Preflight!Changes
<1>2. PreflightTyped'
  BY <1>1 DEF PreflightInv, PreflightTyped
<1>3. Fits(prepared)'
  BY DEF PreflightInv, Fits
<1>4. kept' # Preflight!NoCheckpoint => Fits(kept)'
  BY DEF PreflightInv, Fits
<1>5. ASSUME NEW b \in Preflight!Agents, agent'[b].pc = "asked"
      PROVE  agent'[b].jd = prepared'.jd
  BY <1>1, <1>5 DEF PreflightInv, PreflightTyped
<1> QED
  BY <1>2, <1>3, <1>4, <1>5 DEF PreflightInv, Fits

\* An agent starts, and its queries are listed.
LEMMA GroundsKeep ==
  ASSUME PreflightInv, NEW a \in Preflight!Agents, Preflight!Start(a)
  PROVE  PreflightInv'
<1> DEFINE state == [agent[a] EXCEPT !.pc = "rag", !.steps = Preflight!_rag_steps(a)]
<1>1. agent[a] \in Asked /\ prepared \in Prepared
  BY DEF PreflightInv, PreflightTyped
<1>2. state \in Asked /\ state.pc = "rag"
  BY <1>1, QueriesOfAnAgent DEF PreflightInv, Asked
<1>3. Preflight!Changes(a, state)
  BY DEF Preflight!Start
<1> HIDE DEF state
<1> QED
  BY <1>1, <1>2, <1>3, AgentMoves DEF Preflight!Start

\* A query is answered or fails.
LEMMA QueryKeeps ==
  ASSUME PreflightInv, NEW a \in Preflight!Agents, NEW ok \in BOOLEAN,
         Preflight!_retrieve_rag_context(a, ok)
  PROVE  PreflightInv'
<1> USE DEF Preflight!_retrieve_rag_context
<1> DEFINE rest == Tail(agent[a].steps)
           found == IF ok THEN agent[a].blocks \union {Head(agent[a].steps)}
                    ELSE agent[a].blocks
           state == [agent[a] EXCEPT !.steps = rest, !.blocks = found]
<1>1. agent[a] \in Asked /\ prepared \in Prepared
  BY DEF PreflightInv, PreflightTyped
<1>2. rest \in Seq(Queries) /\ Head(agent[a].steps) \in Queries
  BY <1>1 DEF Asked
<1>3. found \in SUBSET Queries
  BY <1>1, <1>2 DEF Asked
<1>4. Preflight!Changes(a, state)
  OBVIOUS
<1> HIDE DEF rest, found
<1>5. state \in Asked /\ state.pc = "rag"
  BY <1>1, <1>2, <1>3 DEF Asked
<1>6. stage = "agents"
  BY DEF PreflightInv
<1> HIDE DEF state
<1> QED
  BY <1>1, <1>4, <1>5, <1>6, AgentMoves

\* Its tools measure the coverage of the description that is prepared; then it
\* is asked with it.
LEMMA AskKeeps ==
  ASSUME PreflightInv, NEW a \in Preflight!Agents, NEW ok \in BOOLEAN,
         Preflight!_pre_steps(a, ok)
  PROVE  PreflightInv'
<1> USE DEF Preflight!_pre_steps
<1> DEFINE state == [agent[a] EXCEPT !.pc = "asked", !.jd = prepared.jd]
<1>1. agent[a] \in Asked /\ prepared \in Prepared
  BY DEF PreflightInv, PreflightTyped
<1>2. Preflight!Changes(a, state)
  OBVIOUS
<1>3. state \in Asked /\ state.jd = prepared.jd
  BY <1>1 DEF Asked, Prepared
<1> HIDE DEF state
<1>4. /\ prepared' \in Prepared
      /\ prepared'.facts = prepared.facts /\ prepared'.jd = prepared.jd
      /\ prepared'.requirements = prepared.requirements
      /\ prepared'.coverage \in {prepared.coverage, prepared.jd}
  BY <1>1 DEF Prepared
<1>5. stage = "agents"
  BY DEF PreflightInv
<1> HIDE DEF Preflight!_pre_steps
<1>6. UNCHANGED <<request, stage, reused, kept>>
  BY DEF Preflight!_pre_steps
<1> QED
  BY <1>2, <1>3, <1>4, <1>5, <1>6, AgentMoves

\* A checkpoint takes what is prepared, and a resumed run starts its agents
\* anew with what was saved.
LEMMA CheckpointsKeep ==
  ASSUME PreflightInv, Preflight!Checkpoint \/ Preflight!Resume
  PROVE  PreflightInv'
<1>1. CASE Preflight!Checkpoint
  BY <1>1 DEF Preflight!Checkpoint, PreflightInv, PreflightTyped, Fits
<1>2. CASE Preflight!Resume
  BY <1>2, PreflightTypes DEF Preflight!Resume, PreflightInv, PreflightTyped, Fits
<1> QED
  BY <1>1, <1>2

\* Every step keeps the invariant.
LEMMA PreflightKeeps ==
  ASSUME PreflightInv, [Preflight!Next]_Preflight!rvars
  PROVE  PreflightInv'
<1>1. CASE UNCHANGED Preflight!rvars
  BY <1>1 DEF Preflight!rvars, PreflightInv, PreflightTyped, Unmatched, Fits
<1>2. CASE Preflight!Next
  BY <1>2, ParseKeeps, MatchKeeps, FocusKeeps, GroundsKeep, QueryKeeps, AskKeeps,
    CheckpointsKeep DEF Preflight!Next
<1> QED
  BY <1>1, <1>2
-----------------------------------------------------------------------------
(***************************************************************************)
(* The skills.                                                             *)
(*                                                                         *)
(* Two agents that loaded a skill read the same because each of them has   *)
(* what the process keeps under its id and version, and what the process   *)
(* keeps only grows: a new process starts its agents anew.                 *)
(***************************************************************************)

editions == s3
user == s5

IsUser(u) ==
    u = [pc |-> u.pc, selected |-> u.selected, loaded |-> u.loaded, applied |-> u.applied,
         skipped |-> u.skipped, read |-> u.read]

\* What an agent has loaded is what the process keeps of it.
Current(u) ==
    \A id \in DOMAIN u.loaded :
        /\ u.loaded[id].of \in DOMAIN editions
        /\ u.loaded[id].edition = editions[u.loaded[id].of]

\* An agent has applied what it loaded, and loaded what was selected for it.
InOrder(u) ==
    /\ u.selected \in Seq(Skilled!PRODUCTION_SKILLS) /\ Len(u.selected) <= 2
    /\ u.applied \subseteq DOMAIN u.loaded
    /\ DOMAIN u.loaded \subseteq Skilled!ToSet(u.selected)
    /\ u.pc = "waits" => DOMAIN u.loaded = {}
    /\ u.pc = "ended" => u.skipped = Skilled!ToSet(u.selected) \ u.applied

SkillsInv ==
    /\ user = [a \in SkillAgents |-> user[a]]
    /\ \A a \in SkillAgents : IsUser(user[a]) /\ Current(user[a]) /\ InOrder(user[a])

USE DEF editions, user

\* What a load gives the process, it keeps, and it forgets nothing.
LEMMA Cached ==
  ASSUME NEW ids, Skilled!Cached(ids)
  PROVE  /\ \A k \in DOMAIN editions : k \in DOMAIN editions' /\ editions'[k] = editions[k]
         /\ \A id \in ids : Skilled!load(id) # Skilled!Unreadable =>
               /\ Skilled!key(id) \in DOMAIN editions'
               /\ editions'[Skilled!key(id)] = Skilled!load(id)
<1> DEFINE keys == {Skilled!key(id) : id \in {i \in ids : Skilled!load(i) # Skilled!Unreadable}}
<1>1. editions' = [k \in DOMAIN editions \union keys |->
                      IF k \in keys THEN Skilled!load(k[1]) ELSE editions[k]]
  BY DEF Skilled!Cached
<1>2. \A id : Skilled!key(id)[1] = id
  BY DEF Skilled!key
<1>3. ASSUME NEW id \in ids, Skilled!load(id) # Skilled!Unreadable
      PROVE  /\ Skilled!key(id) \in DOMAIN editions'
             /\ editions'[Skilled!key(id)] = Skilled!load(id)
  <2>1. Skilled!key(id) \in keys
    BY <1>3
  <2> HIDE DEF keys
  <2> QED
    BY <1>1, <1>2, <2>1
<1>4. ASSUME NEW k \in DOMAIN editions
      PROVE  k \in DOMAIN editions' /\ editions'[k] = editions[k]
  <2>1. CASE k \in keys
    <3>1. PICK id \in ids : k = Skilled!key(id) /\ Skilled!load(id) # Skilled!Unreadable
      BY <2>1
    <3>2. k[1] = id
      BY <1>2, <3>1
    <3>3. Skilled!load(id) = editions[k] 
      BY <1>4, <3>1 DEF Skilled!load
    <3> HIDE DEF keys
    <3> QED
      BY <1>1, <2>1, <3>2, <3>3
  <2>2. CASE k \notin keys
    <3> HIDE DEF keys
    <3> QED
      BY <1>1, <2>2
  <2> QED
    BY <2>1, <2>2
<1> QED
  BY <1>3, <1>4

\* The package found under an id has this id.
LEMMA FoundById ==
  ASSUME NEW id, Skilled!get(id) # 0
  PROVE  Packages[Skilled!get(id)].id = id
BY DEF Skilled!get

\* The selection has two skills at most, of those that may be used.
LEMMA Selection ==
  ASSUME NEW a
  PROVE  /\ Skilled!select_for(a) \in Seq(Skilled!PRODUCTION_SKILLS)
         /\ Len(Skilled!select_for(a)) <= 2
<1> DEFINE P == Skilled!PRODUCTION_SKILLS
<1>1. ASSUME NEW ids \in Seq(P), NEW id PROVE Skilled!add(ids, id) \in Seq(P)
  <2>1. Skilled!get(id) # 0 /\ Skilled!Active(Skilled!get(id)) => id \in P
    BY FoundById DEF Skilled!Active
  <2> HIDE DEF P
  <2> QED
    BY <2>1 DEF Skilled!add
<1> HIDE DEF P
<1>2. <<>> \in Seq(P)
  OBVIOUS
<1> DEFINE none == <<>>
<1>3. none \in Seq(P)
  OBVIOUS
<1> HIDE DEF none
<1>4. PICK all \in Seq(P) :
        Skilled!select_for(a) = SubSeq(all, 1, IF Len(all) < 2 THEN Len(all) ELSE 2)
  BY <1>1, <1>3 DEF Skilled!select_for, none
<1> QED
  BY <1>4 DEF P

\* An agent that starts has loaded nothing.
LEMMA FreshAgent ==
  /\ IsUser(Skilled!FreshUser) /\ InOrder(Skilled!FreshUser)
  /\ DOMAIN Skilled!FreshUser.loaded = {}
<1>1. <<>> \in Seq(Skilled!PRODUCTION_SKILLS) /\ Len(<<>>) = 0
  OBVIOUS
<1> QED
  BY <1>1 DEF Skilled!FreshUser, Skilled!NoLoads, IsUser, InOrder

\* All agents start with nothing loaded.
LEMMA SkillsStart ==
  ASSUME user = Skilled!Users PROVE SkillsInv
BY FreshAgent DEF Skilled!Users, SkillsInv, Current

\* A step of one agent that keeps the loads of the process.
LEMMA UserMoves ==
  ASSUME SkillsInv, NEW a \in SkillAgents, NEW u, Skilled!Uses(a, u),
         \A k \in DOMAIN editions : k \in DOMAIN editions' /\ editions'[k] = editions[k],
         IsUser(u), InOrder(u),
         \A id \in DOMAIN u.loaded : /\ u.loaded[id].of \in DOMAIN editions'
                                     /\ u.loaded[id].edition = editions'[u.loaded[id].of]
  PROVE  SkillsInv'
<1>1. user' = [user EXCEPT ![a] = u]
  BY DEF Skilled!Uses
<1>2. user' = [b \in SkillAgents |-> IF b = a THEN u ELSE user[b]]
  BY <1>1 DEF SkillsInv
<1>3. ASSUME NEW b \in SkillAgents PROVE IsUser(user'[b]) /\ InOrder(user'[b]) /\ Current(user[b])'
  <2>1. CASE b = a
    BY <1>2, <2>1 DEF Current
  <2>2. CASE b # a
    <3>1. user'[b] = user[b] /\ IsUser(user[b]) /\ InOrder(user[b]) /\ Current(user[b])
      BY <1>2, <2>2 DEF SkillsInv
    <3> QED
      BY <3>1 DEF Current
  <2> QED
    BY <2>1, <2>2
<1> QED
  BY <1>2, <1>3 DEF SkillsInv, IsUser, InOrder

\* What an agent has with a new load is what the process has.
LEMMA HoldsCurrent ==
  ASSUME SkillsInv, NEW a \in SkillAgents, NEW ids,
         \A k \in DOMAIN editions : k \in DOMAIN editions' /\ editions'[k] = editions[k],
         \A id \in ids \ DOMAIN user[a].loaded :
            /\ Skilled!key(id) \in DOMAIN editions'
            /\ editions'[Skilled!key(id)] = Skilled!load(id)
  PROVE  LET loads == Skilled!Holds(a, ids) IN
         /\ DOMAIN loads = DOMAIN user[a].loaded \union ids
         /\ \A id \in DOMAIN loads : /\ loads[id].of \in DOMAIN editions'
                                     /\ loads[id].edition = editions'[loads[id].of]
<1> DEFINE loads == Skilled!Holds(a, ids)
<1>1. loads = [id \in DOMAIN user[a].loaded \union ids |->
                  IF id \in DOMAIN user[a].loaded THEN user[a].loaded[id]
                  ELSE [of |-> Skilled!key(id), edition |-> Skilled!load(id)]]
  BY DEF Skilled!Holds
<1>4. Current(user[a])
  BY DEF SkillsInv
<1>5. ASSUME NEW id \in DOMAIN loads
      PROVE  loads[id].of \in DOMAIN editions' /\ loads[id].edition = editions'[loads[id].of]
  <2>1. CASE id \in DOMAIN user[a].loaded
    <3>1. loads[id] = user[a].loaded[id]
      BY <1>1, <2>1
    <3> QED
      BY <1>4, <2>1, <3>1 DEF Current
  <2>2. CASE id \notin DOMAIN user[a].loaded
    <3>1. loads[id] = [of |-> Skilled!key(id), edition |-> Skilled!load(id)]
          /\ id \in ids \ DOMAIN user[a].loaded
      BY <1>1, <2>2
    <3> QED
      BY <3>1
  <2> QED
    BY <2>1, <2>2
<1> QED
  BY <1>1, <1>5

\* The skills are selected, and those of the experiment loaded.
LEMMA SelectKeeps ==
  ASSUME SkillsInv, NEW a \in SkillAgents, Skilled!Select(a)
  PROVE  SkillsInv'
<1> USE DEF Skilled!Select
<1> DEFINE selected == Skilled!select_for(a)
           eager == {id \in Skilled!ToSet(selected) \intersect Eager :
                        Skilled!load(id) # Skilled!Unreadable}
           loads == Skilled!Holds(a, eager)
           u == [pc |-> "turns", selected |-> selected, loaded |-> loads,
                 applied |-> {}, skipped |-> {}, read |-> {}]
<1>1. Skilled!Cached(eager) /\ Skilled!Uses(a, u)
  OBVIOUS
<1>2. DOMAIN user[a].loaded = {}
  BY DEF SkillsInv, InOrder
<1>3. \A id \in eager : Skilled!load(id) # Skilled!Unreadable
  OBVIOUS
<1>4. eager \subseteq Skilled!ToSet(selected)
  OBVIOUS
<1> HIDE DEF Skilled!Select, eager, selected
<1>5. \A k \in DOMAIN editions : k \in DOMAIN editions' /\ editions'[k] = editions[k]
  BY <1>1, Cached
<1>6. /\ DOMAIN loads = eager
      /\ \A id \in DOMAIN loads : /\ loads[id].of \in DOMAIN editions'
                                  /\ loads[id].edition = editions'[loads[id].of]
  BY <1>1, <1>2, <1>3, <1>5, Cached, HoldsCurrent
<1>7. selected \in Seq(Skilled!PRODUCTION_SKILLS) /\ Len(selected) <= 2
  BY Selection DEF selected
<1>8. DOMAIN loads \subseteq Skilled!ToSet(selected)
  BY <1>4, <1>6
<1> HIDE DEF loads
<1>9. IsUser(u) /\ InOrder(u) /\ u.loaded = loads
  BY <1>7, <1>8 DEF IsUser, InOrder
<1> QED
  BY <1>1, <1>5, <1>6, <1>9, UserMoves

\* A skill is loaded when its agent asks for it.
LEMMA LoadKeeps ==
  ASSUME SkillsInv, NEW a \in SkillAgents, NEW id, Skilled!_execute_skill_proposal(a, id)
  PROVE  SkillsInv'
<1> USE DEF Skilled!_execute_skill_proposal
<1> DEFINE was == user[a]
           refused == \/ ~Skilled!Contains(was.selected, id)
                      \/ id \notin DOMAIN was.loaded /\ Skilled!load(id) = Skilled!Unreadable
           ids == IF refused THEN {} ELSE {id}
           loads == Skilled!Holds(a, ids)
           u == [was EXCEPT !.loaded = loads]
<1>1. Skilled!Cached(ids \ DOMAIN was.loaded) /\ Skilled!Uses(a, u) /\ was.pc = "calls"
  OBVIOUS
<1>2. \A i \in ids \ DOMAIN was.loaded : Skilled!load(i) # Skilled!Unreadable
  OBVIOUS
<1>3. ids \subseteq Skilled!ToSet(was.selected)
  BY DEF Skilled!Contains, Skilled!ToSet, SkillsInv, InOrder
<1> HIDE DEF ids
<1> HIDE DEF Skilled!_execute_skill_proposal
<1> DEFINE new == ids \ DOMAIN was.loaded
<1> HIDE DEF new
<1>4. /\ \A k \in DOMAIN editions : k \in DOMAIN editions' /\ editions'[k] = editions[k]
      /\ \A i \in new : /\ Skilled!key(i) \in DOMAIN editions'
                        /\ editions'[Skilled!key(i)] = Skilled!load(i)
  <2>1. Skilled!Cached(new) /\ \A i \in new : Skilled!load(i) # Skilled!Unreadable
    BY <1>1, <1>2 DEF new
  <2> QED
    BY <2>1, Cached
<1>5. /\ DOMAIN loads = DOMAIN was.loaded \union ids
      /\ \A i \in DOMAIN loads : /\ loads[i].of \in DOMAIN editions'
                                 /\ loads[i].edition = editions'[loads[i].of]
  BY <1>4, HoldsCurrent DEF new
<1>6. IsUser(was) /\ InOrder(was)
  BY DEF SkillsInv
<1> HIDE DEF was, loads
<1>7. u = [pc |-> was.pc, selected |-> was.selected, loaded |-> loads,
           applied |-> was.applied, skipped |-> was.skipped, read |-> was.read]
  BY <1>6 DEF IsUser
<1> HIDE DEF u
<1>8. was.pc = "calls" /\ DOMAIN loads = DOMAIN was.loaded \union ids
  BY <1>1, <1>5
<1>9. IsUser(u) /\ InOrder(u) /\ u.loaded = loads
  BY <1>3, <1>6, <1>7, <1>8 DEF IsUser, InOrder
<1> QED
  BY <1>1, <1>4, <1>5, <1>9, UserMoves

\* A turn, a file that is read and the end of an agent load nothing.
LEMMA OtherStepsKeep ==
  ASSUME SkillsInv, NEW a \in SkillAgents,
         \/ Skilled!Turn(a)
         \/ \E id, path : Skilled!read_resource(a, id, path)
         \/ Skilled!_emit_unapplied_skills(a)
  PROVE  SkillsInv'
<1> DEFINE was == user[a]
<1>1. IsUser(was) /\ InOrder(was) /\ Current(was)
  BY DEF SkillsInv
<1>2. \A k \in DOMAIN editions : k \in DOMAIN editions' /\ editions'[k] = editions[k]
  BY DEF Skilled!Turn, Skilled!read_resource, Skilled!_emit_unapplied_skills
<1>3. PICK u :
        /\ Skilled!Uses(a, u)
        /\ \/ u = [was EXCEPT !.pc = "calls", !.applied = DOMAIN was.loaded]
           \/ was.pc = "calls" /\ \E files : u = [was EXCEPT !.read = files]
           \/ u = [was EXCEPT !.pc = "ended",
                     !.skipped = Skilled!ToSet(was.selected) \ was.applied]
  BY DEF Skilled!Turn, Skilled!read_resource, Skilled!_emit_unapplied_skills
<1> HIDE DEF was
<1>4. IsUser(u) /\ InOrder(u) /\ u.loaded = was.loaded
  BY <1>1, <1>3 DEF IsUser, InOrder
<1>5. editions' = editions
  BY DEF Skilled!Turn, Skilled!read_resource, Skilled!_emit_unapplied_skills
<1>6. \A id \in DOMAIN u.loaded : /\ u.loaded[id].of \in DOMAIN editions'
                                  /\ u.loaded[id].edition = editions'[u.loaded[id].of]
  BY <1>1, <1>4, <1>5 DEF Current
<1> QED
  BY <1>2, <1>3, <1>4, <1>6, UserMoves

\* Every step keeps the invariant.
LEMMA SkillsKeep ==
  ASSUME SkillsInv, [Skilled!Next]_Skilled!svars
  PROVE  SkillsInv'
<1>1. CASE UNCHANGED <<editions, user>>
  BY <1>1 DEF SkillsInv, Current
<1>2. CASE Skilled!reload
  BY <1>2, FreshAgent DEF Skilled!reload, Skilled!Users, SkillsInv, Current
<1>3. CASE UNCHANGED Skilled!svars
  BY <1>1, <1>3 DEF Skilled!svars
<1>4. ASSUME NEW d, Skilled!Edit(d) \/ Skilled!Uninstall(d) PROVE SkillsInv'
  BY <1>1, <1>4 DEF Skilled!Edit, Skilled!Uninstall
<1> QED
  BY <1>2, <1>3, <1>4, SelectKeeps, LoadKeeps, OtherStepsKeep DEF Skilled!Next
-----------------------------------------------------------------------------
(***************************************************************************)
(* The report.                                                             *)
(*                                                                         *)
(* A section the model did not write is empty, and the floors of a report  *)
(* that is merged leave no room for an empty score or risk section.        *)
(***************************************************************************)

pc == s1
sections == s3
retry == s5
calls == s6
report == s7
wrote == s8

Dimension == [status : {"none", "ASSESSED", "PARTIAL", "UNASSESSED"}, score : BOOLEAN,
              refs : Nat, rationale : BOOLEAN, core : BOOLEAN]
Sections ==
    /\ MaxSections \in Nat
    /\ \A s \in Scores : \A i \in DOMAIN s.dims : s.dims[i] \in Dimension

IsReport(r) ==
    r = [valid |-> r.valid, quality |-> r.quality, dims |-> r.dims, strengths |-> r.strengths,
         risks |-> r.risks, questions |-> r.questions, overall |-> r.overall]

Assessed(d) == d.score /\ d.status \in {"ASSESSED", "PARTIAL"}

\* A dimension that has a score was assessed, and so was one of a report that
\* has one.
IsEarned(r) ==
    /\ \A i \in DOMAIN r.dims : r.dims[i].score => Assessed(r.dims[i])
    /\ r.overall => \E i \in DOMAIN r.dims : Assessed(r.dims[i])

\* A section the model did not write is empty; the calls made are allowed.
ReportInv ==
    /\ sections.score \in Scores \union {Report!Missing}
    /\ "score" \notin wrote => sections.score = Report!Missing
    /\ "risk" \notin wrote => sections.risk = <<>>
    /\ calls \in Nat /\ calls <= MaxSections
    /\ pc = "first" => calls = 0 /\ wrote = {}
    /\ IsReport(report) /\ IsEarned(report)
    /\ pc = "merged" => {"score", "risk"} \subseteq wrote

USE DEF pc, sections, retry, calls, report, wrote

\* The cardinality of the module of the report is the usual one.
LEMMA SameSize ==
  ASSUME NEW S
  PROVE  Report!Cardinality(S) = Cardinality(S)
BY DEF Report!Cardinality, Cardinality

\* No more sections are asked for than calls are left.
LEMMA CalledWithinLimit ==
  ASSUME NEW names \in Seq(Report!Names), MaxSections \in Nat, calls \in Nat,
         calls <= MaxSections
  PROVE  /\ Report!Cardinality(Report!Called(names)) \in Nat
         /\ calls + Report!Cardinality(Report!Called(names)) <= MaxSections
<1> DEFINE left == MaxSections - calls
           n == IF left < Len(names) THEN left ELSE Len(names)
           some == SubSeq(names, 1, n)
           S == Report!Called(names)
<1>1. n \in Nat /\ n <= left
  OBVIOUS
<1>2. S = Report!ToSet(some)
  BY DEF Report!Called
<1>3. DOMAIN some = 1..n
  BY <1>1
<1> HIDE DEF n, some
<1>4. S = {some[i] : i \in 1..n}
  BY <1>2, <1>3 DEF Report!ToSet
<1> HIDE DEF S
<1>5. [i \in 1..n |-> some[i]] \in Surjection(1..n, S)
  BY <1>4 DEF Surjection
<1>6. ExistsSurjection(1..n, S)
  BY <1>5 DEF ExistsSurjection
<1>7. IsFiniteSet(S) /\ Cardinality(S) <= n
  BY <1>1, <1>5, <1>6, FS_SurjCardinalityBound, FS_Interval, FS_Surjection
<1>8. Cardinality(S) \in Nat
  BY <1>7, FS_CardinalityType
<1> QED
  BY <1>1, <1>7, <1>8, SameSize DEF S

\* A dimension that keeps its score is assessed.
LEMMA Scored ==
  ASSUME NEW d \in Dimension, Report!dimension(d).score
  PROVE  Assessed(Report!dimension(d))
BY DEF Report!dimension, Dimension, Assessed

\* What the validation makes of sections.
LEMMA Validated ==
  ASSUME NEW s, \A i \in DOMAIN s.score.dims : s.score.dims[i] \in Dimension
  PROVE  LET v == Report!_validate_structured_report(s) IN IsReport(v) /\ IsEarned(v)
<1> DEFINE v == Report!_validate_structured_report(s)
           dims == [i \in DOMAIN s.score.dims |-> Report!dimension(s.score.dims[i])]
<1>1. /\ IsReport(v) /\ v.dims = dims
      /\ v.overall <=>
           Report!Cardinality({i \in DOMAIN dims : Report!scorable(dims[i])}) >= 2
  BY DEF Report!_validate_structured_report, IsReport
<1>2. ASSUME NEW i \in DOMAIN dims, dims[i].score PROVE Assessed(dims[i])
  <2>1. PICK d \in Dimension : dims[i] = Report!dimension(d)
    OBVIOUS
  <2> QED
    BY <1>2, <2>1, Scored
<1> HIDE DEF dims
<1>3. ASSUME v.overall PROVE \E i \in DOMAIN dims : Assessed(dims[i])
  <2> DEFINE S == {i \in DOMAIN dims : Report!scorable(dims[i])}
  <2>1. S # {}
    BY <1>1, <1>3, SameSize, FS_EmptySet
  <2> QED
    BY <1>2, <2>1 DEF Report!scorable
<1> QED
  BY <1>1, <1>2, <1>3 DEF IsEarned

\* Whatever the model wrote, its dimensions are dimensions.
LEMMA Written ==
  ASSUME Sections, NEW score \in Scores \union {Report!Missing}
  PROVE  \A i \in DOMAIN score.dims : score.dims[i] \in Dimension
BY DEF Sections, Report!Missing

\* Completing the questions leaves the other sections alone.
LEMMA Backfilled ==
  ASSUME NEW s, DOMAIN s = Report!Names, NEW allow
  PROVE  LET t == Report!_backfill_interview_questions_from_risks(s, allow)
         IN t.score = s.score /\ t.risk = s.risk
BY DEF Report!_backfill_interview_questions_from_risks, Report!Names

\* A report at its floors has a score and risks.
LEMMA Floors ==
  ASSUME NEW s, Report!weak(Report!_validate_structured_report(s)) = {}
  PROVE  s.score # Report!Missing /\ s.risk # <<>>
<1> DEFINE v == Report!_validate_structured_report(s)
<1>1. /\ v.strengths = s.score.strengths
      /\ v.risks = Report!Kept(s.risk)
  BY DEF Report!_validate_structured_report
<1>2. ~(v.strengths < Report!minimums.strengths) /\ ~(Report!NumberOf(v.risks) < Report!minimums.risks)
  BY DEF Report!weak
<1> HIDE DEF v
<1>3. Report!minimums.strengths \in {1, 2} /\ Report!minimums.risks \in {2, 3}
  BY DEF Report!minimums
<1>4. s.score = Report!Missing => v.strengths = 0
  BY <1>1 DEF Report!Missing
<1>5. s.risk = <<>> => Report!NumberOf(v.risks) = 0
  <2>1. ASSUME s.risk = <<>> PROVE DOMAIN v.risks = {}
    BY <1>1, <2>1 DEF Report!Kept, Report!Restrict
  <2> QED
    BY <2>1, SameSize, FS_EmptySet DEF Report!NumberOf
<1> QED
  BY <1>2, <1>3, <1>4, <1>5

\* The first attempt.
LEMMA FirstAttemptKeeps ==
  ASSUME Sections, ReportInv, NEW failed \in SUBSET Report!Names, NEW written,
         written.score \in Scores, Report!FirstAttempt(failed, written)
  PROVE  ReportInv'
<1> USE DEF Report!FirstAttempt
<1> DEFINE tried == Report!Called(Report!Listed)
           new == Report!run_sections(tried, failed, written)
           s == Report!_backfill_interview_questions_from_risks(new, FALSE)
           v == Report!_validate_structured_report(s)
<1>1. /\ sections' = s /\ report' = v /\ wrote' = tried \ failed
      /\ calls' = calls + Report!Cardinality(tried)
      /\ pc' = "merged" \/ pc' = "retry"
      /\ pc' = "merged" => failed = {} /\ Report!RetryOf(v) = {}
  BY Zenon
<1>2. pc = "first" /\ calls = 0 /\ wrote = {}
  BY DEF ReportInv
<1> HIDE DEF Report!FirstAttempt
<1>3. calls' \in Nat /\ calls' <= MaxSections
  <2>1. Report!Listed \in Seq(Report!Names)
    BY DEF Report!Listed, Report!Names
  <2> QED
    BY <1>1, <2>1, CalledWithinLimit DEF ReportInv, Sections
<1>4. /\ DOMAIN new = Report!Names
      /\ new.score = IF "score" \in tried \ failed THEN written.score ELSE sections.score
      /\ new.risk = IF "risk" \in tried \ failed THEN written.risk ELSE sections.risk
  BY DEF Report!run_sections, Report!Names
<1>5. s.score = new.score /\ s.risk = new.risk
  BY <1>4, Backfilled
<1> HIDE DEF new
<1>6. sections'.score \in Scores \union {Report!Missing}
  BY <1>1, <1>4, <1>5 DEF ReportInv
<1>7. /\ "score" \notin wrote' => sections'.score = Report!Missing
      /\ "risk" \notin wrote' => sections'.risk = <<>>
  BY <1>1, <1>2, <1>4, <1>5 DEF ReportInv
<1>8. IsReport(report') /\ IsEarned(report')
  BY <1>1, <1>6, Written, Validated
<1>9. pc' = "merged" => {"score", "risk"} \subseteq wrote'
  <2>1. pc' = "merged" => Report!weak(v) = {}
    BY <1>1 DEF Report!RetryOf, Report!Names
  <2> QED
    BY <1>1, <1>7, <2>1, Floors
<1> QED
  BY <1>1, <1>3, <1>6, <1>7, <1>8, <1>9 DEF ReportInv

\* The second attempt.
LEMMA SecondAttemptKeeps ==
  ASSUME Sections, ReportInv, NEW failed \in SUBSET Report!Names, NEW written,
         written.score \in Scores, Report!SecondAttempt(failed, written)
  PROVE  ReportInv'
<1> USE DEF Report!SecondAttempt
<1> DEFINE tried == Report!Retried
           new == Report!run_sections(tried, failed, written)
           s == Report!_backfill_interview_questions_from_risks(new, "question" \in failed)
           v == Report!_validate_structured_report(s)
<1>1. /\ sections' = s /\ report' = v /\ wrote' = wrote \union (tried \ failed)
      /\ calls' = calls + Report!Cardinality(tried)
      /\ pc' = "merged" \/ pc' = "fallback"
      /\ pc' = "merged" => Report!Good(v)
  BY Zenon
<1> HIDE DEF Report!SecondAttempt
<1>2. calls' \in Nat /\ calls' <= MaxSections
  <2> DEFINE one(n) == IF n \in retry THEN <<n>> ELSE <<>>
  <2>1. \A n \in Report!Names : one(n) \in Seq(Report!Names)
    OBVIOUS
  <2>2. {"question", "risk", "score"} \subseteq Report!Names
    BY DEF Report!Names
  <2> HIDE DEF one
  <2>3. one("question") \o one("risk") \o one("score") \in Seq(Report!Names)
    BY <2>1, <2>2
  <2>4. Report!Sorted \in Seq(Report!Names)
    BY <2>3 DEF Report!Sorted, one
  <2> QED
    BY <1>1, <2>4, CalledWithinLimit DEF ReportInv, Sections, Report!Retried
<1>3. /\ DOMAIN new = Report!Names
      /\ new.score = IF "score" \in tried \ failed THEN written.score ELSE sections.score
      /\ new.risk = IF "risk" \in tried \ failed THEN written.risk ELSE sections.risk
  BY DEF Report!run_sections, Report!Names
<1>4. s.score = new.score /\ s.risk = new.risk
  BY <1>3, Backfilled
<1> HIDE DEF new
<1>5. sections'.score \in Scores \union {Report!Missing}
  BY <1>1, <1>3, <1>4 DEF ReportInv
<1>6. /\ "score" \notin wrote' => sections'.score = Report!Missing
      /\ "risk" \notin wrote' => sections'.risk = <<>>
  BY <1>1, <1>3, <1>4 DEF ReportInv
<1>7. IsReport(report') /\ IsEarned(report')
  BY <1>1, <1>5, Written, Validated
<1>8. pc' = "merged" => {"score", "risk"} \subseteq wrote'
  <2>1. pc' = "merged" => Report!weak(v) = {}
    BY <1>1 DEF Report!Good
  <2> QED
    BY <1>1, <1>6, <2>1, Floors
<1> QED
  BY <1>1, <1>2, <1>5, <1>6, <1>7, <1>8 DEF ReportInv

\* Whatever is published had a dimension that was assessed, if it has a score.
LEMMA PublishKeeps ==
  ASSUME ReportInv, Report!Publish
  PROVE  ReportInv'
<1> USE DEF Report!Publish
<1> DEFINE scored == \E i \in DOMAIN report.dims : report.dims[i].score
           filled == ~report.overall /\ report.quality # "INSUFFICIENT"
           overall == IF filled THEN scored ELSE report.overall
<1>1. report' = [report EXCEPT !.overall = overall] /\ pc' \in {"refused", "published"}
  OBVIOUS
<1>2. IsReport(report) /\ IsEarned(report)
  BY DEF ReportInv
<1>3. overall => \E i \in DOMAIN report.dims : Assessed(report.dims[i])
  BY <1>2 DEF IsEarned
<1> HIDE DEF overall
<1>4. IsReport(report') /\ report'.dims = report.dims /\ (report'.overall <=> overall)
  BY <1>1, <1>2 DEF IsReport
<1>5. IsEarned(report')
  BY <1>2, <1>3, <1>4 DEF IsEarned
<1> QED
  BY <1>1, <1>4, <1>5 DEF ReportInv

\* Every step keeps the invariant.
LEMMA ReportKeeps ==
  ASSUME Sections, ReportInv, [Report!Next]_Report!vars
  PROVE  ReportInv'
<1>1. CASE UNCHANGED Report!vars
  BY <1>1 DEF Report!vars, ReportInv
<1>2. ASSUME NEW written, written.score \in Scores, Report!WriteWhole(written) PROVE ReportInv'
  <2>1. report' = Report!_validate_structured_report(written)
    BY <1>2 DEF Report!WriteWhole
  <2>2. IsReport(report') /\ IsEarned(report')
    BY <1>2, <2>1, Validated DEF Sections
  <2> QED
    BY <1>2, <2>2 DEF Report!WriteWhole, ReportInv
<1>3. ASSUME NEW score \in Scores, NEW risk \in Risks, NEW question \in Questions,
             NEW written, written = [score |-> score, risk |-> risk, question |-> question],
             NEW failed \in SUBSET Report!Names,
             \/ Report!FirstAttempt(failed, written) \/ Report!SecondAttempt(failed, written)
             \/ Report!WriteWhole(written)
      PROVE  ReportInv'
  BY <1>2, <1>3, FirstAttemptKeeps, SecondAttemptKeeps
<1>4. {} \in SUBSET Report!Names
  OBVIOUS
<1>5. CASE Report!Next
  BY <1>3, <1>4, <1>5, PublishKeeps DEF Report!Next
<1> QED
  BY <1>1, <1>5

\* Nothing is written yet.
LEMMA ReportStart ==
  ASSUME Sections, Report!Init PROVE ReportInv
<1> USE DEF Report!Init
<1>1. sections.score = Report!Missing /\ sections.risk = <<>>
  OBVIOUS
<1>2. IsReport(report) /\ IsEarned(report)
  BY <1>1, Written, Validated
<1> QED
  BY <1>1, <1>2 DEF ReportInv, Sections
-----------------------------------------------------------------------------
(***************************************************************************)
(* The search for a configuration of the retrieval.                        *)
(*                                                                         *)
(* No phase takes the vectors from a mode that needs them, so every        *)
(* configuration that is tried, shortlisted or combined can be run; and    *)
(* what wins was available, that is measured with all its models.          *)
(***************************************************************************)

experiment == s1
todo == s2
step == s3
sel == s4
file == s5
summary == s6
picked == s7

Scale == -1000..1000
Measures == Utilities \subseteq Scale

IsConfig(c) ==
    c = [chunk |-> c.chunk, tokenizer |-> c.tokenizer, rewrite |-> c.rewrite,
         rerank |-> c.rerank, embedding |-> c.embedding, mode |-> c.mode]

\* A configuration that can be run whatever phase decides its mode next: only
\* the evidence of a resume is found without vectors.
CanRun(c) ==
    /\ IsConfig(c)
    /\ Ablation!Runnable(c)
    /\ experiment # "resume_evidence" => c.embedding # "none"

\* A selection of the rerank phase or of a joint search was measured as it is.
IsMeasured(selection) ==
    /\ CanRun(selection.config)
    /\ selection.by \in {"rerank", "joint"} => selection.real

AblationInv ==
    /\ todo \in Seq(Ablation!PhaseSet \union {"joint"})
    /\ IsMeasured(sel) /\ IsMeasured(file)
    /\ step \in {"heldout", "save"} => todo # <<>>
    /\ \A p \in Ablation!PhaseSet :
          summary[p] \subseteq Ablation!variants_for_phase(experiment, p)
    /\ sel.by = "joint" /\ picked.compared /\ step \in {"heldout", "save"} =>
          picked.own \/ picked.gain >= Ablation!Margin

USE DEF experiment, todo, step, sel, file, summary, picked

\* The phases, and the part of a configuration each decides.
LEMMA AllPhases ==
  /\ Ablation!PhaseSet = {"chunking", "embedding", "tokenizer", "retrieval", "rewrite", "rerank"}
  /\ \A i \in 1..6 : Ablation!Phases[i] \in Ablation!PhaseSet
  /\ "joint" \notin Ablation!PhaseSet
<1>1. DOMAIN Ablation!Phases = 1..6
  BY DEF Ablation!Phases
<1>2. Ablation!PhaseSet = {Ablation!Phases[i] : i \in 1..6}
  BY <1>1 DEF Ablation!PhaseSet
<1>3. Ablation!PhaseSet = {"chunking", "embedding", "tokenizer", "retrieval", "rewrite", "rerank"}
  BY <1>2 DEF Ablation!Phases
<1> QED
  BY <1>2, <1>3

\* After the last phase nothing is left to do.
LEMMA Nothing == <<>> \in Seq(Ablation!PhaseSet \union {"joint"})
OBVIOUS

\* The defaults can be run.
LEMMA DefaultsRun == CanRun(Ablation!DEFAULTS(experiment))
BY DEF Ablation!DEFAULTS, CanRun, IsConfig, Ablation!Runnable, Ablation!Dense

\* A configuration that can be run still can with a variant of any phase.
LEMMA WinnerRuns ==
  ASSUME NEW c, CanRun(c), NEW phase \in Ablation!PhaseSet,
         NEW v \in Ablation!variants_for_phase(experiment, phase)
  PROVE  CanRun(Ablation!apply_winner(c, experiment, phase, v))
<1> USE DEF Ablation!Part, Ablation!apply_winner, CanRun, IsConfig, Ablation!Runnable,
        Ablation!Dense
<1>1. CASE phase = "chunking"
  BY <1>1
<1>2. CASE phase = "embedding"
  BY <1>2 DEF Ablation!variants_for_phase
<1>3. CASE phase = "tokenizer"
  BY <1>3
<1>4. CASE phase = "retrieval"
  BY <1>4
<1>5. CASE phase = "rewrite"
  BY <1>5
<1>6. CASE phase = "rerank"
  BY <1>6
<1> QED
  BY <1>1, <1>2, <1>3, <1>4, <1>5, <1>6, AllPhases

\* A result that is available was measured with all its models, and its
\* utility is in the range of the measures.
LEMMA Results ==
  ASSUME Measures, NEW c, NEW x \in Ablation!evaluate_variant(c)
  PROVE  /\ x.u # Ablation!Bad => x.real /\ x.u \in Scale
         /\ x.u \in Int
<1>1. PICK up \in SUBSET Ablation!Services, u \in Utilities :
        x = [u |-> IF Ablation!ok(c, up) THEN u ELSE Ablation!Bad,
             real |-> Ablation!rewrite_queries(c, up) /\ Ablation!rerank(c, up)]
  BY DEF Ablation!evaluate_variant
<1>2. u \in Scale
  BY DEF Measures
<1>3. x.u = (IF Ablation!ok(c, up) THEN u ELSE Ablation!Bad)
      /\ (x.real <=> Ablation!rewrite_queries(c, up) /\ Ablation!rerank(c, up))
  BY <1>1
<1>4. x.u # Ablation!Bad => Ablation!ok(c, up)
  BY <1>3
<1>5. Ablation!Bad \in Int /\ Scale \subseteq Int
  BY DEF Ablation!Bad, Scale
<1> QED
  BY <1>2, <1>3, <1>4, <1>5 DEF Ablation!ok

\* Of some natural numbers one is the least.
LEMMA Least ==
  ASSUME NEW T, T # {}, T \subseteq Nat
  PROVE  \E i \in T : \A j \in T : ~(j < i)
<1>1. IsWellFoundedOn(OpToRel(<, Nat), Nat)
  BY NatLessThanWellFounded
<1>2. \E i \in T : \A j \in T : ~(<<j, i>> \in OpToRel(<, Nat))
  BY <1>1, WFMin
<1> QED
  BY <1>2 DEF OpToRel

\* A set that has a greatest element has its maximum.
LEMMA MaxAmong ==
  ASSUME NEW S, \E x \in S : \A y \in S : x >= y
  PROVE  Ablation!Max(S) \in S
BY DEF Ablation!Max

\* How far a utility is from the top of the scale.
LEMMA InScale ==
  ASSUME NEW u \in Scale
  PROVE  u \in Int /\ 1000 - u \in Nat
BY DEF Scale

\* Numbers in a range have a greatest one.
LEMMA Greatest ==
  ASSUME NEW S, S \subseteq Scale, S # {}
  PROVE  Ablation!Max(S) \in S
<1> DEFINE far == {1000 - u : u \in S}
<1>1. far \subseteq Nat
  BY InScale
<1>2. far # {}
  <2>1. PICK u : u \in S
    OBVIOUS
  <2>2. 1000 - u \in far
    BY <2>1
  <2> QED
    BY <2>2
<1>3. \E i \in far : \A j \in far : ~(j < i)
  <2> HIDE DEF far
  <2> QED
    BY <1>1, <1>2, Least
<1>4. PICK x \in S : \A j \in far : ~(j < 1000 - x)
  BY <1>3
<1>5. ASSUME NEW y \in S PROVE x >= y
  <2>1. 1000 - y \in far
    OBVIOUS
  <2> HIDE DEF far
  <2>2. ~(1000 - y < 1000 - x)
    BY <1>4, <2>1
  <2>3. x \in Int /\ y \in Int
    BY InScale
  <2> QED
    BY <2>2, <2>3
<1> HIDE DEF far
<1> QED
  BY <1>5, MaxAmong

\* Only what is available wins a phase.
LEMMA WinnerAvailable ==
  ASSUME NEW phase, NEW r, Ablation!Available(r) # {},
         \A v \in DOMAIN r : /\ r[v].u \in Int
                             /\ r[v].u # Ablation!Bad => r[v].u \in Scale,
         NEW w \in Ablation!choose_winner(phase, r)
  PROVE  w \in Ablation!Available(r)
<1> DEFINE A == Ablation!Available(r)
           best == Ablation!Best(r, A)
<1>1. best \in Scale
  <2> DEFINE S == {r[v].u : v \in A}
  <2>1. S # {} /\ S \subseteq Scale
    BY DEF Ablation!Available
  <2> QED
    BY <2>1, Greatest DEF Ablation!Best
<1>2. \/ w \in A
      \/ w = "none" /\ "none" \in DOMAIN r /\ best - r["none"].u < Ablation!Margin
  BY DEF Ablation!choose_winner
<1> HIDE DEF best
<1>3. ASSUME "none" \in DOMAIN r, best - r["none"].u < Ablation!Margin
      PROVE  "none" \in A
  <2>1. r["none"].u \in Int
    BY <1>3
  <2>2. r["none"].u # Ablation!Bad
    <3>1. ~(best - Ablation!Bad < Ablation!Margin)
      BY <1>1 DEF Ablation!Margin, Ablation!Bad, Scale
    <3> QED
      BY <1>3, <3>1
  <2> QED
    BY <1>3, <2>2 DEF Ablation!Available
<1> QED
  BY <1>2, <1>3

\* A phase of the search.
LEMMA PhaseKeeps ==
  ASSUME Measures, AblationInv, Ablation!run_phase
  PROVE  AblationInv'
<1> DEFINE phase == Head(todo)
           tried(v) == Ablation!config_for_variant(sel.config, experiment, phase, v)
           vs == Ablation!variants_for_phase(experiment, phase)
<1>1. PICK r : /\ DOMAIN r = vs
               /\ \A v \in vs : r[v] \in Ablation!evaluate_variant(tried(v))
               /\ \/ Ablation!Raise /\ UNCHANGED <<sel, summary>>
                  \/ /\ Ablation!Available(r) # {}
                     /\ \E winner \in Ablation!choose_winner(phase, r) :
                          LET config == Ablation!apply_winner(sel.config, experiment, phase,
                                                              winner)
                          IN /\ sel' = [config |-> config, by |-> phase,
                                        real |-> config = tried(winner) /\ r[winner].real]
                             /\ summary' = [summary EXCEPT ![phase] =
                                               Ablation!Ranked(phase, r)]
                             /\ UNCHANGED todo
  BY DEF Ablation!run_phase
<1>2. /\ UNCHANGED <<experiment, file, picked>> /\ todo # <<>>
      /\ phase \in Ablation!PhaseSet /\ phase # "joint"
  BY AllPhases DEF Ablation!run_phase, AblationInv
<1> HIDE DEF phase
<1>3. IsMeasured(file)'
  BY <1>2 DEF AblationInv, IsMeasured, CanRun
<1>4. CASE Ablation!Raise /\ UNCHANGED <<sel, summary>>
  BY <1>2, <1>3, <1>4, Nothing DEF Ablation!Raise, AblationInv, IsMeasured, CanRun
<1>5. ASSUME Ablation!Available(r) # {}, NEW winner \in Ablation!choose_winner(phase, r),
             sel' = [config |-> Ablation!apply_winner(sel.config, experiment, phase, winner),
                     by |-> phase,
                     real |-> Ablation!apply_winner(sel.config, experiment, phase, winner)
                                = tried(winner) /\ r[winner].real],
             summary' = [summary EXCEPT ![phase] = Ablation!Ranked(phase, r)],
             UNCHANGED todo
      PROVE  AblationInv'
  <2> DEFINE config == Ablation!apply_winner(sel.config, experiment, phase, winner)
  <2>1. \A v \in vs : /\ r[v].u \in Int
                      /\ r[v].u # Ablation!Bad => r[v].real /\ r[v].u \in Scale
    BY <1>1, Results
  <2>2. winner \in Ablation!Available(r)
    BY <1>1, <1>5, <2>1, WinnerAvailable
  <2>3. winner \in vs /\ r[winner].real
    BY <1>1, <2>1, <2>2 DEF Ablation!Available
  <2>4. CanRun(config)
    BY <1>2, <2>3, WinnerRuns DEF AblationInv, IsMeasured
  <2>5. phase = "rerank" => config = tried(winner)
    BY <2>4 DEF Ablation!config_for_variant, CanRun, IsConfig
  <2> HIDE DEF config, tried, vs
  <2>6. IsMeasured(sel)'
    BY <1>2, <1>5, <2>3, <2>4, <2>5 DEF IsMeasured, CanRun, config
  <2>7. Ablation!Ranked(phase, r) \subseteq vs
    BY <1>1 DEF Ablation!Ranked, Ablation!Available
  <2>8. ASSUME NEW p \in Ablation!PhaseSet
        PROVE  summary'[p] \subseteq Ablation!variants_for_phase(experiment, p)
    BY <1>5, <2>7 DEF AblationInv, vs
  <2> QED
    BY <1>2, <1>3, <1>5, <2>6, <2>8 DEF AblationInv
<1> QED
  BY <1>1, <1>4, <1>5

\* What a joint search combines can be run.
LEMMA JointRuns ==
  ASSUME AblationInv, NEW configs \in Ablation!build_joint_configs, NEW c \in configs
  PROVE  CanRun(c)
<1> DEFINE pool(i) == Ablation!joint_shortlist(experiment, Ablation!Phases[i])
           with(d, i, v) == Ablation!apply_winner(d, experiment, Ablation!Phases[i], v)
           start == Ablation!DEFAULTS(experiment)
<1>1. ASSUME NEW i \in 1..6, NEW d, CanRun(d), NEW v \in pool(i) PROVE CanRun(with(d, i, v))
  <2> DEFINE phase == Ablation!Phases[i]
  <2>1. phase \in Ablation!PhaseSet
    BY AllPhases
  <2>2. v \in Ablation!variants_for_phase(experiment, phase)
    BY <1>1, <2>1 DEF Ablation!joint_shortlist, AblationInv
  <2> QED
    BY <1>1, <2>1, <2>2, WinnerRuns
<1>2. CanRun(start) /\ CanRun(sel.config)
  BY DefaultsRun DEF AblationInv, IsMeasured
<1>3. PICK v1 \in pool(1), v2 \in pool(2), v3 \in pool(3), v4 \in pool(4), v5 \in pool(5),
           v6 \in pool(6) :
        configs = {start, sel.config,
                   with(with(with(with(with(with(start, 1, v1), 2, v2), 3, v3), 4, v4), 5, v5),
                        6, v6)}
  BY DEF Ablation!build_joint_configs
<1> HIDE DEF pool, with, start
<1>4. CanRun(with(with(with(start, 1, v1), 2, v2), 3, v3))
  BY <1>1, <1>2
<1>5. CanRun(with(with(with(with(with(with(start, 1, v1), 2, v2), 3, v3), 4, v4), 5, v5),
                  6, v6))
  BY <1>1, <1>4
<1> QED
  BY <1>2, <1>3, <1>5

\* The joint search.
LEMMA JointKeeps ==
  ASSUME Measures, AblationInv, Ablation!run_joint
  PROVE  AblationInv'
<1> DEFINE own == Ablation!DEFAULTS(experiment)
<1>1. UNCHANGED <<experiment, file, summary>> /\ todo # <<>>
  BY DEF Ablation!run_joint
<1>2. IsMeasured(file)' /\ \A p \in Ablation!PhaseSet :
          summary'[p] \subseteq Ablation!variants_for_phase(experiment', p)
  BY <1>1 DEF AblationInv, IsMeasured, CanRun
<1>3. CASE Ablation!Raise /\ UNCHANGED <<sel, picked>>
  BY <1>1, <1>2, <1>3, Nothing DEF Ablation!Raise, AblationInv, IsMeasured, CanRun
<1>4. ASSUME NEW configs \in Ablation!build_joint_configs, NEW full, full \subseteq configs \union {own},
             NEW r, DOMAIN r = full,
             \A c \in full : r[c] \in Ablation!evaluate_variant(c),
             NEW c \in Ablation!choose_joint_winner(r),
             sel' = [config |-> c, real |-> r[c].real, by |-> "joint"],
             picked' = [own |-> c = own, compared |-> own \in Ablation!Available(r),
                        gain |-> IF own \in Ablation!Available(r) THEN r[c].u - r[own].u ELSE 0],
             UNCHANGED todo
      PROVE  AblationInv'
  <2>1. /\ c \in Ablation!Available(r)
        /\ own \in Ablation!Available(r) => c = own \/ ~(r[c].u - r[own].u < Ablation!Margin)
    BY <1>4 DEF Ablation!choose_joint_winner, Ablation!joint_pareto
  <2>2. c \in full /\ r[c].real
    BY <1>4, <2>1, Results DEF Ablation!Available
  <2>3. CanRun(c)
    BY <1>4, <2>2, JointRuns, DefaultsRun
  <2>4. IsMeasured(sel)'
    BY <1>1, <1>4, <2>2, <2>3 DEF IsMeasured, CanRun
  <2>5. own \in Ablation!Available(r) => r[c].u - r[own].u \in Int
    BY <1>4, <2>2, Results DEF Ablation!Available
  <2>6. picked'.compared => picked'.own \/ picked'.gain >= Ablation!Margin
    BY <1>4, <2>1, <2>5 DEF Ablation!Margin
  <2> QED
    BY <1>1, <1>2, <1>4, <2>4, <2>6 DEF AblationInv
<1>5. CASE \E p \in Ablation!PhaseSet : summary[p] = {}
  BY <1>3, <1>5 DEF Ablation!run_joint
<1>6. CASE ~\E p \in Ablation!PhaseSet : summary[p] = {}
  <2>1. PICK configs \in Ablation!build_joint_configs : \E passed \in SUBSET configs,
             first \in SUBSET configs :
          /\ first \subseteq passed
          /\ Ablation!Cardinality(first)
                = Ablation!Min({Finalists, Ablation!Cardinality(passed)})
          /\ LET full == first \cup ({own} \cap passed)
             IN \E r \in [full -> UNION {Ablation!evaluate_variant(c) : c \in full}] :
               /\ \A c \in full : r[c] \in Ablation!evaluate_variant(c)
               /\ IF Ablation!Available(r) = {}
                  THEN Ablation!Raise /\ UNCHANGED <<sel, picked>>
                  ELSE \E c \in Ablation!choose_joint_winner(r) :
                         /\ sel' = [config |-> c, real |-> r[c].real, by |-> "joint"]
                         /\ LET home == Ablation!DEFAULTS(experiment)
                                compared == home \in Ablation!Available(r)
                            IN picked' = [own |-> c = home, compared |-> compared,
                                          gain |-> IF compared THEN r[c].u - r[home].u ELSE 0]
                         /\ step' = "heldout" /\ UNCHANGED todo
    BY <1>6, Zenon DEF Ablation!run_joint
  <2>2. PICK full, r :
          /\ full \subseteq configs \union {own} /\ DOMAIN r = full
          /\ \A c \in full : r[c] \in Ablation!evaluate_variant(c)
          /\ \/ Ablation!Raise /\ UNCHANGED <<sel, picked>>
             \/ \E c \in Ablation!choose_joint_winner(r) :
                  /\ sel' = [config |-> c, real |-> r[c].real, by |-> "joint"]
                  /\ picked' = [own |-> c = own, compared |-> own \in Ablation!Available(r),
                                gain |-> IF own \in Ablation!Available(r)
                                         THEN r[c].u - r[own].u ELSE 0]
                  /\ UNCHANGED todo
    BY <2>1
  <2> QED
    BY <1>3, <1>4, <2>2
<1> QED
  BY <1>5, <1>6

\* The rest of a run: it starts from the file, writes it, or ends.
LEMMA RunKeeps ==
  ASSUME AblationInv, Ablation!Start \/ Ablation!heldout \/ Ablation!Save \/ Ablation!Die
  PROVE  AblationInv'
<1> DEFINE All == Ablation!PhaseSet \union {"joint"}
<1>1. /\ experiment' = experiment /\ summary' = summary /\ picked' = picked
      /\ sel' \in {sel, file} /\ file' \in {sel, file}
  BY DEF Ablation!Start, Ablation!heldout, Ablation!Save, Ablation!Die
<1>2. IsMeasured(sel)' /\ IsMeasured(file)'
  <2>1. \A selection : IsMeasured(selection) => IsMeasured(selection)'
    BY <1>1 DEF IsMeasured, CanRun
  <2> QED
    BY <1>1, <2>1 DEF AblationInv
<1>3. todo' \in Seq(All)
  <2>1. Ablation!Phases \in Seq(All)
    BY AllPhases DEF Ablation!Phases
  <2>2. "joint" \in All /\ Ablation!PhaseSet \subseteq All
    OBVIOUS
  <2>3. todo \in Seq(All) /\ <<>> \in Seq(All)
    BY Nothing DEF AblationInv
  <2> HIDE DEF All
  <2>4. CASE Ablation!Start
    <3>1. /\ Ablation!Phases \o <<"joint">> \in Seq(All) /\ <<"joint">> \in Seq(All)
          /\ \A p \in Ablation!PhaseSet : <<p>> \in Seq(All)
      BY <2>1, <2>2
    <3> QED
      BY <2>4, <3>1 DEF Ablation!Start
  <2>5. CASE Ablation!Save
    <3>1. todo # <<>>
      BY <2>5 DEF Ablation!Save, AblationInv
    <3> QED
      BY <2>3, <2>5, <3>1 DEF Ablation!Save
  <2>6. CASE Ablation!heldout \/ Ablation!Die
    <3>1. todo' \in {todo, <<>>}
      BY <2>6 DEF Ablation!heldout, Ablation!Die, Ablation!Raise
    <3> QED
      BY <2>3, <3>1
  <2> QED
    BY <2>4, <2>5, <2>6
<1>4. sel'.by = "joint" /\ picked'.compared /\ step' \in {"heldout", "save"} =>
          picked'.own \/ picked'.gain >= Ablation!Margin
  <2>1. step' \in {"heldout", "save"} => Ablation!heldout
    BY DEF Ablation!Start, Ablation!Save, Ablation!Die, Ablation!Raise
  <2> QED
    BY <1>1, <2>1 DEF Ablation!heldout, AblationInv
<1>5. step' \in {"heldout", "save"} => todo' # <<>>
  BY DEF Ablation!Start, Ablation!heldout, Ablation!Save, Ablation!Die, Ablation!Raise,
         AblationInv
<1> QED
  BY <1>1, <1>2, <1>3, <1>4, <1>5 DEF AblationInv

\* Every step keeps the invariant.
LEMMA AblationKeeps ==
  ASSUME Measures, AblationInv, [Ablation!Next]_Ablation!avars
  PROVE  AblationInv'
<1>1. CASE UNCHANGED Ablation!avars
  BY <1>1 DEF Ablation!avars, AblationInv, IsMeasured, CanRun
<1>2. CASE Ablation!Next
  BY <1>2, PhaseKeeps, JointKeeps, RunKeeps DEF Ablation!Next
<1> QED
  BY <1>1, <1>2

\* The first run starts from the defaults.
LEMMA AblationStart ==
  ASSUME Ablation!Init PROVE AblationInv
BY DefaultsRun DEF Ablation!Init, AblationInv, IsMeasured
=============================================================================
