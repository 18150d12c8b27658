---------------------------- MODULE McpRegistry ----------------------------
(***************************************************************************)
(* The registry of MCP servers all runs of a process share                 *)
(* (runtime/mcp_registry.py, mcp_client.py): one prober at a time builds a *)
(* registry aside and swaps it in; callers pass the gate of a server and   *)
(* tell the registry what they learn of its health. A probe and a call may *)
(* be cancelled at any await.                                              *)
(***************************************************************************)
EXTENDS Integers, FiniteSets, Functions

CONSTANTS Servers, Stdio,   \* configured servers; those run as a subprocess
          Enabled,          \* servers enabled, with the environment they need
          Speaks,           \* position of a server's protocol version in
                            \* PROTOCOL_VERSION_FALLBACKS
          Routed,           \* servers whose tools are routed to the agent
          Callers,
          MaxConcurrent, Retries,  \* of the calls of a server
          MaxProbes                \* probes of the instance

CIRCUIT_FAILURES == 3
Unknown == "UNKNOWN"
Failures == {"RATE_LIMITED", "AUTH_REQUIRED", "UNREACHABLE", "DOWN"}
Degraded == {"DOWN", "UNREACHABLE", "RATE_LIMITED"}
NoClient == 0

\* The four maps of a registry: health, the servers with tools in the catalog
\* and, per server, the live client (the probe that made it).
Empty == [health |-> [s \in Servers |-> Unknown], tools |-> {},
          client |-> [s \in Servers |-> NoClient]]

VARIABLES live,        \* the registry the process uses
          staged,      \* the one a probe builds
          prober,      \* [pc, force, targets, n]
          probed,      \* a probe is complete
          due,         \* DEGRADED_REPROBE_TTL_S have passed since the last mark
          cooling,     \* servers whose _rate_limited_until is ahead
          caller,      \* per caller [pc, server, attempt, client]
          processes,   \* <<server, probe>>: subprocesses that run
          overrun      \* history: requests sent to a server since it cools down

vars == <<live, staged, prober, probed, due, cooling, caller, processes, overrun>>
probing == <<live, staged, prober, probed>>

Idle == [pc |-> "idle", server |-> CHOOSE s \in Servers : TRUE,
         attempt |-> 0, client |-> NoClient]

Init ==
    /\ live = Empty /\ staged = Empty
    /\ prober = [pc |-> "idle", force |-> FALSE, targets |-> {}, n |-> 0]
    /\ probed = FALSE /\ due = FALSE
    /\ cooling = {}
    /\ caller = [c \in Callers |-> Idle]
    /\ processes = {}
    /\ overrun = [s \in Servers |-> 0]

(***************************************************************************)
(* probe_all                                                               *)
(***************************************************************************)

Reprobable == {s \in Servers : /\ live.health[s] \in Degraded
                               /\ ~(live.health[s] = "RATE_LIMITED" /\ s \in cooling)}

needs_probe == ~probed \/ (Reprobable # {} /\ due)

BeginProbe(force) ==
    /\ prober.pc = "idle" /\ prober.n < MaxProbes
    /\ force \/ needs_probe
    /\ staged' = Empty
    /\ prober' = [pc |-> "probing", force |-> force \/ ~probed, n |-> prober.n + 1,
                  targets |-> IF probed /\ ~force THEN Reprobable ELSE Servers]
    /\ UNCHANGED <<live, probed, due, cooling, caller, processes, overrun>>

\* Every version a server rejects counts as a failure of the client, so the
\* circuit is open before the fourth version is offered.
initialize(s) == s \in Stdio \/ Speaks[s] <= CIRCUIT_FAILURES

\* What _probe_server can find of a server: nothing but a failure when it is
\* disabled, cannot be initialized, or lists no tool that is allowed.
Found(s) ==
    IF s \notin Enabled THEN {"AUTH_REQUIRED", "DOWN"}
    ELSE Failures \union (IF initialize(s) THEN {"AVAILABLE"} ELSE {})

Record(registry, s, status, n) ==
    [health |-> [registry.health EXCEPT ![s] = status],
     tools |-> IF status = "AVAILABLE" THEN registry.tools \union {s}
                                       ELSE registry.tools \ {s},
     client |-> [registry.client EXCEPT ![s] =
                    IF status = "AVAILABLE" THEN n ELSE NoClient]]

_probe_server_InPlace(s, status) ==
    /\ prober.pc = "probing" /\ s \in prober.targets /\ staged.health[s] = Unknown
    /\ status \in Found(s)
    /\ staged' = Record(staged, s, status, prober.n)
    /\ live' = [live EXCEPT !.health[s] = status]
    /\ processes' = IF s \in Stdio /\ status = "AVAILABLE"
                    THEN processes \union {<<s, prober.n>>} ELSE processes
    /\ UNCHANGED <<prober, probed, due, cooling, caller, overrun>>

\* A subprocess that fails the discovery is closed only when the validation of
\* its tools fails; when a request to it fails it is left running.
_probe_server(s, status) ==
    /\ prober.pc = "probing" /\ s \in prober.targets /\ staged.health[s] = Unknown
    /\ status \in Found(s)
    /\ staged' = Record(staged, s, status, prober.n)
    /\ \/ processes' = processes \union
             (IF s \in Stdio /\ s \in Enabled THEN {<<s, prober.n>>} ELSE {})
       \/ status # "AVAILABLE" /\ UNCHANGED processes
    /\ UNCHANGED <<live, prober, probed, due, cooling, caller, overrun>>

Clients(registry) == {<<s, registry.client[s]>> : s \in Stdio}

CancelProbe ==
    /\ prober.pc = "probing"
    /\ processes' = processes \ Clients(staged)
    /\ prober' = [prober EXCEPT !.pc = "idle"]
    /\ UNCHANGED <<live, staged, probed, due, cooling, caller, overrun>>

Pick(registry, targets) ==
    [health |-> [s \in Servers |-> IF s \in targets THEN staged.health[s]
                                   ELSE registry.health[s]],
     tools |-> (registry.tools \ targets) \union (staged.tools \intersect targets),
     client |-> [s \in Servers |-> IF s \in targets THEN staged.client[s]
                                   ELSE registry.client[s]]]

\* The swap of the four maps; a forced probe forgets every cooldown, a
\* degraded one those of the servers it found available.
Swap ==
    /\ prober.pc = "probing"
    /\ \A s \in prober.targets : staged.health[s] # Unknown
    /\ live' = Pick(live, prober.targets)
    /\ staged' = [Empty EXCEPT !.client = live.client]
    /\ LET over == IF prober.force THEN cooling
                   ELSE {s \in prober.targets : live'.health[s] = "AVAILABLE"}
       IN /\ cooling' = cooling \ over
          /\ overrun' = [s \in Servers |-> IF s \in over THEN 0 ELSE overrun[s]]
    /\ prober' = [prober EXCEPT !.pc = "closing"]
    /\ IF prober.force THEN UNCHANGED <<probed, due>> ELSE probed' = TRUE /\ due' = FALSE
    /\ UNCHANGED <<caller, processes>>

\* The subprocesses of the replaced clients are closed; staged holds them.
Close ==
    /\ prober.pc = "closing"
    /\ processes' = processes \ {<<s, staged.client[s]>> : s \in Stdio \intersect prober.targets}
    /\ staged' = Empty
    /\ prober' = [prober EXCEPT !.pc = "idle"]
    /\ probed' = TRUE /\ due' = (due /\ ~prober.force)
    /\ UNCHANGED <<live, cooling, caller, overrun>>

(***************************************************************************)
(* call                                                                    *)
(***************************************************************************)

Becomes(c, state) == caller' = [caller EXCEPT ![c] = state]
At(c, place) == Becomes(c, [caller[c] EXCEPT !.pc = place])
Inside(s) == {c \in Callers : caller[c].server = s /\ caller[c].pc \notin {"idle", "queued"}}

tools_for_agent == {s \in Routed \intersect live.tools :
    live.health[s] = "AVAILABLE" /\ s \notin cooling /\ live.client[s] # NoClient}

Call(c, s) ==
    /\ caller[c].pc = "idle" /\ s \in tools_for_agent
    /\ Becomes(c, [Idle EXCEPT !.pc = "queued", !.server = s])
    /\ UNCHANGED <<probing, due, cooling, processes, overrun>>

Enter_Unchecked(c) ==
    /\ caller[c].pc = "queued"
    /\ Cardinality(Inside(caller[c].server)) < MaxConcurrent
    /\ At(c, "pacing")
    /\ UNCHANGED <<probing, due, cooling, processes, overrun>>

\* Inside the gate the cooldown, but not the health, is looked at again.
Enter(c) ==
    /\ caller[c].pc = "queued"
    /\ Cardinality(Inside(caller[c].server)) < MaxConcurrent
    /\ IF caller[c].server \in cooling THEN Becomes(c, Idle) ELSE At(c, "pacing")
    /\ UNCHANGED <<probing, due, cooling, processes, overrun>>

\* After the minimum interval the request goes to the client the server has by
\* now; a subprocess that is gone is started again.
Send(c) ==
    /\ caller[c].pc = "pacing"
    /\ LET s == caller[c].server
           client == live.client[s]
       IN IF client = NoClient
          THEN Becomes(c, Idle) /\ UNCHANGED <<processes, overrun>>
          ELSE /\ Becomes(c, [caller[c] EXCEPT !.pc = "sent", !.client = client])
               /\ processes' = IF s \in Stdio THEN processes \union {<<s, client>>}
                               ELSE processes
               /\ overrun' = IF s \in cooling THEN [overrun EXCEPT ![s] = @ + 1]
                             ELSE overrun
    /\ UNCHANGED <<probing, due, cooling>>

_mark_rate_limited(s) ==
    /\ cooling' = cooling \union {s}
    /\ live' = [live EXCEPT !.health[s] = IF @ = Unknown THEN @ ELSE "RATE_LIMITED"]
    /\ due' = FALSE

\* A success, a failure reported by the tool, or an error of the transport; a
\* subprocess that failed is killed. What a call learns is written under the
\* name of the server, whichever client it used.
Answer(c) ==
    LET s == caller[c].server IN
    /\ caller[c].pc = "sent"
    /\ \/ Becomes(c, Idle) /\ UNCHANGED <<live, cooling, due, processes>>
       \/ \E status \in {"AUTH_REQUIRED", "DOWN"} :
             /\ live' = [live EXCEPT !.health[s] = IF @ = Unknown THEN @ ELSE status]
             /\ processes' = processes \ {<<s, caller[c].client>>}
             /\ Becomes(c, Idle) /\ UNCHANGED <<cooling, due>>
       \/ /\ caller[c].attempt < Retries
          /\ Becomes(c, [caller[c] EXCEPT !.pc = "backoff", !.attempt = @ + 1])
          /\ UNCHANGED <<live, cooling, due, processes>>
       \/ /\ caller[c].attempt = Retries
          /\ _mark_rate_limited(s) /\ Becomes(c, Idle) /\ UNCHANGED processes
    /\ UNCHANGED <<staged, prober, probed, overrun>>

Backoff(c) ==
    /\ caller[c].pc = "backoff" /\ At(c, "pacing")
    /\ UNCHANGED <<probing, due, cooling, processes, overrun>>

CancelCall(c) ==
    /\ caller[c].pc # "idle" /\ Becomes(c, Idle)
    /\ UNCHANGED <<probing, due, cooling, processes, overrun>>

(***************************************************************************)
(* Time                                                                    *)
(***************************************************************************)

TtlOver ==
    /\ ~due /\ due' = TRUE
    /\ UNCHANGED <<probing, cooling, caller, processes, overrun>>

CooldownOver(s) ==
    /\ s \in cooling /\ cooling' = cooling \ {s}
    /\ overrun' = [overrun EXCEPT ![s] = 0]
    /\ UNCHANGED <<probing, due, caller, processes>>

Next ==
    \/ \E force \in BOOLEAN : BeginProbe(force)
    \/ \E s \in Servers, status \in Failures \union {"AVAILABLE"} : _probe_server(s, status)
    \/ CancelProbe \/ Swap \/ Close
    \/ \E c \in Callers, s \in Servers : Call(c, s)
    \/ \E c \in Callers : Enter(c) \/ Send(c) \/ Answer(c) \/ Backoff(c) \/ CancelCall(c)
    \/ TtlOver \/ \E s \in Servers : CooldownOver(s)

Spec == Init /\ [][Next]_vars

(***************************************************************************)
(* Properties                                                              *)
(***************************************************************************)

\* At every moment, while a probe runs, is cancelled or is swapped in and while
\* calls report failures, a server called AVAILABLE has its tools in the
\* catalog and a client to call them with, and the catalog holds no tool
\* without a client ("never a partially re-probed catalog").
CatalogWhole == \A s \in Servers :
    /\ live.health[s] = "AVAILABLE" => s \in live.tools
    /\ s \in live.tools => live.client[s] # NoClient

\* Once a server said its quota is exhausted, only the calls that were inside
\* its gate reach it until the cooldown ends, each with its retries: the ones
\* that wait at the gate do not ("Fail queued siblings immediately").
CooldownSparesServer == \A s \in Servers :
    overrun[s] <= (MaxConcurrent - 1) * (Retries + 1)
=============================================================================
