---------------------------- MODULE ToolSurface ----------------------------
(***************************************************************************)
(* From the tools a model is offered to the call that is executed          *)
(* (runtime/tools.py, mcp_registry.py, llm.py, executor.py): definitions   *)
(* are registered once, the catalogue of an agent is filtered and renamed, *)
(* the answer arrives as fragments of calls that interleave and may stop   *)
(* early, and each proposal is resolved back to a tool.                    *)
(***************************************************************************)
EXTENDS Integers, Sequences, SequencesExt

CONSTANTS Defs,      \* tool -> [kind, server, safe, suffixed, resume]: its names
                     \* for the model and whether it needs the resume
          Requested, \* agent -> tools of its definition, in order
          Route,     \* agent -> MCP tools of its route, in order
          Contexts,  \* [resume, url, framework, repo]: what the run declares
          Answers    \* turns of the model: sequences of [name, args, text],
                     \* args [resume, repo], text a sequence of fragments

Final == "emit_decision"
Section == "emit_report_section"
MCP == {t \in DOMAIN Defs : Defs[t].kind = "mcp"}
Servers == {Defs[t].server : t \in MCP}
NoRepo == "none"

VARIABLES context,     \* of the run
          live,        \* servers AVAILABLE with a client
          definitions, \* tools the executor knows
          agent,       \* the agent that runs
          offered,     \* function definitions: sequence of [name, of]
          aliases,     \* name of a function -> tool
          exposed,     \* names of the functions of this turn
          meant,       \* what the model says this turn
          got,         \* fragments of each call that have arrived
          at,          \* "attach", "catalog", "turn", "stream"
          ran          \* what the last turn ran: [name, tool, repo, arrived]

tsvars == <<context, live, definitions, agent, offered, aliases, exposed, meant,
            got, at, ran>>

Init ==
    /\ context \in Contexts /\ live \in SUBSET Servers
    /\ definitions = DOMAIN Defs \ MCP
    /\ agent \in DOMAIN Requested
    /\ offered = <<>> /\ aliases = [n \in {} |-> ""] /\ exposed = {}
    /\ meant = <<>> /\ got = <<>> /\ at = "attach" /\ ran = {}

(***************************************************************************)
(* What is offered                                                         *)
(***************************************************************************)

\* The MCP tools of the servers that are available when the run starts.
register_into ==
    /\ at = "attach" /\ at' = "catalog"
    /\ definitions' = definitions \union {t \in MCP : Defs[t].server \in live}
    /\ UNCHANGED <<context, live, agent, offered, aliases, exposed, meant, got, ran>>

\* A probe or a call finds that a server answers, or that it does not.
Health(s) ==
    /\ live' = IF s \in live THEN live \ {s} ELSE live \union {s}
    /\ UNCHANGED <<context, definitions, agent, offered, aliases, exposed, meant, got,
                   at, ran>>

\* The members of a list that are wanted, in its order.
Keep(sofar, t, wanted) == IF t \in wanted THEN Append(sofar, t) ELSE sofar
Among(list, wanted) == FoldLeft(LAMBDA sofar, t : Keep(sofar, t, wanted), <<>>, list)

tools_for_agent == IF agent = "ReportAgent" THEN <<>>
                   ELSE Among(Route[agent], {t \in MCP : Defs[t].server \in live})

\* Tools that have no use for what the candidate declared are not offered.
Useful(t) ==
    /\ Defs[t].server = "deepwiki" => context.repo # NoRepo
    /\ t \in {"fetch.fetch", "bing_cn.web_search"} => context.url
    /\ Defs[t].server = "context7" => context.framework

catalog_for_agent ==
    LET routed == tools_for_agent
        names == Requested[agent] \o Among(routed, ToSet(routed) \ ToSet(Requested[agent]))
    IN Among(names, {t \in definitions : /\ t \in MCP => t \in ToSet(routed)
                                         /\ agent # "ReportAgent" => Useful(t)})

NoTools == [offered |-> <<>>, aliases |-> [n \in {} |-> ""]]
Named(sofar, t, name) ==
    [offered |-> Append(sofar.offered, [name |-> name, of |-> t]),
     aliases |-> [n \in DOMAIN sofar.aliases \union {name} |->
                     IF n = name THEN t ELSE sofar.aliases[n]]]

\* Mutant: names that the model's alphabet makes equal are not told apart.
Offer_Colliding(sofar, t) == Named(sofar, t, Defs[t].safe)

\* The names of MCP tools are made safe for the model; of two that become
\* equal the later one gets a suffix.
Offer(sofar, t) ==
    LET taken == Defs[t].safe \in DOMAIN sofar.aliases
                 /\ sofar.aliases[Defs[t].safe] # t
    IN Named(sofar, t, IF taken THEN Defs[t].suffixed ELSE Defs[t].safe)
openai_tools(catalog) == FoldLeft(Offer, NoTools, catalog)

\* The catalogue is made once for an agent and stays when servers come and go.
Catalog ==
    /\ at = "catalog" /\ at' = "turn"
    /\ LET surface == openai_tools(catalog_for_agent)
       IN offered' = surface.offered /\ aliases' = surface.aliases
    /\ UNCHANGED <<context, live, definitions, agent, exposed, meant, got, ran>>

(***************************************************************************)
(* What the model answers                                                  *)
(***************************************************************************)

\* A turn for actions, the final one, or a section of the report.
Turn(answer, kind) ==
    /\ at = "turn" /\ at' = "stream"
    /\ exposed' = CASE kind = "actions" -> {f.name : f \in ToSet(offered)} \union {Final}
                    [] kind = "final" -> {Final}
                    [] kind = "section" -> {Section}
    /\ meant' = answer /\ got' = [i \in DOMAIN answer |-> 0]
    /\ ran' = {}
    /\ UNCHANGED <<context, live, definitions, agent, offered, aliases>>

\* The name of a call comes first, then its arguments, call by call or mixed.
_invoke_stream(i) ==
    /\ at = "stream"
    /\ got[i] <= Len(meant[i].text)
    /\ got' = [got EXCEPT ![i] = @ + 1]
    /\ UNCHANGED <<context, live, definitions, agent, offered, aliases, exposed, meant,
                   at, ran>>

Object == <<"head", "tail">>
Arrived(i) == SubSeq(meant[i].text, 1, got[i] - 1)

\* No text is the empty object. Only a section may repeat its object, in full
\* or in part.
_parse_native_tool_arguments(text, section) ==
    \/ text \in {<<>>, Object}
    \/ section /\ \E n \in 1..2 : text = Object \o SubSeq(Object, 1, n)

_deepwiki_context_policy(t, args) ==
    Defs[t].server = "deepwiki" => args.repo \in {"declared", "url"} /\ context.repo # NoRepo

_validate(t, args) == Defs[t].resume => args.resume \/ context.resume

\* The checks of a proposal, in their order, then those of execute.
Executed(i) ==
    LET name == meant[i].name
        tool == aliases[name]
    IN /\ name \in exposed
       /\ _parse_native_tool_arguments(Arrived(i), name = Section)
       /\ name \in DOMAIN aliases
       /\ tool \in definitions
       /\ _validate(tool, meant[i].args)
       /\ _deepwiki_context_policy(tool, meant[i].args)

Call(i) ==
    [name |-> meant[i].name,
     tool |-> IF meant[i].name = Section THEN Section ELSE aliases[meant[i].name],
     repo |-> IF meant[i].name # Section /\ Defs[aliases[meant[i].name]].server = "deepwiki"
              THEN context.repo ELSE NoRepo,
     arrived |-> Arrived(i)]

Taken(i) ==
    /\ got[i] > 0
    /\ \/ Executed(i)
       \/ /\ meant[i].name = Section /\ Section \in exposed
          /\ _parse_native_tool_arguments(Arrived(i), TRUE)

\* The stream ends, completely or not; the calls that have begun are resolved
\* in order and the next turn begins.
Resolve ==
    /\ at = "stream" /\ at' = "turn"
    /\ ran' = {Call(i) : i \in {j \in DOMAIN meant : Taken(j)}}
    /\ meant' = <<>> /\ got' = <<>> /\ exposed' = {}
    /\ UNCHANGED <<context, live, definitions, agent, offered, aliases>>

Next ==
    \/ register_into \/ Catalog \/ Resolve
    \/ \E s \in Servers : Health(s)
    \/ \E answer \in Answers, kind \in {"actions", "final", "section"} : Turn(answer, kind)
    \/ \E i \in DOMAIN meant : _invoke_stream(i)

Spec == Init /\ [][Next]_tsvars

(***************************************************************************)
(* Properties                                                              *)
(***************************************************************************)

\* Whatever the model says and however its answer arrives: what runs is the one
\* tool that was offered under the name called, with the arguments as they were
\* written in full, or with none; the wiki is asked about the repository the
\* candidate declared, and the report asks no public server.
RunsAsOffered == \A c \in ran :
    /\ c.tool # Section =>
          /\ {f.of : f \in {g \in ToSet(offered) : g.name = c.name}} = {c.tool}
          /\ c.arrived \in {<<>>, Object}
          /\ c.tool \in MCP => agent # "ReportAgent" /\ Useful(c.tool)
          /\ Defs[c.tool].server = "deepwiki" => c.repo = context.repo
    /\ c.tool = Section =>
          \/ c.arrived = <<>>
          \/ IsPrefix(Object, c.arrived) /\ IsPrefix(c.arrived, Object \o Object)
=============================================================================
