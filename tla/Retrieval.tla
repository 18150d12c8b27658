----------------------------- MODULE Retrieval -----------------------------
(***************************************************************************)
(* What a run prepares before its agents are asked (runtime/executor.py,   *)
(* retrieval.py, gateway.py): the preflight parses the resume and settles  *)
(* the job description, the retrieval of each agent and its first tools    *)
(* ground its prompt. Every request to the backend may fail; the process   *)
(* may die and the run resume from a checkpoint; a new revision starts     *)
(* with what the previous one left.                                        *)
(***************************************************************************)
EXTENDS Integers, Sequences

CONSTANTS Executors   \* "loop", "graph"

Agents == {"TechAgent", "ProjectAgent", "RiskAgent", "ReportAgent"}
Specialists == Agents \ {"ReportAgent"}

None == "none"
Supplied == "supplied"     \* the job description of the request
Catalogue == "catalogue"   \* the best match of the catalogue

VARIABLES request,  \* [resume, jd, followup, by]
          stage,    \* "parse", "match", "focus", "agents"
          store,    \* artifacts: [parsed, facts, jd, matches, requirements,
                    \* focus, coverage, timeline]
          reused,   \* names of the artifacts of the previous revision
          agent,    \* per agent [pc, steps, blocks, jd]
          saved     \* the store of the checkpoint, or NoCheckpoint

rvars == <<request, stage, store, reused, agent, saved>>

NoCheckpoint == [parsed |-> FALSE, facts |-> None, jd |-> None, matches |-> None,
                 requirements |-> None, focus |-> None, coverage |-> None,
                 timeline |-> FALSE]
Fresh == [a \in Agents |-> [pc |-> "waits", steps |-> <<>>, blocks |-> {}, jd |-> None]]

Plan == IF request.followup THEN {"ReportAgent"} ELSE Agents

\* A revision may keep what its predecessor settled about the job, with or
\* without matches of the catalogue (_reuse_previous_revision_artifacts).
Previous(jd, matches) ==
    [NoCheckpoint EXCEPT !.parsed = TRUE, !.facts = "parsed", !.jd = jd, !.matches = matches,
                         !.requirements = jd, !.focus = jd, !.coverage = jd]

Init ==
    /\ request \in [resume : BOOLEAN, jd : BOOLEAN, followup : BOOLEAN, by : Executors]
    /\ stage = "parse"
    /\ store \in {NoCheckpoint, [NoCheckpoint EXCEPT !.parsed = TRUE, !.facts = "parsed"]}
           \union {Previous(Catalogue, "some")}
           \union (IF request.jd THEN {Previous(Supplied, None)} ELSE {})
    /\ reused = store.coverage
    /\ agent = Fresh /\ saved = NoCheckpoint

(***************************************************************************)
(* _prepare_context                                                        *)
(***************************************************************************)

\* Facts of a parsed resume; a tool that fails, is out of budget or parses
\* nothing leaves the raw text as the facts. A supplied job description is the
\* effective one, unless one is known.
_resume_facts_from_parse(ok) == IF ok THEN "parsed" ELSE None

Parse(called, parsed) ==
    /\ stage = "parse" /\ stage' = "match"
    /\ called <=> request.resume /\ ~store.parsed
    /\ parsed => called
    /\ \E success \in BOOLEAN :
          LET facts == IF success /\ parsed THEN _resume_facts_from_parse(TRUE) ELSE store.facts
          IN /\ success => parsed
             /\ store' = [store EXCEPT
                  !.parsed = @ \/ parsed,
                  !.facts = IF request.resume /\ facts = None THEN "raw" ELSE facts,
                  !.jd = IF request.jd /\ @ = None THEN Supplied ELSE @]
    /\ UNCHANGED <<request, reused, agent, saved>>

\* The matches and the description of the best one, which becomes the
\* effective one.
_store_jd_match_artifacts(s, found) ==
    IF found THEN [s EXCEPT !.matches = "some", !.jd = Catalogue]
    ELSE [s EXCEPT !.matches = "empty"]

_prepare_jd_requirements(s) == IF s.jd = None THEN s ELSE [s EXCEPT !.requirements = s.jd]

\* Mutant: the requirements are prepared before the matches are stored.
Match_Early(ok, found) ==
    /\ stage = "match" /\ stage' = "focus"
    /\ found => ok
    /\ LET needed == request.resume /\ store.matches # "some"
           early == _prepare_jd_requirements(store)
       IN /\ ok => needed
          /\ store' = IF ok THEN _store_jd_match_artifacts(early, found) ELSE early
    /\ UNCHANGED <<request, reused, agent, saved>>

\* The retrieval of matches, also when a job description was supplied; then
\* the requirements are taken from the effective one.
Match(ok, found) ==
    /\ stage = "match" /\ stage' = "focus"
    /\ found => ok
    /\ LET needed == request.resume /\ store.matches # "some"
       IN /\ ok => needed
          /\ store' = _prepare_jd_requirements(
                          IF ok THEN _store_jd_match_artifacts(store, found) ELSE store)
    /\ UNCHANGED <<request, reused, agent, saved>>

\* The passages of the job description, from the one of the request when there
\* is one; only the loop executor selects them, and only for the specialists.
_prepare_jd_focus(ok) ==
    /\ stage = "focus" /\ stage' = "agents"
    /\ LET jd == IF request.jd THEN Supplied ELSE store.jd
           needed == request.by = "loop" /\ ~request.followup /\ store.focus = None /\ jd # None
       IN /\ ok => needed
          /\ store' = IF ok THEN [store EXCEPT !.focus = jd] ELSE store
    /\ UNCHANGED <<request, reused, agent, saved>>

(***************************************************************************)
(* The grounds of an agent                                                 *)
(***************************************************************************)

Step(source, about) == [source |-> source, about |-> about]
_jd_focus_fallback(jd) == jd
\* What a query asks about: the selected passages, else the raw description.
_jd_focus_text(raw) == IF store.focus # None THEN store.focus ELSE _jd_focus_fallback(raw)
_build_project_search_query == _jd_focus_text(store.jd)
_build_tech_search_query == _jd_focus_text(store.jd)
_build_knowledge_query(a) ==
    CASE a = "TechAgent" -> _jd_focus_text(IF request.jd THEN Supplied ELSE store.jd)
      [] a # "TechAgent" /\ request.followup -> "question"
      [] OTHER -> "risks"

\* The whole work is listed before the first request.
_rag_steps(a) ==
    LET resume == request.resume IN
    CASE a = "ProjectAgent" /\ resume -> <<Step("resume", _build_project_search_query)>>
      [] a = "TechAgent" /\ resume -> <<Step("resume", _build_tech_search_query),
                                        Step("knowledge", _build_knowledge_query(a))>>
      [] a = "ReportAgent" -> <<Step("knowledge", _build_knowledge_query(a))>> \o
             (IF resume /\ request.followup
              THEN <<Step("resume", _build_knowledge_query(a))>> ELSE <<>>)
      [] OTHER -> <<>>

Changes(a, state) == agent' = [agent EXCEPT ![a] = state]

Start(a) ==
    /\ stage = "agents" /\ a \in Plan /\ agent[a].pc = "waits"
    /\ a = "ReportAgent" => \A s \in Specialists \intersect Plan : agent[s].pc = "asked"
    /\ Changes(a, [agent[a] EXCEPT !.pc = "rag", !.steps = _rag_steps(a)])
    /\ UNCHANGED <<request, stage, store, reused, saved>>

\* A failed retrieval is told and gives no block.
_retrieve_rag_context(a, ok) ==
    /\ agent[a].pc = "rag" /\ agent[a].steps # <<>>
    /\ LET step == Head(agent[a].steps)
       IN Changes(a, [agent[a] EXCEPT !.steps = Tail(@),
                         !.blocks = IF ok THEN @ \union {step} ELSE @])
    /\ UNCHANGED <<request, stage, store, reused, saved>>

\* The deterministic tools of an agent, unless an earlier attempt or revision
\* has their result; then its first prompt is sent.
_pre_steps(a, ok) ==
    /\ agent[a].pc = "rag" /\ agent[a].steps = <<>>
    /\ LET coverage == a = "TechAgent" /\ request.resume /\ store.jd # None
                       /\ store.coverage = None
           timeline == a = "RiskAgent" /\ request.resume /\ ~store.timeline
           located == a = "ProjectAgent" /\ request.resume
       IN /\ ok => coverage \/ timeline \/ located
          /\ store' = [store EXCEPT !.coverage = IF ok /\ coverage THEN store.jd ELSE @,
                                    !.timeline = @ \/ (ok /\ timeline)]
    /\ Changes(a, [agent[a] EXCEPT !.pc = "asked", !.jd = store.jd])
    /\ UNCHANGED <<request, stage, reused, saved>>

(***************************************************************************)
(* Checkpoints                                                             *)
(***************************************************************************)

\* Between two groups of agents.
Checkpoint ==
    /\ stage = "agents" /\ saved # store
    /\ \A a \in Agents : agent[a].pc # "rag"
    /\ saved' = store
    /\ UNCHANGED <<request, stage, store, reused, agent>>

\* A resumed run skips the preflight, but not the selection of passages; one
\* without a checkpoint starts anew.
Resume ==
    /\ stage # "parse" /\ saved # NoCheckpoint
    /\ store' = saved
    /\ stage' = "focus"
    /\ agent' = Fresh
    /\ UNCHANGED <<request, reused, saved>>

Next ==
    \/ \E called, parsed \in BOOLEAN : Parse(called, parsed)
    \/ \E ok, found \in BOOLEAN : Match(ok, found)
    \/ \E ok \in BOOLEAN : _prepare_jd_focus(ok)
    \/ \E a \in Agents : Start(a)
    \/ \E a \in Agents, ok \in BOOLEAN : _retrieve_rag_context(a, ok) \/ _pre_steps(a, ok)
    \/ Checkpoint \/ Resume

Spec == Init /\ [][Next]_rvars

(***************************************************************************)
(* Properties                                                              *)
(***************************************************************************)

\* Whatever fails and wherever the run resumes: an agent that is asked has
\* facts when there is a resume, and the requirements, the coverage that this
\* run computed and what the agent read are of one effective job description
\* ("never claim 原文缺失", "the one effective JD").
PromptIsGrounded == \A a \in Agents : agent[a].pc = "asked" =>
    /\ request.resume => store.facts # None
    /\ store.requirements = store.jd /\ agent[a].jd = store.jd
    /\ reused = None => store.coverage \in {None, store.jd}

\* A supplied job description is what the candidate is measured against
\* (refuted: the best match of the catalogue replaces it).
SuppliedJdRules == request.jd /\ reused = None =>
    store.requirements \in {None, Supplied} /\ store.coverage \in {None, Supplied}
=============================================================================
