----------------------------- MODULE MCServices -----------------------------
(***************************************************************************)
(* An instance of the services for TLC: the values of their constants that *)
(* a configuration cannot write.                                           *)
(***************************************************************************)
EXTENDS Services, Sequences, FiniteSets, TLC

CONSTANTS bing, fetch,      \* MCP servers, fetch a subprocess
          c1, c2,           \* callers of MCP tools, workers of the task queue
          r1, r2, r3        \* runs that write memories, users of a task

Interchangeable ==
    Permutations({c1, c2}) \union Permutations({r1, r2, r3})

(***************************************************************************)
(* Planning                                                                *)
(***************************************************************************)

Everything == {"parsed_resume", "resume_facts", "jd_requirements",
               "technical_findings", "project_findings", "risks", "final_report"}
Revise(previous, invalidated) ==
    [previous |-> previous, invalidated |-> invalidated]
MCRevisions ==
    {Revise({}, {}), Revise(Everything, {}), Revise(Everything, {"risks"}),
     Revise(Everything, {"jd_requirements"}), Revise(Everything, {"parsed_resume"})}

Weigh(urls, stack, gaps, risky) ==
    [urls |-> urls, stack |-> stack, gaps |-> gaps, risky |-> risky]
MCWeighs == {Weigh(FALSE, FALSE, FALSE, FALSE), Weigh(TRUE, FALSE, FALSE, TRUE),
             Weigh(FALSE, TRUE, TRUE, FALSE)}

Policy(n, order, parallel, required, reserve) ==
    [maxAgents |-> n, order |-> order, parallel |-> parallel,
     required |-> required, reserve |-> reserve]
MCPolicies ==
    {Policy(6, <<>>, TRUE, <<>>, 2),
     Policy(6, <<"RiskAgent", "ReportAgent", "TechAgent">>, FALSE, <<>>, 1),
     Policy(2, <<"ProjectAgent">>, TRUE, <<>>, 3),
     Policy(6, <<>>, TRUE, <<"risks", "project_findings">>, 2)}

MCProposals ==
    {<<>>, <<"ReportAgent", "RiskAgent">>,
     <<"ProjectAgent", "ProjectAgent", "TechAgent">>,
     <<"CoordinatorAgent", "RiskAgent", "ReportAgent">>}

(***************************************************************************)
(* MCP servers and tool calls                                              *)
(***************************************************************************)

MCSpeaks == bing :> 4 @@ fetch :> 1

(***************************************************************************)
(* The report and the shared state                                         *)
(***************************************************************************)

Dim(status, score, refs, rationale) ==
    [status |-> status, score |-> score, refs |-> refs,
     rationale |-> rationale, core |-> TRUE]
Score(dims, strengths) == [dims |-> dims, strengths |-> strengths,
                           recommended |-> TRUE, quality |-> "SUFFICIENT"]
Four(d) == <<d, d, d, d>>
MCScores ==
    {Score(Four(Dim("ASSESSED", TRUE, 1, TRUE)), 2),
     Score(Four(Dim("UNASSESSED", TRUE, 0, FALSE)), 2),
     Score(<<Dim("none", TRUE, 0, TRUE), Dim("PARTIAL", FALSE, 2, FALSE)>>, 1)}
Item(kind, refs) == [kind |-> kind, refs |-> refs]
MCRisks ==
    {<<Item("candidate", 2), Item("candidate", 2), Item("candidate", 2)>>,
     <<Item("noise", 1), Item("candidate", 0), Item("candidate", 1),
       Item("string", 0)>>}
MCQuestions == {<<>>, <<Item("candidate", 1)>>, Four(Item("candidate", 2))}

(***************************************************************************)
(* Memories, turns of the conversation, prompts                            *)
(***************************************************************************)

Job(c, j) == [category |-> c, jd |-> j]
MCRequests == {Job("backend", "jd1"), Job("backend", "jd2"), Job("none", "jd1")}
Case(key, source) ==
    [type |-> "RECENT_CASE", key |-> key, category |-> "backend", jd |-> "jd1",
     runs |-> {}, samples |-> 0, seen |-> {}, origin |-> source]
MCOld == {Case(<<"backend", "old">>, "benchmark"),
          Case(<<"backend", "older">>, "control_plane")}

MCRecents == {<<>>, <<5, 1, 1, 1>>, <<1, 5, 1>>, <<9>>,
              <<1, 2, 1, 1, 3, 1, 1, 1, 1, 1, 1, 1>>}

(***************************************************************************)
(* Preflight, skills, tools                                                *)
(***************************************************************************)

Pack(id, v, status, res) ==
    [id |-> id, version |-> v, status |-> status, resources |-> res]
MCPackages ==
    <<Pack("assess-technical-evidence", 1, "active", {}),
      Pack("risk-pattern-detection", 1, "active", {"references/a.md"}),
      Pack("risk-pattern-detection", 2, "deprecated", {})>>
Overrides(tech, other) ==
    [a \in SkillAgents |-> IF a = "TechAgent" THEN tech ELSE other]
MCCases ==
    {[jd |-> TRUE, urls |-> TRUE, projects |-> TRUE, timeline |-> TRUE,
      overrides |-> Overrides("risk-pattern-detection", "mcp-builder")],
     [jd |-> FALSE, urls |-> FALSE, projects |-> TRUE, timeline |-> TRUE,
      overrides |-> Overrides("none", "risk-pattern-detection")]}

Def(kind, server, safe, suffixed, needs) ==
    [kind |-> kind, server |-> server, safe |-> safe, suffixed |-> suffixed,
     resume |-> needs]
MCDefs ==
    "check_timeline" :> Def("builtin", "none", "check_timeline", "-", TRUE)
    @@ "deepwiki.ask" :> Def("mcp", "deepwiki", "deepwiki_ask", "deepwiki_ask_1", FALSE)
    @@ "fetch.fetch" :> Def("mcp", "fetch", "fetch_fetch", "fetch_fetch_1", FALSE)
    @@ "fetch_fetch" :> Def("mcp", "other", "fetch_fetch", "fetch_fetch_2", FALSE)
MCRequested == "TechAgent" :> <<"check_timeline", "fetch_fetch">>
               @@ "ReportAgent" :> <<"fetch.fetch", "check_timeline">>
MCRoute == [a \in {"TechAgent", "ReportAgent"} |->
               <<"fetch.fetch", "fetch_fetch", "deepwiki.ask">>]
Declares(r, url, framework, repo) ==
    [resume |-> r, url |-> url, framework |-> framework, repo |-> repo]
MCContexts == {Declares(TRUE, TRUE, FALSE, "Owner/Repo"),
               Declares(FALSE, FALSE, TRUE, "none")}
Say(name, r, repo, text) ==
    [name |-> name, args |-> [resume |-> r, repo |-> repo], text |-> text]
Whole == <<"head", "tail">>
MCAnswers ==
    {<<Say("fetch_fetch", TRUE, "none", Whole),
       Say("fetch_fetch_2", TRUE, "none", Whole \o <<"more">>)>>,
     <<Say("deepwiki_ask", FALSE, "foreign", Whole),
       Say("fetch_fetch_1", FALSE, "none", Whole)>>,
     <<Say("check_timeline", FALSE, "none", Whole),
       Say("deepwiki_ask", FALSE, "url", Whole)>>,
     <<Say("emit_report_section", FALSE, "none", Whole \o Whole),
       Say("emit_decision", FALSE, "none", Whole)>>,
     <<Say("emit_report_section", FALSE, "none", Whole \o <<"head", "more">>)>>}

Missing == -1
Line(terms, title, vague, metric, bullet, long, start, end) ==
    [terms |-> terms, title |-> title, vague |-> vague, metric |-> metric,
     bullet |-> bullet, long |-> long, period |-> [start |-> start, end |-> end]]
Worked(start, end) ==
    Line({}, "none", FALSE, FALSE, TRUE, FALSE, start, end)
Text(terms, title, vague, metric, bullet) ==
    Line(terms, title, vague, metric, bullet, vague /\ metric, Missing, Missing)
MCLines ==
    {Worked(0, 20), Worked(4, 9), Worked(10, -2), Worked(8, 3), Worked(30, 31),
     Text({"java", "rag"}, "none", TRUE, TRUE, TRUE),
     Text({"java"}, "none", TRUE, FALSE, TRUE),
     Text({}, "projects", FALSE, FALSE, FALSE),
     Text({"go"}, "skills", FALSE, FALSE, FALSE)}
MCClaims == {{"java", "go", "rag"}, {"go", "vue", "react", "redis"}}
Checked(missing, score, known) ==
    [missing |-> missing, score |-> score, known |-> known]
MCReports == {Checked({}, 88, TRUE), Checked({"summary"}, Missing, FALSE),
              Checked({}, 120, TRUE)}

(***************************************************************************)
(* Deployments and the retrieval benchmark                                 *)
(***************************************************************************)

Written(t) ==
    [i \in DOMAIN t |-> CASE t[i] = "c" -> "char" [] t[i] = "." -> "stop"
                         [] t[i] = "n" -> "newline" [] t[i] = "h" -> "head"
                         [] OTHER -> "space"]
MCTexts ==
    {Written(<<"c", "c", ".", "c", "c", "c", ".", "c">>),
     Written(<<"h", "c", "c", "n", "n", "h", "c", ".", "c", "c">>),
     Written(<<"c", "c", "n", "c", "c", "n", "n", "c", "c", "c", "c", "c">>),
     Written(<<"c", "h", "h", "c", " ", "c", ".", "n", "c", "c">>),
     Written(<<"c", ".", "c", ".", "c", "c", ".", "c", "c", "c", "c">>)}

(***************************************************************************)
(* Evaluation tasks                                                        *)
(***************************************************************************)
=============================================================================
