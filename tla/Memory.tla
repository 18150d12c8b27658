------------------------------- MODULE Memory -------------------------------
(***************************************************************************)
(* The business memory: what a run learns about a job and later runs read. *)
(* A run searches it when it starts (executor.py), gives what it found to  *)
(* its agents, and queues a case and a profile that the control plane      *)
(* writes when the result is accepted (MemoryService.java). Several runs   *)
(* do this at once; no transaction holds the steps of a write together.    *)
(***************************************************************************)
EXTENDS Integers, FiniteSets

CONSTANTS Runs,
          Requests,   \* [category, jd] of a run, NoJob where it names none
          Observed,   \* what a run may have seen: sets of gaps and risks
          Old,        \* rows that older versions and benchmarks left
          TopK        \* policy.memoryRetrieval.topK

NoJob == "none"
Types == {"RECENT_CASE", "JOB_PROFILE"}
Least(a, b) == IF a < b THEN a ELSE b

\* A row; runs are the runs it is derived from.
Row(type, key, job, runs, samples, seen, origin) ==
    [type |-> type, key |-> key, category |-> job.category, jd |-> job.jd,
     runs |-> runs, samples |-> samples, seen |-> seen, origin |-> origin]
NoRow == Row("none", <<>>, [category |-> NoJob, jd |-> NoJob], {}, 0, {}, "none")

VARIABLES asked,    \* the request of each run
          stage,    \* "search", "work", "case", "profile", "retire",
                    \* "insert", "ended"
          pending,  \* types whose search is under way
          hits,     \* memory_hits
          draft,    \* the profile being written
          memories, \* ACTIVE rows
          accepted  \* runs whose success was accepted

mvars == <<asked, stage, pending, hits, draft, memories, accepted>>

Init ==
    /\ asked \in [Runs -> Requests]
    /\ stage = [r \in Runs |-> "search"]
    /\ pending = [r \in Runs |-> Types]
    /\ hits = [r \in Runs |-> {}]
    /\ draft = [r \in Runs |-> NoRow]
    /\ memories = Old
    /\ accepted = {}

Moves(r, place) == stage' = [stage EXCEPT ![r] = place]
\* What a step no longer needs is forgotten.
Forget(f, r, empty) == f' = [f EXCEPT ![r] = empty]

(***************************************************************************)
(* Reading                                                                 *)
(***************************************************************************)

\* MemoryService.search for a specialist: rows of the run's job; rows of
\* benchmarks, of failures and outside the user's namespace are never hits.
visible(r, type) ==
    {m \in memories :
        /\ m.type = type /\ m.origin = "run"
        /\ asked[r].category \in {NoJob, m.category}
        /\ type = "JOB_PROFILE" => asked[r].jd \in {NoJob, m.jd}}

_business_memory_matches_request(m, r) ==
    /\ asked[r].category # NoJob => m.category = asked[r].category
    /\ m.type = "JOB_PROFILE" /\ asked[r].jd # NoJob => m.jd = asked[r].jd
    /\ asked[r] # [category |-> NoJob, jd |-> NoJob]

\* Scores rank the rows, and an irrelevant one is no hit: any few of them.
search(r, type) ==
    /\ stage[r] = "search" /\ type \in pending[r]
    /\ \E few \in SUBSET visible(r, type) :
          /\ Cardinality(few) <= (IF type = "JOB_PROFILE" THEN 1 ELSE Least(2, TopK))
          /\ hits' = [hits EXCEPT ![r] = @ \union
                         {m \in few : _business_memory_matches_request(m, r)}]
    /\ pending' = [pending EXCEPT ![r] = @ \ {type}]
    /\ UNCHANGED <<asked, stage, draft, memories, accepted>>

\* A profile and a case before further cases, up to the limit.
_merge_memory_hits(r) ==
    /\ stage[r] = "search" /\ pending[r] = {} /\ Moves(r, "work")
    /\ \E few \in SUBSET hits[r] :
          /\ Cardinality(few) = Least(IF TopK < 1 THEN 1 ELSE TopK, Cardinality(hits[r]))
          /\ \A m \in hits[r] : m.type = "JOB_PROFILE" => m \in few
          /\ hits' = [hits EXCEPT ![r] = few]
    /\ UNCHANGED <<asked, pending, draft, memories, accepted>>

allowed_types_for(agent) ==
    CASE agent = "ReportAgent" -> {"JOB_PROFILE"}
      [] agent \in {"ConversationAgent", "ResumeParserAgent"} -> {}
      [] OTHER -> Types

allows_failure(agent) == agent = "CoordinatorAgent"

\* filter_hits_for_consumer, the rows that are used.
filter_hits_for_consumer(rows, agent) ==
    {m \in rows : /\ m.type \in allowed_types_for(agent)
                  /\ m.origin \in {"control_plane", "failure"} => allows_failure(agent)
                  /\ m.origin # "benchmark"}

\* The memories in the prompts of an agent while the run works.
_memory_context(r, agent) ==
    IF stage[r] = "work" THEN filter_hits_for_consumer(hits[r], agent) ELSE {}

(***************************************************************************)
(* Writing                                                                 *)
(***************************************************************************)

\* job_key and profile_fact_key; a row's key is the sourceId it is found by.
job_key(r) == IF asked[r].category # NoJob THEN asked[r].category ELSE asked[r].jd
profile_fact_key(r) == <<job_key(r), asked[r].jd>>

\* The text of a row, whose hash finds a row written before: of a profile it
\* has the job key, but not the JD.
Text(m) == IF m.type = "JOB_PROFILE" THEN <<m.key[1], m.samples, m.seen>>
           ELSE <<m.key[1], m.seen>>

\* The result is accepted as a success; a run without a job wrote nothing.
Accept(r) ==
    /\ stage[r] = "work"
    /\ accepted' = accepted \union {r}
    /\ Moves(r, IF asked[r] = [category |-> NoJob, jd |-> NoJob] THEN "ended" ELSE "case")
    /\ Forget(hits, r, {})
    /\ UNCHANGED <<asked, pending, draft, memories>>

\* Mutant: candidates of a failed run are written like those of any other.
Fail_Kept(r) ==
    /\ stage[r] = "work" /\ Moves(r, "case") /\ Forget(hits, r, {})
    /\ UNCHANGED <<asked, pending, draft, memories, accepted>>

\* It failed, was cancelled or timed out: candidates are dropped.
Fail(r) ==
    /\ stage[r] = "work" /\ Moves(r, "ended") /\ Forget(hits, r, {})
    /\ UNCHANGED <<asked, pending, draft, memories, accepted>>

\* A case with neither a gap nor a risk is not written; one with the text of
\* an ACTIVE row refreshes that row.
WriteCase(r, seen) ==
    /\ stage[r] = "case" /\ Moves(r, "profile")
    /\ LET case == Row("RECENT_CASE", <<job_key(r), r>>, asked[r], {r}, 1, seen, "run")
           twice == \E m \in memories : m.type = "RECENT_CASE" /\ Text(m) = Text(case)
       IN memories' = IF seen = {} \/ twice THEN memories ELSE memories \union {case}
    /\ draft' = [draft EXCEPT ![r] = [NoRow EXCEPT !.seen = seen]]
    /\ UNCHANGED <<asked, pending, hits, accepted>>

\* The ACTIVE profile of the same fact key is read and the run added to it.
consolidateJobProfile(r) ==
    /\ stage[r] = "profile" /\ Moves(r, "retire")
    /\ LET before == {m \in memories : m.type = "JOB_PROFILE" /\ m.key = profile_fact_key(r)}
       IN \E old \in IF before = {} THEN {NoRow} ELSE before :
             draft' = [draft EXCEPT ![r] =
                 Row("JOB_PROFILE", profile_fact_key(r), asked[r], old.runs \union {r},
                     old.samples + 1, old.seen \union draft[r].seen, "run")]
    /\ UNCHANGED <<asked, pending, hits, memories, accepted>>

\* A row of the same text is refreshed and ends the write; else the rows of
\* the key with another text become CONFLICTED.
Retire(r) ==
    /\ stage[r] = "retire"
    /\ LET known == \E m \in memories : m.type = "JOB_PROFILE" /\ Text(m) = Text(draft[r])
       IN /\ Moves(r, IF known THEN "ended" ELSE "insert")
          /\ memories' = IF known THEN memories
                         ELSE {m \in memories : m.type = "JOB_PROFILE" => m.key # draft[r].key}
          /\ IF known THEN Forget(draft, r, NoRow) ELSE UNCHANGED draft
    /\ UNCHANGED <<asked, pending, hits, accepted>>

Insert(r) ==
    /\ stage[r] = "insert" /\ Moves(r, "ended")
    /\ memories' = memories \union {draft[r]}
    /\ Forget(draft, r, NoRow)
    /\ UNCHANGED <<asked, pending, hits, accepted>>

\* The control plane dies between two steps of a write: nothing repeats them.
Crash(r) ==
    /\ stage[r] \in {"case", "profile", "retire", "insert"} /\ Moves(r, "ended")
    /\ Forget(draft, r, NoRow)
    /\ UNCHANGED <<asked, pending, hits, memories, accepted>>

cleanupExpired(m) ==
    /\ m \in memories /\ memories' = memories \ {m}
    /\ UNCHANGED <<asked, stage, pending, hits, draft, accepted>>

Next ==
    \/ \E r \in Runs :
          \/ \E type \in Types : search(r, type)
          \/ _merge_memory_hits(r) \/ Accept(r) \/ Fail(r)
          \/ \E seen \in Observed : WriteCase(r, seen)
          \/ consolidateJobProfile(r) \/ Retire(r) \/ Insert(r) \/ Crash(r)
    \/ \E m \in memories : cleanupExpired(m)

Spec == Init /\ [][Next]_mvars

(***************************************************************************)
(* Properties                                                              *)
(***************************************************************************)

\* What an agent reads was learned by accepted runs of its own job: of the
\* run's category, when it names one, and a profile of its own JD, when it has
\* one. A profile counts each run it is derived from once. ReportAgent reads no
\* other candidate's case.
MemoryStaysInJob ==
    \A r \in Runs, agent \in {"TechAgent", "ReportAgent", "CoordinatorAgent"} :
       \A m \in _memory_context(r, agent) :
          /\ m.runs \subseteq accepted /\ m.samples = Cardinality(m.runs)
          /\ asked[r].category # NoJob =>
                \A s \in m.runs : asked[s].category = asked[r].category
          /\ m.type = "JOB_PROFILE" /\ asked[r].jd # NoJob =>
                \A s \in m.runs : asked[s].jd = asked[r].jd
          /\ agent = "ReportAgent" => m.type = "JOB_PROFILE"
=============================================================================
