--------------------------- MODULE BuiltinTools ---------------------------
(***************************************************************************)
(* The deterministic tools of the evaluation (runtime/builtin_tools.py):   *)
(* parsing, the check of the timeline, the coverage of requirements, the   *)
(* location of evidence, the lint of the text and the checks of a report.  *)
(* A line of a resume is the record of what the tools look for in it.      *)
(***************************************************************************)
EXTENDS Integers, Sequences, FiniteSets, FiniteSetsExt, SequencesExt

CONSTANTS Lines,      \* lines of resumes: [terms, title, vague, metric, bullet,
                      \* long, period], title a section or None, period
                      \* [start, end] or NoPeriod, end a month or Open
          MaxLines,
          Claims,     \* sets of terms: claims and requirements
          Reports,    \* reports: [missing, score, known], score a number or None
          Now         \* the month of the check

None == -1
Open == -2
NoPeriod == [start |-> None, end |-> None]

VARIABLES resume,     \* sequence of lines
          claims,     \* claims that are located, requirements that are covered
          draft,      \* the report that is checked
          result      \* tool -> its result

bvars == <<resume, claims, draft, result>>

Failure == [success |-> FALSE]
Lower(a, b) == IF a < b THEN a ELSE b

(***************************************************************************)
(* The timeline                                                            *)
(***************************************************************************)

Dated(sofar, line) ==
    IF line.period = NoPeriod THEN sofar ELSE Append(sofar, line.period)
extract_timeline(text) == FoldLeft(Dated, <<>>, text)
Ended(p) == [start |-> p.start, end |-> IF p.end = Open THEN Now ELSE p.end]

\* Mutant: the periods are sorted by their end.
Earlier_ByEnd(periods, i, j) ==
    \/ periods[i].end < periods[j].end
    \/ periods[i].end = periods[j].end /\ i < j

\* The sort keeps the order of periods that begin together.
Earlier(periods, i, j) ==
    \/ periods[i].start < periods[j].start
    \/ periods[i].start = periods[j].start /\ i < j

\* Inverted ranges are told and left out; the others are sorted by their start.
Normalized(periods) ==
    LET kept == {i \in DOMAIN periods : periods[i].end >= periods[i].start}
        order == CHOOSE f \in [1..Cardinality(kept) -> kept] :
                    \A i, j \in DOMAIN f : i < j => Earlier(periods, f[i], f[j])
    IN [k \in DOMAIN order |-> periods[order[k]]]

\* Each period is compared with the one before it.
check_timeline ==
    LET dated == extract_timeline(resume)
        periods == [i \in DOMAIN dated |-> Ended(dated[i])]
        sorted == Normalized(periods)
        Months(i) == sorted[i - 1].end - sorted[i].start
        overlaps == {i \in 2..Len(sorted) : Months(i) > 0}
        gaps == {i \in 2..Len(sorted) : -Months(i) >= 6}
        inverted == {i \in DOMAIN periods : periods[i].end < periods[i].start}
        future == {i \in DOMAIN sorted : sorted[i].start > Now}
    IN [success |-> TRUE,
        overlaps |-> {<<sorted[i - 1], sorted[i]>> : i \in overlaps},
        gaps |-> {<<sorted[i - 1].end, sorted[i].start>> : i \in gaps},
        inverted |-> Cardinality(inverted),
        highRisk |-> inverted \union future # {} \/ \E i \in overlaps : Months(i) >= 6]

(***************************************************************************)
(* The text                                                                *)
(***************************************************************************)

\* A title opens a section, the lines after it are its lines; those before the
\* first title are in none.
parse_resume ==
    IF resume = <<>> THEN Failure
    ELSE LET before(i) == {j \in 1..(i - 1) : resume[j].title # "none"}
             section(i) == IF resume[i].title # "none" THEN "title"
                           ELSE IF before(i) = {} THEN "none" ELSE resume[Max(before(i))].title
         IN [success |-> TRUE,
             sections |-> [i \in DOMAIN resume |-> section(i)],
             skills |-> UNION {resume[i].terms : i \in DOMAIN resume}]

Text == UNION {resume[i].terms : i \in DOMAIN resume}
Hits(terms, text) == Cardinality(terms \intersect text)

\* A requirement is covered when a third of its terms are somewhere.
Covered(terms) == Hits(terms, Text) > 0 /\ 100 * Hits(terms, Text) >= 34 * Cardinality(terms)
calculate_jd_coverage ==
    IF claims = {} THEN Failure
    ELSE [success |-> TRUE, covered |-> {c \in claims : Covered(c)}]

\* The first of the lines with most of the terms, when it has two fifths.
locate_evidence ==
    LET Score(c, i) == Hits(c, resume[i].terms)
        best(c) == {i \in DOMAIN resume : \A j \in DOMAIN resume : Score(c, i) >= Score(c, j)}
        found(c) == \E i \in best(c) : Score(c, i) > 0 /\ 10 * Score(c, i) >= 4 * Cardinality(c)
    IN IF claims = {} THEN Failure
       ELSE [success |-> TRUE,
             line |-> [c \in claims |-> IF found(c) THEN Min(best(c)) ELSE 0]]

\* Vague words without a number, long bullets, and few bullets with a number.
resume_lint ==
    LET vague == {i \in DOMAIN resume : resume[i].vague /\ ~resume[i].metric}
        long == {i \in DOMAIN resume : resume[i].bullet /\ resume[i].long}
        bullets == {i \in DOMAIN resume : resume[i].bullet}
        counted == {i \in bullets : resume[i].metric}
        few == bullets # {} /\ 10 * Cardinality(counted) < 3 * Cardinality(bullets)
        issues == Cardinality(vague) + Cardinality(long) + (IF few THEN 1 ELSE 0)
    IN IF resume = <<>> THEN Failure
       ELSE [success |-> TRUE, issueCount |-> issues,
             lintScore |-> IF 8 * issues < 100 THEN 100 - 8 * issues ELSE 0]

(***************************************************************************)
(* The report                                                              *)
(***************************************************************************)

validate_report_schema ==
    [success |-> TRUE,
     valid |-> /\ draft.missing = {}
               /\ draft.score = None \/ draft.score \in 0..100
               /\ draft.known]

\* Half of the terms of what must be found; three quarters of what must not be
\* claimed; here both are the claims.
evaluate_report_quality ==
    LET found == {c \in claims : 2 * Hits(c, Text) >= Cardinality(c)}
        violations == {c \in claims : 4 * Hits(c, Text) >= 3 * Cardinality(c)}
    IN [success |-> TRUE, found |-> found, missing |-> claims \ found,
        violations |-> violations]

(***************************************************************************)
(* The registry                                                            *)
(***************************************************************************)

Init ==
    /\ resume \in UNION {[1..n -> Lines] : n \in 0..MaxLines}
    /\ claims \in {{}, Claims}
    /\ draft \in Reports
    /\ result = [t \in {} |-> Failure]

run_tool(t) ==
    /\ result' = [u \in DOMAIN result \union {t} |->
          IF u # t THEN result[u] ELSE
          CASE t = "parse_resume" -> parse_resume
            [] t = "check_timeline" -> check_timeline
            [] t = "calculate_jd_coverage" -> calculate_jd_coverage
            [] t = "locate_evidence" -> locate_evidence
            [] t = "resume_lint" -> resume_lint
            [] t = "validate_report_schema" -> validate_report_schema
            [] t = "evaluate_report_quality" -> evaluate_report_quality]
    /\ UNCHANGED <<resume, claims, draft>>

\* One order of the tools is enough: they do not see each other's results.
Order == <<"parse_resume", "check_timeline", "calculate_jd_coverage",
           "locate_evidence", "resume_lint", "validate_report_schema",
           "evaluate_report_quality">>
Next == \E i \in DOMAIN Order :
    DOMAIN result = {Order[j] : j \in 1..(i - 1)} /\ run_tool(Order[i])

Spec == Init /\ [][Next]_bvars

(***************************************************************************)
(* Properties                                                              *)
(***************************************************************************)

Ran(t) == t \in DOMAIN result /\ result[t].success
Valid == {p \in {Ended(p) : p \in ToSet(extract_timeline(resume))} : p.end >= p.start}
Meet(p, q) == p.start < q.end /\ q.start < p.end

\* Comparing neighbours misses no conflict altogether: when two periods of the
\* resume overlap some overlap is told, the told ones are real, and without one
\* the gaps are the months that no period covers. A claim that is located in a
\* line is a requirement that the resume covers. Every line is a title, in the
\* section of the last title, or before the first.
ToolsAgree ==
    /\ Ran("check_timeline") =>
          LET timeline == result["check_timeline"] IN
          /\ (\E p, q \in Valid : p # q /\ Meet(p, q)) => timeline.overlaps # {}
          /\ \A o \in timeline.overlaps : o[1].start <= o[2].start /\ o[2].start < o[1].end
          /\ timeline.overlaps = {} => \A g \in timeline.gaps :
                \A p \in Valid : p.end <= g[1] \/ p.start >= g[2]
    /\ Ran("calculate_jd_coverage") /\ Ran("locate_evidence") =>
          \A c \in claims : result["locate_evidence"].line[c] # 0 =>
              c \in result["calculate_jd_coverage"].covered
    /\ Ran("parse_resume") => \A i \in 2..Len(resume) :
          resume[i].title = "none" =>
              \/ result["parse_resume"].sections[i] = result["parse_resume"].sections[i - 1]
              \/ result["parse_resume"].sections[i] = resume[i - 1].title
=============================================================================
