--------------------------- MODULE ReportSections ---------------------------
(***************************************************************************)
(* The structured report (runtime/executor.py): the three sections that    *)
(* are generated side by side, retried and merged                          *)
(* (_run_parallel_report_sections), the validation every report goes       *)
(* through (_validate_structured_report) and the contract of a published   *)
(* one (_report_contract_violation). A section is abstracted to what its   *)
(* items carry: a status, a score, references.                             *)
(***************************************************************************)
EXTENDS Integers, Sequences, FiniteSets, SequencesExt

CONSTANTS Scores,     \* score sections the model may write: records
                      \* [dims, strengths, recommended, quality]
          Risks,      \* risk sections: sequences of [kind, refs]
          Questions,  \* question sections: sequences of [kind, refs]
          MaxSections \* max_calls

VARIABLES pc,        \* "first", "retry", "merged", "fallback",
                     \* "whole", "published", "refused"
          sparse,    \* is_sparse_resume
          sections,  \* section -> what the last good answer wrote
          errors,    \* sections whose last request failed
          retry,     \* sections to retry
          calls,     \* call_count
          report,    \* the validated report
          wrote      \* history: sections the model wrote

vars == <<pc, sparse, sections, errors, retry, calls, report, wrote>>

Names == {"score", "risk", "question"}
Listed == <<"score", "risk", "question">>
Missing == [dims |-> <<>>, strengths |-> 0, recommended |-> FALSE, quality |-> "SUFFICIENT"]

(***************************************************************************)
(* _validate_structured_report                                             *)
(***************************************************************************)

\* An UNASSESSED dimension has no score; one assessed without references is
\* PARTIAL when it has a score and UNASSESSED when it has none.
dimension(d) ==
    LET status == IF d.status # "none" THEN d.status
                  ELSE IF d.score THEN "ASSESSED" ELSE "UNASSESSED"
        score == d.score /\ status # "UNASSESSED"
    IN [d EXCEPT !.score = score,
                 !.status = IF status = "ASSESSED" /\ d.refs = 0
                            THEN IF score THEN "PARTIAL" ELSE "UNASSESSED"
                            ELSE status]

scorable(d) == d.status # "UNASSESSED" /\ d.score /\ d.core /\ (d.refs > 0 \/ d.rationale)

\* Risks that are text, that concern the process or name an error of the
\* control plane are no risks of the candidate; questions that are text are
\* dropped.
Candidate(item) == item.kind = "candidate"
Kept(items) == Restrict(items, {i \in DOMAIN items : Candidate(items[i])})

_validate_structured_report(s) ==
    LET dims == [i \in DOMAIN s.score.dims |-> dimension(s.score.dims[i])]
    IN [valid |-> s.score.recommended \/ dims # <<>>,
        quality |-> s.score.quality,
        dims |-> dims,
        strengths |-> s.score.strengths,
        risks |-> Kept(s.risk),
        questions |-> Kept(s.question),
        overall |-> Cardinality({i \in DOMAIN dims : scorable(dims[i])}) >= 2]

(***************************************************************************)
(* _run_parallel_report_sections                                           *)
(***************************************************************************)

RefsOf(items) == MapThenSumSet(LAMBDA i : items[i].refs, DOMAIN items)
NumberOf(items) == Cardinality(DOMAIN items)

minimums == IF sparse THEN [dims |-> 2, strengths |-> 1, risks |-> 2, questions |-> 4, refs |-> 4]
                      ELSE [dims |-> 4, strengths |-> 2, risks |-> 3, questions |-> 4, refs |-> 6]

refs_by_section(v) == [score |-> RefsOf(v.dims), risk |-> RefsOf(v.risks),
                       question |-> RefsOf(v.questions)]
FewRefs(v) ==
    LET refs == refs_by_section(v)
    IN refs.score + refs.risk + refs.question < minimums.refs

\* Mutant: the risk section has no floor.
weak_AnyRisks(v) == (IF NumberOf(v.dims) < minimums.dims \/ v.strengths < minimums.strengths
                     THEN {"score"} ELSE {})
    \union (IF NumberOf(v.questions) < minimums.questions THEN {"question"} ELSE {})

\* The sections below their floor; when only references are missing, the ones
\* with few of them, or all.
weak(v) == (IF NumberOf(v.dims) < minimums.dims \/ v.strengths < minimums.strengths
            THEN {"score"} ELSE {})
    \union (IF NumberOf(v.risks) < minimums.risks THEN {"risk"} ELSE {})
    \union (IF NumberOf(v.questions) < minimums.questions THEN {"question"} ELSE {})

RetryOf(v) ==
    LET few == {n \in Names : refs_by_section(v)[n] < (IF sparse THEN 1 ELSE 2)}
        all == weak(v) \union (IF FewRefs(v) THEN few ELSE {})
    IN IF ~v.valid \/ (FewRefs(v) /\ all = {}) THEN Names ELSE all

Good(v) == v.valid /\ weak(v) = {} /\ ~FewRefs(v)

\* Short questions are completed from the risks that carry references, one
\* question for each; none is made up for an empty section unless the model
\* failed to write it twice.
_backfill_interview_questions_from_risks(s, allow_empty) ==
    LET grounded == SelectSeq(s.risk, LAMBDA r : r.kind # "string" /\ r.refs > 0)
        asked == SelectSeq(s.question, Candidate)
        n == IF 4 - Len(asked) < Len(grounded) THEN 4 - Len(asked) ELSE Len(grounded)
    IN IF (asked = <<>> /\ ~allow_empty) \/ Len(asked) >= 4 \/ n = 0 THEN s
       ELSE [s EXCEPT !.question =
                asked \o [i \in 1..n |-> [kind |-> "candidate", refs |-> grounded[i].refs]]]

\* One request for each of the sections, as far as the calls left allow.
Called(names) ==
    LET left == MaxSections - calls
    IN ToSet(SubSeq(names, 1, IF left < Len(names) THEN left ELSE Len(names)))

\* A section that fails keeps what an earlier attempt wrote.
run_sections(names, failed, answer) ==
    [n \in Names |-> IF n \in names \ failed THEN answer[n] ELSE sections[n]]

Init ==
    /\ pc = "first" /\ sparse \in BOOLEAN
    /\ sections = [score |-> Missing, risk |-> <<>>, question |-> <<>>]
    /\ errors = {} /\ retry = {} /\ calls = 0 /\ wrote = {}
    /\ report = _validate_structured_report(sections)

\* The first attempt: all three at once. When one fails only the failed ones
\* are retried, otherwise the weak ones.
FirstAttempt(failed, answer) ==
    /\ pc = "first" /\ failed \subseteq Called(Listed)
    /\ LET s == _backfill_interview_questions_from_risks(
                    run_sections(Called(Listed), failed, answer), FALSE)
           v == _validate_structured_report(s)
       IN /\ sections' = s /\ report' = v
          /\ retry' = IF failed # {} THEN failed ELSE RetryOf(v)
          /\ pc' = IF retry' = {} THEN "merged" ELSE "retry"
    /\ errors' = failed /\ calls' = calls + Cardinality(Called(Listed))
    /\ wrote' = Called(Listed) \ failed
    /\ UNCHANGED sparse

\* The sections to retry, in alphabetical order.
Sorted == LET one(n) == IF n \in retry THEN <<n>> ELSE <<>>
          IN one("question") \o one("risk") \o one("score")
Retried == Called(Sorted)

\* The second attempt. A question section that failed twice is made from the
\* risks; a section left out for want of calls leaves no error behind.
SecondAttempt(failed, answer) ==
    /\ pc = "retry" /\ failed \subseteq Retried
    /\ LET new == run_sections(Retried, failed, answer)
           s == _backfill_interview_questions_from_risks(new, "question" \in failed)
           v == _validate_structured_report(s)
           left == IF Len(s.question) >= 4 /\ s # new
                   THEN failed \ {"question"} ELSE failed
       IN /\ sections' = s /\ report' = v
          /\ errors' = left
          /\ pc' = IF left = {} /\ Good(v) THEN "merged" ELSE "fallback"
    /\ calls' = calls + Cardinality(Retried) /\ wrote' = wrote \union (Retried \ failed)
    /\ UNCHANGED <<sparse, retry>>

(***************************************************************************)
(* _report_contract_violation                                              *)
(***************************************************************************)

\* The monolithic report that is written when the sections fall back.
WriteWhole(answer) ==
    /\ pc = "fallback"
    /\ report' = _validate_structured_report(answer)
    /\ report'.valid /\ pc' = "whole"
    /\ UNCHANGED <<sparse, sections, errors, retry, calls, wrote>>

\* A report without a score gets the average of whatever dimension has one,
\* unless its data is insufficient; without any it is refused.
Publish ==
    /\ pc \in {"merged", "whole"}
    /\ LET scored == \E i \in DOMAIN report.dims : report.dims[i].score
           filled == ~report.overall /\ report.quality # "INSUFFICIENT"
       IN /\ pc' = IF filled /\ ~scored THEN "refused" ELSE "published"
          /\ report' = [report EXCEPT !.overall = IF filled THEN scored ELSE @]
    /\ UNCHANGED <<sparse, sections, errors, retry, calls, wrote>>

Next ==
    \/ \E score \in Scores, risk \in Risks, question \in Questions :
          LET answer == [score |-> score, risk |-> risk, question |-> question]
          IN \/ \E failed \in SUBSET Names :
                   FirstAttempt(failed, answer) \/ SecondAttempt(failed, answer)
             \/ WriteWhole(answer)
    \/ Publish

Spec == Init /\ [][Next]_vars

(***************************************************************************)
(* Properties                                                              *)
(***************************************************************************)

\* Whatever fails, is retried, is left out for want of calls or is completed:
\* the sections merged have a score and a risk section the model wrote, with no
\* more calls than max_calls; and a report is published with a score only when
\* one of its dimensions was assessed, never for dimensions without evidence.
ReportIsEarned ==
    /\ pc = "merged" => {"score", "risk"} \subseteq wrote /\ calls <= MaxSections
    /\ pc = "published" /\ report.overall =>
          \E i \in DOMAIN report.dims :
             report.dims[i].score /\ report.dims[i].status \in {"ASSESSED", "PARTIAL"}
=============================================================================
