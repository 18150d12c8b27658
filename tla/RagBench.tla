------------------------------ MODULE RagBench ------------------------------
(***************************************************************************)
(* The measures of the retrieval benchmark                                 *)
(* (harness/rag_three_stage_lib.py and the metrics of                      *)
(* run_three_stage_rag_experiments.py): how a document is cut into chunks, *)
(* how two rankings are fused and how a ranking is scored against spans of *)
(* the document marked as gold. A text is a sequence of kinds of           *)
(* characters, a chunk the range [start, end) it was cut from and the      *)
(* characters it has, a prefix of its document and section included.       *)
(***************************************************************************)
EXTENDS Integers, Sequences, FiniteSets, FiniteSetsExt, SequencesExt

CONSTANTS Texts,    \* sequences of "char", "stop", "newline", "space", "head"
          Sizes, Overlaps, \* of windows, in characters
          Prefix,   \* characters a section prefix adds
          Floor,    \* stands for 80 characters
          Block,    \* stands for the 600 characters of a block
          RrfK

VARIABLES text, strategy, chunks, gold, ranked, dense, sparse, fused

bvars == <<text, strategy, chunks, gold, ranked, dense, sparse, fused>>

Blank == {"newline", "space"}
Stops == {"stop", "newline"}
Least(a, b) == IF a < b THEN a ELSE b
Most(a, b) == IF a > b THEN a ELSE b
Range2(a, b) == [start |-> a, end |-> b]
Span(r) == r.start + 1 .. r.end
Length(r) == Cardinality(Span(r))

\* strip(): at most one range, without the blanks at its ends.
Trim(t, a, b) ==
    LET solid == {i \in a + 1 .. b : t[i] \notin Blank}
    IN IF solid = {} THEN <<>> ELSE <<Range2(Min(solid) - 1, Max(solid))>>

\* The pieces between consecutive cuts; a cut p follows the p-th character.
Cut(t, cuts) ==
    LET at == SetToSortSeq(cuts \cup {0, Len(t)}, <)
    IN FlattenSeq([i \in 1 .. Len(at) - 1 |-> Trim(t, at[i], at[i + 1])])

Shifted(ranges, by) ==
    [i \in DOMAIN ranges |-> Range2(ranges[i].start + by, ranges[i].end + by)]

(***************************************************************************)
(* Chunks                                                                  *)
(***************************************************************************)

\* Windows that end where End says; the next one begins an overlap earlier.
Windows(t, size, overlap, End(_)) ==
    LET next(start) == Most(start + 1, End(start) - Least(overlap, size - 1))
        from[start \in 0 .. Len(t)] ==
            Trim(t, start, End(start)) \o
            (IF End(start) >= Len(t) THEN <<>> ELSE from[next(start)])
    IN IF Len(t) <= size THEN Trim(t, 0, Len(t)) ELSE from[0]

fixed_windows(t, size, overlap) ==
    Windows(t, size, overlap, LAMBDA start : Least(Len(t), start + size))

\* A window ends after the last mark in its second part, if there is one.
smart_windows(t, size, overlap) ==
    LET End(start) ==
            LET target == Least(Len(t), start + size)
                marks == {p \in start + Most(Floor, (size * 55) \div 100) + 1 .. target - 1 :
                            t[p + 1] \in Stops \cup Blank}
            IN IF target = Len(t) \/ marks = {} THEN target
               ELSE LET best == Max(marks)
                    IN IF t[best + 1] = "newline" /\ t[best + 2] = "newline"
                       THEN best + 2 ELSE best + 1
    IN Windows(t, size, overlap, End)

\* Blank lines separate the blocks, or lines if there is no blank line.
production_resume_blocks(t) ==
    LET lines == {i \in 1 .. Len(t) : t[i] = "newline"}
        paragraphs == Cut(t, {i \in lines : i + 1 \in lines})
        blocks == IF Len(paragraphs) > 1 THEN paragraphs ELSE Cut(t, lines)
    IN [i \in DOMAIN blocks |->
          [blocks[i] EXCEPT !.end = Least(@, blocks[i].start + Block)]]

semantic_sentence_spans(t) ==
    Cut(t, {i \in 1 .. Len(t) : t[i] \in Stops /\ (i < Len(t) => t[i + 1] \notin Stops)})

NextGroup(group, cursor, overlap) == Most(group + 1, cursor - overlap)

\* Sentences are grouped until the topic changes or the group is full.
semantic_windows(t, target, most, least, breaks, overlap) ==
    LET s == semantic_sentence_spans(t)
        n == Len(s)
        from[at \in (0 .. n) \X (1 .. n)] ==
            LET group == at[1]
                cursor == at[2]
                start == s[group + 1].start
                length == s[cursor].end - start
                full == \/ s[cursor + 1].end - start > most
                        \/ cursor \in breaks /\ length >= least
                           /\ length >= (target * 55) \div 100
                        \/ length >= target /\ length >= (most * 85) \div 100
                row == Trim(t, start, s[cursor].end)
                next == NextGroup(group, cursor, overlap)
            IN IF cursor = n THEN row
               ELSE IF full THEN row \o from[<<next, Most(cursor, next + 1)>>]
               ELSE from[<<group, cursor + 1>>]
    IN IF n = 0 THEN <<>> ELSE IF n = 1 THEN smart_windows(t, most, 0) ELSE from[<<0, 1>>]

\* A label begins a section; one without a body is left out, and so is a short
\* text before the first.
split_markdown_sections(t) ==
    LET heads == {i \in 1 .. Len(t) : t[i] = "head"}
        parts == Cut(t, {i - 1 : i \in heads})
    IN SelectSeq(parts, LAMBDA r :
          \/ heads = {}
          \/ t[r.start + 1] = "head" /\ Length(r) > 1
          \/ t[r.start + 1] # "head" /\ Length(r) >= Floor)

\* Windows never reach over the end of a section.
SectionWindows(t, Rows(_)) ==
    LET sections == split_markdown_sections(t)
    IN FlattenSeq([i \in DOMAIN sections |->
          LET r == sections[i]
          IN Shifted(Rows(SubSeq(t, r.start + 1, r.end)), r.start)])

Whole == {"whole", "fixed", "recursive", "semantic"}
Sectioned == {"section", "section_prefix", "section_semantic", "section_semantic_prefix"}
Strategies == Whole \cup Sectioned \cup {"production_resume"}

chunk_document(t, how, size, overlap, breaks) ==
    LET prefixed == how \in {"section_prefix", "section_semantic_prefix"}
        prefix == IF prefixed THEN Prefix ELSE 0
        window == IF prefixed THEN Most(Floor, size - Prefix) ELSE Most(Floor, size)
        semantic(piece, s) == semantic_windows(piece, s, s + 2, Floor, breaks, overlap)
        rows == CASE how = "whole" -> Trim(t, 0, Len(t))
                  [] how = "fixed" -> fixed_windows(t, size, overlap)
                  [] how = "recursive" -> smart_windows(t, size, overlap)
                  [] how = "semantic" -> semantic(t, size)
                  [] how = "production_resume" -> production_resume_blocks(t)
                  [] how \in {"section", "section_prefix"} ->
                       SectionWindows(t, LAMBDA p :
                           smart_windows(p, window, Least(overlap, window - 1)))
                  [] OTHER -> SectionWindows(t, LAMBDA p : semantic(p, window))
    IN [i \in DOMAIN rows |-> rows[i] @@ [chars |-> Length(rows[i]) + prefix]]

(***************************************************************************)
(* Fusion and scores                                                       *)
(***************************************************************************)

\* The first chunk of every document.
dedupe_docs(list) ==
    SelectSeq(list, LAMBDA c : \A i \in DOMAIN list :
        list[i].doc = c.doc => \E j \in 1 .. i : list[j] = c)

Rank(list, d) ==
    LET at == {i \in DOMAIN list : list[i].doc = d} IN IF at = {} THEN 0 ELSE Min(at)

Share(weight, rank) == IF rank = 0 THEN 0 ELSE (weight * 10000) \div (RrfK + rank)

Docs(list) == {list[i].doc : i \in DOMAIN list}

\* Documents by the sum of their weighted reciprocal ranks in both lists,
\* which have every document once.
rrf_fuse_documents(vectors, words, weight) ==
    LET score(d) == Share(weight, Rank(dedupe_docs(vectors), d))
                    + Share(10 - weight, Rank(dedupe_docs(words), d))
    IN SetToSortSeq(Docs(vectors) \cup Docs(words),
                    LAMBDA d, e : score(d) > score(e) \/ (score(d) = score(e) /\ d < e))

Common(c, g) == Range2(Most(c.start, g.start), Least(c.end, g.end))

\* The characters in the union of the ranges.
Merged(ranges) == Cardinality(UNION {Span(r) : r \in ranges})

RelevantChars(g, c) == Merged({Common(c, span) : span \in g})

\* A chunk finds a span if it has half of it and is a third about gold.
matched_gold_span_indexes(g, c) ==
    IF 100 * RelevantChars(g, c) < 35 * c.chars THEN {}
    ELSE {span \in g : 2 * Length(Common(c, span)) >= Length(span)}

\* Mutant: a chunk that finds a span again is a hit.
Hits_Again(g, list) ==
    {i \in DOMAIN list : matched_gold_span_indexes(g, list[i]) # {}}

\* The ranks that find a span no earlier rank has found.
Hits(g, list) ==
    {i \in DOMAIN list :
        matched_gold_span_indexes(g, list[i])
        \ UNION {matched_gold_span_indexes(g, list[j]) : j \in 1 .. i - 1} # {}}

evidence_set_metrics(g, list) ==
    [covered |-> MapThenSumSet(LAMBDA span :
                    Merged({Common(list[i], span) : i \in DOMAIN list}), g),
     total |-> MapThenSumSet(Length, g),
     relevant |-> MapThenSumSet(LAMBDA i : RelevantChars(g, list[i]), DOMAIN list),
     context |-> MapThenSumSet(LAMBDA i : list[i].chars, DOMAIN list)]

(***************************************************************************)
(* One document and its query, or two rankings                             *)
(***************************************************************************)

NoRanking == <<>>
Golds(t) ==
    LET n == Len(t)
    IN {{Range2(0, n)}, {Range2(0, n \div 2), Range2(n \div 2, n)},
        {Range2(1, n - 1), Range2(n \div 3, n)}}

Rankings ==
    LET c(d, i) == [doc |-> d, chunk |-> i]
    IN {<<>>} \cup {<<c(1, 1)>>, <<c(2, 1), c(1, 1), c(2, 2)>>, <<c(1, 2), c(1, 1), c(3, 1)>>,
        <<c(3, 1), c(2, 1)>>, <<c(2, 2), c(2, 1), c(1, 1), c(3, 2)>>}

Init ==
    /\ text \in Texts /\ strategy = "none" /\ chunks = <<>>
    /\ gold \in Golds(text) /\ ranked = NoRanking
    /\ dense \in Rankings /\ sparse \in Rankings /\ fused = <<>>
    /\ gold = {Range2(0, Len(text))} \/ (dense = NoRanking /\ sparse = NoRanking)

Chunk ==
    /\ strategy = "none" /\ dense = NoRanking /\ sparse = NoRanking
    /\ \E how \in Strategies, size \in Sizes, overlap \in Overlaps :
       \E breaks \in IF how \in {"semantic", "section_semantic", "section_semantic_prefix"}
                     THEN {{1}, {2}, {1, 2}} ELSE {{}} :
          /\ strategy' = how
          /\ chunks' = chunk_document(text, how, size, overlap, breaks)
    /\ UNCHANGED <<text, gold, ranked, dense, sparse, fused>>

\* A retriever returns some chunks in some order.
Retrieve ==
    /\ strategy # "none" /\ ranked = NoRanking
    /\ \E order \in {[i \in DOMAIN chunks |-> i], [i \in DOMAIN chunks |-> Len(chunks) + 1 - i]} :
       \E top \in 1 .. Len(chunks) :
          ranked' = [i \in 1 .. top |-> chunks[order[i]]]
    /\ UNCHANGED <<text, strategy, chunks, gold, dense, sparse, fused>>

Fuse ==
    /\ fused = <<>> /\ (dense # NoRanking \/ sparse # NoRanking)
    /\ \E weight \in {3, 5, 7} : fused' = rrf_fuse_documents(dense, sparse, weight)
    /\ UNCHANGED <<text, strategy, chunks, gold, ranked, dense, sparse>>

Next == Chunk \/ Retrieve \/ Fuse

Spec == Init /\ [][Next]_bvars

(***************************************************************************)
(* Properties                                                              *)
(***************************************************************************)

Solid(t) == {i \in 1 .. Len(t) : t[i] \notin Blank}

\* A cut of the whole text loses no character of it, one by sections none of a
\* section that is kept, and chunks come in the order of the text. No measure
\* of a ranking leaves [0, 1]: it has no more hits than there are spans to find,
\* covers no more than there is and has no more gold than characters; a longer
\* ranking never covers less. A fused ranking has every document of either list
\* once, and first the one that is first in both.
ScoresAreFair ==
    /\ strategy \in Whole => Solid(text) \subseteq UNION {Span(chunks[i]) : i \in DOMAIN chunks}
    /\ strategy \in Sectioned =>
          \A k \in DOMAIN split_markdown_sections(text) :
             LET r == split_markdown_sections(text)[k]
             IN Solid(text) \cap Span(r) \subseteq UNION {Span(chunks[i]) : i \in DOMAIN chunks}
    /\ \A i \in 1 .. Len(chunks) - 1 : chunks[i].start <= chunks[i + 1].start
    /\ LET m == evidence_set_metrics(gold, ranked)
       IN /\ Cardinality(Hits(gold, ranked)) <= Cardinality(gold)
          /\ m.covered <= m.total /\ m.relevant <= m.context
          /\ \A k \in 0 .. Len(ranked) :
                evidence_set_metrics(gold, SubSeq(ranked, 1, k)).covered <= m.covered
    /\ fused # <<>> =>
          /\ Len(fused) = Cardinality(Docs(dense) \cup Docs(sparse))
          /\ dense # <<>> /\ sparse # <<>> /\ dense[1].doc = sparse[1].doc =>
                fused[1] = dense[1].doc
=============================================================================
