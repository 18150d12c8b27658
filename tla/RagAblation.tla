----------------------------- MODULE RagAblation -----------------------------
(***************************************************************************)
(* The retrieval ablation (harness/run_three_stage_rag_experiments.py and  *)
(* the model clients of rag_three_stage_lib.py) for one stage and one      *)
(* output directory: phases that each decide one part of a configuration,  *)
(* a joint search over what the phases shortlisted, and the files a later  *)
(* run goes on from. A model may not answer, and the program may die       *)
(* between any two writes. Utilities count half per cents: two phases are  *)
(* tied up to Near, an improvement counts from Margin on.                  *)
(***************************************************************************)
EXTENDS Integers, Sequences, FiniteSets, FiniteSetsExt

CONSTANTS MaxRuns,   \* runs of the instance
          Utilities, \* of a configuration that can be measured
          Finalists, \* of the joint search
          Offered    \* the values the variants of the instance give

VARIABLES stage, todo, pc, sel, file, summary, picked, runs

avars == <<stage, todo, pc, sel, file, summary, picked, runs>>

Near == 1
Margin == 2
Services == {"embeddings", "deepseek", "qwen3"}
Phases == <<"chunking", "embedding", "tokenizer", "retrieval", "rewrite", "rerank">>
PhaseSet == {Phases[i] : i \in DOMAIN Phases}

(***************************************************************************)
(* Configurations                                                          *)
(***************************************************************************)

DEFAULTS(s) ==
    [chunk |-> "production", tokenizer |-> "current", rewrite |-> "none",
     rerank |-> "feature",
     embedding |-> IF s = "resume_evidence" THEN "none" ELSE "te3_1024",
     mode |-> IF s = "resume_evidence" THEN "resume_production" ELSE "hybrid"]

\* The part of a configuration that a phase decides.
Part(phase) ==
    CASE phase = "chunking" -> "chunk" [] phase = "retrieval" -> "mode" [] OTHER -> phase

variants_for_phase(s, phase) ==
    Offered \cap
    CASE phase = "chunking" -> {"production", "semantic"}
      [] phase = "embedding" -> {"te3_512", "te3_1024"}
                                \cup IF s = "resume_evidence" THEN {"none"} ELSE {}
      [] phase = "tokenizer" -> {"current", "jieba"}
      [] phase = "retrieval" -> {"lexical", "dense", "hybrid"}
                                \cup IF s = "resume_evidence" THEN {"resume_production"} ELSE {}
      [] phase = "rewrite" -> {"none", "deterministic", "deepseek"}
      [] phase = "rerank" -> {"none", "feature", "qwen3", "deepseek"}

Dense == {"dense", "hybrid"}

\* In the resume stage the embedding decides the mode, and a mode that needs
\* vectors brings the embedding it needs.
apply_winner(config, s, phase, v) ==
    LET c == [config EXCEPT ![Part(phase)] = v]
    IN IF s # "resume_evidence" THEN c
       ELSE CASE phase = "embedding" ->
                   [c EXCEPT !.mode = IF v = "none" THEN "resume_production" ELSE "dense"]
              [] phase = "retrieval" /\ v \in Dense /\ c.embedding = "none" ->
                   [c EXCEPT !.embedding = "te3_1024"]
              [] OTHER -> c

\* What later phases decide is left out while a phase compares.
config_for_variant(config, s, phase, v) ==
    LET c == apply_winner(config, s, phase, v)
    IN [c EXCEPT !.rerank = IF phase = "rerank" THEN @ ELSE "none",
                 !.rewrite = IF phase \in {"rewrite", "rerank"} THEN @ ELSE "none"]

is_current_variant(s, phase, v) == v = DEFAULTS(s)[Part(phase)]

\* The model calls of a query, the vectors of an index and how far its chunks
\* mix sections.
complexity_profile(c) ==
    [calls |-> Cardinality({k \in {"rewrite", "rerank"} : c[k] \in {"qwen3", "deepseek"}}),
     bytes |-> IF c.mode \notin Dense THEN 0
               ELSE IF c.embedding = "te3_512" THEN 1 ELSE 2,
     mixed |-> IF c.chunk = "semantic" THEN 0 ELSE 1]

(***************************************************************************)
(* Measuring a configuration                                               *)
(***************************************************************************)

\* Three attempts, then the call fails; an answer is cached for ever.
_post_json(service, up) == service \in up

\* The vectors of chunks and queries, or an exception.
embed(c, up) ==
    /\ c.mode \in Dense => c.embedding # "none"
    /\ c.mode \in Dense \/ c.chunk = "semantic" => _post_json("embeddings", up)

\* A query whose rewriting fails is searched as it is, with an error.
rewrite_queries(c, up) == c.rewrite = "deepseek" => _post_json("deepseek", up)

\* A ranking whose rerank fails stays as it is, with an error.
rerank(c, up) == c.rerank \in {"qwen3", "deepseek"} => _post_json(c.rerank, up)

\* Mutant: errors of a model are listed and the result counts.
ok_Listed(c, up) == embed(c, up)

\* The result counts if no model that the configuration names was replaced.
ok(c, up) == embed(c, up) /\ rewrite_queries(c, up) /\ rerank(c, up)

Bad == -100000

\* The results evaluate_variant may have, with the utility of each and whether
\* all its models answered.
evaluate_variant(c) ==
    {[u |-> IF ok(c, up) THEN u ELSE Bad, real |-> rewrite_queries(c, up) /\ rerank(c, up)] :
        up \in SUBSET Services, u \in Utilities}

Available(r) == {v \in DOMAIN r : r[v].u # Bad}
Best(r, some) == Max({r[v].u : v \in some})

(***************************************************************************)
(* Phases                                                                  *)
(***************************************************************************)

Dimension(v) == CASE v = "none" -> 0 [] v = "te3_512" -> 512 [] OTHER -> 1024

\* The variants that may win: which chunking is the smallest index among those
\* nearly as good as the best depends on the documents; a model call is bought
\* only for a margin.
choose_winner(phase, r) ==
    LET best == Best(r, Available(r))
        top == {v \in Available(r) : r[v].u = best}
        near == {v \in Available(r) : best - r[v].u <= Near}
    IN CASE phase = "chunking" -> near
         [] phase = "embedding" ->
              {v \in near : \A w \in near : Dimension(v) <= Dimension(w)}
         [] phase \in {"rewrite", "rerank"} /\ "none" \in DOMAIN r /\ best - r["none"].u < Margin ->
              {"none"}
         [] OTHER -> top

SHORTLIST_LIMITS ==
    [chunking |-> 4, embedding |-> 3, tokenizer |-> 3, retrieval |-> 5, rewrite |-> 2, rerank |-> 3]

Ranked(phase, r) ==
    {v \in Available(r) :
        Cardinality({w \in Available(r) : r[w].u > r[v].u}) < SHORTLIST_LIMITS[phase]}

\* The variants of a phase that the joint search combines.
joint_shortlist(s, phase) ==
    summary[phase] \cup
    {v \in variants_for_phase(s, phase) : is_current_variant(s, phase, v) \/ v = "semantic"}

Init ==
    /\ stage \in {"resume_evidence", "knowledge_recall"}
    /\ todo = <<>> /\ pc = "idle" /\ runs = 0
    /\ sel = [config |-> DEFAULTS(stage), real |-> FALSE, by |-> "none"]
    /\ file = sel
    /\ summary = [p \in PhaseSet |-> {}]
    /\ picked = [gain |-> 0, compared |-> FALSE, own |-> FALSE]

Raise == pc' = "idle" /\ todo' = <<>>

\* load_selections: the file, or the defaults while there is none.
Start ==
    /\ pc = "idle" /\ runs < MaxRuns /\ runs' = runs + 1
    /\ \E phases \in {Phases \o <<"joint">>, <<"joint">>} \cup {<<p>> : p \in PhaseSet} :
          todo' = phases
    /\ pc' = "phase" /\ sel' = file
    /\ UNCHANGED <<stage, file, summary, picked>>

\* Every variant is measured on the calibration queries; the winner becomes
\* part of the selection and the summary is written.
run_phase ==
    /\ pc = "phase" /\ todo # <<>> /\ Head(todo) # "joint"
    /\ UNCHANGED <<stage, file, picked, runs>>
    /\ LET phase == Head(todo)
           tried(v) == config_for_variant(sel.config, stage, phase, v)
           vs == variants_for_phase(stage, phase)
       IN \E r \in [vs -> UNION {evaluate_variant(tried(v)) : v \in vs}] :
             /\ \A v \in vs : r[v] \in evaluate_variant(tried(v))
             /\ IF Available(r) = {} THEN Raise /\ UNCHANGED <<sel, summary>>
                ELSE \E winner \in choose_winner(phase, r) :
                     LET config == apply_winner(sel.config, stage, phase, winner)
                     IN /\ sel' = [config |-> config, by |-> phase,
                                   real |-> config = tried(winner) /\ r[winner].real]
                        /\ summary' = [summary EXCEPT ![phase] = Ranked(phase, r)]
                        /\ pc' = "save" /\ UNCHANGED todo

(***************************************************************************)
(* The joint search                                                        *)
(***************************************************************************)

\* The defaults, the selection and a tuple of shortlisted variants.
build_joint_configs ==
    LET pool(i) == joint_shortlist(stage, Phases[i])
        with(c, i, v) == apply_winner(c, stage, Phases[i], v)
        start == DEFAULTS(stage)
    IN {{start, sel.config,
         with(with(with(with(with(with(start, 1, a), 2, b), 3, c), 4, d), 5, e), 6, f)} :
           a \in pool(1), b \in pool(2), c \in pool(3), d \in pool(4), e \in pool(5), f \in pool(6)}

Dominates(r, c, d) ==
    LET x == complexity_profile(c)
        y == complexity_profile(d)
    IN /\ r[c].u >= r[d].u
       /\ x.calls <= y.calls /\ x.bytes <= y.bytes /\ x.mixed <= y.mixed
       /\ r[c].u > r[d].u \/ x # y

joint_pareto(r) ==
    {c \in Available(r) : \A d \in Available(r) \ {c} : ~Dominates(r, d, c)}

Simpler(c, d) ==
    LET x == complexity_profile(c)
        y == complexity_profile(d)
    IN \/ x.calls < y.calls
       \/ x.calls = y.calls /\ x.bytes < y.bytes
       \/ x.calls = y.calls /\ x.bytes = y.bytes /\ x.mixed < y.mixed

\* The simplest of those nearly as good as the best, unless the defaults are.
choose_joint_winner(r) ==
    LET frontier == joint_pareto(r)
        near == {c \in frontier : Best(r, frontier) - r[c].u < Margin}
        best == {c \in near : ~\E d \in near : Simpler(d, c)}
        default == DEFAULTS(stage)
    IN {IF default \in Available(r) /\ r[c].u - r[default].u < Margin THEN default ELSE c :
          c \in best}

\* All are screened; the best and, if they could be screened, the defaults are
\* measured in full. The winner is the selection from now on.
run_joint ==
    /\ pc = "phase" /\ todo = <<"joint">>
    /\ UNCHANGED <<stage, file, summary, runs>>
    /\ IF \E p \in PhaseSet : summary[p] = {} THEN Raise /\ UNCHANGED <<sel, picked>>
       ELSE \E configs \in build_joint_configs :
            \E passed \in SUBSET configs, first \in SUBSET configs :
               /\ first \subseteq passed
               /\ Cardinality(first) = Min({Finalists, Cardinality(passed)})
               /\ LET full == first \cup ({DEFAULTS(stage)} \cap passed)
                  IN \E r \in [full -> UNION {evaluate_variant(c) : c \in full}] :
                     /\ \A c \in full : r[c] \in evaluate_variant(c)
                     /\ IF Available(r) = {} THEN Raise /\ UNCHANGED <<sel, picked>>
                        ELSE \E c \in choose_joint_winner(r) :
                             /\ sel' = [config |-> c, real |-> r[c].real, by |-> "joint"]
                             /\ LET own == DEFAULTS(stage)
                                    compared == own \in Available(r)
                                IN picked' = [own |-> c = own, compared |-> compared,
                                              gain |-> IF compared THEN r[c].u - r[own].u ELSE 0]
                             /\ pc' = "heldout" /\ UNCHANGED todo

\* Winner and defaults are measured on queries nothing was chosen by; if one
\* cannot be, the run ends before the selection is saved.
heldout ==
    /\ pc = "heldout"
    /\ \/ pc' = "save" /\ UNCHANGED todo
       \/ Raise
    /\ UNCHANGED <<stage, sel, file, summary, picked, runs>>

Save ==
    /\ pc = "save" /\ file' = sel /\ todo' = Tail(todo)
    /\ pc' = IF Tail(todo) = <<>> THEN "idle" ELSE "phase"
    /\ UNCHANGED <<stage, sel, summary, picked, runs>>

Die ==
    /\ pc # "idle" /\ Raise
    /\ UNCHANGED <<stage, sel, file, summary, picked, runs>>

Next == Start \/ run_phase \/ run_joint \/ heldout \/ Save \/ Die

Spec == Init /\ [][Next]_avars

(***************************************************************************)
(* Properties                                                              *)
(***************************************************************************)

Runnable(c) == c.mode \in Dense => c.embedding # "none"

\* Whatever phases ran, in which order and over which earlier files, the saved
\* configuration can be run; after the last phase or a joint search it was
\* measured as it stands, with every model it names answering. A joint search
\* leaves the defaults only for a configuration that was at least a margin
\* better, if the defaults could be measured.
SelectionIsHonest ==
    /\ Runnable(sel.config) /\ Runnable(file.config)
    /\ file.by \in {"rerank", "joint"} => file.real
    /\ sel.by = "joint" /\ picked.compared /\ pc \in {"heldout", "save"} =>
          picked.own \/ picked.gain >= Margin
=============================================================================
