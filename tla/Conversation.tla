---------------------------- MODULE Conversation ----------------------------
(***************************************************************************)
(* A turn sent while an evaluation runs: what it means for the run         *)
(* (conversation/routing.py) and the short answer to it                    *)
(* (conversation/responder.py), for which the model may call tools. A      *)
(* message is the set of the cues the patterns and word lists find in it.  *)
(***************************************************************************)
EXTENDS Integers, Sequences

CONSTANTS Cues   \* cues of the instance, of those resolve_turn looks for

\* The text of a negated cancel matches the cancel patterns too.
Messages == {m \in SUBSET (Cues \ {"empty"}) : "negatedCancel" \in m => "cancel" \in m}
            \union {{"empty"}}

Intents == {"SIDE_QUESTION", "CONTEXT_ADD", "GOAL_CHANGE", "EVALUATION_FOCUS", "CLARIFY"}
Controls == {"PAUSE", "RESUME", "CANCEL"}

ALL_EVALUATION_NODES == {"intent", "resume_parse", "jd_match", "knowledge_context",
    "tech_eval", "project_eval", "risk_eval", "evidence_fusion", "report"}
GOAL_CHANGE_NODES == ALL_EVALUATION_NODES \ {"resume_parse"}
FOCUS_CHANGE_NODES == GOAL_CHANGE_NODES \ {"intent", "jd_match"}

VARIABLES said,     \* the message
          decision, \* [intent, nodes, confirm, sure, by]
          reply,    \* [pc, allowed, live, compacting, requests, rounds]
          unanswered, \* tool calls of the dialogue without a tool message
          evidence, \* did the calls of this turn succeed, in order
          answer    \* [by, cites, summary]

cvars == <<said, decision, reply, unanswered, evidence, answer>>

(***************************************************************************)
(* Routing                                                                 *)
(***************************************************************************)

Decide(intent, nodes, confirm, sure) ==
    [intent |-> intent, nodes |-> nodes, confirm |-> confirm, sure |-> sure, by |-> "rules"]

control_action(d) == d.intent \in Controls

\* A resume word overrides a negated pause, a question is no resume command.
Resumes(m) == /\ "resume" \in m /\ "question" \notin m
              /\ "negatedPause" \in m => "resumeWord" \in m

\* The rules, in the order they are tried.
Rules(m) ==
    LET Rule(applies, intent, nodes, confirm, sure) ==
            [applies |-> applies, decides |-> Decide(intent, nodes, confirm, sure)]
    IN <<Rule("empty" \in m, "CLARIFY", {}, TRUE, TRUE),
         Rule(Resumes(m), "RESUME", {}, FALSE, TRUE),
         Rule("cancel" \in m /\ "negatedCancel" \notin m, "CANCEL", {}, FALSE, TRUE),
         Rule("pause" \in m /\ "negatedPause" \notin m, "PAUSE", {}, FALSE, TRUE),
         Rule("output" \in m, "SIDE_QUESTION", {}, FALSE, TRUE),
         Rule("goal" \in m, "GOAL_CHANGE", GOAL_CHANGE_NODES, FALSE, TRUE),
         Rule("focus" \in m, "EVALUATION_FOCUS", FOCUS_CHANGE_NODES, FALSE, TRUE),
         Rule({"prefix", "fact"} \subseteq m, "CONTEXT_ADD", ALL_EVALUATION_NODES, FALSE, TRUE),
         Rule({"prefix", "admin"} \subseteq m, "CONTEXT_ADD", {}, FALSE, TRUE),
         Rule("prefix" \in m, "CLARIFY", {}, TRUE, FALSE),
         Rule("vagueGoal" \in m, "CLARIFY", {}, TRUE, FALSE),
         Rule("question" \in m, "SIDE_QUESTION", {}, FALSE, TRUE),
         Rule(TRUE, "SIDE_QUESTION", {}, FALSE, FALSE)>>

\* The first that applies decides.
resolve_turn(m) ==
    LET first == CHOOSE i \in DOMAIN Rules(m) :
                    Rules(m)[i].applies /\ \A j \in 1..(i - 1) : ~Rules(m)[j].applies
    IN Rules(m)[first].decides

\* What becomes of an unsure decision when the model gives an answer.
Routed_Control(baseline, intent, affects, confirm) ==
    [intent |-> intent, confirm |-> confirm, sure |-> TRUE, by |-> "model",
     nodes |-> CASE intent = "GOAL_CHANGE" -> GOAL_CHANGE_NODES
                 [] intent = "EVALUATION_FOCUS" -> FOCUS_CHANGE_NODES
                 [] intent = "CONTEXT_ADD" /\ affects -> ALL_EVALUATION_NODES
                 [] OTHER -> {}]
Routed(baseline, intent, affects, confirm) ==
    IF intent \in Controls THEN baseline
    ELSE Routed_Control(baseline, intent, affects, confirm)

\* No key, an outage and an answer that is no JSON leave the decision as it is.
resolve_turn_with_model(m) ==
    LET baseline == resolve_turn(m)
    IN IF control_action(baseline) \/ baseline.sure THEN {baseline}
       ELSE {baseline} \union
            {Routed(baseline, intent, affects, confirm) :
                intent \in Intents \union Controls, affects \in BOOLEAN, confirm \in BOOLEAN}

(***************************************************************************)
(* The reply                                                               *)
(***************************************************************************)

NoAnswer == [by |-> "none", cites |-> "none", summary |-> FALSE]

Init ==
    /\ said \in Messages
    /\ decision \in resolve_turn_with_model(said)
    /\ \E background, allowTools, live, compacting \in BOOLEAN :
          reply = [pc |-> "local", allowed |-> background \/ allowTools,
                   live |-> live /\ (background \/ allowTools),
                   compacting |-> compacting, requests |-> 0, rounds |-> 0]
    /\ unanswered = 0 /\ evidence = <<>>
    /\ answer = NoAnswer

Goes(place) == reply' = [reply EXCEPT !.pc = place]
Answers(by, cites, summary) ==
    /\ answer' = [by |-> by, cites |-> cites, summary |-> summary]
    /\ Goes("replied")
    /\ UNCHANGED <<said, decision, unanswered, evidence>>

\* Arithmetic always; a verdict on the report, its summary or a greeting when
\* the turn asks for no evidence.
_local_answer ==
    /\ reply.pc = "local"
    /\ \/ Answers("local", "none", FALSE)
       \/ ~reply.allowed /\ Answers("local", "session", FALSE)
       \/ /\ Goes("request")
          /\ UNCHANGED <<said, decision, unanswered, evidence, answer>>

\* A request is answered with a tool call, of which one is kept. The last one,
\* after two rounds, offers no tools.
CallTool ==
    /\ reply.pc = "request" /\ reply.live /\ reply.rounds < 2
    /\ reply' = [reply EXCEPT !.pc = "tool", !.requests = @ + 1]
    /\ unanswered' = unanswered + 1
    /\ UNCHANGED <<said, decision, evidence, answer>>

\* It succeeds with a text, or fails: an unknown alias, an unavailable server.
ToolAnswers(ok) ==
    /\ reply.pc = "tool"
    /\ evidence' = Append(evidence, ok)
    /\ unanswered' = unanswered - 1
    /\ reply' = [reply EXCEPT !.pc = "request", !.rounds = @ + 1]
    /\ UNCHANGED <<said, decision, answer>>

\* Whose text the answer cites when the model cites nothing.
_tool_evidence_citations_Any == IF evidence = <<>> THEN "none" ELSE "external"
_tool_evidence_citations ==
    IF \E i \in DOMAIN evidence : evidence[i] THEN "external" ELSE "none"

\* The model writes its answer: as JSON with or without citations, or as text.
\* A summary counts when older messages were to be compacted.
Compacted(written) == written /\ reply.compacting
Write(json, cited, written) ==
    /\ reply.pc = "request"
    /\ json \/ ~(cited \/ written)
    /\ answer' = [by |-> "model", summary |-> Compacted(written),
                  cites |-> IF cited THEN "model" ELSE _tool_evidence_citations]
    /\ reply' = [reply EXCEPT !.pc = "replied", !.requests = @ + 1]
    /\ UNCHANGED <<said, decision, unanswered, evidence>>

\* No key, a provider error, an exception or an empty answer: hints on the
\* evidence of the session, or the bounded fallback.
Fallback ==
    /\ reply.pc \in {"request", "tool"}
    /\ Answers("fallback", IF reply.allowed THEN "session" ELSE "none", FALSE)

Next ==
    \/ _local_answer \/ CallTool \/ Fallback
    \/ \E ok \in BOOLEAN : ToolAnswers(ok)
    \/ \E json, cited, written \in BOOLEAN : Write(json, cited, written)

Spec == Init /\ [][Next]_cvars

(***************************************************************************)
(* Properties                                                              *)
(***************************************************************************)

\* The model neither controls the run nor decides again what the rules are
\* sure of. Every request of the reply has the answer of every tool call
\* before it, and there are at most three. What the reply cites as external
\* was found by a call of this turn that succeeded, and a summary replaces the
\* stored one when the older messages were given to it.
DialogueIsSafe ==
    /\ decision.by = "model" => ~resolve_turn(said).sure /\ ~control_action(decision)
    /\ reply.pc = "request" => unanswered = 0
    /\ reply.requests <= 3
    /\ answer.cites = "external" => \E i \in DOMAIN evidence : evidence[i]
    /\ answer.summary => reply.compacting
=============================================================================
