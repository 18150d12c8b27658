---------------------------- MODULE PromptContext ----------------------------
(***************************************************************************)
(* The prompt of each turn of an agent (runtime/context.py, the turn loop  *)
(* of runtime/executor.py): fixed sections, the recent messages that fit   *)
(* their budget, the tool observations as text, then the native history    *)
(* of calls and results; compacted when it nears the model's window.       *)
(* Sizes are in units of an average message.                               *)
(***************************************************************************)
EXTENDS Integers, Sequences, FiniteSetsExt

CONSTANTS Recents,       \* the recent messages of a request: sequences of sizes
          Fixed,         \* size of the sections that are never shortened
          RecentBudget,  \* recentMessageBudget
          ToolBudget,    \* toolResultBudget, in pairs of a call and its result
          Threshold,     \* window times compactAtRatio
          MaxPairs, MaxCalls

Shown == 8       \* kept[-8:]
Compacted == 4   \* lines kept of the recent messages
PairsKept == 6   \* pairs kept of the tool observations

VARIABLES recent,  \* request.recentMessages
          native,  \* does the model call tools natively
          pairs,   \* calls made so far, each with its result
          prompt   \* the last request

pvars == <<recent, native, pairs, prompt>>

Nothing == [messages |-> {}, summarised |-> {}, calls |-> {}, results |-> {},
            made |-> 0]

Init ==
    /\ recent \in Recents /\ native \in BOOLEAN
    /\ pairs = 0 /\ prompt = Nothing

Size(ids) == MapThenSumSet(LAMBDA i : recent[i], ids)

\* Newest first, each message that still fits; the newest always.
prepare_messages ==
    LET kept[i \in 1..(Len(recent) + 1)] ==
            IF i = Len(recent) + 1 THEN {}
            ELSE LET newer == kept[i + 1]
                 IN IF newer = {} \/ Size(newer) + recent[i] <= RecentBudget
                    THEN newer \union {i} ELSE newer
    IN kept[1]

Last(ids, n) == {i \in ids : Cardinality({j \in ids : j > i}) < n}

\* A call and its result are a unit: both are kept or both dropped.
_summarize_tools_Lines(ids) ==
    [calls |-> Last(ids, PairsKept), results |-> Last(ids, PairsKept - 1)]
_summarize_tools(ids) ==
    [calls |-> Last(ids, PairsKept), results |-> Last(ids, PairsKept)]

_cap_tools(ids) ==
    IF Cardinality(ids) <= ToolBudget THEN [calls |-> ids, results |-> ids]
    ELSE _summarize_tools(ids)

\* The tool text of a native conversation stays the initial one; its calls and
\* results are messages of their own.
assemble ==
    LET kept == prepare_messages
        text == _cap_tools(1..(IF native THEN 0 ELSE pairs))
    IN [messages |-> Last(kept, Shown), summarised |-> (1..Len(recent)) \ kept,
        calls |-> text.calls \union (IF native THEN 1..pairs ELSE {}),
        results |-> text.results \union (IF native THEN 1..pairs ELSE {}),
        made |-> pairs]

needs_compaction(p) ==
    Fixed + Size(p.messages) + Cardinality(p.calls) + Cardinality(p.results) >= Threshold

\* The messages of a native conversation stay, without the ids that pair a call
\* with its result: each is rebuilt from its role and its content.
compact(p) ==
    LET text == _summarize_tools(p.calls)
    IN [p EXCEPT !.messages = Last(@, Compacted),
                 !.calls = IF native THEN @ ELSE text.calls,
                 !.results = IF native THEN @ ELSE text.results]

\* A turn: the prompt is built and sent, and the model makes calls.
Turn(calls) ==
    /\ pairs + calls <= MaxPairs
    /\ LET p == assemble IN prompt' = IF needs_compaction(p) THEN compact(p) ELSE p
    /\ pairs' = pairs + calls
    /\ UNCHANGED <<recent, native>>

Next == \E calls \in 0..MaxCalls : Turn(calls)

Spec == Init /\ [][Next]_pvars

(***************************************************************************)
(* Properties                                                              *)
(***************************************************************************)

\* However the budgets cut, a call is in the prompt if and only if its result
\* is, the latest pair is in it, and so is the newest message of the user.
ContextSurvives ==
    prompt # Nothing =>
       /\ prompt.calls = prompt.results
       /\ recent # <<>> => Len(recent) \in prompt.messages
       /\ prompt.made > 0 => prompt.made \in prompt.calls
=============================================================================
