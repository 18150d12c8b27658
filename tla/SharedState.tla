----------------------------- MODULE SharedState -----------------------------
(***************************************************************************)
(* The canonical artifact store of a run (runtime/state.py). Preflight     *)
(* seeds it, the agents' outputs are merged into it one after the other,   *)
(* and it is saved with every checkpoint and restored from one, which may  *)
(* come from before the store existed.                                     *)
(***************************************************************************)
EXTENDS Integers, Sequences, SequencesExt, Functions

CONSTANTS DictKey,   \* a key of _DICT_SHAPED_KEYS (resumeFacts)
          ListKey,   \* a key of _LIST_SHAPED_KEYS (risks)
          TextKey,   \* any other key (effectiveJd)
          Fields, Words,
          Writers,   \* the agents
          MaxOutputs \* outputs of the instance

None == "none"
Keys == {DictKey, ListKey, TextKey}

\* A JSON value: a dict, a list of entries [dict, text, by], a scalar; or
\* absent.
Value(kind, dict, list, scalar) ==
    [kind |-> kind, dict |-> dict, list |-> list, scalar |-> scalar]
NoFields == [f \in Fields |-> None]
Dict(d) == Value("dict", d, <<>>, None)
List(l) == Value("list", NoFields, l, None)
Scalar(w) == Value("scalar", NoFields, <<>>, w)
Absent == Value("absent", NoFields, <<>>, None)

Entry(dict, text, by) == [dict |-> dict, text |-> text, by |-> by]

Falsy(v) == v \in {Absent, Dict(NoFields), List(<<>>)}

\* What a model writes under a key: facts, a list, a list inside a
\* presentation container, or text. Its entries carry no byAgent.
Written == {Dict([NoFields EXCEPT ![f] = w]) : f \in Fields, w \in Words}
           \union {List(<<Entry(NoFields, w, None)>>) : w \in Words}
           \union {Scalar(w) : w \in Words}

VARIABLES store,     \* key -> value
          conflicts, \* the conflicts section: [section, existing, incoming, by]
          outputs,   \* agentOutputs, as a count
          checkpoint,\* the last snapshot of all the above
          told       \* history: [key, value, by] of every output merged

vars == <<store, conflicts, outputs, checkpoint, told>>

\* The sections that also stand at the top level, always equal to the store's.
_sync_legacy_mirrors == {DictKey, ListKey}

Fresh == [k \in Keys |-> CASE k = DictKey -> Dict(NoFields)
                           [] k = ListKey -> List(<<>>) [] k = TextKey -> Absent]

snapshot == [store |-> store, conflicts |-> conflicts, outputs |-> outputs,
             told |-> told]

Init ==
    /\ store = Fresh /\ conflicts = {} /\ outputs = 0 /\ told = {}
    /\ checkpoint = snapshot

(***************************************************************************)
(* Merging an output                                                       *)
(***************************************************************************)

Signed(entries, a) ==
    [i \in DOMAIN entries |-> IF entries[i].by = None THEN [entries[i] EXCEPT !.by = a]
                              ELSE entries[i]]

\* A container is unwrapped, a dict that is none and a scalar become one entry.
_coerce_list_shaped_value(v, a) ==
    CASE v.kind = "absent" -> <<>>
      [] v.kind = "list" -> Signed(v.list, a)
      [] v.kind = "scalar" -> <<Entry(NoFields, v.scalar, a)>>
      [] v.kind = "dict" -> <<Entry(v.dict, None, a)>>

\* A fact list under a dict-shaped key is folded into {"items": [...]}: a dict
\* whose fields are none of the facts.
_coerce_dict_shaped_list(v, a) == [Dict(NoFields) EXCEPT !.list = Signed(v.list, a)]

Clash(key, old, v, a) == [section |-> key, existing |-> old, incoming |-> v, by |-> a]
Field(v, f) == Dict([NoFields EXCEPT ![f] = v.dict[f]])

\* Facts are added; one that differs from what is known is not.
Merged(old, v) ==
    [f \in Fields |-> IF old.dict[f] = None THEN v.dict[f] ELSE old.dict[f]]

Differing(old, v) == {f \in Fields : /\ old.dict[f] # None /\ v.dict[f] # None
                                     /\ old.dict[f] # v.dict[f]}

\* The new value of a key and the conflicts the merge leaves: text is
\* overwritten, with a conflict.
_merge_into(key, v, a) ==
    LET old == store[key]
        whole == {Clash(key, old, v, a)}
    IN CASE key = ListKey ->
              [value |-> List(_coerce_list_shaped_value(old, a)
                              \o _coerce_list_shaped_value(v, a)), conflicts |-> {}]
         [] key # ListKey /\ Falsy(old) ->
              [value |-> IF v.kind # "list" THEN v
                         ELSE IF key = DictKey THEN _coerce_dict_shaped_list(v, a)
                         ELSE List(Signed(v.list, a)), conflicts |-> {}]
         [] key # ListKey /\ ~Falsy(old) /\ old.kind = "dict" ->
              IF v.kind = "dict"
              THEN [value |-> [old EXCEPT !.dict = Merged(old, v)],
                    conflicts |-> {Clash(key, Field(old, f), Field(v, f), a) :
                                     f \in Differing(old, v)}]
              ELSE [value |-> old, conflicts |-> whole]
         [] key # ListKey /\ ~Falsy(old) /\ old.kind = "list" ->
              [value |-> List(old.list \o _coerce_list_shaped_value(v, a)), conflicts |-> {}]
         [] key # ListKey /\ old.kind = "scalar" ->
              [value |-> IF key = DictKey /\ v.kind = "list" THEN old ELSE v,
               conflicts |-> IF v = old THEN {} ELSE whole]

apply_output(a, key, v) ==
    /\ outputs < MaxOutputs /\ outputs' = outputs + 1
    /\ LET merge == _merge_into(key, v, a)
       IN /\ store' = [store EXCEPT ![key] = merge.value]
          /\ conflicts' = conflicts \union merge.conflicts
    /\ told' = told \union {[key |-> key, value |-> v, by |-> a]}
    /\ UNCHANGED checkpoint

(***************************************************************************)
(* Preflight, checkpoint and restore                                       *)
(***************************************************************************)

\* Preflight writes resume facts and the JD only where none are: a second
\* preflight, of a resumed run, adds nothing (_prepare_context).
apply_artifacts(key, v) ==
    /\ key \in {DictKey, TextKey} /\ Falsy(store[key])
    /\ v.kind = (IF key = DictKey THEN "dict" ELSE "scalar")
    /\ store' = [store EXCEPT ![key] = v]
    /\ UNCHANGED <<conflicts, outputs, checkpoint, told>>

Checkpoint ==
    /\ checkpoint # snapshot /\ checkpoint' = snapshot
    /\ UNCHANGED <<store, conflicts, outputs, told>>

Back(artifacts, known) ==
    /\ store' = [artifacts EXCEPT ![ListKey] =
                    IF @ = Absent THEN @ ELSE List(_coerce_list_shaped_value(@, "checkpoint"))]
    /\ conflicts' = known /\ outputs' = checkpoint.outputs
    /\ told' = {t \in checkpoint.told : artifacts[t.key] # Absent}
    /\ UNCHANGED checkpoint

\* Mutant: the conflicts are not part of what a checkpoint keeps.
Restored_NoConflicts(artifacts) == Back(artifacts, {})

\* List sections that a model once wrote as a container are healed.
Restored(artifacts) == Back(artifacts, checkpoint.conflicts)

\* From the store of the snapshot, or, when the snapshot is from before the
\* store existed, from its top-level sections.
restore ==
    \/ Restored(checkpoint.store)
    \/ Restored([k \in Keys |-> IF k \in _sync_legacy_mirrors THEN checkpoint.store[k]
                               ELSE Absent])

Next ==
    \/ \E a \in Writers, key \in Keys, v \in Written : apply_output(a, key, v)
    \/ \E key \in Keys, v \in Written : apply_artifacts(key, v)
    \/ Checkpoint \/ restore

Spec == Init /\ [][Next]_vars

(***************************************************************************)
(* Properties                                                              *)
(***************************************************************************)

Stands(t) ==
    LET v == store[t.key]
        said == _coerce_list_shaped_value(t.value, t.by)
    IN \/ v = t.value
       \/ ToSet(said) \subseteq ToSet(v.list)
       \/ v.kind = "dict" /\ t.value.kind = "dict"
          /\ \A f \in Fields : t.value.dict[f] # None => v.dict[f] = t.value.dict[f]

\* In whatever order the outputs of parallel agents are merged, whatever shape
\* they give a section, and after any restore: what an agent wrote stands in
\* the store, or is one side of a conflict ("never overwrites").
NothingSaidIsLost == \A t \in told :
    \/ Stands(t)
    \/ \E c \in conflicts : /\ c.section = t.key
                            /\ \/ c.incoming = t.value /\ c.by = t.by
                               \/ c.existing = t.value
=============================================================================
