------------------------------- MODULE Skills -------------------------------
(***************************************************************************)
(* Progressive disclosure of skills (runtime/skills.py, executor.py). The  *)
(* catalogue holds the headers that were on the disk when the process      *)
(* started; the instructions of a skill are read when an agent first asks  *)
(* for them, from a disk that may have changed since, and enter the        *)
(* prompts of its later turns.                                             *)
(***************************************************************************)
EXTENDS Integers, FiniteSets, Sequences, SequencesExt, Functions

CONSTANTS SkillAgents, \* of "TechAgent", "ProjectAgent", "RiskAgent"
          Packages,   \* directories in order: [id, version, status, resources];
                      \* versions are numbered as their strings compare
          Cases,      \* what decides the selection: [jd, urls, projects,
                      \* timeline, overrides], overrides a function of the agent
          Eager,      \* SKILL_EAGER_IDS
          MaxEdits    \* edits of a package

PRODUCTION_SKILLS ==
    {"assess-production-engineering", "assess-technical-evidence",
     "audit-claim-consistency", "audit-evidence-provenance",
     "calibrate-evidence-confidence", "ground-project-claims",
     "retrieve-public-candidate-evidence", "risk-pattern-detection"}
Dirs == DOMAIN Packages
Unreadable == 0
NoSkill == "none"

VARIABLES disk,      \* directory -> edition of its SKILL.md, or Unreadable
          catalogue, \* directories indexed at the last reload
          editions,  \* _loaded: [id, version] -> edition, of those loaded
          case,      \* of the run
          user       \* per agent [pc, selected, loaded, applied, skipped, read]

svars == <<disk, catalogue, editions, case, user>>

NoLoads == [i \in {} |-> 0]
FreshUser == [pc |-> "waits", selected |-> <<>>, loaded |-> NoLoads,
              applied |-> {}, skipped |-> {}, read |-> {}]
Users == [a \in SkillAgents |-> FreshUser]

\* A package whose header cannot be read has no skill of that name.
_load_skill_dir == {d \in Dirs : disk[d] # Unreadable}

Init ==
    /\ disk \in [Dirs -> {Unreadable, 1}]
    /\ catalogue = _load_skill_dir
    /\ editions = NoLoads /\ case \in Cases /\ user = Users

(***************************************************************************)
(* The catalogue                                                           *)
(***************************************************************************)

\* Unreviewed packages are deprecated, whatever their header says.
Active(d) == Packages[d].id \in PRODUCTION_SKILLS /\ Packages[d].status = "active"

\* The last version that is active, else the last; of equal versions the last
\* directory. 0 when there is none.
get(id) ==
    LET named == {d \in catalogue : Packages[d].id = id}
        usable == IF \E d \in named : Active(d) THEN {d \in named : Active(d)} ELSE named
        last == {d \in usable : \A e \in usable :
                    \/ Packages[d].version > Packages[e].version
                    \/ Packages[d].version = Packages[e].version /\ d >= e}
    IN IF last = {} THEN 0 ELSE CHOOSE d \in last : TRUE

\* A skill that is active joins the list, once.
add(ids, id) ==
    IF Contains(ids, id) \/ get(id) = 0 \/ ~Active(get(id)) THEN ids ELSE Append(ids, id)

\* By the agent and its input, the override of the policy last; two at most.
select_for(a) ==
    LET external == IF case.urls THEN add(<<>>, "retrieve-public-candidate-evidence") ELSE <<>>
        fitting ==
            CASE a = "TechAgent" /\ case.jd ->
                   add(add(<<>>, "assess-technical-evidence"), "assess-production-engineering")
              [] a = "ProjectAgent" ->
                   IF case.projects THEN add(external, "ground-project-claims") ELSE external
              [] a = "RiskAgent" /\ case.timeline ->
                   add(add(<<>>, "risk-pattern-detection"), "audit-claim-consistency")
              [] OTHER -> <<>>
        all == add(fitting, case.overrides[a])
    IN SubSeq(all, 1, IF Len(all) < 2 THEN Len(all) ELSE 2)

key(id) == <<id, Packages[get(id)].version>>

\* Mutant: the instructions are read anew.
load_Anew(id) == IF get(id) = 0 THEN Unreadable ELSE disk[get(id)]

\* The edition a load gives, read from the disk when it is the first one;
\* Unreadable when it raises.
load(id) ==
    IF get(id) = 0 THEN Unreadable
    ELSE IF key(id) \in DOMAIN editions THEN editions[key(id)]
    ELSE disk[get(id)]

Cached(ids) ==
    LET read == {id \in ids : load(id) # Unreadable}
        keys == {key(id) : id \in read}
    IN editions' = [k \in DOMAIN editions \union keys |->
                       IF k \in keys THEN load(k[1]) ELSE editions[k]]

\* A package is edited, installed or removed; the catalogue does not change.
Edit(d) ==
    /\ disk[d] < MaxEdits
    /\ disk' = [disk EXCEPT ![d] = @ + 1]
    /\ UNCHANGED <<catalogue, editions, case, user>>

Uninstall(d) ==
    /\ disk[d] # Unreadable
    /\ disk' = [disk EXCEPT ![d] = Unreadable]
    /\ UNCHANGED <<catalogue, editions, case, user>>

\* The process starts anew, or the operations page finds the catalogue empty;
\* agents of an earlier process are started again.
reload ==
    /\ catalogue' = _load_skill_dir /\ editions' = NoLoads
    /\ user' = Users
    /\ UNCHANGED <<disk, case>>

(***************************************************************************)
(* An agent                                                                *)
(***************************************************************************)

Uses(a, state) == user' = [user EXCEPT ![a] = state]
Holds(a, ids) ==
    [id \in DOMAIN user[a].loaded \union ids |->
        IF id \in DOMAIN user[a].loaded THEN user[a].loaded[id]
        ELSE [of |-> key(id), edition |-> load(id)]]

\* Skills of the experiment are loaded at once; one that cannot be read stays
\* to be asked for.
Select(a) ==
    /\ user[a].pc = "waits"
    /\ LET selected == select_for(a)
           eager == {id \in ToSet(selected) \intersect Eager : load(id) # Unreadable}
       IN /\ Cached(eager)
          /\ Uses(a, [pc |-> "turns", selected |-> selected, loaded |-> Holds(a, eager),
                       applied |-> {}, skipped |-> {}, read |-> {}])
    /\ UNCHANGED <<disk, catalogue, case>>

\* The instructions that are loaded when a turn begins are in its prompt.
Turn(a) ==
    /\ user[a].pc \in {"turns", "calls"}
    /\ Uses(a, [user[a] EXCEPT !.pc = "calls", !.applied = DOMAIN user[a].loaded])
    /\ UNCHANGED <<disk, catalogue, editions, case>>

\* load_skill, of any name: only a selected skill that can be read is loaded.
_execute_skill_proposal(a, id) ==
    /\ user[a].pc = "calls"
    /\ LET refused == \/ ~Contains(user[a].selected, id)
                      \/ id \notin DOMAIN user[a].loaded /\ load(id) = Unreadable
           ids == IF refused THEN {} ELSE {id}
       IN /\ Cached(ids \ DOMAIN user[a].loaded)
          /\ Uses(a, [user[a] EXCEPT !.loaded = Holds(a, ids)])
    /\ UNCHANGED <<disk, catalogue, case>>

\* read_skill_resource: a file that the load advertised.
read_resource(a, id, path) ==
    /\ user[a].pc = "calls"
    /\ LET refused == id \notin DOMAIN user[a].loaded \/ load(id) = Unreadable
                      \/ path \notin Packages[get(id)].resources
       IN Uses(a, [user[a] EXCEPT !.read = IF refused THEN @ ELSE @ \union {<<id, path>>}])
    /\ UNCHANGED <<disk, catalogue, editions, case>>

\* The agent has its output, also when no turn was left.
_emit_unapplied_skills(a) ==
    /\ user[a].pc \in {"turns", "calls"}
    /\ Uses(a, [user[a] EXCEPT !.pc = "ended",
                               !.skipped = ToSet(user[a].selected) \ user[a].applied])
    /\ UNCHANGED <<disk, catalogue, editions, case>>

Ids == {Packages[d].id : d \in Dirs} \union {NoSkill}
Paths == UNION {Packages[d].resources : d \in Dirs}

Next ==
    \/ \E d \in Dirs : Edit(d) \/ Uninstall(d)
    \/ reload
    \/ \E a \in SkillAgents :
          \/ Select(a) \/ Turn(a) \/ _emit_unapplied_skills(a)
          \/ \E id \in Ids : \/ _execute_skill_proposal(a, id)
                             \/ \E path \in Paths : read_resource(a, id, path)

Spec == Init /\ [][Next]_svars

(***************************************************************************)
(* Properties                                                              *)
(***************************************************************************)

\* However the packages change on the disk, the agents of a process that load
\* a skill read the same instructions under its id and version; what an agent
\* applies was selected for it and loaded; and an agent that ends has applied
\* or skipped each skill it was offered, not both.
SkillsAgree ==
    /\ \A a, b \in SkillAgents : \A i \in DOMAIN user[a].loaded : \A j \in DOMAIN user[b].loaded :
          user[a].loaded[i].of = user[b].loaded[j].of =>
              user[a].loaded[i].edition = user[b].loaded[j].edition
    /\ \A a \in SkillAgents :
          LET u == user[a] IN
          /\ Len(u.selected) <= 2 /\ ToSet(u.selected) \subseteq PRODUCTION_SKILLS
          /\ u.applied \subseteq DOMAIN u.loaded
          /\ DOMAIN u.loaded \subseteq ToSet(u.selected)
          /\ u.pc = "ended" => /\ u.applied \union u.skipped = ToSet(u.selected)
                               /\ u.applied \intersect u.skipped = {}
=============================================================================
