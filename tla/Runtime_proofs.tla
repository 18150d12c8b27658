--------------------------- MODULE Runtime_proofs ---------------------------
(***************************************************************************)
(* What the executors of a run and the turns of an agent promise, for any  *)
(* groupings of a plan, edited plans, limits, faults and numbers of        *)
(* dispatches, any kinds of agents and replies of the model.               *)
(*                                                                         *)
(* What the executors promise follows from what they know of every         *)
(* snapshot, wherever it is kept: in the process, in the row, in the       *)
(* thread or on its way. The report has no group beside it or after it,    *)
(* the executed agents succeeded unless a mark says otherwise, and the     *)
(* snapshots agree on who was executed where one may replace another.      *)
(***************************************************************************)
EXTENDS Runtime, FiniteSetTheorems, WellFoundedInduction, TLAPS

-----------------------------------------------------------------------------
(***************************************************************************)
(* Snapshots.                                                              *)
(***************************************************************************)

\* Nothing comes with or after the report.
ReportAtEnd(m) ==
  \A i, j \in DOMAIN m.groups :
    i <= j /\ Terminal \in m.groups[i] => m.groups[j] = {Terminal}

\* An answer is the report's, and agents without an output left their mark.
Honest(m, successes) ==
  /\ m.answer => Terminal \in successes
  /\ "agent_failed" \notin m.degraded => m.executed \subseteq successes

\* What the loop executor knows of a snapshot, wherever it is kept.
LoopKnows(m) == m \in Snapshots /\ ReportAtEnd(m) /\ Honest(m, l_won)

-----------------------------------------------------------------------------
(***************************************************************************)
(* The loop executor.                                                      *)
(***************************************************************************)
LoopRow ==
  /\ l_row \in [status : Loop!Ended \union {"QUEUED", "RUNNING", "PAUSED"},
                snapshot : Snapshots \union {None}]
  /\ l_row.snapshot # None => LoopKnows(l_row.snapshot)
  /\ l_row.status = "PAUSED" => l_row.snapshot # None
  /\ \A m \in l_late : LoopKnows(m)

LoopMem ==
  /\ l_pc \in {"off", "plan", "boundary", "group", "save"}
  /\ l_pc \notin {"off", "plan"} => LoopKnows(l_mem)

\* The agents of the next group, and only they, run or have ended.
LoopGroup ==
  IF l_pc = "group"
  THEN /\ Left(l_mem)
       /\ l_running \subseteq Group(l_mem)
       /\ Group(l_mem) \subseteq l_running \union DOMAIN l_outcome
  ELSE l_running = {}

LoopSaved ==
  /\ l_row.snapshot = None => l_saved = {} /\ l_late = {}
  /\ l_row.snapshot # None => l_row.snapshot.executed \subseteq l_saved
  /\ l_pc = "plan" => l_row.snapshot = None
  /\ ~l_overtaken =>
       /\ l_row.snapshot # None => l_saved \subseteq l_row.snapshot.executed
       /\ l_pc \notin {"off", "plan"} => l_saved \subseteq l_mem.executed

LoopSuccess ==
  l_row.status = "SUCCEEDED" =>
    l_pc = "off" /\ Terminal \in l_won /\ l_mem.goals \subseteq l_won

LoopInv == LoopRow /\ LoopMem /\ LoopGroup /\ LoopSaved /\ LoopSuccess

-----------------------------------------------------------------------------
(***************************************************************************)
(* The LangGraph executor.                                                 *)
(***************************************************************************)
GraphKnows(m) ==
  /\ m \in Snapshots
  /\ ~g_asWritten => ReportAtEnd(m)
  /\ Honest(m, g_won)

Nodes == {"none", "observe_plan", "approval_gate", "pause_gate", "dispatch", "agent",
          "merge", "finalize", "end"}
GraphKept(s) == s \in Graph!Snaps /\ GraphKnows(s.m)

GraphRow ==
  /\ g_row \in [status : Graph!Ended \union {"QUEUED", "RUNNING", "PAUSED"},
                snapshot : Graph!Snaps \union {None}]
  /\ g_row.snapshot # None => GraphKept(g_row.snapshot)
  /\ g_row.status = "PAUSED" => g_row.snapshot # None

IsThread(t) ==
  t \in [node : Nodes, snap : Graph!Snaps \union {None}, group : SUBSET Agents,
         results : {t.results}, failures : {t.failures}, interrupted : BOOLEAN,
         result : {"SUCCEEDED", "PARTIAL_SUCCESS", None}]

GraphThread ==
  /\ IsThread(g_thread)
  /\ g_thread.snap # None => GraphKept(g_thread.snap) /\ g_thread.snap.plan = None
  /\ g_thread.snap = None <=> g_thread.node \in {"none", "observe_plan"}
  /\ g_thread.interrupted => g_thread.node \in {"approval_gate", "pause_gate"}
  /\ g_thread.result # None <=> g_thread.node = "end"

IsProcess(p) ==
  p \in [on : BOOLEAN, request : Graph!Snaps \union {None}, hydrated : BOOLEAN,
         mem : {p.mem}, ledger : SUBSET Agents, running : {p.running}]

GraphProc ==
  /\ IsProcess(g_proc)
  /\ ~g_proc.on => ~g_proc.hydrated
  /\ g_thread.node \in {"none", "observe_plan"} => ~g_proc.hydrated
  /\ g_proc.on => g_thread.node # "none" /\ g_row.status = "RUNNING"
  /\ g_proc.on /\ g_proc.request # None => g_proc.request = g_row.snapshot
  /\ g_proc.on /\ g_thread.node = "observe_plan" => g_proc.request = g_row.snapshot
  /\ g_proc.hydrated /\ g_thread.node # "end" =>
       IF g_thread.node = "finalize"
       THEN GraphKnows(g_proc.mem)
       ELSE g_proc.mem = g_thread.snap.m

\* The group that was sent has not been executed; its merge is written to the
\* thread after it was written to the row.
GraphGroup ==
  /\ g_thread.node \in {"agent", "merge"} =>
       /\ g_thread.snap.m.next \in DOMAIN g_thread.snap.m.groups
       /\ g_thread.group =
            g_thread.snap.m.groups[g_thread.snap.m.next] \ g_thread.snap.m.executed
       /\ g_thread.group # {}
  /\ g_thread.node = "merge" => DOMAIN g_thread.results = g_thread.group
  /\ \A a \in DOMAIN g_thread.results : g_thread.results[a].ledger \subseteq Agents
  /\ g_thread.node = "none" => g_row = [status |-> "QUEUED", snapshot |-> None]
  /\ g_thread.node \notin {"none", "observe_plan", "end"} /\ g_row.snapshot # None =>
       g_row.snapshot.m.executed \subseteq
         g_thread.snap.m.executed
           \union (IF g_thread.node = "merge" THEN g_thread.group ELSE {})

GraphSuccess ==
  g_thread.result = "SUCCEEDED" =>
    g_thread.snap.m.goals \union {Terminal} \subseteq g_won

GraphInv == GraphRow /\ GraphThread /\ GraphProc /\ GraphGroup /\ GraphSuccess

ExecutorsInv == LoopInv /\ GraphInv

-----------------------------------------------------------------------------
(***************************************************************************)
(* What the operators on snapshots preserve.                               *)
(***************************************************************************)

\* Of q everything but the progress through the groups is m's.
Carries(m, q) ==
  /\ q \in Snapshots
  /\ q.executed = m.executed /\ (q.answer <=> m.answer) /\ q.goals = m.goals
  /\ "agent_failed" \notin q.degraded => "agent_failed" \notin m.degraded
  /\ ReportAtEnd(m) => ReportAtEnd(q)

LEMMA CarriesHonesty ==
  ASSUME NEW m, NEW q, Carries(m, q), NEW S, Honest(m, S)
  PROVE  Honest(q, S)
BY DEF Carries, Honest

LEMMA CarriesOn ==
  ASSUME NEW m, NEW q, NEW r, Carries(m, q), Carries(q, r)
  PROVE  Carries(m, r)
BY DEF Carries

LEMMA CarriesItself ==
  ASSUME NEW m \in Snapshots
  PROVE  Carries(m, m)
BY DEF Carries

LEMMA MarkedCarries ==
  ASSUME NEW m \in Snapshots, NEW mark \in Marks
  PROVE  Carries(m, Marked(m, mark)) /\ Marked(m, mark).groups = m.groups
         /\ mark \in Marked(m, mark).degraded
<1>1. Marked(m, mark) \in Snapshots
  BY DEF Marked, Snapshots
<1>2. /\ Marked(m, mark).groups = m.groups /\ Marked(m, mark).executed = m.executed
      /\ (Marked(m, mark).answer <=> m.answer) /\ Marked(m, mark).goals = m.goals
      /\ Marked(m, mark).degraded = m.degraded \union {mark}
      /\ Marked(m, mark).next = m.next
  BY DEF Marked, Snapshots
<1> QED
  BY <1>1, <1>2 DEF Carries, ReportAtEnd

LEMMA MovedCarries ==
  ASSUME NEW m \in Snapshots, NEW k \in Nat
  PROVE  Carries(m, [m EXCEPT !.next = k])
<1> DEFINE q == [m EXCEPT !.next = k]
<1>1. q \in Snapshots
  BY DEF Snapshots
<1>2. q.groups = m.groups /\ q.executed = m.executed /\ (q.answer <=> m.answer)
      /\ q.goals = m.goals /\ q.degraded = m.degraded
  BY DEF Snapshots
<1>3. ReportAtEnd(m) => ReportAtEnd(q)
  BY <1>2 DEF ReportAtEnd
<1> HIDE DEF q
<1>4. Carries(m, q)
  BY <1>1, <1>2, <1>3 DEF Carries
<1> QED
  BY <1>4 DEF q

LEMMA SkipCarries ==
  ASSUME NEW m \in Snapshots
  PROVE  Carries(m, Skip(m))
<1> DEFINE q == [m EXCEPT !.next = @ + 1]
<1>1. m.next + 1 \in Nat
  BY DEF Snapshots
<1>2. Carries(m, q)
  BY <1>1, MovedCarries
<1>3. "max_agent_count" \in Marks
  BY DEF Marks
<1>4. Carries(q, Marked(q, "max_agent_count"))
  BY <1>2, <1>3, MarkedCarries DEF Carries
<1>5. Skip(m) = IF Group(m) # {} THEN Marked(q, "max_agent_count") ELSE q
  BY DEF Skip
<1> HIDE DEF q
<1> QED
  BY <1>2, <1>4, <1>5, CarriesOn

\* The report is put at the end only when it is not left to come.
LEMMA TailCarries ==
  ASSUME NEW m \in Snapshots
  PROVE  Carries(m, _ensure_terminal_tail(m))
<1> DEFINE q == [m EXCEPT !.groups = Append(@, {Terminal})]
<1>1. m.groups \in Seq(SUBSET Agents) /\ {Terminal} \in SUBSET Agents
  BY DEF Snapshots, Agents
<1>2. Append(m.groups, {Terminal}) \in Seq(SUBSET Agents)
  BY <1>1
<1>3. q \in Snapshots
  BY <1>2 DEF Snapshots
<1>4. q.groups = Append(m.groups, {Terminal}) /\ q.executed = m.executed
      /\ (q.answer <=> m.answer) /\ q.goals = m.goals /\ q.degraded = m.degraded
  BY DEF Snapshots
<1>5. ASSUME ReportAtEnd(m) PROVE ReportAtEnd(q)
  <2> HIDE DEF q
  <2>1. /\ DOMAIN q.groups = 1..(Len(m.groups) + 1)
        /\ DOMAIN m.groups = 1..Len(m.groups) /\ Len(m.groups) \in Nat
        /\ \A i \in 1..Len(m.groups) : q.groups[i] = m.groups[i]
        /\ q.groups[Len(m.groups) + 1] = {Terminal}
    BY <1>1, <1>4
  <2>2. ASSUME NEW i \in DOMAIN q.groups, NEW j \in DOMAIN q.groups,
               i <= j, Terminal \in q.groups[i]
        PROVE  q.groups[j] = {Terminal}
    <3>1. CASE j = Len(m.groups) + 1
      BY <3>1, <2>1
    <3>2. CASE j # Len(m.groups) + 1
      <4>1. i \in DOMAIN m.groups /\ j \in DOMAIN m.groups
        BY <2>1, <2>2, <3>2
      <4> QED
        BY <4>1, <2>1, <2>2, <1>5 DEF ReportAtEnd
    <3> QED
      BY <3>1, <3>2
  <2> QED
    BY <2>2 DEF ReportAtEnd
<1>6. Carries(m, q)
  BY <1>3, <1>4, <1>5 DEF Carries
<1> QED
  BY <1>6, CarriesItself DEF _ensure_terminal_tail

LEMMA GiveUpCarries ==
  ASSUME NEW m \in Snapshots, NEW streak
  PROVE  Carries(m, GiveUp(m, streak))
<1> DEFINE q == Marked(m, "consecutive_failures")
<1>1. "consecutive_failures" \in Marks
  BY DEF Marks
<1>2. Carries(m, q)
  BY <1>1, MarkedCarries
<1>3. Carries(m, _ensure_terminal_tail(q))
  BY <1>2, TailCarries, CarriesOn DEF Carries
<1> QED
  BY <1>3, CarriesItself DEF GiveUp

LEMMA ConcludedCarries ==
  ASSUME NEW m \in Snapshots
  PROVE  Carries(m, Concluded(m)) /\ (~m.answer => Concluded(m).reportFailed)
<1> DEFINE q == [m EXCEPT !.reportFailed = TRUE]
           r == Marked(q, "no_terminal_answer")
<1>1. q \in Snapshots
  BY DEF Snapshots
<1>2. q.groups = m.groups /\ q.executed = m.executed /\ (q.answer <=> m.answer)
      /\ q.goals = m.goals /\ q.degraded = m.degraded /\ q.reportFailed
  BY DEF Snapshots
<1>3. Concluded(m) = IF m.answer THEN m ELSE r
  BY DEF Concluded
<1>4. "no_terminal_answer" \in Marks
  BY DEF Marks
<1> HIDE DEF q
<1>5. Carries(m, q)
  BY <1>1, <1>2 DEF Carries, ReportAtEnd
<1>6. Carries(q, r)
  BY <1>1, <1>4, MarkedCarries
<1>7. r.reportFailed = q.reportFailed
  BY <1>1 DEF Marked, Snapshots
<1> HIDE DEF r
<1> QED
  BY <1>2, <1>3, <1>5, <1>6, <1>7, CarriesOn, CarriesItself

\* Groups that put the report last may replace those of a snapshot.
LEMMA EditedCarries ==
  ASSUME NEW m \in Snapshots, NEW groups \in Seq(SUBSET Agents)
  PROVE  LET q == Edited(m, groups)
         IN  /\ q \in Snapshots
             /\ q.groups = groups /\ q.executed = m.executed
             /\ ReportAtEnd(q) => Carries(m, q)
             /\ \A S : Honest(m, S) => Honest(q, S)
<1> DEFINE q == Edited(m, groups)
<1>1. q \in Snapshots
  BY DEF Edited, Snapshots
<1>2. q.groups = groups /\ q.executed = m.executed /\ (q.answer <=> m.answer)
      /\ q.goals = m.goals /\ q.degraded = m.degraded
  BY DEF Edited, Snapshots
<1> HIDE DEF q
<1> QED
  BY <1>1, <1>2 DEF Carries, Honest, q

LEMMA RegroupedEnds ==
  ASSUME NEW chosen, NEW m \in Snapshots
  PROVE  /\ Edited(m, Regrouped(chosen)) \in Snapshots
         /\ ReportAtEnd(Edited(m, Regrouped(chosen)))
         /\ Carries(m, Edited(m, Regrouped(chosen)))
<1> DEFINE body == ToSet(chosen) \intersect Specialists
           groups == Regrouped(chosen)
<1>1. body \in SUBSET Agents /\ {Terminal} \in SUBSET Agents /\ Terminal \notin body
  BY GroupingsAssumption DEF Agents
<1> HIDE DEF body
<1>2. groups = IF body = {} THEN <<{Terminal}>> ELSE <<body, {Terminal}>>
  BY DEF Regrouped, body
<1> HIDE DEF groups
<1>3. /\ groups \in Seq(SUBSET Agents)
      /\ \A i, j \in DOMAIN groups : i <= j /\ Terminal \in groups[i] => groups[j] = {Terminal}
  <2>1. CASE body = {}
    <3>1. groups = <<{Terminal}>>
      BY <1>2, <2>1
    <3> QED
      BY <1>1, <3>1
  <2>2. CASE body # {}
    <3>1. groups = <<body, {Terminal}>>
      BY <1>2, <2>2
    <3> QED
      BY <1>1, <3>1
  <2> QED
    BY <2>1, <2>2
<1>4. ReportAtEnd(Edited(m, groups))
  BY <1>3, EditedCarries DEF ReportAtEnd
<1> QED
  BY <1>3, <1>4, EditedCarries DEF groups

\* A plan that starts knows nothing it would have to be honest about.
LEMMA FreshKnows ==
  ASSUME NEW groups \in Groupings, NEW S
  PROVE  /\ Fresh(groups) \in Snapshots /\ ReportAtEnd(Fresh(groups))
         /\ Honest(Fresh(groups), S) /\ Fresh(groups).executed = {}
<1>1. groups \in Seq(SUBSET Agents)
  BY GroupingsAssumption
<1>2. \A i \in DOMAIN groups : groups[i] \subseteq Agents
  BY <1>1
<1>3. UNION {groups[i] : i \in DOMAIN groups} \in SUBSET Agents
  BY <1>2
<1>4. Fresh(groups) \in Snapshots
  BY <1>1, <1>3 DEF Fresh, Snapshots
<1>5. ReportAtEnd(Fresh(groups))
  <2>1. /\ groups # <<>> /\ Last(groups) = {Terminal} /\ Terminal \notin Specialists
        /\ \A i \in 1..(Len(groups) - 1) : groups[i] \subseteq Specialists
    BY GroupingsAssumption
  <2>2. DOMAIN groups = 1..Len(groups) /\ Len(groups) \in Nat
        /\ groups[Len(groups)] = {Terminal}
    BY <1>1, <2>1 DEF Last
  <2>3. ASSUME NEW i \in DOMAIN groups, NEW j \in DOMAIN groups,
               i <= j, Terminal \in groups[i]
        PROVE  groups[j] = {Terminal}
    <3>1. i = Len(groups)
      BY <2>1, <2>2, <2>3
    <3> QED
      BY <3>1, <2>2, <2>3
  <2> QED
    BY <2>3 DEF ReportAtEnd, Fresh
<1> QED
  BY <1>4, <1>5 DEF Honest, Fresh

Succeeded(group, results) == {a \in group : results[a] = "ok"}

\* The agents of a merged group are executed; one that failed leaves its mark.
LEMMA MergeKnows ==
  ASSUME NEW m \in Snapshots, NEW group \in SUBSET Agents, NEW results, NEW S,
         Honest(m, S)
  PROVE  LET q == Merge(m, group, results)
         IN  /\ q \in Snapshots
             /\ q.executed = m.executed \union group
             /\ q.goals = m.goals
             /\ ReportAtEnd(m) => ReportAtEnd(q)
             /\ Honest(q, S \union Succeeded(group, results))
<1> DEFINE ok == Succeeded(group, results)
           bad == group \ ok
           p == _after_agent_success(m, ok)
           tried == [p EXCEPT !.executed = @ \union bad,
                              !.reportFailed = @ \/ Terminal \in bad]
           failed == Marked(tried, "agent_failed")
           q == Merge(m, group, results)
<1>1. ok \in SUBSET Agents /\ bad \in SUBSET Agents /\ ok \union bad = group
  BY DEF Succeeded
<1>2. Merge(m, group, results) = _after_agent_failure(p, bad)
  BY DEF Merge, Succeeded
<1> HIDE DEF ok, bad
<1>3. p \in Snapshots
  BY <1>1 DEF Snapshots, _after_agent_success
<1>4. /\ p.groups = m.groups /\ p.executed = m.executed \union ok /\ p.goals = m.goals
      /\ p.degraded = m.degraded /\ (p.answer <=> m.answer \/ Terminal \in ok)
  BY DEF Snapshots, _after_agent_success
<1> HIDE DEF p
<1>5. tried \in Snapshots
  BY <1>3, <1>1 DEF Snapshots
<1>6. /\ tried.groups = p.groups /\ tried.executed = p.executed \union bad
      /\ tried.goals = p.goals /\ (tried.answer <=> p.answer)
  BY <1>3 DEF Snapshots
<1>7. "agent_failed" \in Marks
  BY DEF Marks
<1>8. _after_agent_failure(p, bad) =
        IF bad = {} THEN p
        ELSE IF bad = {Terminal} THEN failed ELSE _ensure_terminal_tail(failed)
  BY DEF _after_agent_failure
<1> HIDE DEF tried
<1>12. Carries(tried, failed) /\ "agent_failed" \in failed.degraded
  BY <1>5, <1>7, MarkedCarries
<1>13. failed.groups = tried.groups
  BY <1>5, <1>7, MarkedCarries
<1>9. q = IF bad = {} THEN p
          ELSE IF bad = {Terminal} THEN failed ELSE _ensure_terminal_tail(failed)
  BY <1>2, <1>8
<1> HIDE DEF failed, q
<1>10. CASE bad = {}
  <2>1. q = p /\ ok = group
    BY <1>9, <1>10, <1>1
  <2> QED
    BY <2>1, <1>3, <1>4 DEF Honest, ReportAtEnd, q, ok
<1>11. CASE bad # {}
  <2>1. Carries(failed, q)
    BY <1>9, <1>11, <1>12, CarriesItself, TailCarries DEF Carries
  <2>2. "agent_failed" \in q.degraded
    BY <2>1, <1>12 DEF Carries
  <2>3. ReportAtEnd(m) => ReportAtEnd(q)
    BY <2>1, <1>13, <1>6, <1>4 DEF Carries, ReportAtEnd
  <2>4. q.executed = m.executed \union group /\ q.goals = m.goals
        /\ (q.answer <=> m.answer \/ Terminal \in ok)
    BY <2>1, <1>12, <1>6, <1>4, <1>1 DEF Carries
  <2>5. Honest(q, S \union ok)
    BY <2>2, <2>4 DEF Honest
  <2>6. q \in Snapshots
    BY <2>1 DEF Carries
  <2> QED
    BY <2>3, <2>4, <2>5, <2>6 DEF q, ok
<1> QED
  BY <1>10, <1>11

\* Of some natural numbers one is the least.
LEMMA LeastOf ==
  ASSUME NEW T, T # {}, T \subseteq Nat
  PROVE  \E i \in T : \A j \in T : i <= j
<1>1. IsWellFoundedOn(OpToRel(<, Nat), Nat)
  BY NatLessThanWellFounded
<1>2. \E i \in T : \A j \in T : ~(<<j, i>> \in OpToRel(<, Nat))
  BY <1>1, WFMin
<1>3. \E i \in T : \A j \in T : ~(j < i)
  BY <1>2 DEF OpToRel
<1> QED
  BY <1>3

\* A success is not reported of less than the report and every goal's agent.
LEMMA SucceededIsEarned ==
  ASSUME NEW m \in Snapshots, NEW S, Honest(m, S), NEW contract \in BOOLEAN,
         FinalStatus(m, contract) = "SUCCEEDED"
  PROVE  Terminal \in S /\ m.goals \subseteq S
<1> DEFINE q == Concluded(m)
<1>1. Carries(m, q) /\ (~m.answer => q.reportFailed)
  BY ConcludedCarries
<1>2. ~q.reportFailed /\ ~_has_hard_degradation(q)
      /\ _missing_required_goal_artifacts(m) = {}
  BY DEF FinalStatus
<1> HIDE DEF q
<1>3. "agent_failed" \notin q.degraded
  BY <1>2 DEF _has_hard_degradation
<1>4. "agent_failed" \notin m.degraded
  BY <1>1, <1>3 DEF Carries
<1>5. m.answer
  BY <1>1, <1>2
<1>6. m.goals \subseteq m.executed
  BY <1>2 DEF _missing_required_goal_artifacts
<1> QED
  BY <1>4, <1>5, <1>6 DEF Honest

LEMMA HonestMore ==
  ASSUME NEW m, NEW S, NEW T, Honest(m, S), S \subseteq T
  PROVE  Honest(m, T)
BY DEF Honest

-----------------------------------------------------------------------------
(***************************************************************************)
(* The executors' operators on snapshots are the same.                     *)
(***************************************************************************)
LEMMA LoopSame ==
  /\ Loop!Agents = Agents
  /\ \A m, k : Loop!Edited(m, k) = Edited(m, k)
  /\ \A k : Loop!Regrouped(k) = Regrouped(k)
  /\ \A k : Loop!Fresh(k) = Fresh(k)
  /\ \A m : Loop!Group(m) = Group(m)
  /\ \A m : Loop!Left(m) <=> Left(m)
  /\ \A m : Loop!Skip(m) = Skip(m)
  /\ \A m, k : Loop!GiveUp(m, k) = GiveUp(m, k)
  /\ \A m, k, r : Loop!Merge(m, k, r) = Merge(m, k, r)
  /\ \A m, k : Loop!FinalStatus(m, k) = FinalStatus(m, k)
<1>1. Loop!Agents = Agents
  BY DEF Agents, Loop!Agents
<1>2. \A m, k : Loop!Edited(m, k) = Edited(m, k)
  BY DEF Edited, Loop!Edited
<1>3. \A k : Loop!Regrouped(k) = Regrouped(k)
  BY DEF Regrouped, Loop!Regrouped, ToSet, Loop!ToSet
<1>4. \A k : Loop!Fresh(k) = Fresh(k)
  BY DEF Fresh, Loop!Fresh
<1>5. \A m : Loop!Group(m) = Group(m)
  BY DEF Group, Loop!Group
<1>6. \A m : Loop!Left(m) <=> Left(m)
  BY DEF Left, Loop!Left
<1>7. \A m, k : Loop!Marked(m, k) = Marked(m, k)
  BY DEF Marked, Loop!Marked
<1>8. \A m : Loop!Skip(m) = Skip(m)
  BY <1>5, <1>7 DEF Skip, Loop!Skip
<1>9. \A m : Loop!_ensure_terminal_tail(m) = _ensure_terminal_tail(m)
  BY DEF _ensure_terminal_tail, Loop!_ensure_terminal_tail
<1>10. \A m, k : Loop!GiveUp(m, k) = GiveUp(m, k)
  BY <1>7, <1>9 DEF GiveUp, Loop!GiveUp
<1>11. \A m, k : Loop!_after_agent_success(m, k) = _after_agent_success(m, k)
  BY DEF _after_agent_success, Loop!_after_agent_success
<1>12. \A m, k : Loop!_after_agent_failure(m, k) = _after_agent_failure(m, k)
  BY <1>7, <1>9 DEF _after_agent_failure, Loop!_after_agent_failure
<1>13. \A m, k, r : Loop!Merge(m, k, r) = Merge(m, k, r)
  BY <1>11, <1>12 DEF Merge, Loop!Merge
<1>14. \A m : Loop!Concluded(m) = Concluded(m)
  BY <1>7 DEF Concluded, Loop!Concluded
<1>15. \A m, k : Loop!FinalStatus(m, k) = FinalStatus(m, k)
  BY <1>14 DEF FinalStatus, Loop!FinalStatus, _has_hard_degradation,
               Loop!_has_hard_degradation, _missing_required_goal_artifacts,
               Loop!_missing_required_goal_artifacts
<1> QED
  BY <1>1, <1>2, <1>3, <1>4, <1>5, <1>6, <1>8, <1>10, <1>13, <1>15

LEMMA GraphSame ==
  /\ Graph!Snapshots = Snapshots /\ Graph!Agents = Agents
  /\ \A m, k : Graph!Edited(m, k) = Edited(m, k)
  /\ \A k : Graph!Regrouped(k) = Regrouped(k)
  /\ \A k : Graph!Fresh(k) = Fresh(k)
  /\ \A m : Graph!Group(m) = Group(m)
  /\ \A m : Graph!Left(m) <=> Left(m)
  /\ \A m, k : Graph!Marked(m, k) = Marked(m, k)
  /\ \A m, k : Graph!GiveUp(m, k) = GiveUp(m, k)
  /\ \A m, k, r : Graph!Merge(m, k, r) = Merge(m, k, r)
  /\ \A m : Graph!Concluded(m) = Concluded(m)
  /\ \A m, k : Graph!FinalStatus(m, k) = FinalStatus(m, k)
<1>1. Graph!Agents = Agents
  BY DEF Agents, Graph!Agents
<1>2. \A m, k : Graph!Edited(m, k) = Edited(m, k)
  BY DEF Edited, Graph!Edited
<1>3. \A k : Graph!Regrouped(k) = Regrouped(k)
  BY DEF Regrouped, Graph!Regrouped, ToSet, Graph!ToSet
<1>4. \A k : Graph!Fresh(k) = Fresh(k)
  BY DEF Fresh, Graph!Fresh
<1>5. \A m : Graph!Group(m) = Group(m)
  BY DEF Group, Graph!Group
<1>6. \A m : Graph!Left(m) <=> Left(m)
  BY DEF Left, Graph!Left
<1>7. \A m, k : Graph!Marked(m, k) = Marked(m, k)
  BY DEF Marked, Graph!Marked
<1>9. \A m : Graph!_ensure_terminal_tail(m) = _ensure_terminal_tail(m)
  BY DEF _ensure_terminal_tail, Graph!_ensure_terminal_tail
<1>10. \A m, k : Graph!GiveUp(m, k) = GiveUp(m, k)
  BY <1>7, <1>9 DEF GiveUp, Graph!GiveUp
<1>11. \A m, k : Graph!_after_agent_success(m, k) = _after_agent_success(m, k)
  BY DEF _after_agent_success, Graph!_after_agent_success
<1>12. \A m, k : Graph!_after_agent_failure(m, k) = _after_agent_failure(m, k)
  BY <1>7, <1>9 DEF _after_agent_failure, Graph!_after_agent_failure
<1>13. \A m, k, r : Graph!Merge(m, k, r) = Merge(m, k, r)
  BY <1>11, <1>12 DEF Merge, Graph!Merge
<1>14. \A m : Graph!Concluded(m) = Concluded(m)
  BY <1>7 DEF Concluded, Graph!Concluded
<1>15. \A m, k : Graph!FinalStatus(m, k) = FinalStatus(m, k)
  BY <1>14 DEF FinalStatus, Graph!FinalStatus, _has_hard_degradation,
               Graph!_has_hard_degradation, _missing_required_goal_artifacts,
               Graph!_missing_required_goal_artifacts
<1>16. Graph!Snapshots = Snapshots
  BY DEF Snapshots, Graph!Snapshots, Marks, Graph!Marks, Agents, Graph!Agents
<1> QED
  BY <1>1, <1>2, <1>3, <1>4, <1>5, <1>6, <1>7, <1>10, <1>13, <1>14, <1>15, <1>16

LEMMA SkipAllCarries ==
  ASSUME NEW m \in Snapshots
  PROVE  LET q == Graph!SkipAll(m)
         IN  /\ Carries(m, q)
             /\ q.groups = m.groups
             /\ Left(q) => Group(q) # {} /\ q.next + 1 \in DOMAIN q.groups
<1> DEFINE at(k) == [m EXCEPT !.next = k]
           run == {k \in m.next..(Len(m.groups) - 1) : ~Graph!Skippable(at(k))}
           first == IF run = {} THEN Len(m.groups)
                    ELSE CHOOSE k \in run : \A other \in run : k <= other
           over == \E k \in m.next..(first - 1) : Graph!Group(at(k)) # {}
           q == Graph!SkipAll(m)
<1>1. /\ m.next \in Nat /\ Len(m.groups) \in Nat
      /\ DOMAIN m.groups = 1..Len(m.groups)
  BY DEF Snapshots
<1>2. run # {} => first \in run
  <2>1. run \subseteq Nat
    BY <1>1
  <2> HIDE DEF run
  <2>2. run # {} => \E k \in run : \A other \in run : k <= other
    BY <2>1, LeastOf
  <2> QED
    BY <2>2
<1>3. first \in Nat
  <2>1. run # {} => first \in m.next..(Len(m.groups) - 1)
    BY <1>2
  <2>2. run = {} => first = Len(m.groups)
    OBVIOUS
  <2> HIDE DEF run, first
  <2> QED
    BY <2>1, <2>2, <1>1
<1>4. run # {} => Group(at(first)) # {}
  <2>1. run # {} => ~Graph!Skippable(at(first))
    BY <1>2
  <2> HIDE DEF run, first, at
  <2> QED
    BY <2>1, GraphSame DEF Graph!Skippable
<1>5. q = IF over THEN Marked(at(first), "max_agent_count") ELSE at(first)
  <2>1. q = IF over THEN Graph!Marked(at(first), "max_agent_count") ELSE at(first)
    BY Zenon DEF Graph!SkipAll
  <2> HIDE DEF q, over, first, at
  <2> QED
    BY <2>1, GraphSame
<1>6. run = {} => first = Len(m.groups)
  OBVIOUS
<1> HIDE DEF over, run, first
<1>7. at(first) \in Snapshots /\ Carries(m, at(first)) /\ at(first).groups = m.groups
      /\ at(first).next = first
  BY <1>3, MovedCarries DEF Snapshots
<1> HIDE DEF at
<1>8. "max_agent_count" \in Marks
  BY DEF Marks
<1>9. Carries(at(first), q) /\ q.groups = m.groups
  BY <1>5, <1>7, <1>8, MarkedCarries, CarriesItself
<1>10. q.next = first /\ q.executed = at(first).executed
  <2>1. Marked(at(first), "max_agent_count").next = first
    BY <1>7 DEF Marked, Snapshots
  <2> QED
    BY <2>1, <1>5, <1>7, <1>9 DEF Carries
<1>11. Group(q) = Group(at(first))
  BY <1>7, <1>9, <1>10 DEF Group
<1>12. ASSUME Left(q) PROVE run # {} /\ q.next + 1 \in DOMAIN q.groups
  <2>1. first < Len(m.groups)
    BY <1>12, <1>9, <1>10 DEF Left
  <2>2. run # {}
    BY <2>1, <1>1, <1>6
  <2> QED
    BY <2>1, <2>2, <1>1, <1>3, <1>9, <1>10
<1>13. Carries(m, q)
  BY <1>7, <1>9, CarriesOn
<1>14. Left(q) => Group(q) # {} /\ q.next + 1 \in DOMAIN q.groups
  BY <1>4, <1>11, <1>12
<1> QED
  BY <1>9, <1>13, <1>14

-----------------------------------------------------------------------------
(***************************************************************************)
(* The loop executor, step by step.                                        *)
(***************************************************************************)
LEMMA LoopStarts ==
  ASSUME Loop!Init
  PROVE  LoopInv
BY DEF Loop!Init, LoopInv, LoopRow, LoopMem, LoopGroup, LoopSaved, LoopSuccess, Loop!Ended

\* The next group of a snapshot runs agents of the plan that were not executed.
LEMMA GroupIs ==
  ASSUME NEW m \in Snapshots, Left(m)
  PROVE  /\ m.next + 1 \in DOMAIN m.groups
         /\ Group(m) = m.groups[m.next + 1] \ m.executed
         /\ Group(m) \in SUBSET Agents
<1>1. m.next \in Nat /\ m.groups \in Seq(SUBSET Agents)
  BY DEF Snapshots
<1>2. m.next + 1 \in DOMAIN m.groups
  BY <1>1 DEF Left
<1>3. m.groups[m.next + 1] \in SUBSET Agents
  BY <1>1, <1>2
<1> QED
  BY <1>2, <1>3 DEF Group

LEMMA LoopDispatched ==
  ASSUME LoopInv, Loop!Dispatch \/ (\E chosen \in Approved : Loop!Approve(chosen))
  PROVE  LoopInv'
<1> USE DEF LoopInv, LoopRow, LoopMem, LoopGroup, LoopSaved, LoopSuccess, LoopKnows,
            Loop!Ended
<1>1. CASE Loop!Dispatch
  BY <1>1 DEF Loop!Dispatch
<1>2. ASSUME NEW chosen \in Approved, Loop!Approve(chosen) PROVE LoopInv'
  <2> DEFINE m == l_row.snapshot
             q == Edited(m, Regrouped(chosen))
  <2>1. m \in Snapshots /\ Honest(m, l_won) /\ m.executed \subseteq l_saved
    BY <1>2 DEF Loop!Approve
  <2>2. q \in Snapshots /\ ReportAtEnd(q) /\ Carries(m, q) /\ q.executed = m.executed
    BY <2>1, RegroupedEnds DEF Carries
  <2>3. Honest(q, l_won)
    BY <2>1, <2>2, CarriesHonesty
  <2>4. l_row' = [status |-> "RUNNING", snapshot |-> q] /\ l_mem' = l_row'.snapshot
        /\ l_pc' = "boundary"
        /\ UNCHANGED <<l_running, l_outcome, l_late, l_saved, l_overtaken, l_won>>
        /\ l_pc = "off"
    BY <1>2, LoopSame DEF Loop!Approve
  <2>5. q # None /\ m # None
    BY <2>1, <2>2, NoneAssumption
  <2> HIDE DEF q
  <2>6. l_row'.snapshot = q /\ l_row'.status = "RUNNING" /\ l_mem' = q
    BY <2>4
  <2>7. LoopRow'
    BY <2>2, <2>3, <2>4, <2>6
  <2>8. LoopMem' /\ LoopGroup' /\ LoopSuccess'
    BY <2>2, <2>3, <2>4, <2>6
  <2>9. LoopSaved'
    BY <2>2, <2>1, <2>4, <2>5, <2>6
  <2> QED
    BY <2>7, <2>8, <2>9
<1> QED
  BY <1>1, <1>2

\* What a step that leaves the executor alone, or ends its attempt, preserves.
LEMMA LoopInterrupted ==
  ASSUME LoopInv,
         \/ Loop!RequestPause \/ Loop!Crash \/ Loop!TooShort \/ Loop!RunTimeout
         \/ Loop!BudgetExceeded \/ Loop!_pause_boundary
         \/ \E m \in l_late : Loop!LateCheckpoint(m)
  PROVE  LoopInv'
<1> USE DEF LoopInv, LoopRow, LoopMem, LoopGroup, LoopSaved, LoopSuccess, LoopKnows,
            Loop!Ended, Loop!Off, Loop!Result, Loop!Store
<1>1. CASE Loop!RequestPause
  BY <1>1 DEF Loop!RequestPause
<1>2. CASE Loop!Crash
  BY <1>2 DEF Loop!Crash
<1>3. CASE Loop!TooShort \/ Loop!RunTimeout \/ Loop!BudgetExceeded
  BY <1>3 DEF Loop!TooShort, Loop!RunTimeout, Loop!BudgetExceeded
<1>4. CASE Loop!_pause_boundary
  <2>1. l_mem # None
    BY <1>4, NoneAssumption DEF Loop!_pause_boundary
  <2> QED
    BY <1>4, <2>1 DEF Loop!_pause_boundary
<1>5. ASSUME NEW m \in l_late, Loop!LateCheckpoint(m) PROVE LoopInv'
  <2>1. m # None
    BY <1>5, NoneAssumption
  <2>2. CASE l_row.status \in Loop!Ended
    BY <1>5, <2>2 DEF Loop!LateCheckpoint
  <2>3. CASE l_row.status \notin Loop!Ended
    <3>1. /\ l_row' = [l_row EXCEPT !.snapshot = m]
          /\ l_saved' = l_saved \union m.executed
          /\ l_late' = l_late \ {m}
          /\ l_overtaken' <=> l_overtaken \/ m # l_row.snapshot
          /\ UNCHANGED <<l_pc, l_mem, l_running, l_outcome, l_won>>
      BY <1>5, <2>3 DEF Loop!LateCheckpoint
    <3>2. l_row'.snapshot = m /\ l_row'.status = l_row.status /\ l_pc # "plan"
          /\ l_row.snapshot # None
      BY <3>1, <1>5
    <3>3. LoopRow'
      <4>1. LoopKnows(m)' /\ l_row'.snapshot \in Snapshots
        BY <1>5, <3>1, <3>2
      <4>2. \A x \in l_late' : LoopKnows(x)'
        BY <3>1
      <4>3. l_row' \in [status : Loop!Ended \union {"QUEUED", "RUNNING", "PAUSED"},
                        snapshot : Snapshots \union {None}]
        BY <1>5, <3>1
      <4> QED
        BY <4>1, <4>2, <4>3, <3>2, <2>1
    <3>4. LoopMem' /\ LoopGroup' /\ LoopSuccess'
      BY <3>1, <3>2 DEF Left, Group
    <3>5. LoopSaved'
      BY <3>1, <3>2, <2>1
    <3> QED
      BY <3>3, <3>4, <3>5
  <2> QED
    BY <2>2, <2>3
<1> QED
  BY <1>1, <1>2, <1>3, <1>4, <1>5

LEMMA LoopPlanned ==
  ASSUME LoopInv, NEW groups \in Groupings, NEW approval \in BOOLEAN,
         Loop!Plan(groups, approval)
  PROVE  LoopInv'
<1> USE DEF LoopInv, LoopRow, LoopMem, LoopGroup, LoopSaved, LoopSuccess, LoopKnows,
            Loop!Ended, Loop!Off
<1> DEFINE m == Fresh(groups)
<1>1. m \in Snapshots /\ ReportAtEnd(m) /\ Honest(m, l_won) /\ m.executed = {} /\ m # None
  BY FreshKnows, NoneAssumption
<1>2. Loop!Fresh(groups) = m
  BY LoopSame
<1> HIDE DEF m
<1> QED
  BY <1>1, <1>2 DEF Loop!Plan

LEMMA LoopMoves ==
  ASSUME LoopInv,
         \/ Loop!SkipGroup \/ Loop!StartGroup \/ Loop!SaveCheckpoint
         \/ \E a \in Agents, result \in Outcomes : Loop!AgentEnds(a, result)
         \/ \E contract \in BOOLEAN : Loop!Finish(contract)
  PROVE  LoopInv'
<1> USE DEF LoopInv, LoopRow, LoopMem, LoopGroup, LoopSaved, LoopSuccess, LoopKnows,
            Loop!Ended, Loop!Off, Loop!Store
<1>1. CASE Loop!SkipGroup
  <2>1. l_mem \in Snapshots /\ l_mem' = Skip(l_mem)
    BY <1>1, LoopSame DEF Loop!SkipGroup
  <2>2. Carries(l_mem, l_mem')
    BY <2>1, SkipCarries
  <2>3. Honest(l_mem', l_won)
    BY <1>1, <2>2, CarriesHonesty DEF Loop!SkipGroup
  <2> QED
    BY <1>1, <2>2, <2>3 DEF Loop!SkipGroup, Carries
<1>2. CASE Loop!StartGroup
  <2>1. Left(l_mem) /\ l_running' = Group(l_mem) /\ l_mem' = l_mem
    BY <1>2, LoopSame DEF Loop!StartGroup
  <2>2. LoopGroup'
    BY <1>2, <2>1 DEF Loop!StartGroup, Left, Group
  <2> QED
    BY <1>2, <2>2 DEF Loop!StartGroup
<1>3. CASE Loop!SaveCheckpoint
  <2>1. l_mem # None
    BY <1>3, NoneAssumption DEF Loop!SaveCheckpoint
  <2> QED
    BY <1>3, <2>1 DEF Loop!SaveCheckpoint
<1>4. ASSUME NEW a \in Agents, NEW result \in Outcomes, Loop!AgentEnds(a, result)
      PROVE  LoopInv'
  <2>1. DOMAIN l_outcome' = DOMAIN l_outcome \union {a} /\ l_running' = l_running \ {a}
    BY <1>4 DEF Loop!AgentEnds
  <2>2. LoopGroup'
    BY <1>4, <2>1 DEF Loop!AgentEnds, Left, Group
  <2> QED
    BY <1>4, <2>2 DEF Loop!AgentEnds
<1>5. ASSUME NEW contract \in BOOLEAN, Loop!Finish(contract) PROVE LoopInv'
  <2>1. l_mem \in Snapshots /\ Honest(l_mem, l_won) /\ l_mem' = l_mem /\ l_won' = l_won
    BY <1>5 DEF Loop!Finish, Loop!Result
  <2>2. l_row' = [l_row EXCEPT !.status = FinalStatus(l_mem, contract)]
    BY <1>5, LoopSame DEF Loop!Finish, Loop!Result
  <2>3. FinalStatus(l_mem, contract) \in {"SUCCEEDED", "PARTIAL_SUCCESS"}
    BY DEF FinalStatus
  <2>4. ASSUME FinalStatus(l_mem, contract) = "SUCCEEDED"
        PROVE  Terminal \in l_won /\ l_mem.goals \subseteq l_won
    BY <2>1, <2>4, SucceededIsEarned
  <2>5. LoopSuccess'
    BY <1>5, <2>1, <2>2, <2>4 DEF Loop!Finish, Loop!Result
  <2> QED
    BY <1>5, <2>2, <2>3, <2>5 DEF Loop!Finish, Loop!Result
<1> QED
  BY <1>1, <1>2, <1>3, <1>4, <1>5

LEMMA LoopMerges ==
  ASSUME LoopInv, Loop!MergeGroup
  PROVE  LoopInv'
<1> USE DEF LoopInv, LoopRow, LoopMem, LoopGroup, LoopSaved, LoopSuccess, LoopKnows,
            Loop!Ended
<1> DEFINE moved == [l_mem EXCEPT !.next = @ + 1]
           group == Group(l_mem)
           merged == Merge(moved, group, l_outcome)
           ok == Succeeded(group, l_outcome)
<1>1. /\ l_mem \in Snapshots /\ ReportAtEnd(l_mem) /\ Honest(l_mem, l_won) /\ Left(l_mem)
      /\ group \subseteq DOMAIN l_outcome /\ l_pc = "group"
  BY DEF Loop!MergeGroup
<1>2. /\ l_mem' = GiveUp(merged, l_failures')
      /\ l_won' = l_won \union {a \in DOMAIN l_outcome : l_outcome[a] = "ok"}
      /\ l_pc' = "save"
      /\ UNCHANGED <<l_row, l_running, l_late, l_overtaken, l_saved>>
  BY LoopSame DEF Loop!MergeGroup
<1>3. Carries(l_mem, moved) /\ moved \in Snapshots
  <2>1. l_mem.next + 1 \in Nat
    BY <1>1 DEF Snapshots
  <2> QED
    BY <1>1, <2>1, MovedCarries DEF Carries
<1>4. Honest(moved, l_won)
  BY <1>1, <1>3, CarriesHonesty
<1>5. group \in SUBSET Agents
  BY <1>1, GroupIs
<1> HIDE DEF moved, group
<1>6. /\ merged \in Snapshots /\ ReportAtEnd(merged)
      /\ merged.executed = l_mem.executed \union group
      /\ Honest(merged, l_won \union ok)
  <2>1. /\ merged \in Snapshots
        /\ merged.executed = moved.executed \union group
        /\ ReportAtEnd(moved) => ReportAtEnd(merged)
        /\ Honest(merged, l_won \union ok)
    <3> HIDE DEF moved, group
    <3>1. moved \in Snapshots /\ group \in SUBSET Agents /\ Honest(moved, l_won)
      BY <1>3, <1>4, <1>5
    <3> QED
      BY <3>1, MergeKnows
  <2> HIDE DEF merged, ok
  <2> QED
    BY <2>1, <1>1, <1>3 DEF Carries
<1>7. l_won \subseteq l_won' /\ l_won \union ok \subseteq l_won'
  BY <1>1, <1>2 DEF Succeeded
<1> HIDE DEF merged, ok
<1>8. Carries(merged, l_mem')
  BY <1>2, <1>6, GiveUpCarries
<1>9. /\ l_mem' \in Snapshots /\ ReportAtEnd(l_mem') /\ Honest(l_mem', l_won')
      /\ l_mem.executed \subseteq l_mem'.executed
  BY <1>6, <1>7, <1>8, CarriesHonesty, HonestMore DEF Carries
<1>10. \A m : Honest(m, l_won) => Honest(m, l_won')
  BY <1>7, HonestMore
<1>11. LoopRow'
  BY <1>2, <1>10
<1>12. LoopMem' /\ LoopGroup' /\ LoopSuccess'
  BY <1>1, <1>2, <1>9 DEF Loop!MergeGroup
<1>13. LoopSaved'
  BY <1>1, <1>2, <1>9
<1> QED
  BY <1>11, <1>12, <1>13

LEMMA LoopStep ==
  ASSUME LoopInv, Loop!Next
  PROVE  LoopInv'
<1>1. Loop!Agents = Agents /\ Loop!Outcomes = Outcomes
  BY LoopSame DEF Outcomes, Loop!Outcomes
<1> QED
  BY <1>1, LoopDispatched, LoopInterrupted, LoopPlanned, LoopMoves, LoopMerges
  DEF Loop!Next, Loop!Executor

LEMMA LoopStays ==
  ASSUME LoopInv, UNCHANGED lvars
  PROVE  LoopInv'
BY DEF LoopInv, LoopRow, LoopMem, LoopGroup, LoopSaved, LoopSuccess, LoopKnows, lvars

\* What the properties ask is part of the invariant, or follows from it.
LEMMA LoopPromises ==
  ASSUME LoopInv
  PROVE  Loop!ReportComesLast /\ Loop!HonestSuccess
<1>1. Loop!HonestSuccess
  BY DEF LoopInv, LoopSuccess, Loop!HonestSuccess
<1>2. ASSUME Terminal \in l_running
      PROVE  /\ l_running = {Terminal}
             /\ \A i \in (l_mem.next + 1)..Len(l_mem.groups) :
                   l_mem.groups[i] \subseteq l_mem.executed \union {Terminal}
  <2>1. /\ Left(l_mem) /\ l_running \subseteq Group(l_mem)
        /\ l_mem \in Snapshots /\ ReportAtEnd(l_mem)
    BY <1>2 DEF LoopInv, LoopGroup, LoopMem, LoopKnows
  <2>2. l_mem.next + 1 \in DOMAIN l_mem.groups
        /\ l_running \subseteq l_mem.groups[l_mem.next + 1]
    BY <2>1, GroupIs
  <2>3. \A i \in DOMAIN l_mem.groups :
          l_mem.next + 1 <= i => l_mem.groups[i] = {Terminal}
    BY <1>2, <2>1, <2>2 DEF ReportAtEnd
  <2>4. l_mem.next \in Nat /\ DOMAIN l_mem.groups = 1..Len(l_mem.groups)
    BY <2>1 DEF Snapshots
  <2>5. l_running = {Terminal}
    BY <1>2, <2>2, <2>3, <2>4
  <2>6. ASSUME NEW i \in (l_mem.next + 1)..Len(l_mem.groups)
        PROVE  l_mem.groups[i] = {Terminal}
    BY <2>3, <2>4
  <2> QED
    BY <2>5, <2>6
<1> QED
  BY <1>1, <1>2 DEF Loop!ReportComesLast

LEMMA LoopNeverRepeats ==
  ASSUME LoopInv, Loop!Next, ~l_overtaken
  PROVE  (l_running' \ l_running) \intersect l_saved = {}
<1>1. CASE Loop!StartGroup
  <2>1. l_running' = Group(l_mem) /\ l_saved \subseteq l_mem.executed
    BY <1>1, LoopSame DEF Loop!StartGroup, LoopInv, LoopSaved
  <2> QED
    BY <2>1 DEF Group
<1>2. CASE ~Loop!StartGroup
  <2>1. l_running' \subseteq l_running
    BY <1>2
    DEF Loop!Next, Loop!Executor, Loop!Plan, Loop!_pause_boundary, Loop!SkipGroup,
        Loop!MergeGroup, Loop!AgentEnds, Loop!BudgetExceeded, Loop!SaveCheckpoint,
        Loop!Finish, Loop!TooShort, Loop!RunTimeout, Loop!Dispatch, Loop!RequestPause,
        Loop!Crash, Loop!Approve, Loop!LateCheckpoint, Loop!Result, Loop!Off, Loop!Store
  <2> QED
    BY <2>1
<1> QED
  BY <1>1, <1>2

-----------------------------------------------------------------------------
(***************************************************************************)
(* The LangGraph executor: snapshots and processes.                        *)
(***************************************************************************)
LEMMA SizeIs == \A S : Graph!Cardinality(S) = Cardinality(S)
BY Zenon DEF Graph!Cardinality, Cardinality

LEMMA SnapsAre ==
  Graph!Snaps = [m : Snapshots, ledger : SUBSET Agents, plan : Approved \union {None}]
BY GraphSame DEF Graph!Snaps

LEMMA SnapIs ==
  ASSUME NEW m \in Snapshots, NEW counted \in SUBSET Agents
  PROVE  LET s == Graph!Snap(m, counted)
         IN  s \in Graph!Snaps /\ s.m = m /\ s.ledger = counted /\ s.plan = None /\ s # None
<1>1. Graph!Snap(m, counted) \in Graph!Snaps
  BY SnapsAre DEF Graph!Snap
<1> QED
  BY <1>1, NoSnapAssumption DEF Graph!Snap

LEMMA SnapHas ==
  ASSUME NEW s \in Graph!Snaps
  PROVE  s.m \in Snapshots /\ s.ledger \in SUBSET Agents /\ s.plan \in Approved \union {None}
         /\ s # None
BY SnapsAre, NoSnapAssumption

\* An edited plan as written, restored by the pause gate.
LEMMA AsWrittenIs ==
  ASSUME NEW chosen \in Approved, NEW m \in Snapshots
  PROVE  LET q == Edited(m, [i \in DOMAIN chosen |-> {chosen[i]}])
         IN  q \in Snapshots /\ q.executed = m.executed /\ \A S : Honest(m, S) => Honest(q, S)
<1> DEFINE groups == [i \in DOMAIN chosen |-> {chosen[i]}]
<1>1. chosen \in Seq(Agents)
  BY ApprovedAssumption
<1>2. /\ Len(chosen) \in Nat /\ DOMAIN chosen = 1..Len(chosen)
      /\ \A i \in 1..Len(chosen) : {chosen[i]} \in SUBSET Agents
  BY <1>1
<1>3. groups \in [1..Len(chosen) -> SUBSET Agents]
  BY <1>2
<1> HIDE DEF groups
<1>4. groups \in Seq(SUBSET Agents)
  BY <1>2, <1>3
<1>5. LET q == Edited(m, groups)
      IN  q \in Snapshots /\ q.executed = m.executed /\ \A S : Honest(m, S) => Honest(q, S)
  BY <1>4, EditedCarries
<1> QED
  BY <1>5 DEF groups

\* A restored process has the attributes of the snapshot, and the groups of the
\* edited plan.
LEMMA RestoredIs ==
  ASSUME NEW p, IsProcess(p), NEW s \in Graph!Snaps
  PROVE  LET q == Graph!Restored(p, s)
         IN  /\ IsProcess(q) /\ q.on = p.on /\ q.request = p.request /\ q.hydrated
             /\ q.running = p.running
             /\ q.mem \in Snapshots /\ q.mem.executed = s.m.executed
             /\ \A S : Honest(s.m, S) => Honest(q.mem, S)
             /\ s.plan = None => q.mem = s.m
<1> DEFINE q == Graph!Restored(p, s)
           w == Edited(s.m, [i \in DOMAIN s.plan |-> {s.plan[i]}])
<1>1. s.m \in Snapshots /\ s.ledger \in SUBSET Agents /\ s.plan \in Approved \union {None}
  BY SnapHas
<1>2. q = [p EXCEPT !.hydrated = TRUE, !.ledger = s.ledger,
                    !.mem = IF s.plan = None THEN s.m ELSE w]
  BY GraphSame DEF Graph!Restored
<1>3. s.plan # None => w \in Snapshots /\ w.executed = s.m.executed
                       /\ \A S : Honest(s.m, S) => Honest(w, S)
  BY <1>1, AsWrittenIs
<1> HIDE DEF q, w
<1>4. IsProcess(q) /\ q.on = p.on /\ q.request = p.request /\ q.hydrated
      /\ q.running = p.running
      /\ q.mem = IF s.plan = None THEN s.m ELSE w
  BY <1>1, <1>2 DEF IsProcess
<1>5. /\ q.mem \in Snapshots /\ q.mem.executed = s.m.executed
      /\ \A S : Honest(s.m, S) => Honest(q.mem, S)
      /\ s.plan = None => q.mem = s.m
  BY <1>1, <1>3, <1>4
<1> QED
  BY <1>4, <1>5 DEF q

LEMMA RegroupedIs ==
  ASSUME NEW p, IsProcess(p), NEW s \in Graph!Snaps
  PROVE  LET q == Graph!RegroupNeeded(p, s)
         IN  /\ IsProcess(q) /\ q.on = p.on /\ q.request = p.request /\ q.hydrated
             /\ q.running = p.running
             /\ Carries(s.m, q.mem)
<1> DEFINE q == Graph!RegroupNeeded(p, s)
           r == Graph!Restored(p, s)
           e == Edited(s.m, Regrouped(s.plan))
<1>1. s.m \in Snapshots
  BY SnapHas
<1>2. IsProcess(r) /\ r.on = p.on /\ r.request = p.request /\ r.hydrated
      /\ r.running = p.running /\ (s.plan = None => r.mem = s.m)
  BY RestoredIs
<1>3. q = IF s.plan = None THEN r ELSE [r EXCEPT !.mem = e]
  BY GraphSame DEF Graph!RegroupNeeded
<1>4. Carries(s.m, e) /\ Carries(s.m, s.m)
  BY <1>1, RegroupedEnds, CarriesItself
<1> HIDE DEF q, r, e
<1>5. IsProcess(q) /\ q.on = p.on /\ q.request = p.request /\ q.hydrated
      /\ q.running = p.running /\ q.mem = IF s.plan = None THEN s.m ELSE e
  BY <1>2, <1>3 DEF IsProcess
<1>6. Carries(s.m, q.mem)
  BY <1>4, <1>5
<1> QED
  BY <1>5, <1>6 DEF q

\* A process that goes on with a thread has the attributes of its snapshot.
LEMMA HydratedIs ==
  ASSUME GraphInv, g_thread.node \notin {"none", "observe_plan", "end"}
  PROVE  LET q == Graph!_hydrate(g_proc)
         IN  /\ IsProcess(q) /\ q.on = g_proc.on /\ q.request = g_proc.request /\ q.hydrated
             /\ q.running = g_proc.running
             /\ GraphKnows(q.mem)
             /\ g_thread.node # "finalize" => q.mem = g_thread.snap.m
<1> DEFINE r == Graph!Restored(g_proc, g_thread.snap)
<1>1. /\ IsProcess(g_proc) /\ g_thread.snap # None /\ g_thread.snap \in Graph!Snaps
      /\ GraphKnows(g_thread.snap.m) /\ g_thread.snap.plan = None
      /\ g_proc.hydrated => GraphKnows(g_proc.mem)
      /\ g_proc.hydrated /\ g_thread.node # "finalize" => g_proc.mem = g_thread.snap.m
  BY DEF GraphInv, GraphProc, GraphThread, GraphKept
<1>2. IsProcess(r) /\ r.on = g_proc.on /\ r.request = g_proc.request /\ r.hydrated
      /\ r.running = g_proc.running /\ r.mem = g_thread.snap.m
  BY <1>1, RestoredIs
<1>3. Graph!_hydrate(g_proc) = IF g_proc.hydrated THEN g_proc ELSE r
  BY <1>1 DEF Graph!_hydrate
<1> HIDE DEF r
<1> QED
  BY <1>1, <1>2, <1>3

\* One of the results has the largest ledger.
LEMMA RichestIs ==
  ASSUME GraphInv, g_thread.node = "merge"
  PROVE  \E a \in DOMAIN g_thread.results : \A b \in DOMAIN g_thread.results :
           Graph!Cardinality(g_thread.results[b].ledger)
             <= Graph!Cardinality(g_thread.results[a].ledger)
<1> DEFINE size(a) == Cardinality(g_thread.results[a].ledger)
           D == DOMAIN g_thread.results
           top == Cardinality(Agents)
           lacks == {top - size(a) : a \in D}
<1>1. D # {} /\ \A a \in D : g_thread.results[a].ledger \subseteq Agents
  BY DEF GraphInv, GraphGroup
<1>2. IsFiniteSet(Agents)
  BY GroupingsAssumption, FS_Singleton, FS_Union DEF Agents
<1>3. top \in Nat
  BY <1>2, FS_CardinalityType
<1>4. \A a \in D : size(a) \in Nat /\ size(a) <= top
  BY <1>1, <1>2, FS_Subset, FS_CardinalityType
<1> HIDE DEF size, top, D
<1>5. lacks \subseteq Nat /\ lacks # {}
  BY <1>1, <1>3, <1>4
<1>6. \E k \in lacks : \A other \in lacks : k <= other
  <2> HIDE DEF lacks
  <2> QED
    BY <1>5, LeastOf
<1>7. PICK a \in D : \A other \in lacks : top - size(a) <= other
  BY <1>6
<1>8. ASSUME NEW b \in D PROVE size(b) <= size(a)
  <2>1. top - size(b) \in lacks
    BY <1>8
  <2> HIDE DEF lacks
  <2>2. top - size(a) <= top - size(b)
    BY <1>7, <2>1
  <2> QED
    BY <2>2, <1>3, <1>4
<1> QED
  BY <1>8, SizeIs DEF size, D

\* The process that merges, with the ledgers of the worker that had counted most.
LEMMA WorkerIs ==
  ASSUME GraphInv, g_thread.node = "merge"
  PROVE  LET q == Graph!_restore_worker_snapshot(Graph!_hydrate(g_proc))
         IN  /\ IsProcess(q) /\ q.on = g_proc.on /\ q.hydrated
             /\ q.running = g_proc.running
             /\ q.mem = g_thread.snap.m
<1> DEFINE h == Graph!_hydrate(g_proc)
           richest == CHOOSE a \in DOMAIN g_thread.results :
                         \A b \in DOMAIN g_thread.results :
                           Graph!Cardinality(g_thread.results[b].ledger)
                             <= Graph!Cardinality(g_thread.results[a].ledger)
           q == Graph!_restore_worker_snapshot(h)
<1>1. IsProcess(h) /\ h.on = g_proc.on /\ h.hydrated
      /\ h.running = g_proc.running /\ h.mem = g_thread.snap.m
  BY HydratedIs
<1>2. richest \in DOMAIN g_thread.results
  BY RichestIs
<1>3. g_thread.results[richest].ledger \in SUBSET Agents
  <2> HIDE DEF richest
  <2> QED
    BY <1>2 DEF GraphInv, GraphGroup
<1>4. q = IF g_proc.hydrated THEN h
          ELSE [h EXCEPT !.ledger = g_thread.results[richest].ledger]
  BY Zenon DEF Graph!_restore_worker_snapshot
<1> HIDE DEF h, richest, q
<1>5. IsProcess(q) /\ q.on = h.on /\ q.hydrated = h.hydrated /\ q.running = h.running
      /\ q.mem = h.mem
  BY <1>1, <1>3, <1>4 DEF IsProcess
<1> QED
  BY <1>1, <1>5 DEF q, h

-----------------------------------------------------------------------------
(***************************************************************************)
(* The LangGraph executor, step by step.                                   *)
(***************************************************************************)
LEMMA GraphStarts ==
  ASSUME Graph!Init
  PROVE  GraphInv
<1>1. None \notin Graph!Snaps /\ None # "SUCCEEDED"
  BY NoSnapAssumption, NoneAssumption
<1> QED
  BY <1>1
  DEF Graph!Init, Graph!NoThread, Graph!NoProcess, GraphInv, GraphRow, GraphThread,
      GraphProc, GraphGroup, GraphSuccess, IsThread, IsProcess, Graph!Ended, Nodes

LEMMA GraphDispatched ==
  ASSUME GraphInv, Graph!Dispatch
  PROVE  GraphInv'
<1> USE DEF GraphInv, GraphRow, GraphThread, GraphProc, GraphGroup, GraphSuccess,
            GraphKept, GraphKnows, Graph!Ended
<1> DEFINE new == g_row.status \in {"QUEUED", "FAILED", "TIMED_OUT"}
           request == IF new \/ g_thread.interrupted \/ g_thread.snap = None
                      THEN g_row.snapshot ELSE None
<1>1. /\ g_row' = [g_row EXCEPT !.status = "RUNNING"]
      /\ g_proc' = [Graph!NoProcess EXCEPT !.on = TRUE, !.request = request]
      /\ g_thread' = IF new THEN [Graph!NoThread EXCEPT !.node = "observe_plan"]
                     ELSE g_thread
      /\ UNCHANGED <<g_won, g_asWritten>>
      /\ new \/ g_row.status \in {"RUNNING", "PAUSED"}
  BY DEF Graph!Dispatch
<1>2. g_row'.status = "RUNNING" /\ g_row'.snapshot = g_row.snapshot
      /\ g_row' \in [status : Graph!Ended \union {"QUEUED", "RUNNING", "PAUSED"},
                     snapshot : Graph!Snaps \union {None}]
  BY <1>1
<1>3. request \in {g_row.snapshot, None}
  OBVIOUS
<1>4. /\ g_proc'.on /\ ~g_proc'.hydrated /\ g_proc'.request = request
      /\ IsProcess(g_proc')
  BY <1>1, <1>3 DEF Graph!NoProcess, IsProcess
<1>5. CASE new
  <2>1. /\ g_thread'.node = "observe_plan" /\ g_thread'.snap = None
        /\ ~g_thread'.interrupted /\ g_thread'.result = None
        /\ g_thread'.results = <<>> /\ IsThread(g_thread')
    BY <1>1, <1>5 DEF Graph!NoThread, IsThread, Nodes
  <2>2. request = g_row.snapshot
    BY <1>5
  <2>3. None # "SUCCEEDED"
    BY NoneAssumption
  <2> HIDE DEF new, request
  <2> QED
    BY <1>1, <1>2, <1>3, <1>4, <2>1, <2>2, <2>3
<1>6. CASE ~new
  <2>1. g_thread' = g_thread /\ g_thread.node # "none"
    BY <1>1, <1>6
  <2>2. g_thread.node = "observe_plan" => request = g_row.snapshot
    OBVIOUS
  <2> HIDE DEF new, request
  <2>3. GraphRow' /\ GraphThread' /\ GraphSuccess'
    BY <1>1, <1>2, <2>1
  <2>4. GraphProc'
    <3> HIDE DEF GraphInv, IsProcess
    <3> QED
      BY <1>2, <1>3, <1>4, <2>1, <2>2
  <2>5. GraphGroup'
    <3>1. GraphGroup /\ g_row'.snapshot = g_row.snapshot
      BY <1>2
    <3> HIDE DEF GraphInv
    <3> QED
      BY <2>1, <3>1
  <2> QED
    BY <2>3, <2>4, <2>5
<1> QED
  BY <1>5, <1>6

LEMMA GraphApproved ==
  ASSUME GraphInv, NEW chosen \in Approved, Graph!Approve(chosen)
  PROVE  GraphInv'
<1> USE DEF GraphInv, GraphRow, GraphThread, GraphProc, GraphGroup, GraphSuccess,
            GraphKept, GraphKnows, Graph!Ended
<1> DEFINE s == [g_row.snapshot EXCEPT !.plan = chosen]
<1>1. g_row.snapshot \in Graph!Snaps /\ g_row.snapshot # None /\ ~g_proc.on
      /\ g_row.status = "PAUSED"
  BY DEF Graph!Approve
<1>2. s \in Graph!Snaps /\ s.m = g_row.snapshot.m
  BY <1>1, SnapsAre
<1>3. g_row' = [g_row EXCEPT !.snapshot = s]
      /\ UNCHANGED <<g_thread, g_proc, g_won, g_asWritten>>
  BY DEF Graph!Approve
<1> HIDE DEF s
<1>4. g_row'.snapshot = s /\ g_row'.status = "PAUSED" /\ s # None
      /\ g_row' \in [status : Graph!Ended \union {"QUEUED", "RUNNING", "PAUSED"},
                     snapshot : Graph!Snaps \union {None}]
  BY <1>1, <1>2, <1>3, SnapHas
<1>5. GraphRow'
  BY <1>1, <1>2, <1>3, <1>4
<1>6. GraphThread' /\ GraphSuccess'
  BY <1>3
<1>7. GraphProc'
  BY <1>1, <1>3
<1>8. GraphGroup'
  BY <1>1, <1>2, <1>3, <1>4
<1> QED
  BY <1>5, <1>6, <1>7, <1>8

\* The process ends, and the status of the row may change with it.
LEMMA ProcessEnds ==
  ASSUME GraphInv, g_proc' = Graph!NoProcess, NEW status \in Graph!Ended \union {"RUNNING"},
         g_row' = [g_row EXCEPT !.status = status] \/ g_row' = g_row, g_proc.on,
         UNCHANGED <<g_thread, g_won, g_asWritten>>
  PROVE  GraphInv'
<1> USE DEF GraphInv, GraphRow, GraphThread, GraphProc, GraphGroup, GraphSuccess,
            GraphKept, GraphKnows, Graph!Ended
<1>1. /\ ~g_proc'.on /\ ~g_proc'.hydrated /\ IsProcess(g_proc')
  BY DEF Graph!NoProcess, IsProcess
<1>2. g_row'.snapshot = g_row.snapshot /\ (g_row'.status = "PAUSED" => g_row.status = "PAUSED")
      /\ g_row' \in [status : Graph!Ended \union {"QUEUED", "RUNNING", "PAUSED"},
                     snapshot : Graph!Snaps \union {None}]
  OBVIOUS
<1>3. GraphRow' /\ GraphThread' /\ GraphSuccess'
  BY <1>2
<1>4. GraphProc'
  BY <1>1, <1>2
<1>5. GraphGroup'
  BY <1>2
<1> QED
  BY <1>3, <1>4, <1>5

LEMMA GraphInterrupted ==
  ASSUME GraphInv,
         Graph!RequestPause \/ Graph!Crash \/ Graph!RunTimeout \/ Graph!BudgetExceeded
           \/ Graph!Result
  PROVE  GraphInv'
<1>1. CASE Graph!RequestPause
  BY <1>1
  DEF Graph!RequestPause, GraphInv, GraphRow, GraphThread, GraphProc, GraphGroup,
      GraphSuccess, GraphKept, GraphKnows
<1>2. CASE Graph!Crash
  BY <1>2, ProcessEnds DEF Graph!Crash, Graph!Ended
<1>3. CASE Graph!RunTimeout
  BY <1>3, ProcessEnds DEF Graph!RunTimeout, Graph!Ended
<1>4. CASE Graph!BudgetExceeded
  BY <1>4, ProcessEnds DEF Graph!BudgetExceeded, Graph!At, Graph!Ended
<1>5. CASE Graph!Result
  <2>1. g_thread.result \in {"SUCCEEDED", "PARTIAL_SUCCESS"}
    BY <1>5 DEF Graph!Result, Graph!At, GraphInv, GraphThread, IsThread
  <2> QED
    BY <1>5, <2>1, ProcessEnds DEF Graph!Result, Graph!At, Graph!Ended
<1> QED
  BY <1>1, <1>2, <1>3, <1>4, <1>5

\* What the next state knows of the attributes a step leaves.
GraphLearns(m) ==
  /\ m \in Snapshots
  /\ ~g_asWritten' => ReportAtEnd(m)
  /\ Honest(m, g_won')

\* A node that ends with a snapshot of the process leaves the row and the thread
\* in step, when the snapshot executed what the row's did.
LEMMA NodeEnds ==
  ASSUME GraphInv, NEW q, IsProcess(q), q.on, q.hydrated, GraphLearns(q.mem),
         g_proc.on, g_proc' = [q EXCEPT !.request = None],
         IsThread(g_thread'), g_thread'.snap = Graph!Snap(q.mem, q.ledger),
         g_thread'.interrupted =>
           g_thread'.node \in {"approval_gate", "pause_gate"},
         g_thread'.node \in {"approval_gate", "pause_gate", "dispatch", "agent"},
         g_thread'.result = None,
         g_thread'.node = "agent" =>
           /\ q.mem.next \in DOMAIN q.mem.groups
           /\ g_thread'.group = q.mem.groups[q.mem.next] \ q.mem.executed
           /\ g_thread'.group # {},
         \A a \in DOMAIN g_thread'.results : g_thread'.results[a].ledger \subseteq Agents,
         GraphRow', g_row'.status = "RUNNING",
         g_row'.snapshot # None => g_row'.snapshot.m.executed \subseteq q.mem.executed
  PROVE  GraphInv'
<1> USE DEF GraphInv, GraphThread, GraphProc, GraphGroup, GraphSuccess
<1>1. q.mem \in Snapshots /\ q.ledger \in SUBSET Agents
  BY DEF GraphLearns, IsProcess
<1>2. /\ g_thread'.snap \in Graph!Snaps /\ g_thread'.snap.m = q.mem
      /\ g_thread'.snap.plan = None /\ g_thread'.snap # None
  BY <1>1, SnapIs
<1>3. /\ g_proc'.on /\ g_proc'.hydrated /\ g_proc'.request = None
      /\ g_proc'.mem = q.mem /\ IsProcess(g_proc')
  BY DEF IsProcess
<1> HIDE DEF GraphInv
<1>4. GraphThread'
  BY <1>2 DEF GraphKept, GraphKnows, GraphLearns
<1>5. GraphProc'
  BY <1>2, <1>3 DEF GraphKnows, GraphLearns
<1>6. GraphGroup'
  BY <1>2
<1>7. GraphSuccess'
  BY NoneAssumption
<1> QED
  BY <1>4, <1>5, <1>6, <1>7 DEF GraphInv

LEMMA GraphObserved ==
  ASSUME GraphInv, NEW groups \in Groupings, NEW approval \in BOOLEAN,
         Graph!_observe_plan_node(groups, approval)
  PROVE  GraphInv'
<1>1. /\ IsProcess(g_proc) /\ g_proc.on /\ IsThread(g_thread) /\ GraphRow
      /\ g_proc.request = g_row.snapshot /\ g_row.status = "RUNNING"
      /\ g_thread.node = "observe_plan" /\ ~g_thread.interrupted /\ g_thread.result = None
      /\ \A a \in DOMAIN g_thread.results : g_thread.results[a].ledger \subseteq Agents
      /\ UNCHANGED <<g_row, g_won, g_asWritten>>
  BY DEF Graph!_observe_plan_node, Graph!At, GraphInv, GraphThread, GraphProc, GraphGroup
<1>2. GraphRow'
  BY <1>1 DEF GraphRow, GraphKept, GraphKnows
<1>3. CASE g_proc.request # None
  <2> DEFINE q == Graph!RegroupNeeded(g_proc, g_proc.request)
  <2>1. g_proc.request \in Graph!Snaps /\ GraphKnows(g_proc.request.m)
    BY <1>1, <1>3 DEF GraphRow, GraphKept
  <2>2. IsProcess(q) /\ q.on /\ q.hydrated /\ Carries(g_proc.request.m, q.mem)
    BY <1>1, <2>1, RegroupedIs
  <2>3. /\ g_proc' = [q EXCEPT !.request = None]
        /\ g_thread' = [g_thread EXCEPT !.snap = Graph!Snap(q.mem, q.ledger),
                                        !.node = "dispatch"]
    BY <1>3 DEF Graph!_observe_plan_node, Graph!Commit, Graph!Export
  <2> HIDE DEF q
  <2>4. GraphLearns(q.mem)
    BY <1>1, <2>1, <2>2, CarriesHonesty DEF GraphKnows, GraphLearns, Carries
  <2>5. Graph!Snap(q.mem, q.ledger) \in Graph!Snaps
    BY <2>2, SnapIs DEF Carries, IsProcess
  <2>6. /\ IsThread(g_thread') /\ g_thread'.snap = Graph!Snap(q.mem, q.ledger)
        /\ ~g_thread'.interrupted /\ g_thread'.node = "dispatch"
        /\ g_thread'.result = None /\ g_thread'.results = g_thread.results
    BY <1>1, <2>3, <2>5 DEF IsThread, Nodes
  <2>7. g_row'.snapshot.m.executed = q.mem.executed
    BY <1>1, <2>2 DEF Carries
  <2> QED
    BY <1>1, <1>2, <2>2, <2>3, <2>4, <2>6, <2>7, NodeEnds
<1>4. CASE g_proc.request = None
  <2> DEFINE m == Fresh(groups)
             q == [g_proc EXCEPT !.hydrated = TRUE, !.mem = m]
             node == IF approval THEN "approval_gate" ELSE "dispatch"
  <2>1. m \in Snapshots /\ ReportAtEnd(m) /\ \A S : Honest(m, S)
    BY FreshKnows
  <2>2. /\ g_proc' = [q EXCEPT !.request = None]
        /\ g_thread' = [g_thread EXCEPT !.snap = Graph!Snap(q.mem, q.ledger), !.node = node]
    BY <1>4, GraphSame DEF Graph!_observe_plan_node, Graph!Commit, Graph!Export
  <2> HIDE DEF m
  <2>3. IsProcess(q) /\ q.on /\ q.hydrated /\ q.mem = m
    BY <1>1 DEF IsProcess
  <2> HIDE DEF q
  <2>4. GraphLearns(q.mem)
    BY <2>1, <2>3 DEF GraphLearns
  <2>5. Graph!Snap(q.mem, q.ledger) \in Graph!Snaps
    BY <2>1, <2>3, SnapIs DEF IsProcess
  <2>6. /\ IsThread(g_thread') /\ g_thread'.snap = Graph!Snap(q.mem, q.ledger)
        /\ ~g_thread'.interrupted /\ g_thread'.node \in {"approval_gate", "dispatch"}
        /\ g_thread'.result = None /\ g_thread'.results = g_thread.results
    BY <1>1, <2>2, <2>5 DEF IsThread, Nodes
  <2>7. g_row'.snapshot = None
    BY <1>1, <1>4
  <2> QED
    BY <1>1, <1>2, <2>2, <2>3, <2>4, <2>6, <2>7, NodeEnds
<1> QED
  BY <1>3, <1>4

LEMMA GraphPasses ==
  ASSUME GraphInv, Graph!GatePasses
  PROVE  GraphInv'
<1> DEFINE s == g_proc.request
           q == IF g_thread.node = "approval_gate" THEN Graph!RegroupNeeded(g_proc, s)
                ELSE Graph!Restored(g_proc, s)
<1>1. /\ IsProcess(g_proc) /\ g_proc.on /\ IsThread(g_thread) /\ GraphRow
      /\ s = g_row.snapshot /\ s # None /\ g_row.status = "RUNNING"
      /\ g_thread.node \in {"approval_gate", "pause_gate"} /\ g_thread.result = None
      /\ \A a \in DOMAIN g_thread.results : g_thread.results[a].ledger \subseteq Agents
      /\ UNCHANGED <<g_row, g_won>>
  BY DEF Graph!GatePasses, GraphInv, GraphThread, GraphProc, GraphGroup
<1>2. /\ g_proc' = [q EXCEPT !.request = None]
      /\ g_thread' = [g_thread EXCEPT !.interrupted = FALSE, !.node = "dispatch",
                                      !.snap = Graph!Snap(q.mem, q.ledger)]
      /\ g_asWritten' = IF g_thread.node = "pause_gate" /\ s.plan # None
                        THEN TRUE ELSE g_asWritten
  BY DEF Graph!GatePasses, Graph!Commit, Graph!Export
<1>3. s \in Graph!Snaps /\ GraphKnows(s.m)
  BY <1>1 DEF GraphRow, GraphKept
<1>4. g_asWritten => g_asWritten'
  BY <1>2
<1>5. IsProcess(q) /\ q.on /\ q.hydrated /\ q.mem \in Snapshots
      /\ q.mem.executed = s.m.executed /\ Honest(q.mem, g_won)
  <2>1. CASE g_thread.node = "approval_gate"
    BY <1>1, <1>3, <2>1, RegroupedIs, CarriesHonesty DEF Carries, GraphKnows
  <2>2. CASE g_thread.node # "approval_gate"
    BY <1>1, <1>3, <2>2, RestoredIs DEF GraphKnows
  <2> QED
    BY <2>1, <2>2
<1>6. ASSUME ~g_asWritten' PROVE ReportAtEnd(q.mem)
  <2>1. ReportAtEnd(s.m)
    BY <1>3, <1>4, <1>6 DEF GraphKnows
  <2>2. CASE g_thread.node = "approval_gate"
    BY <1>1, <1>3, <2>1, <2>2, RegroupedIs DEF Carries
  <2>3. CASE g_thread.node = "pause_gate"
    <3>1. s.plan = None
      BY <1>2, <1>6, <2>3
    <3> QED
      BY <1>1, <1>3, <2>1, <2>3, <3>1, RestoredIs
  <2> QED
    BY <1>1, <2>2, <2>3
<1> HIDE DEF q
<1>7. GraphLearns(q.mem)
  BY <1>1, <1>5, <1>6 DEF GraphLearns
<1>8. Graph!Snap(q.mem, q.ledger) \in Graph!Snaps
  BY <1>5, SnapIs DEF IsProcess
<1>9. /\ IsThread(g_thread') /\ g_thread'.snap = Graph!Snap(q.mem, q.ledger)
      /\ ~g_thread'.interrupted /\ g_thread'.node = "dispatch"
      /\ g_thread'.result = None /\ g_thread'.results = g_thread.results
  BY <1>1, <1>2, <1>8 DEF IsThread, Nodes
<1>10. GraphRow'
  BY <1>1, <1>4 DEF GraphRow, GraphKept, GraphKnows
<1> QED
  BY <1>1, <1>2, <1>5, <1>7, <1>9, <1>10, NodeEnds

\* A gate interrupts; the interrupted graph ends the process.
LEMMA GraphPauses ==
  ASSUME GraphInv, Graph!Interrupt \/ Graph!_paused_result
  PROVE  GraphInv'
<1> USE DEF GraphInv, GraphRow, GraphThread, GraphProc, GraphGroup, GraphSuccess,
            GraphKept, GraphKnows, Graph!Ended
<1>1. CASE Graph!Interrupt
  <2> DEFINE h == Graph!_hydrate(g_proc)
  <2>1. /\ g_thread.node \in {"approval_gate", "pause_gate"} /\ g_proc.on
        /\ g_thread' = [g_thread EXCEPT !.interrupted = TRUE]
        /\ g_proc' = [h EXCEPT !.request = None]
        /\ UNCHANGED <<g_row, g_won, g_asWritten>>
    BY <1>1 DEF Graph!Interrupt, Graph!Commit, Graph!At
  <2>2. IsProcess(h) /\ h.on /\ h.hydrated /\ h.mem = g_thread.snap.m
    BY <2>1, HydratedIs
  <2> HIDE DEF h
  <2>3. /\ g_proc'.on /\ g_proc'.hydrated /\ g_proc'.request = None
        /\ g_proc'.mem = g_thread.snap.m /\ IsProcess(g_proc')
    BY <2>1, <2>2 DEF IsProcess
  <2>4. /\ IsThread(g_thread') /\ g_thread'.interrupted /\ g_thread'.node = g_thread.node
        /\ g_thread'.snap = g_thread.snap /\ g_thread'.group = g_thread.group
        /\ g_thread'.results = g_thread.results /\ g_thread'.result = g_thread.result
    BY <2>1 DEF IsThread
  <2>5. GraphRow' /\ GraphThread' /\ GraphSuccess'
    BY <2>1, <2>4
  <2>6. GraphProc'
    BY <2>1, <2>3, <2>4
  <2>7. GraphGroup'
    BY <2>1, <2>4
  <2> QED
    BY <2>5, <2>6, <2>7
<1>2. CASE Graph!_paused_result
  <2>1. /\ g_thread.node \in {"approval_gate", "pause_gate"}
        /\ g_row' = [status |-> "PAUSED", snapshot |-> g_thread.snap]
        /\ g_proc' = Graph!NoProcess
        /\ UNCHANGED <<g_thread, g_won, g_asWritten>>
    BY <1>2 DEF Graph!_paused_result
  <2>2. /\ ~g_proc'.on /\ ~g_proc'.hydrated /\ IsProcess(g_proc')
    BY <2>1 DEF Graph!NoProcess, IsProcess
  <2>3. g_row'.snapshot = g_thread.snap /\ g_row'.snapshot \in Graph!Snaps
        /\ g_row'.snapshot # None /\ g_row'.status = "PAUSED"
        /\ g_row' \in [status : Graph!Ended \union {"QUEUED", "RUNNING", "PAUSED"},
                       snapshot : Graph!Snaps \union {None}]
    BY <2>1
  <2>4. GraphRow' /\ GraphThread' /\ GraphSuccess'
    BY <2>1, <2>3
  <2>5. GraphProc'
    BY <2>1, <2>2, <2>3
  <2>6. GraphGroup'
    BY <2>1, <2>3
  <2> QED
    BY <2>4, <2>5, <2>6
<1> QED
  BY <1>1, <1>2

LEMMA GraphSends ==
  ASSUME GraphInv, Graph!_dispatch_node
  PROVE  GraphInv'
<1> DEFINE h == Graph!_hydrate(g_proc)
           m == Graph!SkipAll(h.mem)
           next == [m EXCEPT !.next = @ + 1]
           sender == [h EXCEPT !.mem = next]
           over == [h EXCEPT !.mem = m]
<1>1. /\ g_proc.on /\ IsThread(g_thread) /\ GraphRow /\ g_row.status = "RUNNING"
      /\ g_thread.node = "dispatch" /\ ~g_thread.interrupted /\ g_thread.result = None
      /\ g_thread.snap # None /\ GraphKept(g_thread.snap) /\ g_thread.snap.plan = None
      /\ \A a \in DOMAIN g_thread.results : g_thread.results[a].ledger \subseteq Agents
      /\ g_row.snapshot # None =>
           g_row.snapshot.m.executed \subseteq g_thread.snap.m.executed
      /\ UNCHANGED <<g_row, g_won, g_asWritten>>
  BY DEF Graph!_dispatch_node, Graph!At, GraphInv, GraphThread, GraphProc, GraphGroup
<1>2. IsProcess(h) /\ h.on /\ h.hydrated /\ GraphKnows(h.mem) /\ h.mem = g_thread.snap.m
  BY <1>1, HydratedIs
<1>3. IF g_pausing
      THEN /\ g_proc' = [h EXCEPT !.request = None]
           /\ g_thread' = [g_thread EXCEPT !.node = "pause_gate",
                                           !.snap = Graph!Snap(h.mem, h.ledger)]
      ELSE IF Left(m)
      THEN /\ g_proc' = [sender EXCEPT !.request = None]
           /\ g_thread' = [g_thread EXCEPT !.node = "agent", !.group = Group(m),
                              !.results = <<>>, !.snap = Graph!Snap(sender.mem, sender.ledger)]
      ELSE /\ g_proc' = [over EXCEPT !.request = None]
           /\ g_thread' = [g_thread EXCEPT !.node = "finalize"]
  <2> HIDE DEF h
  <2>1. (Graph!Left(m) <=> Left(m)) /\ Graph!Group(m) = Group(m)
    BY GraphSame
  <2> HIDE DEF m
  <2> QED
    BY <2>1 DEF Graph!_dispatch_node, Graph!Commit, Graph!Export, h, m
<1>4. GraphRow'
  BY <1>1 DEF GraphRow, GraphKept, GraphKnows
<1>5. /\ Carries(h.mem, m) /\ m.groups = h.mem.groups
      /\ Left(m) => Group(m) # {} /\ m.next + 1 \in DOMAIN m.groups
  BY <1>2, SkipAllCarries DEF GraphKnows
<1> HIDE DEF h
<1>6. GraphLearns(h.mem)
  BY <1>1, <1>2 DEF GraphKnows, GraphLearns
<1>7. m \in Snapshots /\ GraphLearns(m) /\ m.executed = h.mem.executed
  BY <1>5, <1>6, CarriesHonesty DEF GraphLearns, Carries
<1> HIDE DEF m
<1>8. CASE g_pausing
  <2>1. Graph!Snap(h.mem, h.ledger) \in Graph!Snaps
    BY <1>2, SnapIs DEF IsProcess, GraphKnows
  <2>2. /\ IsThread(g_thread') /\ g_thread'.snap = Graph!Snap(h.mem, h.ledger)
        /\ ~g_thread'.interrupted /\ g_thread'.node = "pause_gate"
        /\ g_thread'.result = None /\ g_thread'.results = g_thread.results
    BY <1>1, <1>3, <1>8, <2>1 DEF IsThread, Nodes
  <2> QED
    BY <1>1, <1>2, <1>3, <1>4, <1>6, <1>8, <2>2, NodeEnds
<1>9. CASE ~g_pausing /\ Left(m)
  <2>1. m.next + 1 \in Nat
    BY <1>7 DEF Snapshots
  <2>2. Carries(m, next) /\ next.groups = m.groups /\ next.next = m.next + 1
    BY <1>7, <2>1, MovedCarries DEF Snapshots
  <2>3. GraphLearns(next) /\ next.executed = m.executed
    BY <1>7, <2>2, CarriesHonesty DEF GraphLearns, Carries
  <2> HIDE DEF next
  <2>4. IsProcess(sender) /\ sender.on /\ sender.hydrated /\ sender.mem = next
    BY <1>2 DEF IsProcess
  <2>5. g_proc' = [sender EXCEPT !.request = None]
        /\ g_thread' = [g_thread EXCEPT !.node = "agent", !.group = Group(m),
                           !.results = <<>>, !.snap = Graph!Snap(sender.mem, sender.ledger)]
    BY <1>3, <1>9
  <2> HIDE DEF sender
  <2>6. Graph!Snap(sender.mem, sender.ledger) \in Graph!Snaps
    BY <2>3, <2>4, SnapIs DEF IsProcess, GraphLearns
  <2>7. Group(m) \in SUBSET Agents /\ Group(m) # {}
        /\ Group(m) = next.groups[next.next] \ next.executed
        /\ next.next \in DOMAIN next.groups
    BY <1>5, <1>7, <1>9, <2>2, <2>3, GroupIs
  <2>8. /\ IsThread(g_thread') /\ g_thread'.snap = Graph!Snap(sender.mem, sender.ledger)
        /\ ~g_thread'.interrupted /\ g_thread'.node = "agent"
        /\ g_thread'.group = Group(m)
        /\ g_thread'.result = None /\ g_thread'.results = <<>>
    BY <1>1, <2>5, <2>6, <2>7 DEF IsThread, Nodes
  <2>9. \A a \in DOMAIN g_thread'.results : g_thread'.results[a].ledger \subseteq Agents
    BY <2>8
  <2>10. g_row'.snapshot # None => g_row'.snapshot.m.executed \subseteq sender.mem.executed
    BY <1>1, <1>2, <1>7, <2>3, <2>4
  <2> QED
    BY <1>1, <1>4, <2>3, <2>4, <2>5, <2>7, <2>8, <2>9, <2>10, NodeEnds
<1>10. CASE ~g_pausing /\ ~Left(m)
  <2>1. g_proc' = [over EXCEPT !.request = None]
        /\ g_thread' = [g_thread EXCEPT !.node = "finalize"]
    BY <1>3, <1>10
  <2>2. /\ g_proc'.on /\ g_proc'.hydrated /\ g_proc'.request = None
        /\ g_proc'.mem = m /\ IsProcess(g_proc')
    BY <1>2, <2>1 DEF IsProcess
  <2> HIDE DEF over
  <2>3. /\ IsThread(g_thread') /\ ~g_thread'.interrupted /\ g_thread'.node = "finalize"
        /\ g_thread'.snap = g_thread.snap /\ g_thread'.group = g_thread.group
        /\ g_thread'.results = g_thread.results /\ g_thread'.result = None
    BY <1>1, <2>1 DEF IsThread, Nodes
  <2>4. GraphThread'
    BY <1>1, <2>3 DEF GraphThread, GraphKept, GraphKnows
  <2>5. GraphProc'
    BY <1>1, <1>7, <2>2, <2>3 DEF GraphProc, GraphKnows, GraphLearns
  <2>6. GraphGroup'
    BY <1>1, <2>3 DEF GraphGroup
  <2>7. GraphSuccess'
    BY <2>3, NoneAssumption DEF GraphSuccess
  <2> QED
    BY <1>4, <2>4, <2>5, <2>6, <2>7 DEF GraphInv
<1> QED
  BY <1>8, <1>9, <1>10

\* An agent starts, and its result is written with the ledgers of the process.
LEMMA GraphWorks ==
  ASSUME GraphInv, NEW a \in Agents,
         Graph!AgentStarts(a) \/ (\E result \in Outcomes : Graph!_agent_node(a, result))
  PROVE  GraphInv'
<1> USE DEF GraphInv, GraphRow, GraphThread, GraphProc, GraphGroup, GraphSuccess,
            GraphKept, GraphKnows
<1>1. CASE Graph!AgentStarts(a)
  <2> DEFINE h == Graph!_hydrate(g_proc)
  <2>1. /\ g_thread.node = "agent" /\ g_proc.on
        /\ g_proc' = [h EXCEPT !.running = @ \union {a}]
        /\ UNCHANGED <<g_row, g_thread, g_won, g_asWritten>>
    BY <1>1 DEF Graph!AgentStarts, Graph!At
  <2>2. IsProcess(h) /\ h.on /\ h.hydrated /\ h.mem = g_thread.snap.m
        /\ h.request = g_proc.request
    BY <2>1, HydratedIs
  <2> HIDE DEF h
  <2>3. /\ g_proc'.on /\ g_proc'.hydrated /\ g_proc'.request = g_proc.request
        /\ g_proc'.mem = g_thread.snap.m /\ IsProcess(g_proc')
    BY <2>1, <2>2 DEF IsProcess
  <2>4. GraphRow' /\ GraphThread' /\ GraphSuccess' /\ GraphGroup'
    BY <2>1
  <2>5. GraphProc'
    BY <2>1, <2>3
  <2> QED
    BY <2>4, <2>5
<1>2. ASSUME NEW result \in Outcomes, Graph!_agent_node(a, result) PROVE GraphInv'
  <2> DEFINE q == [g_proc EXCEPT !.running = @ \ {a}, !.ledger = @ \union {a}]
             entry == [outcome |-> result, ledger |-> q.ledger]
             results == [x \in DOMAIN g_thread.results \union {a} |->
                           IF x = a THEN entry ELSE g_thread.results[x]]
             node == IF DOMAIN results = g_thread.group THEN "merge" ELSE "agent"
  <2>1. /\ g_thread.node = "agent" /\ g_proc.on /\ ~g_thread.interrupted
        /\ g_proc' = [q EXCEPT !.request = None]
        /\ g_thread' = [g_thread EXCEPT !.results = results, !.node = node]
        /\ UNCHANGED <<g_row, g_won, g_asWritten>>
    BY <1>2 DEF Graph!_agent_node, Graph!Commit, Graph!At
  <2>2. IsProcess(q) /\ q.on /\ q.hydrated = g_proc.hydrated /\ q.mem = g_proc.mem
    BY <2>1 DEF IsProcess
  <2>3. q.ledger \in SUBSET Agents
    BY <2>2 DEF IsProcess
  <2>4. \A x \in DOMAIN results : results[x].ledger \subseteq Agents
    BY <2>3
  <2>5. node \in {"agent", "merge"} /\ (node = "merge" => DOMAIN results = g_thread.group)
    OBVIOUS
  <2> HIDE DEF q, results, node
  <2>6. /\ g_proc'.on /\ g_proc'.hydrated = g_proc.hydrated /\ g_proc'.request = None
        /\ g_proc'.mem = g_proc.mem /\ IsProcess(g_proc')
    BY <2>1, <2>2 DEF IsProcess
  <2>7. /\ IsThread(g_thread') /\ ~g_thread'.interrupted /\ g_thread'.node = node
        /\ g_thread'.snap = g_thread.snap /\ g_thread'.group = g_thread.group
        /\ g_thread'.results = results /\ g_thread'.result = g_thread.result
    BY <2>1, <2>5 DEF IsThread, Nodes
  <2>8. GraphRow' /\ GraphSuccess'
    BY <2>1, <2>7
  <2>9. GraphThread'
    BY <2>1, <2>5, <2>7
  <2>10. GraphProc'
    BY <2>1, <2>5, <2>6, <2>7
  <2>11. GraphGroup'
    BY <2>1, <2>4, <2>5, <2>7
  <2> QED
    BY <2>8, <2>9, <2>10, <2>11
<1> QED
  BY <1>1, <1>2

\* What the merge of the group makes of the attributes.
LEMMA MergedIs ==
  ASSUME GraphInv, g_thread.node = "merge", NEW streak,
         g_won' = g_won \union {a \in DOMAIN Graph!outcomes : Graph!outcomes[a] = "ok"},
         UNCHANGED g_asWritten
  PROVE  LET q == GiveUp(Merge(g_thread.snap.m, g_thread.group, Graph!outcomes), streak)
         IN  /\ GraphLearns(q)
             /\ q.executed = g_thread.snap.m.executed \union g_thread.group
<1> DEFINE m == g_thread.snap.m
           group == g_thread.group
           results == Graph!outcomes
           ok == Succeeded(group, results)
           merged == Merge(m, group, results)
           q == GiveUp(merged, streak)
<1>1. GraphKnows(m) /\ group \in SUBSET Agents /\ DOMAIN g_thread.results = group
  BY DEF GraphInv, GraphThread, GraphKept, GraphGroup, IsThread
<1>2. DOMAIN results = group
  BY <1>1 DEF Graph!outcomes
<1>3. g_won \union ok \subseteq g_won'
  BY <1>2 DEF Succeeded
<1> HIDE DEF m, group, results
<1>4. /\ merged \in Snapshots /\ merged.executed = m.executed \union group
      /\ ReportAtEnd(m) => ReportAtEnd(merged)
      /\ Honest(merged, g_won \union ok)
  BY <1>1, MergeKnows DEF GraphKnows
<1> HIDE DEF merged, ok
<1>5. Carries(merged, q)
  BY <1>4, GiveUpCarries
<1> HIDE DEF q
<1>6. Honest(q, g_won')
  BY <1>3, <1>4, <1>5, CarriesHonesty, HonestMore
<1>7. GraphLearns(q)
  BY <1>1, <1>4, <1>5, <1>6 DEF GraphLearns, GraphKnows, Carries
<1>8. q.executed = m.executed \union group
  BY <1>4, <1>5 DEF Carries
<1> QED
  BY <1>7, <1>8 DEF q, merged, m, group, results

LEMMA WonGrows ==
  ASSUME g_won \subseteq g_won', UNCHANGED g_asWritten, NEW m, GraphKnows(m)
  PROVE  GraphLearns(m)
BY HonestMore DEF GraphKnows, GraphLearns

LEMMA GraphMerges ==
  ASSUME GraphInv, Graph!_merge_node
  PROVE  GraphInv'
<1> DEFINE w == Graph!_restore_worker_snapshot(Graph!_hydrate(g_proc))
           streak == Graph!GroupFailures(g_thread.failures, g_thread.group, Graph!outcomes)
           merged == GiveUp(Merge(w.mem, g_thread.group, Graph!outcomes), streak)
           q == [w EXCEPT !.mem = merged]
           node == IF g_pausing THEN "pause_gate" ELSE "dispatch"
<1>1. /\ g_proc.on /\ IsThread(g_thread) /\ GraphRow /\ g_row.status = "RUNNING"
      /\ g_thread.node = "merge" /\ ~g_thread.interrupted /\ g_thread.result = None
      /\ g_row.snapshot # None =>
           g_row.snapshot.m.executed \subseteq g_thread.snap.m.executed \union g_thread.group
  BY DEF Graph!_merge_node, Graph!At, GraphInv, GraphThread, GraphProc, GraphGroup
<1>2. /\ g_proc' = [q EXCEPT !.request = None]
      /\ g_thread' = [g_thread EXCEPT !.failures = streak,
                         !.snap = Graph!Snap(q.mem, q.ledger), !.results = <<>>,
                         !.node = node]
      /\ \/ g_row' = [g_row EXCEPT !.snapshot = Graph!Snap(q.mem, q.ledger)]
         \/ g_row' = g_row
      /\ g_won' = g_won \union {a \in DOMAIN Graph!outcomes : Graph!outcomes[a] = "ok"}
      /\ g_asWritten' = g_asWritten
  <2> HIDE DEF w, streak
  <2>1. Graph!GiveUp(Graph!Merge(w.mem, g_thread.group, Graph!outcomes), streak) = merged
    BY GraphSame
  <2> HIDE DEF merged
  <2> QED
    BY <2>1 DEF Graph!_merge_node, Graph!Commit, Graph!Export, w, streak
<1>3. IsProcess(w) /\ w.on /\ w.hydrated /\ w.mem = g_thread.snap.m
  BY <1>1, WorkerIs
<1> HIDE DEF w, streak
<1>4. GraphLearns(merged) /\ merged.executed = g_thread.snap.m.executed \union g_thread.group
  BY <1>1, <1>2, <1>3, MergedIs
<1> HIDE DEF merged
<1>5. IsProcess(q) /\ q.on /\ q.hydrated /\ q.mem = merged
  BY <1>3 DEF IsProcess
<1> HIDE DEF q
<1>6. LET s == Graph!Snap(q.mem, q.ledger)
      IN  s \in Graph!Snaps /\ s.m = merged /\ s # None
  BY <1>4, <1>5, SnapIs DEF IsProcess, GraphLearns
<1>7. /\ IsThread(g_thread') /\ g_thread'.snap = Graph!Snap(q.mem, q.ledger)
      /\ ~g_thread'.interrupted /\ g_thread'.node \in {"pause_gate", "dispatch"}
      /\ g_thread'.result = None /\ g_thread'.results = <<>>
  BY <1>1, <1>2, <1>6 DEF IsThread, Nodes
<1>8. \A a \in DOMAIN g_thread'.results : g_thread'.results[a].ledger \subseteq Agents
  BY <1>7
<1>9. GraphRow' /\ g_row'.status = "RUNNING"
      /\ (g_row'.snapshot # None => g_row'.snapshot.m.executed \subseteq merged.executed)
  <2> DEFINE s == Graph!Snap(q.mem, q.ledger)
  <2>1. g_won \subseteq g_won'
    BY <1>2
  <2>2. s \in Graph!Snaps /\ s.m = merged /\ s # None
    BY <1>6
  <2> HIDE DEF s
  <2>3. CASE g_row' = [g_row EXCEPT !.snapshot = s]
    <3>1. g_row'.snapshot = s /\ g_row'.status = "RUNNING"
          /\ g_row' \in [status : Graph!Ended \union {"QUEUED", "RUNNING", "PAUSED"},
                         snapshot : Graph!Snaps \union {None}]
      BY <1>1, <2>2, <2>3 DEF GraphRow
    <3> QED
      BY <1>4, <2>2, <3>1 DEF GraphRow, GraphKept, GraphKnows, GraphLearns
  <2>4. CASE g_row' = g_row
    <3>1. g_row.snapshot # None => GraphLearns(g_row.snapshot.m)
      BY <1>1, <1>2, <2>1, WonGrows DEF GraphRow, GraphKept
    <3> QED
      BY <1>1, <1>4, <2>4, <3>1 DEF GraphRow, GraphKept, GraphKnows, GraphLearns
  <2> QED
    BY <1>2, <2>3, <2>4 DEF s
<1> QED
  BY <1>1, <1>2, <1>4, <1>5, <1>7, <1>8, <1>9, NodeEnds

\* The row has the checkpoint of a merge that the thread does not know of.
LEMMA GraphMergeLost ==
  ASSUME GraphInv, Graph!MergeCrashes
  PROVE  GraphInv'
<1> DEFINE w == Graph!_restore_worker_snapshot(Graph!_hydrate(g_proc))
           streak == Graph!GroupFailures(g_thread.failures, g_thread.group, Graph!outcomes)
           merged == GiveUp(Merge(w.mem, g_thread.group, Graph!outcomes), streak)
           s == Graph!Snap(merged, w.ledger)
<1>1. /\ g_proc.on /\ GraphRow /\ GraphThread /\ GraphGroup /\ GraphSuccess
      /\ g_row.status = "RUNNING" /\ g_thread.node = "merge"
  BY DEF Graph!MergeCrashes, Graph!At, GraphInv, GraphProc
<1>2. /\ g_proc' = Graph!NoProcess
      /\ g_row' = [g_row EXCEPT !.snapshot = s]
      /\ g_won' = g_won \union {a \in DOMAIN Graph!outcomes : Graph!outcomes[a] = "ok"}
      /\ UNCHANGED <<g_thread, g_asWritten>>
  <2> HIDE DEF w, streak
  <2>1. Graph!GiveUp(Graph!Merge(w.mem, g_thread.group, Graph!outcomes), streak) = merged
    BY GraphSame
  <2> HIDE DEF merged
  <2> QED
    BY <2>1 DEF Graph!MergeCrashes, w, streak
<1>3. IsProcess(w) /\ w.mem = g_thread.snap.m
  BY <1>1, WorkerIs
<1> HIDE DEF w, streak
<1>4. GraphLearns(merged) /\ merged.executed = g_thread.snap.m.executed \union g_thread.group
  BY <1>1, <1>2, <1>3, MergedIs
<1> HIDE DEF merged
<1>5. s \in Graph!Snaps /\ s.m = merged /\ s # None
  BY <1>3, <1>4, SnapIs DEF IsProcess, GraphLearns
<1> HIDE DEF s
<1>6. g_row'.snapshot = s /\ g_row'.status = "RUNNING"
      /\ g_row' \in [status : Graph!Ended \union {"QUEUED", "RUNNING", "PAUSED"},
                     snapshot : Graph!Snaps \union {None}]
  BY <1>1, <1>2, <1>5 DEF GraphRow
<1>7. GraphRow'
  BY <1>2, <1>4, <1>5, <1>6 DEF GraphRow, GraphKept, GraphKnows, GraphLearns
<1>8. g_won \subseteq g_won'
  BY <1>2
<1>9. g_thread.snap # None => GraphLearns(g_thread.snap.m)
  BY <1>1, <1>2, <1>8, WonGrows DEF GraphThread, GraphKept
<1>10. GraphThread' /\ GraphSuccess'
  BY <1>1, <1>2, <1>8, <1>9
  DEF GraphThread, GraphSuccess, GraphKept, GraphKnows, GraphLearns
<1>11. ~g_proc'.on /\ ~g_proc'.hydrated /\ IsProcess(g_proc')
  BY <1>2 DEF Graph!NoProcess, IsProcess
<1>12. GraphProc'
  BY <1>2, <1>11 DEF GraphProc
<1>13. GraphGroup'
  BY <1>1, <1>2, <1>4, <1>5, <1>6 DEF GraphGroup
<1> QED
  BY <1>7, <1>10, <1>12, <1>13 DEF GraphInv

\* The status a completed thread keeps is earned.
LEMMA GraphFinalizes ==
  ASSUME GraphInv, NEW contract \in BOOLEAN, Graph!_finalize_node(contract)
  PROVE  GraphInv'
<1> DEFINE h == Graph!_hydrate(g_proc)
           m == Concluded(h.mem)
           status == FinalStatus(h.mem, contract)
           s == Graph!Snap(m, h.ledger)
<1>1. /\ g_proc.on /\ GraphRow /\ GraphThread /\ GraphGroup /\ g_thread.node = "finalize"
      /\ g_row.status = "RUNNING" /\ ~g_thread.interrupted
  BY DEF Graph!_finalize_node, Graph!At, GraphInv, GraphProc
<1>2. /\ g_proc' = [h EXCEPT !.request = None]
      /\ g_thread' = [g_thread EXCEPT !.node = "end", !.result = status, !.snap = s]
      /\ UNCHANGED <<g_row, g_won, g_asWritten>>
  <2> HIDE DEF h
  <2>1. Graph!Concluded(h.mem) = m /\ Graph!FinalStatus(h.mem, contract) = status
    BY GraphSame
  <2> HIDE DEF m, status
  <2> QED
    BY <2>1 DEF Graph!_finalize_node, Graph!Commit, h
<1>3. IsProcess(h) /\ h.on /\ h.hydrated /\ GraphKnows(h.mem)
  BY <1>1, HydratedIs
<1> HIDE DEF h
<1>4. Carries(h.mem, m)
  BY <1>3, ConcludedCarries DEF GraphKnows
<1>5. status \in {"SUCCEEDED", "PARTIAL_SUCCESS"}
  BY DEF FinalStatus
<1>6. status = "SUCCEEDED" => Terminal \in g_won /\ h.mem.goals \subseteq g_won
  BY <1>3, SucceededIsEarned DEF GraphKnows
<1> HIDE DEF m, status
<1>7. GraphKnows(m) /\ m.goals = h.mem.goals
  BY <1>3, <1>4, CarriesHonesty DEF GraphKnows, Carries
<1>8. s \in Graph!Snaps /\ s.m = m /\ s # None /\ s.plan = None
  BY <1>3, <1>7, SnapIs DEF IsProcess, GraphKnows
<1> HIDE DEF s
<1>9. /\ IsThread(g_thread') /\ ~g_thread'.interrupted /\ g_thread'.node = "end"
      /\ g_thread'.snap = s /\ g_thread'.result = status
      /\ g_thread'.results = g_thread.results
  BY <1>1, <1>2, <1>5, <1>8 DEF GraphThread, IsThread, Nodes
<1>10. GraphRow'
  BY <1>1, <1>2 DEF GraphRow, GraphKept, GraphKnows
<1>11. status # None
  BY <1>5, NoneAssumption
<1>12. GraphThread'
  BY <1>2, <1>7, <1>8, <1>9, <1>11 DEF GraphThread, GraphKept, GraphKnows
<1>13. /\ g_proc'.on /\ g_proc'.hydrated /\ g_proc'.request = None /\ IsProcess(g_proc')
  BY <1>2, <1>3 DEF IsProcess
<1>14. GraphProc'
  BY <1>1, <1>2, <1>9, <1>13 DEF GraphProc
<1>15. GraphGroup'
  BY <1>1, <1>9 DEF GraphGroup
<1>16. GraphSuccess'
  BY <1>2, <1>6, <1>7, <1>8, <1>9 DEF GraphSuccess
<1> QED
  BY <1>10, <1>12, <1>14, <1>15, <1>16 DEF GraphInv

LEMMA GraphStep ==
  ASSUME GraphInv, Graph!Next
  PROVE  GraphInv'
<1>1. Graph!Agents = Agents /\ Graph!Outcomes = Outcomes
  BY GraphSame DEF Outcomes, Graph!Outcomes
<1> QED
  BY <1>1, GraphDispatched, GraphApproved, GraphInterrupted, GraphObserved, GraphPasses,
     GraphPauses, GraphSends, GraphWorks, GraphMerges, GraphMergeLost, GraphFinalizes
  DEF Graph!Next, Graph!Executor

LEMMA GraphStays ==
  ASSUME GraphInv, UNCHANGED gvars
  PROVE  GraphInv'
BY DEF GraphInv, GraphRow, GraphThread, GraphProc, GraphGroup, GraphSuccess, GraphKept,
       GraphKnows, gvars

LEMMA GraphPromises ==
  ASSUME GraphInv
  PROVE  Graph!ReportComesLast /\ Graph!HonestSuccess
<1>1. Graph!HonestSuccess
  BY DEF GraphInv, GraphSuccess, Graph!HonestSuccess
<1>2. ASSUME ~g_asWritten, Terminal \in g_thread.group, g_thread.node = "agent"
      PROVE  /\ g_thread.group = {Terminal}
             /\ \A i \in (g_thread.snap.m.next + 1)..Len(g_thread.snap.m.groups) :
                  g_thread.snap.m.groups[i]
                    \subseteq g_thread.snap.m.executed \union {Terminal}
  <2> DEFINE m == g_thread.snap.m
  <2>1. /\ m \in Snapshots /\ ReportAtEnd(m)
        /\ m.next \in DOMAIN m.groups /\ g_thread.group = m.groups[m.next] \ m.executed
    BY <1>2 DEF GraphInv, GraphThread, GraphGroup, GraphKept, GraphKnows
  <2> HIDE DEF m
  <2>2. \A i \in DOMAIN m.groups : m.next <= i => m.groups[i] = {Terminal}
    BY <1>2, <2>1 DEF ReportAtEnd
  <2>3. m.next \in Nat /\ DOMAIN m.groups = 1..Len(m.groups)
    BY <2>1 DEF Snapshots
  <2>4. g_thread.group = {Terminal}
    BY <1>2, <2>1, <2>2, <2>3
  <2>5. ASSUME NEW i \in (m.next + 1)..Len(m.groups) PROVE m.groups[i] = {Terminal}
    BY <2>2, <2>3
  <2> QED
    BY <2>4, <2>5 DEF m
<1> QED
  BY <1>1, <1>2 DEF Graph!ReportComesLast, Graph!EditedPlanRegrouped

LEMMA GraphNeverRepeats ==
  ASSUME GraphInv, Graph!Next,
         NEW a \in g_proc'.running \ g_proc.running, g_row.snapshot # None
  PROVE  a \notin g_row.snapshot.m.executed
<1>1. ASSUME NEW b \in Agents, Graph!AgentStarts(b) PROVE a \notin g_row.snapshot.m.executed
  <2> DEFINE h == Graph!_hydrate(g_proc)
  <2>1. /\ g_thread.node = "agent" /\ b \in g_thread.group
        /\ g_proc' = [h EXCEPT !.running = @ \union {b}]
    BY <1>1 DEF Graph!AgentStarts, Graph!At
  <2>2. IsProcess(h) /\ h.running = g_proc.running
    BY <2>1, HydratedIs
  <2> HIDE DEF h
  <2>3. g_proc'.running = g_proc.running \union {b}
    BY <2>1, <2>2 DEF IsProcess
  <2>4. b \notin g_row.snapshot.m.executed
    BY <2>1 DEF GraphInv, GraphGroup
  <2> QED
    BY <2>3, <2>4
<1>2. ASSUME ~ \E b \in Agents : Graph!AgentStarts(b) PROVE FALSE
  <2>1. IsProcess(g_proc) /\ g_proc' # g_proc /\ g_proc'.running # {}
    BY DEF GraphInv, GraphProc
  <2>2. g_proc' # Graph!NoProcess
    BY <2>1 DEF Graph!NoProcess
  <2>3. ~Graph!Dispatch
    BY <2>1 DEF Graph!Dispatch, Graph!NoProcess
  <2>4. \/ \E groups \in Groupings, approval \in BOOLEAN :
             Graph!_observe_plan_node(groups, approval)
        \/ Graph!Interrupt \/ Graph!GatePasses \/ Graph!_dispatch_node
        \/ \E b \in Agents, result \in Outcomes : Graph!_agent_node(b, result)
        \/ Graph!_merge_node
        \/ \E contract \in BOOLEAN : Graph!_finalize_node(contract)
    <3>1. Graph!Agents = Agents /\ Graph!Outcomes = Outcomes
      BY GraphSame DEF Outcomes, Graph!Outcomes
    <3> QED
      BY <1>2, <2>1, <2>2, <2>3, <3>1
      DEF Graph!Next, Graph!Executor, Graph!_paused_result, Graph!RequestPause, Graph!Crash,
          Graph!RunTimeout, Graph!MergeCrashes, Graph!BudgetExceeded, Graph!Result,
          Graph!Approve
  <2>5. ASSUME NEW q, IsProcess(q), q.running = g_proc.running,
               g_proc' = [q EXCEPT !.request = None]
        PROVE  FALSE
    <3>1. g_proc'.running = g_proc.running
      BY <2>5 DEF IsProcess
    <3> QED
      BY <3>1
  <2>6. ASSUME NEW groups \in Groupings, NEW approval \in BOOLEAN,
               Graph!_observe_plan_node(groups, approval)
        PROVE  FALSE
    <3>1. CASE g_proc.request # None
      <4>1. g_proc.request \in Graph!Snaps
        BY <2>1, <3>1 DEF IsProcess
      <4> QED
        BY <2>1, <2>5, <2>6, <3>1, <4>1, RegroupedIs
        DEF Graph!_observe_plan_node, Graph!Commit
    <3>2. CASE g_proc.request = None
      <4> DEFINE q == [g_proc EXCEPT !.hydrated = TRUE, !.mem = Graph!Fresh(groups)]
      <4>1. IsProcess(q) /\ q.running = g_proc.running
        BY <2>1 DEF IsProcess
      <4>2. g_proc' = [q EXCEPT !.request = None]
        BY <2>6, <3>2 DEF Graph!_observe_plan_node, Graph!Commit
      <4> HIDE DEF q
      <4> QED
        BY <2>5, <4>1, <4>2
    <3> QED
      BY <3>1, <3>2
  <2>7. CASE Graph!GatePasses
    <3>1. g_proc.request \in Graph!Snaps
      BY <2>1, <2>7 DEF Graph!GatePasses, IsProcess
    <3> QED
      BY <2>1, <2>5, <2>7, <3>1, RegroupedIs, RestoredIs DEF Graph!GatePasses, Graph!Commit
  <2>8. ASSUME Graph!Interrupt \/ Graph!_dispatch_node \/ Graph!_merge_node
               \/ \E contract \in BOOLEAN : Graph!_finalize_node(contract)
        PROVE  FALSE
    <3> DEFINE h == Graph!_hydrate(g_proc)
               w == Graph!_restore_worker_snapshot(h)
    <3>1. g_thread.node \notin {"none", "observe_plan", "end"}
          /\ (Graph!_merge_node => g_thread.node = "merge")
      BY <2>8 DEF Graph!Interrupt, Graph!_dispatch_node, Graph!_merge_node,
                  Graph!_finalize_node, Graph!At
    <3>2. IsProcess(h) /\ h.running = g_proc.running
      BY <3>1, HydratedIs
    <3>3. Graph!_merge_node => IsProcess(w) /\ w.running = g_proc.running
      BY <3>1, WorkerIs
    <3>4. ASSUME NEW q, IsProcess(q), q.running = g_proc.running, NEW m,
                 g_proc' = [[q EXCEPT !.mem = m] EXCEPT !.request = None]
          PROVE  FALSE
      BY <2>5, <3>4 DEF IsProcess
    <3>5. CASE Graph!Interrupt \/ \E contract \in BOOLEAN : Graph!_finalize_node(contract)
      BY <2>5, <3>2, <3>5 DEF Graph!Interrupt, Graph!_finalize_node, Graph!Commit
    <3>6. CASE Graph!_dispatch_node
      BY <2>5, <3>2, <3>4, <3>6 DEF Graph!_dispatch_node, Graph!Commit
    <3>7. CASE Graph!_merge_node
      BY <3>3, <3>4, <3>7 DEF Graph!_merge_node, Graph!Commit
    <3> QED
      BY <2>8, <3>5, <3>6, <3>7
  <2>9. ASSUME NEW b \in Agents, NEW result \in Outcomes, Graph!_agent_node(b, result)
        PROVE  FALSE
    <3> DEFINE q == [g_proc EXCEPT !.running = @ \ {b}, !.ledger = @ \union {b}]
    <3>1. g_proc' = [q EXCEPT !.request = None]
      BY <2>9 DEF Graph!_agent_node, Graph!Commit
    <3>2. g_proc'.running = g_proc.running \ {b}
      BY <2>1, <3>1 DEF IsProcess
    <3> QED
      BY <3>2
  <2> QED
    BY <2>4, <2>6, <2>7, <2>8, <2>9
<1> QED
  BY <1>1, <1>2

-----------------------------------------------------------------------------
(***************************************************************************)
(* The executors of a run.                                                 *)
(***************************************************************************)
LEMMA ExecutorsStart ==
  ASSUME RuntimeInit
  PROVE  ExecutorsInv
BY LoopStarts, GraphStarts DEF RuntimeInit, ExecutorsInv

LEMMA ExecutorsStep ==
  ASSUME ExecutorsInv, [RuntimeNext]_allvars
  PROVE  ExecutorsInv'
<1>1. Loop!Next \/ UNCHANGED lvars
  BY DEF RuntimeNext, allvars, LoopIdle
<1>2. Graph!Next \/ UNCHANGED gvars
  BY DEF RuntimeNext, allvars, GraphIdle
<1> QED
  BY <1>1, <1>2, LoopStep, LoopStays, GraphStep, GraphStays DEF ExecutorsInv

\* The inductive invariant of the two executors, for any plans, edits, faults
\* and numbers of dispatches.
THEOREM ExecutorsHold == RuntimeSpec => []ExecutorsInv
BY ExecutorsStart, ExecutorsStep, PTL DEF RuntimeSpec

\* Whichever executor runs the plan, the report is started when every other
\* agent of the plan has ended or was passed over, also after a resume.
THEOREM ReportAlwaysLast == RuntimeSpec => []ReportComesLast
<1>1. ExecutorsInv => ReportComesLast
  BY LoopPromises, GraphPromises DEF ExecutorsInv, ReportComesLast
<1> QED
  BY <1>1, ExecutorsHold, PTL

\* A run that ends SUCCEEDED has the output of the report and of every agent of
\* its goals, through any pauses, crashes, retries and late checkpoints.
THEOREM SuccessAlwaysHonest == RuntimeSpec => []HonestSuccess
<1>1. ExecutorsInv => HonestSuccess
  BY LoopPromises, GraphPromises DEF ExecutorsInv, HonestSuccess
<1> QED
  BY <1>1, ExecutorsHold, PTL

\* No step of an executor starts an agent that a stored snapshot names as
\* executed, over any pauses, crashes, losses and retries, unless an older
\* checkpoint has overtaken a newer one.
THEOREM EndedNeverRepeated == RuntimeSpec => NeverRepeated
<1>1. ASSUME ExecutorsInv, [RuntimeNext]_allvars
      PROVE  [~l_overtaken => (l_running' \ l_running) \intersect l_saved = {}]_lvars
  <2>1. Loop!Next \/ UNCHANGED lvars
    BY <1>1 DEF RuntimeNext, allvars, LoopIdle
  <2> QED
    BY <1>1, <2>1, LoopNeverRepeats DEF ExecutorsInv
<1>2. ASSUME ExecutorsInv, [RuntimeNext]_allvars
      PROVE  [\A a \in g_proc'.running \ g_proc.running :
                 g_row.snapshot # None => a \notin g_row.snapshot.m.executed]_gvars
  <2>1. Graph!Next \/ UNCHANGED gvars
    BY <1>2 DEF RuntimeNext, allvars, GraphIdle
  <2> QED
    BY <1>2, <2>1, GraphNeverRepeats DEF ExecutorsInv
<1>3. RuntimeSpec => Loop!NeverRepeated
  BY <1>1, ExecutorsHold, PTL DEF RuntimeSpec, Loop!NeverRepeated, Loop!vars, lvars
<1>4. RuntimeSpec => Graph!NeverRepeated
  BY <1>2, ExecutorsHold, PTL DEF RuntimeSpec, Graph!NeverRepeated, Graph!vars, gvars
<1> QED
  BY <1>3, <1>4 DEF NeverRepeated

-----------------------------------------------------------------------------
(***************************************************************************)
(* The turns of an agent, for any kinds of agents, limits, quotas and      *)
(* replies of the model.  The answer is heard because an agent is offered  *)
(* actions only while a turn is left after this one (force_final), so that *)
(* a model that obeys never spends the last turn on them; its first        *)
(* decision ends the agent.                                                *)
(***************************************************************************)
Limits ==
  [kind : Kinds, maxDecisions : Decisions, ceiling : Nat, toolLimit : Nat,
   quota : Nat \ {0}, actionQuota : Nat, used : Nat]

Typed ==
  /\ agent \in Limits
  /\ phase \in {"loop", "reply", "done", "failed"}
  /\ n \in Nat /\ decisions \in Nat /\ actions \in Nat /\ turns \in Nat
  /\ borrowed \in {0, 1} /\ tools \in Nat
  /\ repair \in BOOLEAN /\ obedient \in BOOLEAN /\ dropped \in BOOLEAN
  /\ sent \in {"free", "forced", "repair"}

\* Only a dropped final call leaves calls without an answer.
CallsAnswered == ~dropped => open = {}

\* A model that obeys is offered actions while a turn is left, has not decided
\* before its last turn, and ends the agent by deciding.
TurnIsKept ==
  obedient =>
    /\ phase \in {"loop", "reply"} => decisions = 0 /\ repair = FALSE /\ sent # "repair"
    /\ phase = "loop" => n < turns
    /\ phase = "reply" /\ sent = "free" => n < turns
    /\ phase \in {"done", "failed"} => out = "content"

\* The limits of the plan: one turn at most is borrowed, for a repair.
LimitsKept ==
  /\ turns = Least(fallback_turn_limit(agent), agent.quota) + borrowed
  /\ n <= turns
  /\ decisions <= agent.maxDecisions
  /\ phase = "reply" => decisions < agent.maxDecisions
  /\ actions <= max_action_turns(agent)
  /\ tools <= agent.toolLimit

TurnsInv == Typed /\ CallsAnswered /\ TurnIsKept /\ LimitsKept

-----------------------------------------------------------------------------
LEMMA LeastIs ==
  ASSUME NEW a \in Int, NEW b \in Int
  PROVE  Least(a, b) = IF a <= b THEN a ELSE b
<1>1. \E x \in {a, b} : \A y \in {a, b} : x <= y
  OBVIOUS
<1>2. Min({a, b}) \in {a, b} /\ \A y \in {a, b} : Min({a, b}) <= y
  BY <1>1 DEF Min
<1> QED
  BY <1>2 DEF Least

LEMMA NotNegativeIs ==
  ASSUME NEW a \in Int
  PROVE  NotNegative(a) = IF a <= 0 THEN 0 ELSE a
<1>1. \E x \in {0, a} : \A y \in {0, a} : x >= y
  OBVIOUS
<1>2. Max({0, a}) \in {0, a} /\ \A y \in {0, a} : Max({0, a}) >= y
  BY <1>1 DEF Max
<1> QED
  BY <1>2 DEF NotNegative

\* The limits derived from a plan's are numbers.
LEMMA LimitsAreNumbers ==
  ASSUME Decisions \subseteq Nat \ {0}, NEW a \in Limits
  PROVE  /\ available_tool_turns(a) \in Nat
         /\ fallback_turn_limit(a) \in Nat \ {0}
         /\ max_action_turns(a) \in Nat
<1>1. /\ a.ceiling \in Nat /\ a.toolLimit \in Nat /\ a.used \in Nat /\ a.quota \in Nat \ {0}
      /\ a.actionQuota \in Nat /\ a.maxDecisions \in Nat \ {0}
  BY DEF Limits
<1>2. available_tool_turns(a) \in Nat
  <2>1. NotNegative(a.toolLimit - a.used) \in Nat
    BY <1>1, NotNegativeIs
  <2> QED
    BY <1>1, <2>1, LeastIs DEF available_tool_turns
<1>3. fallback_turn_limit(a) \in Nat \ {0}
  BY <1>1, <1>2 DEF fallback_turn_limit
<1>4. max_action_turns(a) \in Nat
  <2>1. final_turn_reserve(a) \in Nat
    BY <1>1, LeastIs DEF final_turn_reserve
  <2>2. NotNegative(a.quota - final_turn_reserve(a)) \in Nat
    BY <1>1, <2>1, NotNegativeIs
  <2> DEFINE p == NotNegative(a.quota - final_turn_reserve(a))
             S == {available_tool_turns(a), a.actionQuota, p}
  <2> HIDE DEF p
  <2>3. available_tool_turns(a) \in Int /\ a.actionQuota \in Int /\ p \in Int
    BY <1>1, <1>2, <2>2 DEF p
  <2>4. \E x \in S : \A y \in S : x <= y
    BY <2>3
  <2>5. Min(S) \in S
    BY <2>4 DEF Min
  <2> QED
    BY <1>1, <1>2, <2>2, <2>5 DEF max_action_turns, p
<1> QED
  BY <1>2, <1>3, <1>4

LEMMA TurnsInit ==
  ASSUME Decisions \subseteq Nat \ {0}, TurnInit
  PROVE  TurnsInv
<1>1. agent \in Limits /\ agent.used <= agent.toolLimit /\ agent.quota \in Nat \ {0}
        /\ agent.used \in Nat /\ agent.maxDecisions \in Nat \ {0} /\ agent.toolLimit \in Nat
  <2>1. \A k : /\ k \in 0..MaxTools \/ k \in 0..MaxTurns => k \in Nat
              /\ k \in 1..MaxTurns => k \in Nat \ {0}
    OBVIOUS
  <2>2. agent \in [kind : Kinds, maxDecisions : Decisions, ceiling : 0..MaxTools,
                   toolLimit : 0..MaxTools, quota : 1..MaxTurns, actionQuota : 0..MaxTurns,
                   used : 0..MaxTools]
          /\ agent.used <= agent.toolLimit
    BY DEF TurnInit
  <2>3. agent \in Limits
    BY <2>1, <2>2 DEF Limits
  <2> QED
    BY <2>2, <2>3 DEF Limits
<1>2. max_action_turns(agent) \in Nat /\ fallback_turn_limit(agent) \in Nat \ {0}
  BY <1>1, LimitsAreNumbers
<1>3. Least(fallback_turn_limit(agent), agent.quota) \in Nat \ {0}
  BY <1>1, <1>2, LeastIs
<1>4. /\ turns = Least(fallback_turn_limit(agent), agent.quota)
      /\ tools = agent.used /\ phase = "loop" /\ out = "none" /\ sent = "forced"
      /\ n = 0 /\ decisions = 0 /\ actions = 0 /\ borrowed = 0
      /\ repair = FALSE /\ open = {} /\ obedient = TRUE /\ dropped = FALSE
  BY DEF TurnInit
<1>5. Typed /\ CallsAnswered
  BY <1>1, <1>3, <1>4 DEF Typed, CallsAnswered
<1>6. TurnIsKept
  BY <1>3, <1>4 DEF TurnIsKept
<1>7. LimitsKept
  BY <1>1, <1>2, <1>3, <1>4 DEF LimitsKept
<1> QED
  BY <1>5, <1>6, <1>7 DEF TurnsInv

\* What every step may use of the invariant.
LEMMA Numbers ==
  ASSUME Decisions \subseteq Nat \ {0}, TurnsInv
  PROVE  /\ n \in Nat /\ decisions \in Nat /\ actions \in Nat /\ turns \in Nat /\ tools \in Nat
         /\ agent.maxDecisions \in Nat \ {0} /\ agent.toolLimit \in Nat
         /\ max_action_turns(agent) \in Nat
         /\ Least(fallback_turn_limit(agent), agent.quota) \in Nat \ {0}
<1>1. agent \in Limits
  BY DEF TurnsInv, Typed
<1>2. max_action_turns(agent) \in Nat /\ fallback_turn_limit(agent) \in Nat \ {0}
  BY <1>1, LimitsAreNumbers
<1>3. agent.quota \in Nat \ {0} /\ agent.maxDecisions \in Nat \ {0} /\ agent.toolLimit \in Nat
  BY <1>1 DEF Limits
<1>4. Least(fallback_turn_limit(agent), agent.quota) \in Nat \ {0}
  BY <1>2, <1>3, LeastIs
<1> QED
  BY <1>2, <1>3, <1>4 DEF TurnsInv, Typed

LEMMA RequestKeeps ==
  ASSUME Decisions \subseteq Nat \ {0}, TurnsInv, Request
  PROVE  TurnsInv'
<1> USE DEF TurnsInv
<1>1. /\ phase = "loop" /\ n < turns /\ decisions < agent.maxDecisions
      /\ n' = n + 1 /\ phase' = "reply"
      /\ sent' = IF repair THEN "repair" ELSE IF force_final(n + 1) THEN "forced" ELSE "free"
      /\ UNCHANGED <<agent, turns, borrowed, decisions, actions, repair, tools, open, out,
                     obedient, dropped>>
  BY DEF Request, plan
<1>2. sent' = "free" => n' < turns
  BY <1>1, Numbers DEF force_final
<1>3. Typed' /\ CallsAnswered'
  BY <1>1 DEF Typed, CallsAnswered
<1>4. TurnIsKept'
  BY <1>1, <1>2 DEF TurnIsKept
<1>5. LimitsKept'
  <2>1. n' <= turns'
    BY <1>1, Numbers
  <2> QED
    BY <1>1, <2>1 DEF LimitsKept
<1> QED
  BY <1>3, <1>4, <1>5

LEMMA LoopEndsKeeps ==
  ASSUME Decisions \subseteq Nat \ {0}, TurnsInv, LoopEnds
  PROVE  TurnsInv'
<1> USE DEF TurnsInv
<1>1. /\ phase = "loop" /\ ~(n < turns /\ decisions < agent.maxDecisions) /\ phase' = "done"
      /\ UNCHANGED <<agent, turns, borrowed, n, decisions, actions, repair, sent, tools, open,
                     obedient, dropped>>
  BY DEF LoopEnds, plan, End
<1>2. ~obedient
  <2> SUFFICES ASSUME obedient PROVE FALSE
    OBVIOUS
  <2>1. n < turns /\ decisions = 0
    BY <1>1 DEF TurnIsKept
  <2> QED
    BY <1>1, <2>1, Numbers
<1> QED
  BY <1>1, <1>2 DEF Typed, CallsAnswered, TurnIsKept, LimitsKept

LEMMA ProviderFailsKeeps ==
  ASSUME TurnsInv, NEW code, ProviderFails(code)
  PROVE  TurnsInv'
<1>1. /\ phase' \in {"done", "failed"} /\ obedient' = FALSE
      /\ UNCHANGED <<agent, turns, borrowed, n, decisions, actions, repair, sent, tools, open,
                     dropped>>
  BY DEF ProviderFails, plan, End, Fail
<1> QED
  BY <1>1 DEF TurnsInv, Typed, CallsAnswered, TurnIsKept, LimitsKept

LEMMA ActionTurnKeeps ==
  ASSUME Decisions \subseteq Nat \ {0}, TurnsInv, NEW asked \in Replies, ActionTurn(asked)
  PROVE  TurnsInv'
<1> USE DEF TurnsInv
<1>1. /\ phase = "reply" /\ sent # "repair" /\ phase' = "loop"
      /\ open' = open \cup (DOMAIN asked \ DOMAIN asked)
      /\ obedient' = (obedient /\ sent = "free")
      /\ UNCHANGED <<agent, turns, borrowed, n, decisions, repair, sent, out, dropped>>
  BY DEF ActionTurn, plan, Answered
<1>2. actions' \in Nat /\ actions' <= max_action_turns(agent)
  <2>1. actions' = actions \/ (actions < max_action_turns(agent) /\ actions' = actions + 1)
    BY DEF ActionTurn
  <2> QED
    BY <2>1, Numbers DEF LimitsKept
<1>3. tools' \in Nat /\ tools' <= agent.toolLimit
  <2>1. PICK run \in SUBSET DOMAIN asked :
          /\ Cardinality(run) <= NotNegative(agent.toolLimit - tools)
          /\ tools' = tools + Cardinality(run)
    BY DEF ActionTurn
  <2>2. IsFiniteSet(run) /\ Cardinality(run) \in Nat
    <3>1. PICK k \in 1..2 : asked \in [1..k -> Calls]
      BY DEF Replies
    <3>2. IsFiniteSet(1..k)
      BY FS_Interval
    <3> QED
      BY <3>1, <3>2, FS_Subset, FS_CardinalityType
  <2>3. tools <= agent.toolLimit
    BY DEF LimitsKept
  <2>4. NotNegative(agent.toolLimit - tools) = agent.toolLimit - tools
    BY <2>3, Numbers, NotNegativeIs
  <2> QED
    BY <2>1, <2>2, <2>4, Numbers
<1>4. Typed' /\ CallsAnswered'
  BY <1>1, <1>2, <1>3 DEF Typed, CallsAnswered
<1>5. TurnIsKept'
  BY <1>1 DEF TurnIsKept
<1>6. LimitsKept'
  BY <1>1, <1>2, <1>3 DEF LimitsKept
<1> QED
  BY <1>4, <1>5, <1>6

\* How a decision goes on: it ends the agent, or lets it go on while a turn and
\* a decision are left.
LEMMA DecideKeeps ==
  ASSUME Decisions \subseteq Nat \ {0}, TurnsInv, NEW asked \in Replies \cup {<<>>},
         NEW d \in Verdicts, NEW looped \in BOOLEAN, NEW capacity \in BOOLEAN,
         Decide(asked, d, looped, capacity)
  PROVE  TurnsInv'
<1> USE DEF TurnsInv
<1> DEFINE final == asked # <<>>
           cut == IF looped THEN [d EXCEPT !.nested = FALSE, !.done = TRUE] ELSE d
<1>1. /\ phase = "reply" /\ decisions' = decisions + 1
      /\ obedient' = (obedient /\ d.valid /\ d.output)
      /\ UNCHANGED <<agent, n, actions, sent, tools>>
  BY DEF Decide
<1>2. decisions' \in Nat /\ decisions' <= agent.maxDecisions
  BY <1>1, Numbers DEF LimitsKept
<1>3. d.valid \in BOOLEAN /\ d.output \in BOOLEAN /\ cut.output = d.output
  BY DEF Verdicts
<1>4. CASE ~Accepted(d, final) /\ Malformed(final, capacity)
  <2>1. ~obedient'
    BY <1>1, <1>4 DEF Accepted
  <2>2. /\ \/ borrowed' = borrowed /\ turns' = turns
           \/ borrowed = 0 /\ borrowed' = 1 /\ turns' = turns + 1
        /\ repair' \in BOOLEAN /\ phase' \in {"loop", "done", "failed"}
        /\ UNCHANGED <<open, dropped>>
    <3> DEFINE more == IF can_borrow_repair(final, capacity) THEN 1 ELSE 0
    <3>1. borrowed' = borrowed + more /\ turns' = turns + more /\ UNCHANGED <<open, dropped>>
      BY <1>4 DEF Malformed
    <3>2. repair' \in BOOLEAN /\ phase' \in {"loop", "done", "failed"}
      BY <1>4 DEF Malformed, End, Fail
    <3>3. more = 0 \/ (more = 1 /\ borrowed < 1)
      BY DEF can_borrow_repair
    <3>4. borrowed \in {0, 1}
      BY DEF Typed
    <3> QED
      BY <3>1, <3>2, <3>3, <3>4, Numbers
  <2>3. Typed'
    BY <1>1, <1>2, <2>1, <2>2, Numbers DEF Typed
  <2>4. LimitsKept'
    BY <1>1, <1>2, <2>2, Numbers DEF LimitsKept, Typed
  <2> QED
    BY <2>1, <2>2, <2>3, <2>4 DEF CallsAnswered, TurnIsKept
<1>5. CASE /\ cut.nested /\ ~cut.output
           /\ NestedRefused(final, asked)
  <2>1. /\ open' = open \cup DOMAIN asked /\ dropped' = (dropped \/ final)
        /\ phase' = "loop" /\ repair' = FALSE
        /\ UNCHANGED <<turns, borrowed>>
    BY <1>5 DEF NestedRefused
  <2>2. ~obedient'
    BY <1>1, <1>3, <1>5
  <2>3. ~final => DOMAIN asked = {}
    OBVIOUS
  <2> QED
    BY <1>1, <1>2, <2>1, <2>2, <2>3 DEF Typed, CallsAnswered, TurnIsKept, LimitsKept
<1>6. CASE Concludes(cut)
  <2>1. /\ \/ phase' = "done" /\ out' = (IF d.output THEN "content" ELSE "empty")
           \/ ~d.output /\ phase' = "loop"
        /\ repair' = FALSE
        /\ UNCHANGED <<open, dropped, turns, borrowed>>
    BY <1>3, <1>6 DEF Concludes, End
  <2>2. Typed' /\ CallsAnswered'
    BY <1>1, <1>2, <1>3, <2>1 DEF Typed, CallsAnswered
  <2>3. TurnIsKept' /\ LimitsKept'
    BY <1>1, <1>2, <1>3, <2>1 DEF TurnIsKept, LimitsKept
  <2> QED
    BY <2>2, <2>3
<1>7. \/ ~Accepted(d, final) /\ Malformed(final, capacity)
      \/ cut.nested /\ ~cut.output /\ NestedRefused(final, asked)
      \/ Concludes(cut)
  BY DEF Decide
<1> QED
  BY <1>4, <1>5, <1>6, <1>7

LEMMA TurnsStep ==
  ASSUME Decisions \subseteq Nat \ {0}, TurnsInv, [TurnNext]_tvars
  PROVE  TurnsInv'
<1>1. CASE UNCHANGED tvars
  BY <1>1
  DEF tvars, TurnsInv, Typed, CallsAnswered, TurnIsKept, LimitsKept
<1> QED
  BY <1>1, RequestKeeps, LoopEndsKeeps, ProviderFailsKeeps, ActionTurnKeeps, DecideKeeps
  DEF TurnNext

\* The inductive invariant of an agent's turns, for every kind, limit and quota
\* of the plan and every reply of the model.
THEOREM TurnsHold ==
  ASSUME Decisions \subseteq Nat \ {0}
  PROVE  TurnSpec => []TurnsInv
BY TurnsInit, TurnsStep, PTL DEF TurnSpec

\* No request carries a call without an answer, unless a final call was dropped
\* with the calls nested in it, and a model that obeys gives its answer however
\* the turns before were spent.
THEOREM AnswersHeard ==
  ASSUME Decisions \subseteq Nat \ {0}
  PROVE  TurnSpec => []AnswersAreHeard
<1>1. TurnsInv => AnswersAreHeard
  BY DEF TurnsInv, AnswersAreHeard, CallsAnswered, TurnIsKept
<1> QED
  BY <1>1, TurnsHold, PTL

\* No reply of the model makes an agent call it more than once beyond its quota,
\* decide, act or use tools more often than its limits say.
THEOREM AgentWithinLimits ==
  ASSUME Decisions \subseteq Nat \ {0}
  PROVE  TurnSpec => [](/\ n <= agent.quota + 1 /\ decisions <= agent.maxDecisions
                    /\ actions <= max_action_turns(agent) /\ tools <= agent.toolLimit)
<1>1. TurnsInv => /\ n <= agent.quota + 1 /\ decisions <= agent.maxDecisions
                  /\ actions <= max_action_turns(agent) /\ tools <= agent.toolLimit
  <2> SUFFICES ASSUME TurnsInv
               PROVE  /\ n <= agent.quota + 1 /\ decisions <= agent.maxDecisions
                      /\ actions <= max_action_turns(agent) /\ tools <= agent.toolLimit
    OBVIOUS
  <2>1. agent.quota \in Nat /\ fallback_turn_limit(agent) \in Nat
    BY LimitsAreNumbers DEF TurnsInv, Typed, Limits
  <2>2. Least(fallback_turn_limit(agent), agent.quota) <= agent.quota
          /\ Least(fallback_turn_limit(agent), agent.quota) \in Nat
    BY <2>1, LeastIs
  <2>3. n <= turns /\ turns = Least(fallback_turn_limit(agent), agent.quota) + borrowed
          /\ borrowed \in {0, 1} /\ n \in Nat
    BY DEF TurnsInv, Typed, LimitsKept
  <2> QED
    BY <2>1, <2>2, <2>3 DEF TurnsInv, LimitsKept
<1> QED
  BY <1>1, TurnsHold, PTL
=============================================================================
