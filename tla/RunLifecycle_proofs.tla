------------------------ MODULE RunLifecycle_proofs ------------------------
(***************************************************************************)
(* Proofs about RunLifecycle: its type invariant; with leases that outlive *)
(* restarts, one occupying run per conversation; and, on top of both, that *)
(* the control plane implements ConversationQueue.  Then its permits, and  *)
(* that a paused run does not execute.                                     *)
(***************************************************************************)
EXTENDS RunInvariants, FiniteSetTheorems, FunctionTheorems, TLAPS

USE DEF vars, tableVars, redisVars, permitVars, runtimeVars, userVars, callVars,
        threadVars, crashVars

-----------------------------------------------------------------------------
(***************************************************************************)
(* Types.  TypeOK is inductive once it is known that a thread about to     *)
(* close a row has a terminal status to write, and a dispatcher a run.     *)
(***************************************************************************)
\* What dispatchOnce makes of its local variables is typed.
LEMMA WalkTyped ==
  ASSUME NEW todo \in SUBSET Runs
  PROVE  Walk(todo) \in DispatchState /\ Walk(todo).pc \in {"idle", "next"}
BY DEF Walk, DispatchState, MaybePermit

LEMMA IdleDispatchTyped == IdleDispatch \in DispatchState /\ IdleDispatch.pc = "idle"
BY DEF IdleDispatch, DispatchState, MaybePermit

LEMMA IdleTyped ==
  /\ IdleResult \in ResultState
  /\ IdleResume \in ResumeState
  /\ IdleWatchdog \in WatchdogState
BY DEF IdleResult, IdleResume, IdleWatchdog, ResultState, ResumeState, WatchdogState,
       MaybePermit, TERMINAL

\* finishInternal, the call that cancels an execution and the one that starts it.
LEMMA FinishTyped ==
  ASSUME TypeOK, NEW r \in Runs, NEW terminal \in TERMINAL, finishInternal(r, terminal)
  PROVE  /\ status' \in [Runs -> Status \cup {"ABSENT"}]
         /\ finish' \in [Runs -> BOOLEAN]
BY DEF TypeOK, finishInternal, Status

LEMMA CancelTyped ==
  ASSUME TypeOK, NEW r \in Runs, cancelRun(r)
  PROVE  /\ runtime' \in [Runs -> {"none", "live", "paused", "tomb"}]
         /\ posts' \in [Runs -> TERMINAL \cup {"PAUSED", None}]
BY DEF TypeOK, cancelRun, TERMINAL

LEMMA AcceptTyped ==
  ASSUME TypeOK, NEW r \in Runs, Accept(r)
  PROVE  runtime' \in [Runs -> {"none", "live", "paused", "tomb"}]
BY DEF TypeOK, Accept

LEMMA TypedInit == Init => Typed
BY RunAssumption, IdleDispatchTyped, IdleTyped
   DEF Init, Typed, TypeOK, ResultsTyped, WatchdogTyped, DispatchTyped, IdleResult,
       IdleWatchdog, IdleDispatch, MaybePermit, Status

LEMMA TypedDispatch ==
  ASSUME Typed, NEW d \in Dispatchers, Dispatch(d)
  PROVE  Typed'
<1> USE DEF Typed, ResultsTyped, WatchdogTyped, DispatchTyped
<1>1. disp \in [Dispatchers -> DispatchState] /\ disp[d] \in DispatchState
  BY DEF TypeOK
<1>2. CASE DispatchList(d)
  <2>1. HeadsOfConversations \in SUBSET Runs
    BY DEF HeadsOfConversations
  <2>2. disp' \in [Dispatchers -> DispatchState] /\ DispatchTyped'
    BY <1>1, <1>2, <2>1, WalkTyped DEF DispatchList
  <2> QED
    BY <1>2, <2>2 DEF TypeOK, DispatchList
<1>3. CASE DispatchNext(d)
  <2>1. PICK r \in disp[d].todo :
          disp' = [disp EXCEPT ![d] = Walk(disp[d].todo \ {r})]
            \/ disp' = [disp EXCEPT ![d].pc = "global", ![d].run = r, ![d].todo = @ \ {r}]
    BY <1>3 DEF DispatchNext
  <2>2. disp[d].todo \ {r} \in SUBSET Runs /\ r \in Runs
    BY <1>1 DEF DispatchState
  <2>3. Walk(disp[d].todo \ {r}) \in DispatchState
          /\ Walk(disp[d].todo \ {r}).pc \in {"idle", "next"}
    BY <2>2, WalkTyped
  <2>4. disp' \in [Dispatchers -> DispatchState] /\ DispatchTyped'
    <3>1. CASE disp' = [disp EXCEPT ![d] = Walk(disp[d].todo \ {r})]
      BY <1>1, <2>3, <3>1
    <3>2. CASE disp' = [disp EXCEPT ![d].pc = "global", ![d].run = r, ![d].todo = @ \ {r}]
      BY <1>1, <2>2, <3>2 DEF DispatchState
    <3> QED
      BY <2>1, <3>1, <3>2
  <2> QED
    BY <1>3, <2>4 DEF TypeOK, DispatchNext
<1>4. CASE DispatchGlobal(d)
  <2>1. disp' \in [Dispatchers -> DispatchState] /\ DispatchTyped'
    BY <1>1, <1>4, IdleDispatchTyped DEF DispatchGlobal, DispatchState, MaybePermit
  <2> QED
    BY <1>4, <2>1 DEF TypeOK, DispatchGlobal, tryAcquireGlobal
<1>5. CASE DispatchConversation(d)
  <2>1. disp[d].todo \in SUBSET Runs
    BY <1>1 DEF DispatchState
  <2>2. Walk(disp[d].todo) \in DispatchState /\ Walk(disp[d].todo).pc \in {"idle", "next"}
    BY <2>1, WalkTyped
  <2>3. disp' \in [Dispatchers -> DispatchState] /\ DispatchTyped'
    BY <1>1, <1>5, <2>2 DEF DispatchConversation, DispatchState, MaybePermit
  <2> QED
    BY <1>5, <2>3
    DEF TypeOK, DispatchConversation, tryAcquireConversation, releaseGlobal, MaybePermit
<1>6. CASE DispatchMark(d)
  <2>1. disp[d].todo \in SUBSET Runs /\ disp[d].c \in MaybePermit /\ disp[d].g \in MaybePermit
    BY <1>1 DEF DispatchState
  <2>2. Walk(disp[d].todo) \in DispatchState /\ Walk(disp[d].todo).pc \in {"idle", "next"}
    BY <2>1, WalkTyped
  <2>3. disp' \in [Dispatchers -> DispatchState] /\ DispatchTyped'
    BY <1>1, <1>6, <2>2 DEF DispatchMark
  <2> QED
    BY <1>6, <2>1, <2>3
    DEF TypeOK, DispatchMark, releaseConversation, releaseGlobal, MaybePermit, Status, ACTIVE
<1> QED
  BY <1>2, <1>3, <1>4, <1>5, <1>6 DEF Dispatch

LEMMA TypedThread ==
  ASSUME Typed, NEW r \in Runs, Thread(r)
  PROVE  Typed'
<1> USE DEF Typed, ResultsTyped, WatchdogTyped, DispatchTyped
<1>1. CASE Start(r)
  <2>1. recovering' \in SUBSET Runs
    BY <1>1 DEF TypeOK, Start
  <2>2. CASE StartCas(r)
    BY <2>1, <2>2 DEF TypeOK, StartCas, finishInternal, Status, ACTIVE, TERMINAL
  <2>3. CASE StartCall(r)
    BY <2>1, <2>3 DEF TypeOK, StartCall, Accept
  <2>4. CASE StartFailed(r)
    BY <2>1, <2>4 DEF TypeOK, StartFailed, finishInternal, Status, TERMINAL
  <2> QED
    BY <1>1, <2>2, <2>3, <2>4 DEF Start
<1>2. CASE FinishRelease(r)
  BY <1>2 DEF TypeOK, FinishRelease, releaseConversation, releaseGlobal, MaybePermit
<1>3. CASE applyRuntimeResult(r)
  <2>1. result[r] \in ResultState
    BY DEF TypeOK
  <2>2. IdleResult \in ResultState /\ IdleResult.pc = "idle"
    BY IdleTyped DEF IdleResult
  <2>3. result' \in [Runs -> ResultState] /\ ResultsTyped'
    <3>1. result' = [result EXCEPT ![r] = IdleResult]
            \/ result' = [result EXCEPT ![r].pc = "recheck"]
      BY <1>3 DEF applyRuntimeResult, ResultCancelled, ResultPaused, ResultTerminal,
                  ResultRecheck
    <3>2. result \in [Runs -> ResultState]
      BY DEF TypeOK
    <3>3. CASE result' = [result EXCEPT ![r] = IdleResult]
      BY <2>2, <3>2, <3>3
    <3>4. CASE result' = [result EXCEPT ![r].pc = "recheck"]
      BY <3>2, <3>4 DEF ResultState
    <3> QED
      BY <3>1, <3>3, <3>4
  <2>4. /\ status' \in [Runs -> Status \cup {"ABSENT"}]
        /\ finish' \in [Runs -> BOOLEAN]
        /\ snapshot' \in [Runs -> BOOLEAN]
        /\ pausing' \in [Runs -> {"idle", "release", "clear"}]
    <3>1. CASE ResultCancelled(r)
      BY <3>1, FinishTyped DEF TypeOK, ResultCancelled, TERMINAL
    <3>2. CASE ResultPaused(r)
      <4>1. "PAUSED" \in Status
        BY DEF Status
      <4>2. /\ status' \in {status, [status EXCEPT ![r] = "PAUSED"]}
            /\ snapshot' \in {snapshot, [snapshot EXCEPT ![r] = TRUE]}
            /\ pausing' \in {pausing, [pausing EXCEPT ![r] = "release"]}
            /\ finish' = finish
        BY <3>2 DEF ResultPaused
      <4>3. status' \in [Runs -> Status \cup {"ABSENT"}]
        BY <4>1, <4>2 DEF TypeOK
      <4>4. snapshot' \in [Runs -> BOOLEAN] /\ finish' \in [Runs -> BOOLEAN]
        BY <4>2 DEF TypeOK
      <4>5. pausing' \in [Runs -> {"idle", "release", "clear"}]
        BY <4>2 DEF TypeOK
      <4> QED
        BY <4>3, <4>4, <4>5
    <3>3. CASE ResultTerminal(r)
      BY <3>3, FinishTyped DEF TypeOK, ResultTerminal
    <3>4. CASE ResultRecheck(r)
      BY <3>4, FinishTyped DEF TypeOK, ResultRecheck, TERMINAL
    <3> QED
      BY <1>3, <3>1, <3>2, <3>3, <3>4 DEF applyRuntimeResult
  <2> QED
    BY <1>3, <2>3, <2>4 DEF TypeOK, applyRuntimeResult
<1>4. CASE PausedRelease(r)
  BY <1>4 DEF TypeOK, PausedRelease, releaseGlobal
<1>5. CASE PausedClear(r)
  BY <1>5 DEF TypeOK, PausedClear, MaybePermit
<1>6. CASE Resume(r)
  <2>1. resume[r] \in ResumeState /\ resume[r].g \in MaybePermit
    BY DEF TypeOK, ResumeState
  <2>2. resume' \in [Runs -> ResumeState]
    <3>1. \/ resume' = [resume EXCEPT ![r] = IdleResume]
          \/ resume' = [resume EXCEPT ![r].pc = "calling"]
          \/ resume' = [resume EXCEPT ![r].pc = "accepted"]
          \/ resume' = [resume EXCEPT ![r].pc = "failed"]
      BY <1>6 DEF Resume, ResumeCas, ResumeCall, ResumeAccepted, ResumeFailed
    <3>2. resume \in [Runs -> ResumeState]
      BY DEF TypeOK
    <3> QED
      BY <3>1, <3>2, IdleTyped DEF ResumeState
  <2>3. CASE ResumeCas(r)
    BY <2>1, <2>2, <2>3 DEF TypeOK, ResumeCas, releaseGlobal, Status, ACTIVE
  <2>4. CASE ResumeCall(r)
    BY <2>2, <2>4 DEF TypeOK, ResumeCall, Accept
  <2>5. CASE ResumeAccepted(r)
    BY <2>2, <2>5 DEF TypeOK, ResumeAccepted, Status, ACTIVE
  <2>6. CASE ResumeFailed(r)
    BY <2>2, <2>6 DEF TypeOK, ResumeFailed, releaseGlobal, MaybePermit, Status
  <2> QED
    BY <1>6, <2>3, <2>4, <2>5, <2>6 DEF Resume
<1>7. CASE PauseReturn(r)
  BY <1>7 DEF TypeOK, PauseReturn, Status, ACTIVE
<1>8. CASE CancelAct(r)
  <2>1. /\ status' \in [Runs -> Status \cup {"ABSENT"}]
        /\ finish' \in [Runs -> BOOLEAN]
    <3>1. CASE cancelQueued(r)
      BY <3>1 DEF TypeOK, cancelQueued, Status, TERMINAL
    <3>2. CASE CancelPaused(r)
      BY <3>2, FinishTyped DEF CancelPaused, TERMINAL
    <3> QED
      BY <1>8, <3>1, <3>2 DEF TypeOK, CancelAct, CancelPropagate
  <2>2. /\ runtime' \in [Runs -> {"none", "live", "paused", "tomb"}]
        /\ posts' \in [Runs -> TERMINAL \cup {"PAUSED", None}]
    BY <1>8, CancelTyped DEF TypeOK, CancelAct, CancelPropagate
  <2> QED
    BY <1>8, <2>1, <2>2 DEF TypeOK, CancelAct
<1>9. CASE AttachExecutionPermit(r)
  BY <1>9 DEF TypeOK, AttachExecutionPermit, MaybePermit
<1> QED
  BY <1>1, <1>2, <1>3, <1>4, <1>5, <1>6, <1>7, <1>8, <1>9 DEF Thread

LEMMA TypedCallback ==
  ASSUME Typed, NEW r \in Runs, Callback(r)
  PROVE  Typed'
<1> USE DEF Typed, ResultsTyped, WatchdogTyped, DispatchTyped
<1>1. CASE applyRuntimeEvent(r)
  BY <1>1, RunAssumption DEF TypeOK, applyRuntimeEvent, Status, ACTIVE
<1>2. CASE saveRunCheckpoint(r)
  BY <1>2 DEF TypeOK, saveRunCheckpoint
<1>3. CASE releaseExecutionPermit(r)
  BY <1>3 DEF TypeOK, releaseExecutionPermit, MaybePermit
<1>4. CASE tryAcquireExecutionPermit(r)
  BY <1>4 DEF TypeOK, tryAcquireExecutionPermit, tryAcquireGlobal, MaybePermit
<1>5. CASE ResultArrives(r)
  <2>1. posts[r] \in TERMINAL \cup {"PAUSED"}
    BY <1>5 DEF TypeOK, ResultArrives
  <2>2. /\ Branch(status[r], posts[r]) \in {"cancelled", "paused", "terminal", "recheck"}
        /\ Branch(status[r], posts[r]) = "terminal" => posts[r] \in TERMINAL
    BY <2>1 DEF Branch, isActive
  <2>3. result' \in [Runs -> ResultState] /\ ResultsTyped'
    BY <1>5, <2>1, <2>2 DEF TypeOK, ResultArrives, ResultState
  <2> QED
    BY <1>5, <2>3 DEF TypeOK, ResultArrives
<1> QED
  BY <1>1, <1>2, <1>3, <1>4, <1>5 DEF Callback

LEMMA TypedRequest ==
  ASSUME Typed, NEW r \in Runs, Request(r)
  PROVE  Typed'
<1> USE DEF Typed, ResultsTyped, WatchdogTyped, DispatchTyped
<1>1. CASE submit(r)
  BY <1>1 DEF TypeOK, submit, Insert, Status
<1>2. CASE retryFromCheckpoint(r)
  BY <1>2 DEF TypeOK, retryFromCheckpoint, Insert, Status
<1>3. CASE pauseActiveRun(r)
  BY <1>3 DEF TypeOK, pauseActiveRun, Status, ACTIVE
<1>4. CASE resumePausedRun(r)
  <2>1. resume' \in [Runs -> ResumeState]
    BY <1>4 DEF TypeOK, resumePausedRun, ResumeState, MaybePermit
  <2> QED
    BY <1>4, <2>1 DEF TypeOK, resumePausedRun, tryAcquireGlobal
<1>5. CASE CancelRead(r)
  BY <1>5 DEF TypeOK, CancelRead
<1>6. CASE cancelActiveRun(r)
  BY <1>6 DEF TypeOK, cancelActiveRun, Status, ACTIVE
<1> QED
  BY <1>1, <1>2, <1>3, <1>4, <1>5, <1>6 DEF Request

LEMMA TypedWatchdog ==
  ASSUME Typed, Watchdog
  PROVE  Typed'
<1> USE DEF Typed, ResultsTyped, WatchdogTyped, DispatchTyped
<1>1. ASSUME NEW r \in Runs, WatchdogJudge(r) PROVE Typed'
  <2>1. Verdict(status[r]) \subseteq TERMINAL
    BY DEF Verdict, TERMINAL
  <2>2. watchdog' \in WatchdogState /\ WatchdogTyped'
    BY <1>1, <2>1 DEF WatchdogJudge, WatchdogState
  <2> QED
    BY <1>1, <2>2 DEF TypeOK, WatchdogJudge
<1>2. ASSUME NEW r \in Runs, revertPausing(r) PROVE Typed'
  BY <1>2 DEF TypeOK, revertPausing, Status, ACTIVE
<1>3. CASE WatchdogCancel
  <2>1. watchdog' \in WatchdogState /\ WatchdogTyped'
    BY <1>3 DEF TypeOK, WatchdogCancel, WatchdogState
  <2> QED
    BY <1>3, <2>1, CancelTyped DEF TypeOK, WatchdogCancel
<1>4. CASE WatchdogFinish
  <2>1. watchdog' \in WatchdogState /\ WatchdogTyped'
    BY <1>4, IdleTyped DEF WatchdogFinish, IdleWatchdog
  <2> QED
    BY <1>4, <2>1 DEF TypeOK, WatchdogFinish, finishInternal, Status
<1> QED
  BY <1>1, <1>2, <1>3, <1>4 DEF Watchdog

LEMMA TypedRecovery ==
  ASSUME Typed, NEW r \in Runs, recoverAfterRestart(r)
  PROVE  Typed'
<1> USE DEF Typed, ResultsTyped, WatchdogTyped, DispatchTyped
<1>1. /\ recovering' \in SUBSET Runs
      /\ UNCHANGED <<convPermit, snapshot, created, now, convHeld, disp, watchdog,
                     userVars, callVars, posts, crashes>>
  BY DEF TypeOK, recoverAfterRestart
<1>2. /\ status' \in [Runs -> Status \cup {"ABSENT"}]
      /\ globalPermit' \in [Runs -> MaybePermit]
      /\ globalHeld' \in SUBSET Permits
      /\ start' \in [Runs -> {"idle", "submitted", "calling", "failed"}]
      /\ finish' \in [Runs -> BOOLEAN]
      /\ runtime' \in [Runs -> {"none", "live", "paused", "tomb"}]
  <2>1. CASE Adopt(r)
    BY <2>1 DEF TypeOK, Adopt
  <2>2. CASE settlePausedAfterRestart(r)
    BY <2>2 DEF TypeOK, settlePausedAfterRestart, releaseGlobal, MaybePermit, Status
  <2>3. CASE RedispatchStarting(r)
    BY <2>3 DEF TypeOK, RedispatchStarting
  <2>4. CASE resumeAfterRestart(r)
    <3>1. runtime' \in [Runs -> {"none", "live", "paused", "tomb"}]
      BY <2>4, AcceptTyped DEF TypeOK, resumeAfterRestart
    <3>2. /\ status' \in [Runs -> Status \cup {"ABSENT"}]
          /\ finish' \in [Runs -> BOOLEAN]
      BY <2>4, FinishTyped DEF TypeOK, resumeAfterRestart, Status, ACTIVE, TERMINAL
    <3> QED
      BY <2>4, <3>1, <3>2 DEF TypeOK, resumeAfterRestart
  <2>5. CASE OrphanOrKeep(r)
    BY <2>5, FinishTyped DEF TypeOK, OrphanOrKeep, TERMINAL
  <2> QED
    BY <2>1, <2>2, <2>3, <2>4, <2>5 DEF recoverAfterRestart
<1> QED
  BY <1>1, <1>2 DEF TypeOK

LEMMA TypedStep ==
  ASSUME Typed, [Next]_vars
  PROVE  Typed'
<1> USE DEF Typed, ResultsTyped, WatchdogTyped, DispatchTyped
<1>1. ASSUME NEW r \in Runs, RuntimeEnds(r) PROVE Typed'
  BY <1>1, RunAssumption DEF TypeOK, RuntimeEnds
<1>2. ASSUME NEW r \in Runs, ResultLost(r) PROVE Typed'
  BY <1>2 DEF TypeOK, ResultLost
<1>3. ASSUME NEW p \in Permits, ReleaseGlobal(p) PROVE Typed'
  BY <1>3 DEF TypeOK, ReleaseGlobal, releaseGlobal
<1>4. ASSUME NEW p \in Permits, LeaseExpires(p) PROVE Typed'
  BY <1>4 DEF TypeOK, LeaseExpires, releaseGlobal, releaseConversation, MaybePermit
<1>5. CASE RuntimeRestarts
  BY <1>5 DEF TypeOK, RuntimeRestarts, TERMINAL
<1>6. CASE Crash
  <2>1. /\ disp' \in [Dispatchers -> DispatchState] /\ DispatchTyped'
        /\ result' \in [Runs -> ResultState] /\ ResultsTyped'
        /\ resume' \in [Runs -> ResumeState]
        /\ watchdog' \in WatchdogState /\ WatchdogTyped'
    BY <1>6, IdleDispatchTyped, IdleTyped DEF Crash, IdleResult, IdleWatchdog
  <2>2. posts' \in [Runs -> TERMINAL \cup {"PAUSED", None}]
    BY <1>6 DEF TypeOK, Crash, Unanswered, ResultState
  <2> QED
    BY <1>6, <2>1, <2>2 DEF TypeOK, Crash, MaybePermit
<1>7. CASE UNCHANGED vars
  BY <1>7 DEF TypeOK
<1> QED
  BY <1>1, <1>2, <1>3, <1>4, <1>5, <1>6, <1>7, TypedDispatch, TypedThread, TypedCallback,
     TypedRequest, TypedWatchdog, TypedRecovery
  DEF Next

\* Whatever the number of runs, conversations, permits, dispatchers and
\* restarts, the columns, leases and thread variables keep their types.
THEOREM TypeCorrect == Spec => []TypeOK
<1>1. Spec => []Typed
  BY TypedInit, TypedStep, PTL DEF Spec
<1>2. Typed => TypeOK
  BY DEF Typed
<1> QED
  BY <1>1, <1>2, PTL

-----------------------------------------------------------------------------
(***************************************************************************)
(* With leases that outlive every restart (~Outages): one run occupies a   *)
(* conversation at a time, and the control plane implements                *)
(* ConversationQueue.                                                      *)
(*                                                                         *)
(* Every step is one of three kinds: it inserts a row, it marks a queued   *)
(* row STARTING, or it moves statuses along the arrows of MayMove.  That   *)
(* classification carries both results.                                    *)
(***************************************************************************)
MayMove(a, b) ==
  \/ a \in ACTIVE \ {"CANCELLING"} /\ b \in OCCUPYING \cup TERMINAL
  \/ a = "PAUSED" /\ b \in (OCCUPYING \cup TERMINAL) \ {"CANCELLING"}
  \/ a = "CANCELLING" /\ b \in {"CANCELLING", "CANCELLED"}
  \/ a = "QUEUED" /\ b = "CANCELLED"

Moves ==
  /\ UNCHANGED <<created, now>>
  /\ \/ UNCHANGED status
     \/ \E r \in Runs, s \in Status :
          MayMove(status[r], s) /\ status' = [status EXCEPT ![r] = s]

Marks == \E d \in Dispatchers : DispatchMark(d) /\ status[disp[d].run] = "QUEUED"

Inserts == \E r \in Runs, b \in BOOLEAN : Insert(r, b)

-----------------------------------------------------------------------------
(***************************************************************************)
(* The classification.                                                     *)
(***************************************************************************)
LEMMA StatusMoves ==
  ASSUME NEW r \in Runs, NEW s \in Status, status \in [Runs -> Status \cup {"ABSENT"}],
         status' = [status EXCEPT ![r] = s], status[r] = s \/ MayMove(status[r], s),
         UNCHANGED <<created, now>>
  PROVE  Moves
<1>1. CASE status[r] = s
  <2>1. UNCHANGED status
    BY <1>1
  <2> QED
    BY <2>1 DEF Moves
<1>2. CASE MayMove(status[r], s)
  BY <1>2 DEF Moves
<1> QED
  BY <1>1, <1>2

LEMMA FinishMoves ==
  ASSUME Typed, NEW r \in Runs, NEW terminal \in TERMINAL, finishInternal(r, terminal),
         Dispatched(r), UNCHANGED <<created, now>>
  PROVE  Moves
<1>1. CASE FinishGuard(r, terminal)
  <2>1. status[r] \in OCCUPYING
    BY <1>1 DEF Typed, TypeOK, FinishGuard, Dispatched, Status, OCCUPYING
  <2>2. MayMove(status[r], terminal)
    BY <1>1, <2>1 DEF MayMove, FinishGuard, OCCUPYING, ACTIVE, TERMINAL
  <2> QED
    BY <1>1, <2>2, StatusMoves DEF Typed, TypeOK, finishInternal, Status
<1>2. CASE ~FinishGuard(r, terminal)
  BY <1>2 DEF finishInternal, Moves
<1> QED
  BY <1>1, <1>2

LEMMA DispatchKind ==
  ASSUME Typed, NEW d \in Dispatchers, Dispatch(d)
  PROVE  Moves \/ Marks
BY DEF Dispatch, DispatchList, DispatchNext, DispatchGlobal, DispatchConversation,
       DispatchMark, Moves, Marks

LEMMA ThreadKind ==
  ASSUME Typed, OnlyDispatched, NEW r \in Runs, Thread(r)
  PROVE  Moves
<1> USE DEF Typed
<1>0. status \in [Runs -> Status \cup {"ABSENT"}]
  BY DEF TypeOK
<1>1. CASE Start(r)
  <2>1. CASE StartCas(r)
    <3>1. CASE status' = [status EXCEPT ![r] = "RUNNING"] /\ status[r] = "STARTING"
      BY <1>0, <2>1, <3>1, StatusMoves DEF StartCas, MayMove, Status, ACTIVE, OCCUPYING
    <3>2. CASE status[r] = "STARTING" /\ finishInternal(r, "FAILED")
      BY <2>1, <3>2, FinishMoves DEF StartCas, Dispatched, TERMINAL
    <3>3. CASE UNCHANGED status
      BY <2>1, <3>3 DEF StartCas, Moves
    <3> QED
      BY <2>1, <3>1, <3>2, <3>3 DEF StartCas
  <2>2. CASE StartCall(r)
    BY <2>2 DEF StartCall, Moves
  <2>3. CASE StartFailed(r)
    BY <2>3, FinishMoves DEF StartFailed, OnlyDispatched, Busy, TERMINAL
  <2> QED
    BY <1>1, <2>1, <2>2, <2>3 DEF Start
<1>2. CASE FinishRelease(r) \/ PausedRelease(r) \/ PausedClear(r) \/ AttachExecutionPermit(r)
  BY <1>2 DEF FinishRelease, PausedRelease, PausedClear, AttachExecutionPermit, Moves
<1>3. CASE applyRuntimeResult(r)
  <2>1. UNCHANGED <<created, now>>
    BY <1>3 DEF applyRuntimeResult
  <2>2. CASE ResultCancelled(r)
    BY <2>1, <2>2, FinishMoves DEF ResultCancelled, OnlyDispatched, Busy, TERMINAL
  <2>3. CASE ResultPaused(r)
    <3>1. CASE status[r] \in PAUSABLE
      BY <1>0, <2>1, <2>3, <3>1, StatusMoves
      DEF ResultPaused, PAUSABLE, MayMove, Status, ACTIVE, OCCUPYING
    <3>2. CASE status[r] \notin PAUSABLE
      BY <2>1, <2>3, <3>2 DEF ResultPaused, Moves
    <3> QED
      BY <3>1, <3>2
  <2>4. CASE ResultTerminal(r)
    BY <2>1, <2>4, FinishMoves DEF ResultTerminal, OnlyDispatched, Busy, ResultsTyped
  <2>5. CASE ResultRecheck(r)
    <3>1. CASE status[r] = "CANCELLING"
      BY <2>1, <2>5, <3>1, FinishMoves DEF ResultRecheck, Dispatched, TERMINAL
    <3>2. CASE status[r] # "CANCELLING"
      BY <2>1, <2>5, <3>2 DEF ResultRecheck, Moves
    <3> QED
      BY <3>1, <3>2
  <2> QED
    BY <1>3, <2>2, <2>3, <2>4, <2>5 DEF applyRuntimeResult
<1>4. CASE Resume(r)
  <2>1. CASE ResumeCas(r)
    <3>1. CASE status[r] = "PAUSED"
      BY <1>0, <2>1, <3>1, StatusMoves DEF ResumeCas, MayMove, Status, ACTIVE, OCCUPYING
    <3>2. CASE status[r] # "PAUSED"
      BY <2>1, <3>2 DEF ResumeCas, Moves
    <3> QED
      BY <3>1, <3>2
  <2>2. CASE ResumeCall(r)
    BY <2>2 DEF ResumeCall, Moves
  <2>3. CASE ResumeAccepted(r)
    <3>1. CASE status[r] = "RESUMING"
      BY <1>0, <2>3, <3>1, StatusMoves DEF ResumeAccepted, MayMove, Status, ACTIVE, OCCUPYING
    <3>2. CASE status[r] # "RESUMING"
      BY <1>0, <2>3, <3>2 DEF ResumeAccepted, Moves
    <3> QED
      BY <3>1, <3>2
  <2>4. CASE ResumeFailed(r)
    <3>1. CASE status[r] = "RESUMING"
      BY <1>0, <2>4, <3>1, StatusMoves DEF ResumeFailed, MayMove, Status, ACTIVE, OCCUPYING
    <3>2. CASE status[r] # "RESUMING"
      BY <2>4, <3>2 DEF ResumeFailed, Moves
    <3> QED
      BY <3>1, <3>2
  <2> QED
    BY <1>4, <2>1, <2>2, <2>3, <2>4 DEF Resume
<1>5. CASE PauseReturn(r)
  <2>1. CASE status[r] = "PAUSING" /\ status' = [status EXCEPT ![r] = "RUNNING"]
    BY <1>0, <1>5, <2>1, StatusMoves DEF PauseReturn, MayMove, Status, ACTIVE, OCCUPYING
  <2>2. CASE UNCHANGED status
    BY <1>5, <2>2 DEF PauseReturn, Moves
  <2> QED
    BY <1>0, <1>5, <2>1, <2>2 DEF PauseReturn
<1>6. CASE CancelAct(r)
  <2>1. CASE cancelQueued(r)
    <3>1. CASE status[r] = "QUEUED"
      BY <1>0, <1>6, <2>1, <3>1, StatusMoves
      DEF CancelAct, cancelQueued, MayMove, Status, TERMINAL
    <3>2. CASE status[r] # "QUEUED"
      BY <1>0, <1>6, <2>1, <3>2 DEF CancelAct, cancelQueued, Moves
    <3> QED
      BY <3>1, <3>2
  <2>2. CASE CancelPaused(r)
    BY <1>6, <2>2, FinishMoves DEF CancelAct, CancelPaused, OnlyDispatched, Busy, TERMINAL
  <2>3. CASE CancelPropagate(r)
    BY <1>6, <2>3 DEF CancelAct, CancelPropagate, Moves
  <2> QED
    BY <1>6, <2>1, <2>2, <2>3 DEF CancelAct
<1> QED
  BY <1>1, <1>2, <1>3, <1>4, <1>5, <1>6 DEF Thread

LEMMA CallbackKind ==
  ASSUME Typed, NEW r \in Runs, Callback(r)
  PROVE  Moves
<1>1. CASE applyRuntimeEvent(r)
  <2>1. PICK phase \in Phases : status' = [status EXCEPT ![r] = phase]
    BY <1>1 DEF applyRuntimeEvent
  <2>2. phase \in Status /\ MayMove(status[r], phase)
    BY <1>1, RunAssumption DEF applyRuntimeEvent, MayMove, Status, ACTIVE, OCCUPYING
  <2> QED
    BY <1>1, <2>1, <2>2, StatusMoves DEF applyRuntimeEvent, Typed, TypeOK
<1>2. CASE saveRunCheckpoint(r) \/ releaseExecutionPermit(r) \/ tryAcquireExecutionPermit(r)
             \/ ResultArrives(r)
  BY <1>2 DEF saveRunCheckpoint, releaseExecutionPermit, tryAcquireExecutionPermit,
              ResultArrives, Moves
<1> QED
  BY <1>1, <1>2 DEF Callback

LEMMA RequestKind ==
  ASSUME Typed, NEW r \in Runs, Request(r)
  PROVE  Moves \/ Inserts
<1> USE DEF Typed, TypeOK, MayMove, Status, ACTIVE, OCCUPYING
<1>1. CASE submit(r)
  BY <1>1 DEF submit, Inserts
<1>2. CASE retryFromCheckpoint(r)
  BY <1>2 DEF retryFromCheckpoint, Inserts
<1>3. CASE pauseActiveRun(r)
  BY <1>3, StatusMoves DEF pauseActiveRun, isActive
<1>4. CASE resumePausedRun(r) \/ CancelRead(r)
  BY <1>4 DEF resumePausedRun, CancelRead, Moves
<1>5. CASE cancelActiveRun(r)
  BY <1>5, StatusMoves DEF cancelActiveRun, isActive
<1> QED
  BY <1>1, <1>2, <1>3, <1>4, <1>5 DEF Request

LEMMA WatchdogKind ==
  ASSUME Typed, OnlyDispatched, Watchdog
  PROVE  Moves
<1>1. ASSUME NEW r \in Runs, WatchdogJudge(r) PROVE Moves
  BY <1>1 DEF WatchdogJudge, Moves
<1>2. ASSUME NEW r \in Runs, revertPausing(r) PROVE Moves
  BY <1>2, StatusMoves
  DEF revertPausing, Typed, TypeOK, MayMove, Status, ACTIVE, OCCUPYING
<1>3. CASE WatchdogCancel
  BY <1>3 DEF WatchdogCancel, Moves
<1>4. CASE WatchdogFinish
  BY <1>4, FinishMoves DEF WatchdogFinish, Typed, WatchdogTyped, OnlyDispatched, Busy
<1> QED
  BY <1>1, <1>2, <1>3, <1>4 DEF Watchdog

LEMMA RecoveryKind ==
  ASSUME Typed, OnlyDispatched, NEW r \in Runs, recoverAfterRestart(r)
  PROVE  Moves
<1>1. Dispatched(r) /\ UNCHANGED <<created, now>>
  BY DEF recoverAfterRestart, OnlyDispatched, Busy
<1>2. status \in [Runs -> Status \cup {"ABSENT"}]
  BY DEF Typed, TypeOK
<1>3. CASE UNCHANGED status
  BY <1>1, <1>3 DEF Moves
<1>4. CASE finishInternal(r, "FAILED")
  BY <1>1, <1>4, FinishMoves DEF TERMINAL
<1>5. CASE settlePausedAfterRestart(r)
  BY <1>1, <1>2, <1>5, StatusMoves
  DEF settlePausedAfterRestart, MayMove, Status, ACTIVE, OCCUPYING
<1>6. CASE status[r] \in ACTIVE \ {"CANCELLING"} /\ status' = [status EXCEPT ![r] = "RUNNING"]
  BY <1>1, <1>2, <1>6, StatusMoves DEF MayMove, Status, ACTIVE, OCCUPYING
<1>7. isResumableActive(status[r]) => status[r] \in ACTIVE \ {"CANCELLING"}
  BY DEF isResumableActive, ACTIVE
<1> QED
  BY <1>3, <1>4, <1>5, <1>6, <1>7
  DEF recoverAfterRestart, Adopt, RedispatchStarting, resumeAfterRestart, OrphanOrKeep

LEMMA Kinds ==
  ASSUME Typed, OnlyDispatched, [Next]_vars
  PROVE  Moves \/ Marks \/ Inserts
<1>1. CASE \E r \in Runs : RuntimeEnds(r) \/ ResultLost(r)
  BY <1>1 DEF RuntimeEnds, ResultLost, Moves
<1>2. CASE \E p \in Permits : ReleaseGlobal(p) \/ LeaseExpires(p)
  BY <1>2 DEF ReleaseGlobal, LeaseExpires, Moves
<1>3. CASE RuntimeRestarts \/ Crash \/ UNCHANGED vars
  BY <1>3 DEF RuntimeRestarts, Crash, Moves
<1> QED
  BY <1>1, <1>2, <1>3, DispatchKind, ThreadKind, CallbackKind, RequestKind, WatchdogKind,
     RecoveryKind DEF Next

-----------------------------------------------------------------------------
(***************************************************************************)
(* OnlyDispatched: nobody becomes busy with a row that still waits, and a  *)
(* row that left the queue never comes back to it.                         *)
(***************************************************************************)
LEMMA Stable ==
  ASSUME Typed, Moves \/ Marks \/ Inserts, NEW r \in Runs
  PROVE  /\ Dispatched(r) => Dispatched(r)'
         /\ status[r] \in TERMINAL => status'[r] = status[r]
<1> USE DEF Typed, TypeOK, Dispatched, Status, ACTIVE, TERMINAL, OCCUPYING
<1>1. CASE Moves
  BY <1>1 DEF Moves, MayMove
<1>2. CASE Marks
  BY <1>2 DEF Marks, DispatchMark
<1>3. CASE Inserts
  BY <1>3 DEF Inserts, Insert
<1> QED
  BY <1>1, <1>2, <1>3

LEMMA BusyDispatch ==
  ASSUME Typed, NEW d \in Dispatchers, Dispatch(d), NEW q \in Runs, Busy(q)'
  PROVE  Busy(q) \/ Dispatched(q)'
<1>1. CASE DispatchMark(d)
  BY <1>1 DEF DispatchMark, Busy, Dispatched, Typed, TypeOK
<1> QED
  BY <1>1 DEF Dispatch, DispatchList, DispatchNext, DispatchGlobal, DispatchConversation, Busy

LEMMA BusyThread ==
  ASSUME Typed, OnlyDispatched, NEW r \in Runs, Thread(r), NEW q \in Runs, Busy(q)'
  PROVE  Busy(q) \/ Dispatched(q)
<1> USE DEF Typed, TypeOK, Busy, OnlyDispatched
<1>1. CASE Start(r)
  BY <1>1 DEF Start, StartCas, StartCall, StartFailed, Accept, finishInternal
<1>2. CASE FinishRelease(r) \/ PausedRelease(r) \/ PausedClear(r) \/ AttachExecutionPermit(r)
             \/ PauseReturn(r)
  BY <1>2 DEF FinishRelease, PausedRelease, PausedClear, AttachExecutionPermit, PauseReturn
<1>3. CASE applyRuntimeResult(r)
  BY <1>3 DEF applyRuntimeResult, ResultCancelled, ResultPaused, ResultTerminal, ResultRecheck,
              finishInternal
<1>4. CASE Resume(r)
  BY <1>4 DEF Resume, ResumeCas, ResumeCall, ResumeAccepted, ResumeFailed, Accept, ResumeState
<1>5. CASE CancelAct(r)
  BY <1>5, RunAssumption DEF CancelAct, cancelQueued, CancelPaused, CancelPropagate, cancelRun,
                             finishInternal, Status, ACTIVE
<1> QED
  BY <1>1, <1>2, <1>3, <1>4, <1>5 DEF Thread

LEMMA BusyOther ==
  ASSUME Typed, OnlyDispatched, NEW r \in Runs, NEW q \in Runs, Busy(q)',
         Callback(r) \/ Request(r) \/ RuntimeEnds(r) \/ ResultLost(r) \/ recoverAfterRestart(r)
  PROVE  Busy(q) \/ Dispatched(q)
<1> USE DEF Typed, TypeOK, Busy, OnlyDispatched
<1>1. CASE Callback(r)
  BY <1>1 DEF Callback, applyRuntimeEvent, saveRunCheckpoint, releaseExecutionPermit,
              tryAcquireExecutionPermit, ResultArrives
<1>2. CASE Request(r)
  BY <1>2 DEF Request, submit, retryFromCheckpoint, Insert, pauseActiveRun, resumePausedRun,
              CancelRead, cancelActiveRun, Dispatched, isActive, ACTIVE
<1>3. CASE RuntimeEnds(r) \/ ResultLost(r)
  BY <1>3 DEF RuntimeEnds, ResultLost
<1>4. CASE recoverAfterRestart(r)
  BY <1>4 DEF recoverAfterRestart, Adopt, settlePausedAfterRestart, RedispatchStarting,
              resumeAfterRestart, OrphanOrKeep, Accept, finishInternal
<1> QED
  BY <1>1, <1>2, <1>3, <1>4

LEMMA OnlyDispatchedStep ==
  ASSUME Typed, OnlyDispatched, [Next]_vars
  PROVE  OnlyDispatched'
<1> SUFFICES ASSUME NEW q \in Runs, Busy(q)'
             PROVE  Dispatched(q)'
  BY DEF OnlyDispatched
<1>1. Dispatched(q) => Dispatched(q)'
  BY Kinds, Stable
<1>2. Busy(q) => Dispatched(q)
  BY DEF OnlyDispatched
<1>3. CASE Watchdog
  <2>1. CASE \E r \in Runs : WatchdogJudge(r)
    BY <1>1, <1>2, <2>1 DEF WatchdogJudge, Busy, Verdict, ACTIVE, Dispatched
  <2>2. CASE \E r \in Runs : revertPausing(r)
    BY <1>1, <1>2, <2>2 DEF revertPausing, Busy
  <2>3. CASE WatchdogCancel
    BY <1>1, <1>2, <2>3 DEF WatchdogCancel, cancelRun, Busy, Typed, TypeOK
  <2>4. CASE WatchdogFinish
    <3>1. Busy(q)
      BY <2>4 DEF WatchdogFinish, finishInternal, Busy, Typed, TypeOK, IdleWatchdog, WatchdogTyped
    <3> QED
      BY <1>1, <1>2, <3>1
  <2> QED
    BY <1>3, <2>1, <2>2, <2>3, <2>4 DEF Watchdog
<1>4. CASE RuntimeRestarts
  BY <1>1, <1>2, <1>4 DEF RuntimeRestarts, Busy, Posting
<1>5. CASE Crash
  BY <1>1, <1>2, <1>5, RunAssumption
  DEF Crash, Busy, Dispatched, isActive, Status, ACTIVE, IdleResult, IdleResume, IdleWatchdog,
      Typed, TypeOK, ResultState, Unanswered
<1>6. CASE \E p \in Permits : ReleaseGlobal(p) \/ LeaseExpires(p)
  BY <1>1, <1>2, <1>6 DEF ReleaseGlobal, LeaseExpires, Busy
<1>7. CASE UNCHANGED vars
  BY <1>1, <1>2, <1>7 DEF Busy
<1> QED
  BY <1>1, <1>2, <1>3, <1>4, <1>5, <1>6, <1>7, BusyDispatch, BusyThread, BusyOther DEF Next

-----------------------------------------------------------------------------
(***************************************************************************)
(* Leases.  Few steps touch a conversation's lease or the column naming    *)
(* it; all others are Quiet, and Leased survives them because no status    *)
(* other than QUEUED leads into OCCUPYING.                                 *)
(***************************************************************************)
QuietDispatcher(d) ==
  disp'[d] = disp[d] \/ (disp'[d].pc # "mark" /\ disp'[d].c \in {disp[d].c, None})

Quiet ==
  /\ UNCHANGED <<convPermit, convHeld>>
  /\ \A d \in Dispatchers : QuietDispatcher(d)

LEMMA OccupyingMoves ==
  ASSUME Typed, Moves \/ Inserts, NEW r \in Runs, status'[r] \in OCCUPYING
  PROVE  status[r] \in OCCUPYING
<1> USE DEF Typed, TypeOK, Status, ACTIVE, TERMINAL, OCCUPYING
<1>1. CASE Moves
  BY <1>1 DEF Moves, MayMove
<1>2. CASE Inserts
  BY <1>2 DEF Inserts, Insert
<1> QED
  BY <1>1, <1>2

LEMMA QuietLeases ==
  ASSUME Typed, Leased, Moves \/ Inserts, Quiet
  PROVE  OccupantHoldsLease' /\ DispatcherHoldsLease' /\ OneRowPerPermit'
<1>1. OccupantHoldsLease'
  BY OccupyingMoves DEF Quiet, Leased, OccupantHoldsLease
<1>2. DispatcherHoldsLease'
  <2> SUFFICES ASSUME NEW d \in Dispatchers, disp'[d].pc = "mark"
               PROVE  /\ disp'[d].c # None
                      /\ convHeld'[ConvOf[disp'[d].run]] = disp'[d].c
                      /\ \A r \in Runs : convPermit'[r] # disp'[d].c
                      /\ \A e \in Dispatchers \ {d} : disp'[e].c # disp'[d].c
    BY DEF DispatcherHoldsLease
  <2>1. disp'[d] = disp[d]
    BY DEF Quiet, QuietDispatcher
  <2>2. \A e \in Dispatchers : disp'[e].c \in {disp[e].c, None}
    BY DEF Quiet, QuietDispatcher
  <2> QED
    BY <2>1, <2>2 DEF Quiet, Leased, DispatcherHoldsLease
<1>3. OneRowPerPermit'
  BY DEF Quiet, Leased, OneRowPerPermit
<1> QED
  BY <1>1, <1>2, <1>3

LEMMA FinishedStep ==
  ASSUME Typed, OnlyDispatched, FinishedIsTerminal, [Next]_vars
  PROVE  FinishedIsTerminal'
<1> SUFFICES ASSUME NEW q \in Runs, finish'[q]
             PROVE  isTerminal(status'[q])
  BY DEF FinishedIsTerminal
<1>1. isTerminal(status[q]) => isTerminal(status'[q])
  BY Kinds, Stable DEF isTerminal
<1>2. CASE finish[q]
  BY <1>1, <1>2 DEF FinishedIsTerminal
<1>3. CASE \E terminal \in TERMINAL : finishInternal(q, terminal) /\ ~finish[q]
  BY <1>3 DEF finishInternal, isTerminal, Typed, TypeOK
<1>4. ASSUME NEW r \in Runs, NEW terminal \in TERMINAL, finishInternal(r, terminal), ~finish[q]
      PROVE  finishInternal(q, terminal)
  BY <1>4 DEF finishInternal, Typed, TypeOK
<1>5. CASE \E r \in Runs, terminal \in TERMINAL : finishInternal(r, terminal)
  BY <1>2, <1>3, <1>4, <1>5
<1>6. CASE \E d \in Dispatchers : Dispatch(d)
  BY <1>2, <1>6 DEF Dispatch, DispatchList, DispatchNext, DispatchGlobal, DispatchConversation,
                    DispatchMark
<1>7. CASE \E r \in Runs : Thread(r)
  <2>1. PICK r \in Runs : Thread(r)
    BY <1>7
  <2>2. CASE Start(r)
    BY <1>2, <1>5, <2>2 DEF Start, StartCas, StartCall, StartFailed, TERMINAL
  <2>3. CASE FinishRelease(r)
    BY <1>2, <2>3 DEF FinishRelease, Typed, TypeOK
  <2>4. CASE applyRuntimeResult(r)
    BY <1>2, <1>5, <2>4
    DEF applyRuntimeResult, ResultCancelled, ResultPaused, ResultTerminal, ResultRecheck,
        Typed, ResultsTyped, TERMINAL
  <2>5. CASE CancelAct(r)
    BY <1>2, <1>5, <2>5
    DEF CancelAct, cancelQueued, CancelPaused, CancelPropagate, TERMINAL
  <2>6. CASE Resume(r)
    BY <1>2, <2>6 DEF Resume, ResumeCas, ResumeCall, ResumeAccepted, ResumeFailed
  <2>7. CASE PausedRelease(r) \/ PausedClear(r) \/ AttachExecutionPermit(r) \/ PauseReturn(r)
    BY <1>2, <2>7 DEF PausedRelease, PausedClear, AttachExecutionPermit, PauseReturn
  <2> QED
    BY <2>1, <2>2, <2>3, <2>4, <2>5, <2>6, <2>7 DEF Thread
<1>8. CASE \E r \in Runs : Callback(r) \/ Request(r) \/ RuntimeEnds(r) \/ ResultLost(r)
  BY <1>2, <1>8
  DEF Callback, applyRuntimeEvent, saveRunCheckpoint, releaseExecutionPermit,
      tryAcquireExecutionPermit, ResultArrives, Request, submit, retryFromCheckpoint, Insert,
      pauseActiveRun, resumePausedRun, CancelRead, cancelActiveRun, RuntimeEnds, ResultLost
<1>9. CASE \E r \in Runs : recoverAfterRestart(r)
  <2>1. CASE UNCHANGED finish
    BY <1>2, <2>1
  <2>2. CASE \E r \in Runs : finishInternal(r, "FAILED")
    BY <1>5, <2>2 DEF TERMINAL
  <2> QED
    BY <1>9, <2>1, <2>2
    DEF recoverAfterRestart, Adopt, settlePausedAfterRestart, RedispatchStarting,
        resumeAfterRestart, OrphanOrKeep
<1>10. CASE Watchdog
  BY <1>2, <1>5, <1>10
  DEF Watchdog, WatchdogJudge, WatchdogCancel, WatchdogFinish, revertPausing, Typed,
      WatchdogTyped
<1>11. CASE RuntimeRestarts \/ Crash \/ UNCHANGED vars
              \/ \E p \in Permits : ReleaseGlobal(p) \/ LeaseExpires(p)
  BY <1>2, <1>11 DEF RuntimeRestarts, Crash, ReleaseGlobal, LeaseExpires
<1> QED
  BY <1>6, <1>7, <1>8, <1>9, <1>10, <1>11 DEF Next

LEMMA QuietThread ==
  ASSUME NEW r \in Runs, Thread(r), ~FinishRelease(r)
  PROVE  UNCHANGED <<convPermit, convHeld, disp>>
BY DEF Thread, Start, StartCas, StartCall, StartFailed, applyRuntimeResult, PausedRelease,
       PausedClear, Resume, ResumeCas, ResumeCall, ResumeAccepted, ResumeFailed, PauseReturn,
       CancelAct, AttachExecutionPermit

LEMMA QuietOther ==
  ASSUME NEW r \in Runs,
         Callback(r) \/ Request(r) \/ RuntimeEnds(r) \/ ResultLost(r) \/ recoverAfterRestart(r)
  PROVE  UNCHANGED <<convPermit, convHeld, disp>>
BY DEF Callback, applyRuntimeEvent, saveRunCheckpoint, releaseExecutionPermit,
       tryAcquireExecutionPermit, ResultArrives, Request, submit, retryFromCheckpoint, Insert,
       pauseActiveRun, resumePausedRun, CancelRead, cancelActiveRun, RuntimeEnds, ResultLost,
       recoverAfterRestart

LEMMA QuietDispatch ==
  ASSUME Typed, NEW d \in Dispatchers, DispatchList(d) \/ DispatchNext(d) \/ DispatchGlobal(d)
  PROVE  Quiet
<1>1. UNCHANGED <<convPermit, convHeld>>
  BY DEF DispatchList, DispatchNext, DispatchGlobal
<1>2. disp[d] \in DispatchState /\ disp \in [Dispatchers -> DispatchState]
  BY DEF Typed, TypeOK
<1>3. \A todo : Walk(todo).pc # "mark" /\ Walk(todo).c = None
  BY DEF Walk
<1>4. IdleDispatch.pc # "mark" /\ IdleDispatch.c = None
  BY DEF IdleDispatch
<1>5. \E x : /\ disp' = [disp EXCEPT ![d] = x]
             /\ x.pc # "mark"
             /\ x.c \in {disp[d].c, None}
  <2>1. CASE DispatchList(d)
    BY <1>3, <2>1 DEF DispatchList
  <2>2. CASE DispatchNext(d)
    <3>1. PICK r \in disp[d].todo :
            disp' = [disp EXCEPT ![d] = Walk(disp[d].todo \ {r})]
              \/ disp' = [disp EXCEPT ![d].pc = "global", ![d].run = r, ![d].todo = @ \ {r}]
      BY <2>2 DEF DispatchNext
    <3>2. CASE disp' = [disp EXCEPT ![d] = Walk(disp[d].todo \ {r})]
      BY <1>3, <3>2
    <3>3. CASE disp' = [disp EXCEPT ![d].pc = "global", ![d].run = r, ![d].todo = @ \ {r}]
      BY <1>2, <3>3 DEF DispatchState
    <3> QED
      BY <3>1, <3>2, <3>3
  <2>3. CASE DispatchGlobal(d)
    <3>1. \/ disp' = [disp EXCEPT ![d] = IdleDispatch]
          \/ \E p \in Permits :
               disp' = [disp EXCEPT ![d] = [@ EXCEPT !.pc = "conversation", !.g = p]]
      BY <1>2, <2>3 DEF DispatchGlobal, DispatchState
    <3>2. ASSUME NEW p \in Permits
          PROVE  /\ [disp[d] EXCEPT !.pc = "conversation", !.g = p].pc # "mark"
                 /\ [disp[d] EXCEPT !.pc = "conversation", !.g = p].c = disp[d].c
      BY <1>2 DEF DispatchState
    <3> QED
      BY <1>4, <3>1, <3>2
  <2> QED
    BY <2>1, <2>2, <2>3
<1> QED
  BY <1>1, <1>2, <1>5 DEF Quiet, QuietDispatcher

LEMMA AcquireLeases ==
  ASSUME Typed, Leased, NEW d \in Dispatchers, DispatchConversation(d)
  PROVE  OccupantHoldsLease' /\ DispatcherHoldsLease' /\ OneRowPerPermit'
<1> DEFINE c == ConvOf[disp[d].run]
<1>0. /\ disp \in [Dispatchers -> DispatchState]
      /\ disp[d].run \in Runs
      /\ c \in Conversations
      /\ convHeld \in [Conversations -> MaybePermit]
      /\ UNCHANGED <<status, convPermit>>
  BY RunAssumption DEF Typed, TypeOK, DispatchTyped, DispatchConversation
<1>1. OneRowPerPermit'
  BY <1>0 DEF Leased, OneRowPerPermit
<1>2. CASE \E p \in Permits :
             /\ tryAcquireConversation(c, p)
             /\ disp' = [disp EXCEPT ![d].pc = "mark", ![d].c = p]
  <2>1. PICK p \in Permits :
          /\ convHeld[c] = None
          /\ p \notin ConvIdsInUse
          /\ convHeld' = [convHeld EXCEPT ![c] = p]
          /\ disp' = [disp EXCEPT ![d].pc = "mark", ![d].c = p]
    BY <1>2 DEF tryAcquireConversation
  <2>2. /\ p # None
        /\ \A r \in Runs : convPermit[r] # p
        /\ \A e \in Dispatchers : disp[e].c # p
    BY <2>1, RunAssumption DEF ConvIdsInUse
  <2>3. OccupantHoldsLease'
    BY <1>0, <2>1, RunAssumption DEF Leased, OccupantHoldsLease
  <2>4. /\ disp'[d].pc = "mark" /\ disp'[d].c = p /\ disp'[d].run = disp[d].run
        /\ \A e \in Dispatchers \ {d} : disp'[e] = disp[e]
    BY <1>0, <2>1 DEF DispatchState
  <2>5. ASSUME NEW e \in Dispatchers \ {d}, disp[e].pc = "mark"
        PROVE  disp[e].run \in Runs /\ ConvOf[disp[e].run] # c
    BY <2>1, <2>5 DEF Leased, DispatcherHoldsLease, Typed, DispatchTyped
  <2>6. DispatcherHoldsLease'
    BY <1>0, <2>1, <2>2, <2>4, <2>5, RunAssumption DEF Leased, DispatcherHoldsLease
  <2> QED
    BY <1>1, <2>3, <2>6
<1>3. CASE UNCHANGED convHeld /\ disp' = [disp EXCEPT ![d] = Walk(disp[d].todo)]
  <2>1. OccupantHoldsLease'
    BY <1>0, <1>3 DEF Leased, OccupantHoldsLease
  <2>2. disp'[d].pc # "mark" /\ disp'[d].c = None
    BY <1>0, <1>3 DEF Walk
  <2>3. \A e \in Dispatchers \ {d} : disp'[e] = disp[e]
    BY <1>0, <1>3
  <2>4. DispatcherHoldsLease'
    BY <1>0, <1>3, <2>2, <2>3 DEF Leased, DispatcherHoldsLease
  <2> QED
    BY <1>1, <2>1, <2>4
<1> QED
  BY <1>2, <1>3 DEF DispatchConversation

LEMMA MarkLeases ==
  ASSUME Typed, Leased, NEW d \in Dispatchers, DispatchMark(d)
  PROVE  OccupantHoldsLease' /\ DispatcherHoldsLease' /\ OneRowPerPermit'
<1> DEFINE r == disp[d].run
           p == disp[d].c
<1>1. /\ disp \in [Dispatchers -> DispatchState]
      /\ status \in [Runs -> Status \cup {"ABSENT"}]
      /\ convPermit \in [Runs -> MaybePermit]
      /\ convHeld \in [Conversations -> MaybePermit]
      /\ r \in Runs /\ ConvOf[r] \in Conversations
  BY RunAssumption DEF Typed, TypeOK, DispatchTyped, DispatchMark
<1>2. /\ p # None
      /\ convHeld[ConvOf[r]] = p
      /\ \A q \in Runs : convPermit[q] # p
      /\ \A e \in Dispatchers \ {d} : disp[e].c # p
  BY DEF Leased, DispatcherHoldsLease, DispatchMark
<1>3. /\ disp'[d].pc # "mark" /\ disp'[d].c = None
      /\ \A e \in Dispatchers \ {d} : disp'[e] = disp[e]
  BY <1>1 DEF DispatchMark, Walk
<1>4. CASE status[r] = "QUEUED"
  <2>1. /\ status' = [status EXCEPT ![r] = "STARTING"]
        /\ convPermit' = [convPermit EXCEPT ![r] = p]
        /\ UNCHANGED convHeld
    BY <1>4 DEF DispatchMark
  <2>2. OccupantHoldsLease'
    BY <1>1, <1>2, <2>1 DEF Leased, OccupantHoldsLease
  <2>3. OneRowPerPermit'
    BY <1>1, <1>2, <2>1 DEF Leased, OneRowPerPermit
  <2>4. DispatcherHoldsLease'
    BY <1>1, <1>2, <1>3, <2>1 DEF Leased, DispatcherHoldsLease
  <2> QED
    BY <2>2, <2>3, <2>4
<1>5. CASE status[r] # "QUEUED"
  <2>1. /\ UNCHANGED <<status, convPermit>>
        /\ convHeld' = [convHeld EXCEPT ![ConvOf[r]] = None]
    BY <1>2, <1>5 DEF DispatchMark, releaseConversation
  <2>2. OccupantHoldsLease'
    BY <1>1, <1>2, <2>1 DEF Leased, OccupantHoldsLease
  <2>3. OneRowPerPermit'
    BY <2>1 DEF Leased, OneRowPerPermit
  <2>4. ASSUME NEW e \in Dispatchers \ {d}, disp[e].pc = "mark"
        PROVE  ConvOf[disp[e].run] # ConvOf[r]
    BY <1>2, <2>4 DEF Leased, DispatcherHoldsLease
  <2>5. DispatcherHoldsLease'
    BY <1>1, <1>3, <2>1, <2>4 DEF Leased, DispatcherHoldsLease
  <2> QED
    BY <2>2, <2>3, <2>5
<1> QED
  BY <1>4, <1>5

LEMMA ReleaseLeases ==
  ASSUME Typed, Leased, NEW r \in Runs, FinishRelease(r)
  PROVE  OccupantHoldsLease' /\ DispatcherHoldsLease' /\ OneRowPerPermit'
<1>1. /\ convHeld' = IF convHeld[ConvOf[r]] = convPermit[r]
                     THEN [convHeld EXCEPT ![ConvOf[r]] = None] ELSE convHeld
      /\ convPermit' = [convPermit EXCEPT ![r] = None]
      /\ UNCHANGED <<status, disp>>
  BY DEF FinishRelease, releaseConversation
<1>2. /\ convPermit \in [Runs -> MaybePermit]
      /\ convHeld \in [Conversations -> MaybePermit]
      /\ ConvOf \in [Runs -> Conversations]
  BY RunAssumption DEF Typed, TypeOK
<1>3. status[r] \notin OCCUPYING
  BY DEF FinishRelease, Leased, FinishedIsTerminal, isTerminal, TERMINAL, OCCUPYING, ACTIVE
<1>4. OneRowPerPermit'
  BY <1>1, <1>2 DEF Leased, OneRowPerPermit
<1>5. ASSUME NEW q \in Runs, status[q] \in OCCUPYING
      PROVE  convPermit'[q] # None /\ convHeld'[ConvOf[q]] = convPermit'[q]
  <2>1. /\ q # r
        /\ convPermit[q] # None
        /\ convHeld[ConvOf[q]] = convPermit[q]
        /\ convPermit[q] # convPermit[r]
    BY <1>3, <1>5 DEF Leased, OccupantHoldsLease, OneRowPerPermit
  <2> QED
    BY <1>1, <1>2, <2>1
<1>6. OccupantHoldsLease'
  BY <1>1, <1>5 DEF OccupantHoldsLease
<1>7. ASSUME NEW d \in Dispatchers, disp[d].pc = "mark"
      PROVE  convHeld'[ConvOf[disp[d].run]] = disp[d].c
  <2>1. /\ convHeld[ConvOf[disp[d].run]] = disp[d].c
        /\ convPermit[r] # disp[d].c
        /\ disp[d].run \in Runs
    BY <1>7 DEF Leased, DispatcherHoldsLease, Typed, DispatchTyped
  <2> QED
    BY <1>1, <1>2, <2>1
<1>8. DispatcherHoldsLease'
  BY <1>1, <1>2, <1>7 DEF Leased, DispatcherHoldsLease
<1> QED
  BY <1>4, <1>6, <1>8

LEMMA ExpireLeases ==
  ASSUME Typed, Leased, NEW p \in Permits, LeaseExpires(p)
  PROVE  OccupantHoldsLease' /\ DispatcherHoldsLease' /\ OneRowPerPermit'
<1>1. UNCHANGED <<status, convPermit, disp>>
  BY DEF LeaseExpires
<1>2. OneRowPerPermit'
  BY <1>1 DEF Leased, OneRowPerPermit
<1>3. CASE UNCHANGED convHeld
  BY <1>1, <1>2, <1>3 DEF Leased, OccupantHoldsLease, DispatcherHoldsLease
<1>4. CASE \E c \in Conversations : /\ convHeld[c] = p
                                   /\ p \notin ConvRenewed
                                   /\ convHeld' = [convHeld EXCEPT ![c] = None]
  <2>1. PICK c \in Conversations : /\ convHeld[c] = p
                                   /\ p \notin ConvRenewed
                                   /\ convHeld' = [convHeld EXCEPT ![c] = None]
    BY <1>4
  <2>2. /\ \A q \in Runs : status[q] \in OCCUPYING => convPermit[q] # p
        /\ \A d \in Dispatchers : disp[d].c # p
    BY <2>1 DEF ConvRenewed
  <2>3. OccupantHoldsLease'
    BY <1>1, <2>1, <2>2, RunAssumption DEF Leased, OccupantHoldsLease, Typed, TypeOK
  <2>4. DispatcherHoldsLease'
    BY <1>1, <2>1, <2>2, RunAssumption
    DEF Leased, DispatcherHoldsLease, Typed, TypeOK, DispatchTyped
  <2> QED
    BY <1>2, <2>3, <2>4
<1> QED
  BY <1>3, <1>4 DEF LeaseExpires, releaseConversation

LEMMA LeasedStep ==
  ASSUME ~Outages, Typed, OnlyDispatched, Leased, [Next]_vars
  PROVE  Leased'
<1>1. FinishedIsTerminal'
  BY FinishedStep DEF Leased
<1> DEFINE Held == OccupantHoldsLease' /\ DispatcherHoldsLease' /\ OneRowPerPermit'
<1>2. CASE \E d \in Dispatchers : DispatchConversation(d)
  BY <1>1, <1>2, AcquireLeases DEF Leased
<1>3. CASE \E d \in Dispatchers : DispatchMark(d)
  BY <1>1, <1>3, MarkLeases DEF Leased
<1>4. CASE \E r \in Runs : FinishRelease(r)
  BY <1>1, <1>4, ReleaseLeases DEF Leased
<1>5. CASE \E p \in Permits : LeaseExpires(p)
  BY <1>1, <1>5, ExpireLeases DEF Leased
<1>6. CASE Quiet /\ ~Marks
  BY <1>1, <1>6, Kinds, QuietLeases DEF Leased
<1>7. CASE UNCHANGED <<convPermit, convHeld, disp>>
  <2>1. ~(\E d \in Dispatchers : DispatchMark(d))
    <3> SUFFICES ASSUME NEW d \in Dispatchers, DispatchMark(d) PROVE FALSE
      OBVIOUS
    <3>1. disp'[d].pc # disp[d].pc
      BY DEF DispatchMark, Walk, Typed, TypeOK
    <3> QED
      BY <1>7, <3>1
  <2>2. Quiet /\ ~Marks
    BY <1>7, <2>1 DEF Quiet, QuietDispatcher, Marks
  <2> QED
    BY <1>6, <2>2
<1>8. CASE \E d \in Dispatchers : DispatchList(d) \/ DispatchNext(d) \/ DispatchGlobal(d)
  <2>1. Quiet
    BY <1>8, QuietDispatch
  <2>2. CASE Marks
    BY <1>3, <2>2 DEF Marks
  <2> QED
    BY <1>6, <2>1, <2>2
<1>9. CASE Crash
  <2>1. Quiet /\ UNCHANGED status
    BY <1>9 DEF Crash, Quiet, QuietDispatcher, IdleDispatch
  <2>2. CASE Marks
    BY <1>3, <2>2 DEF Marks
  <2> QED
    BY <1>6, <2>1, <2>2
<1>10. CASE Watchdog \/ RuntimeRestarts \/ UNCHANGED vars \/ \E p \in Permits : ReleaseGlobal(p)
  BY <1>7, <1>10 DEF Watchdog, WatchdogJudge, WatchdogCancel, WatchdogFinish, revertPausing,
                     RuntimeRestarts, ReleaseGlobal
<1>11. CASE \E r \in Runs : /\ ~FinishRelease(r)
                            /\ \/ Thread(r) \/ Callback(r) \/ Request(r) \/ RuntimeEnds(r)
                               \/ ResultLost(r) \/ recoverAfterRestart(r)
  BY <1>7, <1>11, QuietThread, QuietOther
<1> QED
  BY <1>2, <1>3, <1>4, <1>5, <1>8, <1>9, <1>10, <1>11 DEF Next, Dispatch

-----------------------------------------------------------------------------
(***************************************************************************)
(* Order.  An inserted row is the youngest, so it overtakes nobody; and no *)
(* row returns to the queue, so what was its head stays at the head.       *)
(***************************************************************************)
LEMMA NumberedStep ==
  ASSUME Typed, OnlyDispatched, Numbered, [Next]_vars
  PROVE  Numbered'
<1> USE DEF Typed, TypeOK, Numbered
<1>1. CASE Moves
  BY <1>1 DEF Moves, MayMove, ACTIVE
<1>2. CASE Marks
  BY <1>2 DEF Marks, DispatchMark
<1>3. CASE Inserts
  BY <1>3 DEF Inserts, Insert
<1> QED
  BY <1>1, <1>2, <1>3, Kinds

\* The rows a dispatcher has in hand.
InHand(d) ==
  disp[d].todo
    \cup (IF disp[d].pc \in {"global", "conversation", "mark"} THEN {disp[d].run} ELSE {})

IsHead(r) == status[r] # "ABSENT" /\ EarlierQueued(r) = {}

LEMMA HeadStays ==
  ASSUME Typed, OnlyDispatched, Numbered, [Next]_vars, NEW r \in Runs, IsHead(r)
  PROVE  IsHead(r)'
<1> USE DEF Typed, TypeOK, IsHead, EarlierQueued
<1>1. CASE Moves
  BY <1>1 DEF Moves, MayMove, ACTIVE, OCCUPYING, TERMINAL, Status
<1>2. CASE Marks
  BY <1>2 DEF Marks, DispatchMark
<1>3. CASE Inserts
  BY <1>3 DEF Inserts, Insert, Numbered
<1> QED
  BY <1>1, <1>2, <1>3, Kinds

LEMMA HandStep ==
  ASSUME Typed, [Next]_vars, NEW d \in Dispatchers, NEW r \in Runs, r \in InHand(d)'
  PROVE  r \in InHand(d) \/ IsHead(r)
<1>1. /\ disp \in [Dispatchers -> DispatchState]
      /\ disp[d] \in DispatchState
  BY DEF Typed, TypeOK
<1>2. \A todo : Walk(todo).todo = todo /\ Walk(todo).pc \notin {"global", "conversation", "mark"}
  BY DEF Walk
<1>3. CASE disp' = disp
  BY <1>3 DEF InHand
<1>4. CASE Crash
  BY <1>1, <1>4 DEF Crash, InHand, IdleDispatch
<1>5. CASE \E e \in Dispatchers : Dispatch(e)
  <2>1. PICK e \in Dispatchers : Dispatch(e)
    BY <1>5
  <2>2. CASE e # d
    <3>1. disp'[d] = disp[d]
      BY <1>1, <2>1, <2>2
      DEF Dispatch, DispatchList, DispatchNext, DispatchGlobal, DispatchConversation, DispatchMark
    <3> QED
      BY <3>1 DEF InHand
  <2>3. CASE DispatchList(d)
    BY <1>1, <1>2, <2>3 DEF DispatchList, HeadsOfConversations, InHand, IsHead
  <2>4. CASE DispatchNext(d)
    <3>1. PICK q \in disp[d].todo :
            disp' = [disp EXCEPT ![d] = Walk(disp[d].todo \ {q})]
              \/ disp' = [disp EXCEPT ![d].pc = "global", ![d].run = q, ![d].todo = @ \ {q}]
      BY <2>4 DEF DispatchNext
    <3>2. CASE disp' = [disp EXCEPT ![d] = Walk(disp[d].todo \ {q})]
      BY <1>1, <1>2, <3>2 DEF InHand
    <3>3. CASE disp' = [disp EXCEPT ![d].pc = "global", ![d].run = q, ![d].todo = @ \ {q}]
      BY <1>1, <3>1, <3>3 DEF InHand, DispatchState
    <3> QED
      BY <3>1, <3>2, <3>3
  <2>5. CASE DispatchGlobal(d)
    BY <1>1, <2>5 DEF DispatchGlobal, InHand, DispatchState, IdleDispatch
  <2>6. CASE DispatchConversation(d)
    BY <1>1, <1>2, <2>6 DEF DispatchConversation, InHand, DispatchState
  <2>7. CASE DispatchMark(d)
    BY <1>1, <1>2, <2>7 DEF DispatchMark, InHand
  <2> QED
    BY <2>1, <2>2, <2>3, <2>4, <2>5, <2>6, <2>7 DEF Dispatch
<1>6. CASE \E q \in Runs : /\ ~FinishRelease(q)
                           /\ \/ Thread(q) \/ Callback(q) \/ Request(q) \/ RuntimeEnds(q)
                              \/ ResultLost(q) \/ recoverAfterRestart(q)
  BY <1>3, <1>6, QuietThread, QuietOther
<1>7. CASE Watchdog \/ RuntimeRestarts \/ UNCHANGED vars
             \/ (\E p \in Permits : ReleaseGlobal(p) \/ LeaseExpires(p))
             \/ \E q \in Runs : FinishRelease(q)
  BY <1>3, <1>7 DEF Watchdog, WatchdogJudge, WatchdogCancel, WatchdogFinish, revertPausing,
                    RuntimeRestarts, ReleaseGlobal, LeaseExpires, FinishRelease
<1> QED
  BY <1>4, <1>5, <1>6, <1>7 DEF Next

LEMMA OrderedStep ==
  ASSUME Typed, OnlyDispatched, Ordered, [Next]_vars
  PROVE  Ordered'
<1>1. Numbered'
  BY NumberedStep DEF Ordered
<1>2. ASSUME NEW d \in Dispatchers, NEW r \in Runs, r \in InHand(d)'
      PROVE  IsHead(r)'
  <2>1. IsHead(r)
    BY <1>2, HandStep DEF Ordered, HeadsStay, InHand, IsHead
  <2> QED
    BY <2>1, HeadStays DEF Ordered
<1>3. HeadsStay'
  BY <1>2 DEF HeadsStay, InHand, IsHead
<1> QED
  BY <1>1, <1>3 DEF Ordered

-----------------------------------------------------------------------------
LEMMA InvariantInit == Init => RunInvariant
<1> SUFFICES ASSUME Init PROVE RunInvariant
  OBVIOUS
<1>1. Typed
  BY TypedInit
<1>2. OnlyDispatched
  BY RunAssumption DEF Init, OnlyDispatched, Busy, IdleResult, IdleResume, IdleWatchdog, Status,
                       ACTIVE
<1>3. Leased
  BY DEF Init, Leased, FinishedIsTerminal, OccupantHoldsLease, DispatcherHoldsLease,
         OneRowPerPermit, OCCUPYING, ACTIVE, IdleDispatch
<1>4. Ordered
  BY DEF Init, Ordered, Numbered, HeadsStay, IdleDispatch
<1> QED
  BY <1>1, <1>2, <1>3, <1>4 DEF RunInvariant

\* The strengthening of the two properties below is inductive.
THEOREM InvariantHolds == ASSUME ~Outages PROVE Spec => []RunInvariant
<1>1. RunInvariant /\ [Next]_vars => RunInvariant'
  BY TypedStep, OnlyDispatchedStep, LeasedStep, OrderedStep DEF RunInvariant
<1> QED
  BY <1>1, InvariantInit, PTL DEF Spec

\* README "strictly serial within a conversation": for every number of runs,
\* conversations, dispatchers, permits and restarts that leases outlive, at
\* most one run occupies a conversation, paused runs included.
THEOREM Serial == ASSUME ~Outages PROVE Spec => []ConversationSerial
<1>1. RunInvariant => ConversationSerial
  BY DEF RunInvariant, Leased, OccupantHoldsLease, OneRowPerPermit, ConversationSerial
<1> QED
  BY <1>1, InvariantHolds, PTL

-----------------------------------------------------------------------------
(***************************************************************************)
(* Refinement: an insertion is an arrival, marking a run STARTING serves   *)
(* it, and every move of a status is a move of its phase or a stutter.     *)
(***************************************************************************)
Phase == [r \in Runs |-> PhaseOf(status[r])]

LEMMA PhaseMoves ==
  ASSUME status \in [Runs -> Status \cup {"ABSENT"}], NEW r \in Runs, NEW s,
         status' = [status EXCEPT ![r] = s]
  PROVE  Phase' = [Phase EXCEPT ![r] = PhaseOf(s)]
BY DEF Phase

LEMMA PhaseInit == Init => Queue!Init
<1> SUFFICES ASSUME Init PROVE Queue!Init
  OBVIOUS
<1>1. PhaseOf("ABSENT") = "new"
  BY DEF PhaseOf, ACTIVE
<1>2. \A r \in Runs : PhaseOf(status[r]) = "new"
  BY <1>1 DEF Init
<1> QED
  BY <1>2 DEF Init, Queue!Init

LEMMA MovesRefine ==
  ASSUME Typed, Moves
  PROVE  [Queue!Next]_(Queue!vars)
<1>1. CASE UNCHANGED status
  BY <1>1 DEF Moves, Queue!vars
<1>2. ASSUME NEW r \in Runs, NEW s \in Status, MayMove(status[r], s),
             status' = [status EXCEPT ![r] = s]
      PROVE  Queue!Next \/ UNCHANGED Queue!vars
  <2>1. Phase' = [Phase EXCEPT ![r] = PhaseOf(s)] /\ Phase[r] = PhaseOf(status[r])
    BY <1>2, PhaseMoves DEF Typed, TypeOK, Phase
  <2>2. UNCHANGED <<created, now>>
    BY DEF Moves
  <2>3. CASE Phase[r] = PhaseOf(s)
    <3>1. Phase' = Phase
      BY <2>1, <2>3 DEF Phase
    <3> QED
      BY <2>2, <3>1 DEF Queue!vars, Phase
  <2>4. ASSUME NEW from, Phase[r] \in from
        PROVE  Queue!Move(r, from, PhaseOf(s))
    BY <2>1, <2>2, <2>4 DEF Queue!Move, Phase
  <2>5. CASE status[r] \in ACTIVE \ {"CANCELLING"}
    <3>1. Phase[r] = "serving"
      BY <2>1, <2>5 DEF PhaseOf, ACTIVE
    <3>2. \/ PhaseOf(s) \in {"serving", "paused", "cancelling"}
          \/ s \in TERMINAL /\ PhaseOf(s) = s
      BY <1>2, <2>5 DEF MayMove, PhaseOf, ACTIVE, OCCUPYING, TERMINAL
    <3> QED
      BY <2>3, <2>4, <3>1, <3>2 DEF Queue!Next, Queue!Pause, Queue!Stop, Queue!Finish
  <2>6. CASE status[r] = "PAUSED"
    <3>1. Phase[r] = "paused"
      BY <2>1, <2>6 DEF PhaseOf, ACTIVE
    <3>2. \/ PhaseOf(s) \in {"serving", "paused"}
          \/ s \in TERMINAL /\ PhaseOf(s) = s
      BY <1>2, <2>6 DEF MayMove, PhaseOf, ACTIVE, OCCUPYING, TERMINAL
    <3> QED
      BY <2>3, <2>4, <3>1, <3>2 DEF Queue!Next, Queue!Continue, Queue!Finish
  <2>7. CASE status[r] = "CANCELLING"
    <3>1. Phase[r] = "cancelling" /\ PhaseOf(s) \in {"cancelling", "CANCELLED"}
      BY <1>2, <2>1, <2>7 DEF MayMove, PhaseOf, ACTIVE
    <3> QED
      BY <2>3, <2>4, <3>1 DEF Queue!Next, Queue!Stopped
  <2>8. CASE status[r] = "QUEUED"
    <3>1. Phase[r] = "waiting" /\ PhaseOf(s) = "CANCELLED"
      BY <1>2, <2>1, <2>8 DEF MayMove, PhaseOf, ACTIVE
    <3> QED
      BY <2>4, <3>1 DEF Queue!Next, Queue!Withdraw
  <2> QED
    BY <1>2, <2>5, <2>6, <2>7, <2>8 DEF MayMove
<1> QED
  BY <1>1, <1>2 DEF Moves

LEMMA InsertsRefine ==
  ASSUME Typed, Inserts
  PROVE  Queue!Next
<1>1. PICK r \in Runs, b \in BOOLEAN : Insert(r, b)
  BY DEF Inserts
<1>2. Phase' = [Phase EXCEPT ![r] = "waiting"] /\ Phase[r] = "new"
  <2>1. PhaseOf("QUEUED") = "waiting" /\ PhaseOf("ABSENT") = "new"
    BY DEF PhaseOf, ACTIVE
  <2>2. status[r] = "ABSENT" /\ status' = [status EXCEPT ![r] = "QUEUED"]
    BY <1>1 DEF Insert
  <2> QED
    BY <2>1, <2>2, PhaseMoves DEF Typed, TypeOK, Phase
<1>3. Queue!Arrive(r)
  BY <1>1, <1>2 DEF Queue!Arrive, Insert, Phase
<1> QED
  BY <1>3 DEF Queue!Next

LEMMA MarksRefine ==
  ASSUME RunInvariant, Marks
  PROVE  Queue!Next
<1>1. PICK d \in Dispatchers : DispatchMark(d) /\ status[disp[d].run] = "QUEUED"
  BY DEF Marks
<1> DEFINE r == disp[d].run
<1>2. r \in Runs /\ status \in [Runs -> Status \cup {"ABSENT"}]
  BY <1>1 DEF RunInvariant, Typed, TypeOK, DispatchTyped, DispatchMark
<1>3. Phase' = [Phase EXCEPT ![r] = "serving"] /\ Phase[r] = "waiting"
  BY <1>1, <1>2, PhaseMoves DEF DispatchMark, Phase, PhaseOf, ACTIVE
<1>4. UNCHANGED <<created, now>>
  BY <1>1 DEF DispatchMark
<1>5. ASSUME NEW q \in Runs \ {r}, ConvOf[q] = ConvOf[r]
      PROVE  Phase[q] \notin Queue!OCCUPIED
  <2>1. status[q] \notin OCCUPYING
    BY <1>1, <1>5
    DEF DispatchMark, RunInvariant, Leased, OccupantHoldsLease, DispatcherHoldsLease
  <2> QED
    BY <1>2, <2>1 DEF Phase, PhaseOf, Status, ACTIVE, TERMINAL, OCCUPYING, Queue!OCCUPIED
<1>6. ASSUME NEW q \in Runs \ {r}, ConvOf[q] = ConvOf[r], Phase[q] = "waiting"
      PROVE  created[r] < created[q]
  <2>1. status[q] = "QUEUED"
    BY <1>2, <1>6 DEF Phase, PhaseOf, Status, TERMINAL
  <2>2. created[q] # created[r] /\ created[q] \in Nat /\ created[r] \in Nat
    BY <1>1, <1>2, <2>1 DEF RunInvariant, Ordered, Numbered, Typed, TypeOK
  <2>3. EarlierQueued(r) = {}
    BY <1>1, <1>2 DEF RunInvariant, Ordered, HeadsStay, DispatchMark
  <2>4. ~(created[q] < created[r])
    BY <1>6, <2>1, <2>3 DEF EarlierQueued
  <2> QED
    BY <2>2, <2>4
<1>7. Queue!Serve(r)
  BY <1>2, <1>3, <1>4, <1>5, <1>6 DEF Queue!Serve, Queue!Move, Phase
<1> QED
  BY <1>2, <1>7 DEF Queue!Next

\* The control plane implements the queue a conversation is promised (README:
\* the run state machine, one run per conversation, FIFO; a cancellation is
\* authoritative and an outcome final) while leases outlive restarts.
THEOREM Refinement == ASSUME ~Outages PROVE Spec => ServesConversations
<1>1. RunInvariant /\ [Next]_vars => [Queue!Next]_(Queue!vars)
  BY Kinds, MovesRefine, InsertsRefine, MarksRefine DEF RunInvariant
<1> QED
  BY <1>1, PhaseInit, InvariantHolds, PTL DEF Spec, Queue!Spec, ServesConversations

-----------------------------------------------------------------------------
(***************************************************************************)
(* The global permits: short of a crash none is lost, and a row executes   *)
(* on a permit of its own, as long as no resume overtakes                  *)
(* applyPausedResult and no resume call fails; and a run whose row is      *)
(* paused does not execute.                                                *)
(*                                                                         *)
(* Most steps leave the permits and those who have them alone (Quiet-      *)
(* Permits); each of the others acquires one, hands one over or gives one  *)
(* back.                                                                   *)
(***************************************************************************)

-----------------------------------------------------------------------------
(***************************************************************************)
(* Rows.  A row becomes active by markStarting or by the CAS of a resume.  *)
(***************************************************************************)
Inactive(s) == s \in TERMINAL \cup {"PAUSED"}

\* finishInternal leaves an inactive row inactive.
LEMMA FinishStays ==
  ASSUME Typed, NEW q \in Runs, NEW terminal \in TERMINAL, finishInternal(q, terminal),
         NEW r \in Runs, Inactive(status[r])
  PROVE  Inactive(status'[r])
BY DEF finishInternal, Inactive, Typed, TypeOK

LEMMA ThreadStays ==
  ASSUME Typed, NEW q \in Runs, Thread(q), NEW r \in Runs, Inactive(status[r]), ~ResumeCas(r)
  PROVE  Inactive(status'[r])
<1> USE DEF Typed, TypeOK, Inactive, ACTIVE, TERMINAL
<1>1. CASE Start(q)
  BY <1>1, FinishStays DEF Start, StartCas, StartCall, StartFailed, TERMINAL
<1>2. CASE FinishRelease(q) \/ PausedRelease(q) \/ PausedClear(q) \/ AttachExecutionPermit(q)
  BY <1>2 DEF FinishRelease, PausedRelease, PausedClear, AttachExecutionPermit
<1>3. CASE applyRuntimeResult(q)
  BY <1>3, FinishStays
  DEF applyRuntimeResult, ResultCancelled, ResultPaused, ResultTerminal, ResultRecheck,
      ResultsTyped
<1>4. CASE Resume(q)
  BY <1>4 DEF Resume, ResumeCas, ResumeCall, ResumeAccepted, ResumeFailed
<1>5. CASE PauseReturn(q)
  BY <1>5 DEF PauseReturn
<1>6. CASE CancelAct(q)
  BY <1>6, FinishStays DEF CancelAct, cancelQueued, CancelPaused, CancelPropagate
<1> QED
  BY <1>1, <1>2, <1>3, <1>4, <1>5, <1>6 DEF Thread

\* An inactive row becomes active by the CAS of its resume only.
LEMMA InactiveStays ==
  ASSUME Typed, Next, NEW r \in Runs, Inactive(status[r]), ~ResumeCas(r)
  PROVE  Inactive(status'[r])
<1> USE DEF Typed, TypeOK, Inactive, ACTIVE, TERMINAL
<1>1. ASSUME NEW d \in Dispatchers, Dispatch(d) PROVE Inactive(status'[r])
  BY <1>1 DEF Dispatch, DispatchList, DispatchNext, DispatchGlobal, DispatchConversation,
              DispatchMark
<1>2. ASSUME NEW q \in Runs, Callback(q) PROVE Inactive(status'[r])
  BY <1>2 DEF Callback, applyRuntimeEvent, saveRunCheckpoint, releaseExecutionPermit,
              tryAcquireExecutionPermit, ResultArrives
<1>3. ASSUME NEW q \in Runs, Request(q) PROVE Inactive(status'[r])
  BY <1>3 DEF Request, submit, retryFromCheckpoint, Insert, pauseActiveRun, resumePausedRun,
              CancelRead, cancelActiveRun, isActive
<1>4. ASSUME NEW q \in Runs, RuntimeEnds(q) \/ ResultLost(q) PROVE Inactive(status'[r])
  BY <1>4 DEF RuntimeEnds, ResultLost
<1>5. ASSUME NEW q \in Runs, recoverAfterRestart(q) PROVE Inactive(status'[r])
  BY <1>5, FinishStays
  DEF recoverAfterRestart, Adopt, settlePausedAfterRestart, RedispatchStarting,
      resumeAfterRestart, OrphanOrKeep, isResumableActive
<1>6. CASE Watchdog
  BY <1>6, FinishStays
  DEF Watchdog, WatchdogJudge, revertPausing, WatchdogCancel, WatchdogFinish, WatchdogTyped
<1>7. CASE (\E p \in Permits : ReleaseGlobal(p) \/ LeaseExpires(p)) \/ RuntimeRestarts \/ Crash
  BY <1>7 DEF ReleaseGlobal, LeaseExpires, RuntimeRestarts, Crash
<1> QED
  BY <1>1, <1>2, <1>3, <1>4, <1>5, <1>6, <1>7, ThreadStays DEF Next

\* A row becomes active when it is marked or resumed.
LEMMA NewlyActive ==
  ASSUME Typed, OnlyDispatched, Next, NEW r \in Runs, isActive(status'[r])
  PROVE  \/ isActive(status[r])
         \/ ResumeCas(r)
         \/ \E d \in Dispatchers : DispatchMark(d) /\ disp[d].run = r /\ status[r] = "QUEUED"
<1> USE DEF Typed, TypeOK, isActive, Status, ACTIVE, TERMINAL
<1>1. CASE Moves
  BY <1>1, InactiveStays DEF Moves, MayMove, OCCUPYING, Inactive
<1>2. CASE Marks
  <2>1. PICK d \in Dispatchers : DispatchMark(d) /\ status[disp[d].run] = "QUEUED"
    BY <1>2 DEF Marks
  <2>2. CASE disp[d].run = r
    BY <2>1, <2>2
  <2>3. CASE disp[d].run # r
    <3>1. status'[r] = status[r]
      BY <2>1, <2>3 DEF DispatchMark
    <3> QED
      BY <3>1
  <2> QED
    BY <2>2, <2>3
<1>3. CASE Inserts
  BY <1>3 DEF Inserts, Insert
<1> QED
  BY <1>1, <1>2, <1>3, Kinds

-----------------------------------------------------------------------------
(***************************************************************************)
(* The steps that touch a permit; all others are QuietPermits.             *)
(***************************************************************************)
QuietPermits ==
  /\ UNCHANGED <<globalHeld, globalPermit, attaching, releasing>>
  /\ \A d \in Dispatchers : disp'[d].g = disp[d].g
  /\ \A r \in Runs :
       resume[r].pc = "acquired" \/ resume'[r].pc = "acquired" => resume'[r] = resume[r]

DispatchStep ==
  \E d \in Dispatchers : DispatchGlobal(d) \/ DispatchConversation(d) \/ DispatchMark(d)

RunStep ==
  \E r \in Runs :
    \/ FinishRelease(r) \/ PausedRelease(r) \/ PausedClear(r)
    \/ releaseExecutionPermit(r) \/ tryAcquireExecutionPermit(r) \/ AttachExecutionPermit(r)
    \/ resumePausedRun(r) \/ ResumeCas(r)
    \/ recoverAfterRestart(r) /\ settlePausedAfterRestart(r)

LeaseStep == \E p \in Permits : ReleaseGlobal(p) \/ LeaseExpires(p)

PermitStep == DispatchStep \/ RunStep \/ LeaseStep \/ Crash

LEMMA WalkEmpty ==
  ASSUME NEW todo
  PROVE  Walk(todo).g = None /\ Walk(todo).pc \in {"idle", "next"}
BY DEF Walk

\* A dispatcher that reads the queue or goes on in it keeps what it has.
LEMMA WalkStep ==
  ASSUME Typed, NEW d \in Dispatchers, DispatchList(d) \/ DispatchNext(d)
  PROVE  disp'[d].g \in {disp[d].g, None}
<1>1. disp \in [Dispatchers -> DispatchState]
  BY DEF Typed, TypeOK
<1>2. CASE DispatchList(d)
  BY <1>1, <1>2, WalkEmpty DEF DispatchList
<1>3. CASE DispatchNext(d)
  <2>1. PICK r \in disp[d].todo :
          \/ disp' = [disp EXCEPT ![d] = Walk(disp[d].todo \ {r})]
          \/ disp' = [disp EXCEPT ![d].pc = "global", ![d].run = r, ![d].todo = @ \ {r}]
    BY <1>3 DEF DispatchNext
  <2>2. CASE disp' = [disp EXCEPT ![d] = Walk(disp[d].todo \ {r})]
    BY <1>1, <2>2, WalkEmpty
  <2>3. CASE disp' = [disp EXCEPT ![d].pc = "global", ![d].run = r, ![d].todo = @ \ {r}]
    BY <1>1, <2>3 DEF DispatchState
  <2> QED
    BY <2>1, <2>2, <2>3
<1> QED
  BY <1>2, <1>3

LEMMA PermitSteps ==
  ASSUME Typed, DispatchersEmpty, NoFailedResume, Next
  PROVE  QuietPermits \/ PermitStep
<1> USE DEF Typed, TypeOK
<1>1. ASSUME NEW d \in Dispatchers, DispatchList(d) \/ DispatchNext(d)
      PROVE  QuietPermits
  <2>1. disp[d].g = None /\ disp[d] \in DispatchState
    BY <1>1 DEF DispatchList, DispatchNext, DispatchersEmpty
  <2>2. disp'[d].g = None
    BY <1>1, <2>1, WalkStep
  <2>3. \A e \in Dispatchers \ {d} : disp'[e] = disp[e]
    BY <1>1 DEF DispatchList, DispatchNext
  <2> QED
    BY <1>1, <2>1, <2>2, <2>3 DEF DispatchList, DispatchNext, QuietPermits
<1>2. ASSUME NEW r \in Runs, Start(r) \/ applyRuntimeResult(r) \/ PauseReturn(r) \/ CancelAct(r)
      PROVE  QuietPermits
  BY <1>2
  DEF Start, StartCas, StartCall, StartFailed, applyRuntimeResult, PauseReturn, CancelAct,
      QuietPermits
<1>3. ASSUME NEW r \in Runs, ResumeCall(r) \/ ResumeAccepted(r) \/ ResumeFailed(r)
      PROVE  QuietPermits
  BY <1>3
  DEF ResumeCall, ResumeAccepted, ResumeFailed, NoFailedResume, IdleResume, ResumeState,
      QuietPermits
<1>4. ASSUME NEW r \in Runs, applyRuntimeEvent(r) \/ saveRunCheckpoint(r) \/ ResultArrives(r)
      PROVE  QuietPermits
  BY <1>4 DEF applyRuntimeEvent, saveRunCheckpoint, ResultArrives, QuietPermits
<1>5. ASSUME NEW r \in Runs,
             submit(r) \/ retryFromCheckpoint(r) \/ pauseActiveRun(r) \/ CancelRead(r)
               \/ cancelActiveRun(r)
      PROVE  QuietPermits
  BY <1>5 DEF submit, retryFromCheckpoint, Insert, pauseActiveRun, CancelRead, cancelActiveRun,
              QuietPermits
<1>6. ASSUME NEW r \in Runs, RuntimeEnds(r) \/ ResultLost(r)
      PROVE  QuietPermits
  BY <1>6 DEF RuntimeEnds, ResultLost, QuietPermits
<1>7. ASSUME NEW r \in Runs, recoverAfterRestart(r), ~settlePausedAfterRestart(r)
      PROVE  QuietPermits
  BY <1>7 DEF recoverAfterRestart, Adopt, RedispatchStarting, resumeAfterRestart, OrphanOrKeep,
              QuietPermits
<1>8. CASE Watchdog \/ RuntimeRestarts
  BY <1>8 DEF Watchdog, WatchdogJudge, revertPausing, WatchdogCancel, WatchdogFinish,
              RuntimeRestarts, QuietPermits
<1> QED
  BY <1>1, <1>2, <1>3, <1>4, <1>5, <1>6, <1>7, <1>8
  DEF Next, Dispatch, Thread, Resume, Callback, Request, PermitStep, DispatchStep, RunStep,
      LeaseStep

-----------------------------------------------------------------------------
(***************************************************************************)
(* HandsKnown: what a dispatcher, a pausing and a resuming thread have in  *)
(* their hands.                                                            *)
(***************************************************************************)
\* A permit is acquired while the semaphore has one, and is unknown to every
\* column and thread.
LEMMA HeldGrows ==
  ASSUME Typed, DispatchersEmpty, NoFailedResume, Next
  PROVE  \/ globalHeld' \subseteq globalHeld
         \/ \E p \in Permits \ GlobalIdsInUse : tryAcquireGlobal(p)
<1>1. CASE QuietPermits
  BY <1>1 DEF QuietPermits
<1>2. CASE DispatchStep
  BY <1>2 DEF DispatchStep, DispatchGlobal, DispatchConversation, DispatchMark,
              tryAcquireGlobal, releaseGlobal
<1>3. CASE RunStep
  BY <1>3 DEF RunStep, FinishRelease, PausedRelease, PausedClear, releaseExecutionPermit,
              tryAcquireExecutionPermit, AttachExecutionPermit, resumePausedRun, ResumeCas,
              settlePausedAfterRestart, tryAcquireGlobal, releaseGlobal
<1>4. CASE LeaseStep
  BY <1>4 DEF LeaseStep, ReleaseGlobal, LeaseExpires, releaseGlobal
<1>5. CASE Crash
  BY <1>5 DEF Crash
<1> QED
  BY <1>1, <1>2, <1>3, <1>4, <1>5, PermitSteps DEF PermitStep

\* The column of an inactive row is left alone or cleared.
LEMMA ColumnStays ==
  ASSUME Typed, DispatchersEmpty, NoFailedResume, Next,
         NEW r \in Runs, Inactive(status[r]), ~ResumeCas(r)
  PROVE  globalPermit'[r] \in {globalPermit[r], None}
<1> USE DEF Typed, TypeOK, Inactive, TERMINAL
<1>1. CASE QuietPermits
  BY <1>1 DEF QuietPermits
<1>2. CASE DispatchStep
  BY <1>2 DEF DispatchStep, DispatchGlobal, DispatchConversation, DispatchMark
<1>3. CASE RunStep
  BY <1>3 DEF RunStep, FinishRelease, PausedRelease, PausedClear, releaseExecutionPermit,
              tryAcquireExecutionPermit, AttachExecutionPermit, resumePausedRun, ResumeCas,
              settlePausedAfterRestart, isActive, ACTIVE
<1>4. CASE LeaseStep \/ Crash
  BY <1>4 DEF LeaseStep, ReleaseGlobal, LeaseExpires, Crash
<1> QED
  BY <1>1, <1>2, <1>3, <1>4, PermitSteps DEF PermitStep

LEMMA HandsInit == Init => HandsKnown
BY DEF Init, HandsKnown, DispatchersEmpty, PausedThreads, NoFailedResume, IdleDispatch, IdleResume

LEMMA EmptyStep ==
  ASSUME Typed, DispatchersEmpty, Next
  PROVE  DispatchersEmpty'
<1> USE DEF Typed, TypeOK, DispatchersEmpty
<1>1. ASSUME NEW d \in Dispatchers, Dispatch(d)
      PROVE  DispatchersEmpty'
  <2>1. disp[d] \in DispatchState
    OBVIOUS
  <2>2. disp'[d].pc \in {"idle", "next", "global"} => disp'[d].g = None
    <3>1. CASE DispatchList(d) \/ DispatchNext(d)
      BY <3>1, WalkStep DEF DispatchList, DispatchNext
    <3>2. CASE DispatchGlobal(d)
      BY <2>1, <3>2 DEF DispatchGlobal, IdleDispatch, DispatchState
    <3>3. CASE DispatchConversation(d)
      BY <2>1, <3>3, WalkEmpty DEF DispatchConversation, DispatchState
    <3>4. CASE DispatchMark(d)
      BY <3>4, WalkEmpty DEF DispatchMark
    <3> QED
      BY <1>1, <3>1, <3>2, <3>3, <3>4 DEF Dispatch
  <2>3. \A e \in Dispatchers \ {d} : disp'[e] = disp[e]
    BY <1>1 DEF Dispatch, DispatchList, DispatchNext, DispatchGlobal, DispatchConversation,
                DispatchMark
  <2> QED
    BY <2>2, <2>3
<1>2. CASE Crash
  BY <1>2 DEF Crash, IdleDispatch
<1>3. CASE UNCHANGED disp
  BY <1>3
<1>4. ASSUME NEW r \in Runs,
             Thread(r) \/ Callback(r) \/ Request(r) \/ RuntimeEnds(r) \/ ResultLost(r)
               \/ recoverAfterRestart(r)
      PROVE  UNCHANGED disp
  BY <1>4
  DEF Thread, Start, StartCas, StartCall, StartFailed, FinishRelease, applyRuntimeResult,
      PausedRelease, PausedClear, Resume, ResumeCas, ResumeCall, ResumeAccepted, ResumeFailed,
      PauseReturn, CancelAct, AttachExecutionPermit, Callback, applyRuntimeEvent,
      saveRunCheckpoint, releaseExecutionPermit, tryAcquireExecutionPermit, ResultArrives,
      Request, submit, retryFromCheckpoint, Insert, pauseActiveRun, resumePausedRun, CancelRead,
      cancelActiveRun, RuntimeEnds, ResultLost, recoverAfterRestart
<1>5. Watchdog \/ RuntimeRestarts \/ (\E p \in Permits : ReleaseGlobal(p) \/ LeaseExpires(p))
        => UNCHANGED disp
  BY DEF Watchdog, WatchdogJudge, revertPausing, WatchdogCancel, WatchdogFinish, RuntimeRestarts,
         ReleaseGlobal, LeaseExpires
<1> QED
  BY <1>1, <1>2, <1>3, <1>4, <1>5 DEF Next

\* Who has left the steps of applyPausedResult, or never was in them, enters
\* them by the CAS to PAUSED.
LEMMA PausingSteps ==
  ASSUME Typed, Next, NEW r \in Runs, pausing'[r] # "idle"
  PROVE  \/ pausing'[r] = pausing[r]
         \/ pausing'[r] = "release" /\ status'[r] = "PAUSED"
         \/ PausedRelease(r) /\ pausing'[r] = "clear"
<1> USE DEF Typed, TypeOK
<1>1. CASE UNCHANGED pausing
  BY <1>1
<1>2. ASSUME NEW q \in Runs, applyRuntimeResult(q)
      PROVE  pausing'[r] = pausing[r] \/ (pausing'[r] = "release" /\ status'[r] = "PAUSED")
  BY <1>2 DEF applyRuntimeResult, ResultCancelled, ResultPaused, ResultTerminal, ResultRecheck
<1>3. ASSUME NEW q \in Runs, PausedRelease(q)
      PROVE  pausing'[r] = pausing[r] \/ (PausedRelease(r) /\ pausing'[r] = "clear")
  <2>1. CASE q = r
    BY <1>3, <2>1 DEF PausedRelease
  <2>2. CASE q # r
    BY <1>3, <2>2 DEF PausedRelease
  <2> QED
    BY <2>1, <2>2
<1>4. ASSUME NEW q \in Runs, PausedClear(q)
      PROVE  pausing'[r] = pausing[r]
  BY <1>4 DEF PausedClear
<1>5. ~Crash
  BY DEF Crash
<1>6. (\E d \in Dispatchers : Dispatch(d)) => UNCHANGED pausing
  BY DEF Dispatch, DispatchList, DispatchNext, DispatchGlobal, DispatchConversation, DispatchMark
<1>7. ASSUME NEW q \in Runs,
             Start(q) \/ FinishRelease(q) \/ Resume(q) \/ PauseReturn(q) \/ CancelAct(q)
               \/ AttachExecutionPermit(q) \/ Callback(q) \/ Request(q) \/ RuntimeEnds(q)
               \/ ResultLost(q) \/ recoverAfterRestart(q)
      PROVE  UNCHANGED pausing
  BY <1>7
  DEF Start, StartCas, StartCall, StartFailed, FinishRelease, Resume, ResumeCas, ResumeCall,
      ResumeAccepted, ResumeFailed, PauseReturn, CancelAct, AttachExecutionPermit, Callback,
      applyRuntimeEvent, saveRunCheckpoint, releaseExecutionPermit, tryAcquireExecutionPermit,
      ResultArrives, Request, submit, retryFromCheckpoint, Insert, pauseActiveRun,
      resumePausedRun, CancelRead, cancelActiveRun, RuntimeEnds, ResultLost, recoverAfterRestart
<1>8. Watchdog \/ RuntimeRestarts \/ (\E p \in Permits : ReleaseGlobal(p) \/ LeaseExpires(p))
        => UNCHANGED pausing
  BY DEF Watchdog, WatchdogJudge, revertPausing, WatchdogCancel, WatchdogFinish, RuntimeRestarts,
         ReleaseGlobal, LeaseExpires
<1> QED
  BY <1>1, <1>2, <1>3, <1>4, <1>5, <1>6, <1>7, <1>8 DEF Next, Thread

LEMMA PausedStep ==
  ASSUME Typed, HandsKnown, Next, ResumesAfterPause
  PROVE  PausedThreads'
<1> SUFFICES ASSUME NEW r \in Runs, pausing'[r] # "idle"
             PROVE  /\ Inactive(status'[r])
                    /\ pausing'[r] = "clear" => globalPermit'[r] \notin globalHeld'
  BY DEF PausedThreads, Inactive
<1>1. pausing[r] # "idle" => Inactive(status[r]) /\ ~ResumeCas(r)
  BY DEF HandsKnown, PausedThreads, Inactive, ResumesAfterPause
<1>2. CASE pausing'[r] = "release" /\ status'[r] = "PAUSED"
  BY <1>2 DEF Inactive
<1>3. CASE PausedRelease(r) /\ pausing'[r] = "clear"
  <2>1. pausing[r] = "release" /\ UNCHANGED <<status, globalPermit>>
          /\ globalHeld' = globalHeld \ {globalPermit[r]}
    BY <1>3 DEF PausedRelease, releaseGlobal
  <2> QED
    BY <1>1, <2>1
<1>4. CASE pausing'[r] = pausing[r]
  <2>1. Inactive(status'[r])
    BY <1>1, <1>4, InactiveStays
  <2>2. ASSUME pausing[r] = "clear"
        PROVE  globalPermit'[r] \notin globalHeld'
    <3>1. globalPermit[r] \notin globalHeld
      BY <2>2 DEF HandsKnown, PausedThreads
    <3>2. globalPermit'[r] \in {globalPermit[r], None}
      BY <1>1, <2>2, ColumnStays DEF HandsKnown
    <3>3. \/ globalHeld' \subseteq globalHeld
          \/ \E p \in Permits \ GlobalIdsInUse : tryAcquireGlobal(p)
      BY HeldGrows DEF HandsKnown
    <3>4. None \notin globalHeld'
      BY <3>3, RunAssumption DEF Typed, TypeOK, tryAcquireGlobal
    <3>5. globalPermit[r] \in GlobalIdsInUse
      BY DEF GlobalIdsInUse
    <3> QED
      BY <3>1, <3>2, <3>3, <3>4, <3>5 DEF tryAcquireGlobal
  <2> QED
    BY <1>4, <2>1, <2>2
<1> QED
  BY <1>2, <1>3, <1>4, PausingSteps

LEMMA NoFailedStep ==
  ASSUME Typed, NoFailedResume, "startFailure" \notin Traffic, Next
  PROVE  NoFailedResume'
<1> USE DEF Typed, TypeOK, NoFailedResume
<1>1. ASSUME NEW r \in Runs, Resume(r)
      PROVE  NoFailedResume'
  <2>1. \A q \in Runs : resume[q] \in ResumeState
    OBVIOUS
  <2>2. CASE ResumeCas(r)
    <3>1. CASE resume' = [resume EXCEPT ![r].pc = "calling"]
      BY <2>1, <3>1 DEF ResumeState
    <3>2. CASE resume' = [resume EXCEPT ![r] = IdleResume]
      BY <3>2 DEF IdleResume
    <3> QED
      BY <2>2, <3>1, <3>2 DEF ResumeCas
  <2>3. CASE ResumeCall(r)
    <3>1. resume' = [resume EXCEPT ![r].pc = "accepted"]
      BY <2>3 DEF ResumeCall
    <3> QED
      BY <2>1, <3>1 DEF ResumeState
  <2>4. CASE ResumeAccepted(r) \/ ResumeFailed(r)
    BY <2>1, <2>4 DEF ResumeAccepted, ResumeFailed, IdleResume
  <2> QED
    BY <1>1, <2>2, <2>3, <2>4 DEF Resume
<1>2. ASSUME NEW r \in Runs, resumePausedRun(r)
      PROVE  NoFailedResume'
  BY <1>2 DEF resumePausedRun
<1>3. CASE Crash
  BY <1>3 DEF Crash, IdleResume
<1>4. CASE UNCHANGED resume
  BY <1>4
<1>5. (\E d \in Dispatchers : Dispatch(d)) => UNCHANGED resume
  BY DEF Dispatch, DispatchList, DispatchNext, DispatchGlobal, DispatchConversation, DispatchMark
<1>6. ASSUME NEW r \in Runs,
             Start(r) \/ FinishRelease(r) \/ applyRuntimeResult(r) \/ PausedRelease(r)
               \/ PausedClear(r) \/ PauseReturn(r) \/ CancelAct(r) \/ AttachExecutionPermit(r)
               \/ Callback(r) \/ RuntimeEnds(r) \/ ResultLost(r) \/ recoverAfterRestart(r)
      PROVE  UNCHANGED resume
  BY <1>6
  DEF Start, StartCas, StartCall, StartFailed, FinishRelease, applyRuntimeResult, PausedRelease,
      PausedClear, PauseReturn, CancelAct, AttachExecutionPermit, Callback, applyRuntimeEvent,
      saveRunCheckpoint, releaseExecutionPermit, tryAcquireExecutionPermit, ResultArrives,
      RuntimeEnds, ResultLost, recoverAfterRestart
<1>7. ASSUME NEW r \in Runs,
             submit(r) \/ retryFromCheckpoint(r) \/ pauseActiveRun(r) \/ CancelRead(r)
               \/ cancelActiveRun(r)
      PROVE  UNCHANGED resume
  BY <1>7 DEF submit, retryFromCheckpoint, Insert, pauseActiveRun, CancelRead, cancelActiveRun
<1>8. Watchdog \/ RuntimeRestarts \/ (\E p \in Permits : ReleaseGlobal(p) \/ LeaseExpires(p))
        => UNCHANGED resume
  BY DEF Watchdog, WatchdogJudge, revertPausing, WatchdogCancel, WatchdogFinish, RuntimeRestarts,
         ReleaseGlobal, LeaseExpires
<1> QED
  BY <1>1, <1>2, <1>3, <1>4, <1>5, <1>6, <1>7, <1>8 DEF Next, Thread, Request

LEMMA HandsStep ==
  ASSUME Typed, HandsKnown, "startFailure" \notin Traffic, Next, ResumesAfterPause
  PROVE  HandsKnown'
BY EmptyStep, PausedStep, NoFailedStep DEF HandsKnown

-----------------------------------------------------------------------------
(***************************************************************************)
(* Lost permits: what is in somebody's hands stays there until it is       *)
(* released.                                                               *)
(***************************************************************************)
\* finishInternal passes the permit of a row it closes to the release that follows.
LEMMA FinishReleasing ==
  ASSUME Typed, NEW q \in Runs, NEW terminal \in TERMINAL, finishInternal(q, terminal),
         NEW r \in Runs
  PROVE  /\ finish[r] => finish'[r]
         /\ isActive(status[r]) => isActive(status'[r]) \/ finish'[r]
BY DEF finishInternal, Typed, TypeOK

\* A step that gives up or hands over the permit of a row.
Discharges(r) ==
  FinishRelease(r) \/ PausedRelease(r) \/ settlePausedAfterRestart(r)

LEMMA ReleasingThread ==
  ASSUME Typed, NoFailedResume, NEW q \in Runs, Thread(q), NEW r \in Runs, Releasing(r)
  PROVE  Releasing(r)' \/ Discharges(r)
<1> USE DEF Typed, TypeOK, Releasing
<1>1. CASE Start(q)
  BY <1>1, FinishReleasing DEF Start, StartCas, StartCall, StartFailed, TERMINAL, isActive, ACTIVE
<1>2. CASE FinishRelease(q)
  <2>1. CASE q = r
    BY <1>2, <2>1 DEF Discharges
  <2>2. CASE q # r
    BY <1>2, <2>2 DEF FinishRelease
  <2> QED
    BY <2>1, <2>2
<1>3. CASE applyRuntimeResult(q)
  <2>1. UNCHANGED pausing /\ (UNCHANGED <<status, finish>>
          \/ \E terminal \in TERMINAL : finishInternal(q, terminal)) => Releasing(r)'
    BY FinishReleasing
  <2>2. CASE ResultPaused(q)
    BY <2>1, <2>2 DEF ResultPaused
  <2> QED
    BY <1>3, <2>1, <2>2
    DEF applyRuntimeResult, ResultCancelled, ResultTerminal, ResultRecheck, ResultsTyped, TERMINAL
<1>4. CASE PausedRelease(q)
  <2>1. CASE q = r
    BY <1>4, <2>1 DEF Discharges
  <2>2. CASE q # r
    BY <1>4, <2>2 DEF PausedRelease
  <2> QED
    BY <2>1, <2>2
<1>5. CASE PausedClear(q) \/ AttachExecutionPermit(q)
  BY <1>5 DEF PausedClear, AttachExecutionPermit
<1>6. CASE Resume(q)
  BY <1>6 DEF Resume, ResumeCas, ResumeCall, ResumeAccepted, ResumeFailed, NoFailedResume,
              isActive, ACTIVE
<1>7. CASE PauseReturn(q)
  BY <1>7 DEF PauseReturn, isActive, ACTIVE
<1>8. CASE CancelAct(q)
  BY <1>8, FinishReleasing
  DEF CancelAct, cancelQueued, CancelPaused, CancelPropagate, isActive, ACTIVE, TERMINAL
<1> QED
  BY <1>1, <1>2, <1>3, <1>4, <1>5, <1>6, <1>7, <1>8 DEF Thread

LEMMA ReleasingStays ==
  ASSUME Typed, NoFailedResume, Next, ~Crash, NEW r \in Runs, Releasing(r)
  PROVE  Releasing(r)' \/ Discharges(r)
<1> USE DEF Typed, TypeOK, Releasing
<1>1. ASSUME NEW d \in Dispatchers, Dispatch(d) PROVE Releasing(r)'
  BY <1>1 DEF Dispatch, DispatchList, DispatchNext, DispatchGlobal, DispatchConversation,
              DispatchMark, isActive, ACTIVE
<1>2. ASSUME NEW q \in Runs, Callback(q) PROVE Releasing(r)'
  <2>1. Phases \subseteq ACTIVE
    BY RunAssumption DEF ACTIVE
  <2> QED
    BY <1>2, <2>1
    DEF Callback, applyRuntimeEvent, saveRunCheckpoint, releaseExecutionPermit,
        tryAcquireExecutionPermit, ResultArrives, isActive
<1>3. ASSUME NEW q \in Runs, Request(q) PROVE Releasing(r)'
  BY <1>3 DEF Request, submit, retryFromCheckpoint, Insert, pauseActiveRun, resumePausedRun,
              CancelRead, cancelActiveRun, isActive, ACTIVE
<1>4. ASSUME NEW q \in Runs, RuntimeEnds(q) \/ ResultLost(q) PROVE Releasing(r)'
  BY <1>4 DEF RuntimeEnds, ResultLost
<1>5. ASSUME NEW q \in Runs, recoverAfterRestart(q) PROVE Releasing(r)' \/ Discharges(r)
  <2>1. UNCHANGED pausing
    BY <1>5 DEF recoverAfterRestart
  <2>2. CASE UNCHANGED <<status, finish>> \/ finishInternal(q, "FAILED")
    BY <2>1, <2>2, FinishReleasing DEF TERMINAL
  <2>3. CASE UNCHANGED finish /\ status' = [status EXCEPT ![q] = "RUNNING"]
    BY <2>1, <2>3 DEF isActive, ACTIVE
  <2>4. CASE settlePausedAfterRestart(q)
    <3>1. CASE q = r
      BY <2>4, <3>1 DEF Discharges
    <3>2. CASE q # r
      BY <2>1, <2>4, <3>2 DEF settlePausedAfterRestart
    <3> QED
      BY <3>1, <3>2
  <2> QED
    BY <1>5, <2>2, <2>3, <2>4
    DEF recoverAfterRestart, Adopt, RedispatchStarting, resumeAfterRestart, OrphanOrKeep
<1>6. CASE Watchdog
  BY <1>6, FinishReleasing
  DEF Watchdog, WatchdogJudge, revertPausing, WatchdogCancel, WatchdogFinish, WatchdogTyped,
      isActive, ACTIVE
<1>7. CASE (\E p \in Permits : ReleaseGlobal(p) \/ LeaseExpires(p)) \/ RuntimeRestarts
  BY <1>7 DEF ReleaseGlobal, LeaseExpires, RuntimeRestarts
<1> QED
  BY <1>1, <1>2, <1>3, <1>4, <1>5, <1>6, <1>7, ReleasingThread DEF Next

\* Who may let go of a permit that a thread has.
LEMMA HandsMove ==
  ASSUME Typed, DispatchersEmpty, NoFailedResume, Next, ~Crash
  PROVE  /\ \A p \in releasing : p \in releasing' \/ ReleaseGlobal(p)
         /\ \A r \in Runs :
              \/ attaching'[r] = attaching[r]
              \/ AttachExecutionPermit(r)
              \/ tryAcquireExecutionPermit(r) /\ attaching[r] = None
         /\ \A r \in Resuming : resume'[r] = resume[r] \/ ResumeCas(r)
         /\ \A d \in Dispatchers :
              \/ disp'[d].g = disp[d].g
              \/ DispatchMark(d) \/ DispatchConversation(d)
              \/ DispatchGlobal(d) /\ disp[d].g = None
<1> USE DEF Typed, TypeOK
<1>1. CASE QuietPermits
  BY <1>1 DEF QuietPermits, Resuming
<1>2. ASSUME NEW d \in Dispatchers,
             DispatchGlobal(d) \/ DispatchConversation(d) \/ DispatchMark(d)
      PROVE  /\ UNCHANGED <<releasing, attaching, resume>>
             /\ \A e \in Dispatchers : e = d \/ disp'[e] = disp[e]
             /\ disp[d].pc = "global" => disp[d].g = None
  BY <1>2 DEF DispatchGlobal, DispatchConversation, DispatchMark, DispatchersEmpty
<1>3. CASE DispatchStep
  <2>1. PICK d \in Dispatchers :
          DispatchGlobal(d) \/ DispatchConversation(d) \/ DispatchMark(d)
    BY <1>3 DEF DispatchStep
  <2>2. DispatchGlobal(d) => disp[d].g = None
    BY <1>2, <2>1 DEF DispatchGlobal
  <2> QED
    BY <1>2, <2>1, <2>2
<1>4. CASE RunStep
  <2>1. PICK q \in Runs :
          \/ FinishRelease(q) \/ PausedRelease(q) \/ PausedClear(q)
          \/ releaseExecutionPermit(q) \/ tryAcquireExecutionPermit(q)
          \/ AttachExecutionPermit(q) \/ resumePausedRun(q) \/ ResumeCas(q)
          \/ recoverAfterRestart(q) /\ settlePausedAfterRestart(q)
    BY <1>4 DEF RunStep
  <2>2. UNCHANGED disp /\ releasing \subseteq releasing'
    BY <2>1
    DEF FinishRelease, PausedRelease, PausedClear, releaseExecutionPermit,
        tryAcquireExecutionPermit, AttachExecutionPermit, resumePausedRun, ResumeCas,
        recoverAfterRestart
  <2>3. ASSUME NEW r \in Runs
        PROVE  \/ attaching'[r] = attaching[r]
               \/ AttachExecutionPermit(r)
               \/ tryAcquireExecutionPermit(r) /\ attaching[r] = None
    <3>1. CASE AttachExecutionPermit(q)
      BY <3>1 DEF AttachExecutionPermit
    <3>2. CASE tryAcquireExecutionPermit(q)
      <4>1. CASE q = r
        BY <3>2, <4>1 DEF tryAcquireExecutionPermit
      <4>2. CASE q # r
        BY <3>2, <4>2 DEF tryAcquireExecutionPermit
      <4> QED
        BY <4>1, <4>2
    <3>3. CASE UNCHANGED attaching
      BY <3>3
    <3> QED
      BY <2>1, <3>1, <3>2, <3>3
      DEF FinishRelease, PausedRelease, PausedClear, releaseExecutionPermit, resumePausedRun,
          ResumeCas, recoverAfterRestart
  <2>4. ASSUME NEW r \in Resuming
        PROVE  resume'[r] = resume[r] \/ ResumeCas(r)
    <3>1. CASE ResumeCas(q)
      BY <3>1 DEF ResumeCas, Resuming
    <3>2. CASE resumePausedRun(q)
      BY <3>2 DEF resumePausedRun, Resuming
    <3>3. CASE UNCHANGED resume
      BY <3>3
    <3> QED
      BY <2>1, <3>1, <3>2, <3>3
      DEF FinishRelease, PausedRelease, PausedClear, releaseExecutionPermit,
          tryAcquireExecutionPermit, AttachExecutionPermit, recoverAfterRestart
  <2> QED
    BY <2>2, <2>3, <2>4
<1>5. CASE LeaseStep
  BY <1>5 DEF LeaseStep, ReleaseGlobal, LeaseExpires
<1> QED
  BY <1>1, <1>3, <1>4, <1>5, PermitSteps DEF PermitStep

\* The permit of a row that will release it is released or stays in hands.
LEMMA RowsKeep ==
  ASSUME Typed, FinishedIsTerminal, HandsKnown, Next, ResumesAfterPause, ~Crash,
         NEW r \in Runs, Releasing(r), globalPermit[r] \in globalHeld'
  PROVE  globalPermit[r] \in InHands'
<1> USE DEF Typed, TypeOK, HandsKnown
<1>1. Releasing(r)' \/ Discharges(r)
  BY ReleasingStays
<1>2. ~Discharges(r)
  BY DEF Discharges, FinishRelease, PausedRelease, settlePausedAfterRestart, releaseGlobal
<1>3. CASE UNCHANGED globalPermit
  BY <1>1, <1>2, <1>3 DEF InHands
<1>4. CASE QuietPermits \/ LeaseStep
  BY <1>3, <1>4 DEF QuietPermits, LeaseStep, ReleaseGlobal, LeaseExpires
<1>5. CASE DispatchStep
  <2>1. PICK d \in Dispatchers :
          DispatchGlobal(d) \/ DispatchConversation(d) \/ DispatchMark(d)
    BY <1>5 DEF DispatchStep
  <2>2. CASE DispatchMark(d) /\ status[disp[d].run] = "QUEUED"
    <3>1. disp[d].run # r
      BY <2>2 DEF Releasing, FinishedIsTerminal, isTerminal, PausedThreads, isActive, ACTIVE,
                  TERMINAL
    <3>2. globalPermit'[r] = globalPermit[r]
      BY <2>2, <3>1 DEF DispatchMark
    <3> QED
      BY <1>1, <1>2, <3>2 DEF InHands
  <2> QED
    BY <1>3, <2>1, <2>2 DEF DispatchGlobal, DispatchConversation, DispatchMark
<1>6. ASSUME NEW q \in Runs, q # r, globalPermit' = [globalPermit EXCEPT ![q] = globalPermit'[q]]
      PROVE  globalPermit[r] \in InHands'
  BY <1>1, <1>2, <1>6 DEF InHands
<1>7. CASE RunStep
  <2>1. PICK q \in Runs :
          \/ FinishRelease(q) \/ PausedRelease(q) \/ PausedClear(q)
          \/ releaseExecutionPermit(q) \/ tryAcquireExecutionPermit(q)
          \/ AttachExecutionPermit(q) \/ resumePausedRun(q) \/ ResumeCas(q)
          \/ recoverAfterRestart(q) /\ settlePausedAfterRestart(q)
    BY <1>7 DEF RunStep
  <2>2. CASE q = r
    <3>1. CASE FinishRelease(r) \/ PausedRelease(r) \/ settlePausedAfterRestart(r)
      BY <1>2, <3>1 DEF Discharges
    <3>2. CASE PausedClear(r)
      BY <3>2 DEF PausedClear, PausedThreads
    <3>3. CASE releaseExecutionPermit(r)
      BY <3>3 DEF releaseExecutionPermit, InHands
    <3>4. CASE AttachExecutionPermit(r)
      <4>1. globalPermit[r] # None
        BY <3>4, RunAssumption DEF AttachExecutionPermit
      <4> QED
        BY <1>3, <3>4, <4>1 DEF AttachExecutionPermit
    <3>5. CASE ResumeCas(r)
      BY <1>3, <3>5
      DEF ResumeCas, ResumesAfterPause, Releasing, FinishedIsTerminal, isTerminal, isActive,
          ACTIVE, TERMINAL
    <3>6. CASE tryAcquireExecutionPermit(r) \/ resumePausedRun(r)
      BY <1>3, <3>6 DEF tryAcquireExecutionPermit, resumePausedRun
    <3> QED
      BY <2>1, <2>2, <3>1, <3>2, <3>3, <3>4, <3>5, <3>6
  <2>3. CASE q # r
    <3>1. UNCHANGED globalPermit \/ globalPermit' = [globalPermit EXCEPT ![q] = globalPermit'[q]]
      BY <2>1 DEF FinishRelease, PausedRelease, PausedClear, releaseExecutionPermit,
                  tryAcquireExecutionPermit, AttachExecutionPermit, resumePausedRun, ResumeCas,
                  settlePausedAfterRestart
    <3> QED
      BY <1>3, <1>6, <2>3, <3>1
  <2> QED
    BY <2>2, <2>3
<1> QED
  BY <1>4, <1>5, <1>7, PermitSteps DEF PermitStep

\* So is one that a thread has, which may also hand it to a row.
LEMMA ThreadsKeep ==
  ASSUME Typed, HandsKnown, Next, ~Crash, NEW p \in Permits,
         p \in InThreads \cup releasing, p \in globalHeld'
  PROVE  p \in InHands'
<1> USE DEF Typed, TypeOK, HandsKnown
<1>1. CASE p \in releasing
  <2>1. CASE p \in releasing'
    BY <2>1 DEF InHands
  <2>2. CASE p \notin releasing'
    BY <1>1, <2>2, HandsMove DEF ReleaseGlobal, releaseGlobal
  <2> QED
    BY <2>1, <2>2
<1>2. ASSUME NEW r \in Runs, attaching[r] = p
      PROVE  p \in InHands'
  <2>1. CASE attaching'[r] = p
    BY <2>1 DEF InHands, InThreads
  <2>2. CASE AttachExecutionPermit(r)
    BY <1>2, <2>2 DEF AttachExecutionPermit, InHands, Releasing
  <2>3. attaching'[r] = p \/ AttachExecutionPermit(r)
    BY <1>2, HandsMove, RunAssumption
  <2> QED
    BY <2>1, <2>2, <2>3
<1>3. ASSUME NEW r \in Resuming, resume[r].g = p
      PROVE  p \in InHands'
  <2>1. CASE resume'[r] = resume[r]
    BY <1>3, <2>1 DEF InHands, InThreads, Resuming
  <2>2. CASE ResumeCas(r)
    BY <1>3, <2>2 DEF ResumeCas, InHands, Releasing, Resuming, releaseGlobal, isActive, ACTIVE
  <2>3. resume'[r] = resume[r] \/ ResumeCas(r)
    BY <1>3, HandsMove
  <2> QED
    BY <2>1, <2>2, <2>3
<1>4. ASSUME NEW d \in Dispatchers, disp[d].g = p
      PROVE  p \in InHands'
  <2>1. CASE disp'[d].g = p
    BY <2>1 DEF InHands, InThreads
  <2>2. CASE DispatchMark(d)
    BY <1>4, <2>2
    DEF DispatchMark, InHands, Releasing, releaseGlobal, DispatchTyped, isActive, ACTIVE
  <2>3. CASE DispatchConversation(d)
    BY <1>4, <2>1, <2>3 DEF DispatchConversation, releaseGlobal, DispatchState
  <2>4. disp'[d].g = p \/ DispatchMark(d) \/ DispatchConversation(d)
    BY <1>4, HandsMove, RunAssumption
  <2> QED
    BY <2>1, <2>2, <2>3, <2>4
<1> QED
  BY <1>1, <1>2, <1>3, <1>4 DEF InThreads
LEMMA LostStep ==
  ASSUME Typed, FinishedIsTerminal, HandsKnown, Next, ResumesAfterPause, ~Crash
  PROVE  Lost' \subseteq Lost
<1> SUFFICES ASSUME NEW p \in globalHeld', p \notin Lost
             PROVE  p \in InHands'
  BY HeldGrows DEF Lost, HandsKnown
<1> USE DEF Typed, TypeOK
<1>0. p \in Permits
  BY HeldGrows DEF HandsKnown, tryAcquireGlobal
<1>1. CASE p \in globalHeld
  BY <1>0, <1>1, RowsKeep, ThreadsKeep DEF Lost, InHands
<1>2. CASE p \notin globalHeld
  <2>1. ASSUME NEW d \in Dispatchers, DispatchGlobal(d) PROVE p \in InHands'
    BY <1>2, <2>1 DEF DispatchGlobal, tryAcquireGlobal, DispatchState, InHands, InThreads
  <2>2. ASSUME NEW r \in Runs, tryAcquireExecutionPermit(r) PROVE p \in InHands'
    BY <1>2, <2>2 DEF tryAcquireExecutionPermit, tryAcquireGlobal, InHands, InThreads
  <2>3. ASSUME NEW r \in Runs, resumePausedRun(r) PROVE p \in InHands'
    BY <1>2, <2>3 DEF resumePausedRun, tryAcquireGlobal, InHands, InThreads, Resuming
  <2>4. CASE QuietPermits \/ LeaseStep
    BY <1>2, <2>4 DEF QuietPermits, LeaseStep, ReleaseGlobal, LeaseExpires, releaseGlobal
  <2>5. CASE DispatchStep
    BY <1>2, <2>1, <2>5 DEF DispatchStep, DispatchConversation, DispatchMark, releaseGlobal
  <2>6. CASE RunStep
    BY <1>2, <2>2, <2>3, <2>6
    DEF RunStep, FinishRelease, PausedRelease, PausedClear, releaseExecutionPermit,
        AttachExecutionPermit, ResumeCas, settlePausedAfterRestart, releaseGlobal
  <2> QED
    BY <2>4, <2>5, <2>6, PermitSteps DEF PermitStep, HandsKnown
<1> QED
  BY <1>1, <1>2

-----------------------------------------------------------------------------
\* What every orderly behaviour keeps: types, and what threads have in their hands.
HandsInvariant == Typed /\ OnlyDispatched /\ FinishedIsTerminal /\ HandsKnown

LEMMA HandsInvariantInit == Init => HandsInvariant
BY InvariantInit, HandsInit DEF HandsInvariant, RunInvariant, Leased

LEMMA HandsInvariantStep ==
  ASSUME "startFailure" \notin Traffic, HandsInvariant, [Next]_vars, [ResumesAfterPause]_vars
  PROVE  HandsInvariant'
<1>1. Typed' /\ OnlyDispatched' /\ FinishedIsTerminal'
  BY TypedStep, OnlyDispatchedStep, FinishedStep DEF HandsInvariant
<1>2. CASE Next /\ ResumesAfterPause
  BY <1>1, <1>2, HandsStep DEF HandsInvariant
<1>3. CASE UNCHANGED vars
  BY <1>1, <1>3 DEF HandsInvariant, HandsKnown, DispatchersEmpty, PausedThreads, NoFailedResume
<1> QED
  BY <1>2, <1>3

\* Short of a crash of the control plane no step leaks a permit: whatever is
\* leased stays named by a row that will release it or in the hands of a thread
\* (RunPermitService "leases prevent crash leaks").
THEOREM LostByCrashOnly ==
  ASSUME "startFailure" \notin Traffic
  PROVE  OrderlySpec => [][Crash \/ Lost' \subseteq Lost]_vars
<1>1. HandsInvariant /\ [Next]_vars /\ [ResumesAfterPause]_vars
        => [Crash \/ Lost' \subseteq Lost]_vars
  BY LostStep DEF HandsInvariant
<1> QED
  BY <1>1, HandsInvariantInit, HandsInvariantStep, PTL DEF OrderlySpec, Spec

\* As long as the control plane does not crash, every leased permit will be
\* released by somebody; the runtime may restart.
THEOREM PermitsKept ==
  ASSUME "startFailure" \notin Traffic
  PROVE  OrderlySpec /\ [][~Crash]_vars => []NoPermitLost
<1>1. Init => Lost = {}
  BY DEF Init, Lost
<1>2. Lost = {} /\ HandsInvariant /\ [Next]_vars /\ [ResumesAfterPause]_vars /\ [~Crash]_vars
        => (Lost = {})'
  <2>1. UNCHANGED vars => Lost' = Lost
    BY DEF Lost, InHands, InThreads, Resuming, Releasing
  <2> QED
    BY <2>1, LostStep DEF HandsInvariant
<1>3. Lost = {} => NoPermitLost
  BY DEF Lost, InHands, InThreads, Resuming, Releasing, NoPermitLost, GlobalRenewed
<1> QED
  BY <1>1, <1>2, <1>3, HandsInvariantInit, HandsInvariantStep, PTL DEF OrderlySpec, Spec
-----------------------------------------------------------------------------
(***************************************************************************)
(* OneOwner and Holds: what happens to the owners of each permit, and to   *)
(* the permits that are counted on.                                        *)
(***************************************************************************)
OwnedStep == \A p \in Permits : Owners(p)' \subseteq Owners(p) \/ \E k : Owners(p)' \subseteq {k}

LEMMA OwnersStep ==
  ASSUME OneOwner, OwnedStep
  PROVE  OneOwner'
BY DEF OneOwner, OwnedStep

\* The one owner of a permit hands it over or drops it.
LEMMA HandOver ==
  ASSUME OneOwner, NEW p \in Permits, NEW h \in Owners(p), NEW k,
         Owners(p)' \subseteq (Owners(p) \ {h}) \cup {k}
  PROVE  Owners(p)' \subseteq {k}
BY DEF OneOwner

LEMMA DropOwner ==
  ASSUME OneOwner, NEW p \in Permits, NEW h \in Owners(p), Owners(p)' \subseteq Owners(p) \ {h}
  PROVE  Owners(p)' = {}
BY DEF OneOwner

CountedOwned == \A p \in Counted \ {None} : p \in Permits /\ Owners(p) # {}

LEMMA TypedOwned == Typed => CountedOwned
<1> SUFFICES ASSUME Typed, NEW p \in Counted, p # None
             PROVE  p \in Permits /\ Owners(p) # {}
  BY DEF CountedOwned
<1> USE DEF Typed, TypeOK
<1>1. p \in Permits
  <2>1. \A d \in Dispatchers : disp[d].g \in MaybePermit
    BY DEF DispatchState
  <2>2. \A r \in Runs : resume[r].g \in MaybePermit
    BY DEF ResumeState
  <2> QED
    BY <2>1, <2>2 DEF Counted, InThreads, Resuming, MaybePermit
<1>2. CASE \E r \in Runs : globalPermit[r] = p
  <2>1. PICK r \in Runs : globalPermit[r] = p
    BY <1>2
  <2>2. <<"row", r>> \in Owners(p)
    BY <2>1 DEF Owners
  <2> QED
    BY <1>1, <2>2
<1>3. CASE \E r \in Runs : attaching[r] = p
  <2>1. PICK r \in Runs : attaching[r] = p
    BY <1>3
  <2>2. <<"attaching", r>> \in Owners(p)
    BY <2>1 DEF Owners
  <2> QED
    BY <1>1, <2>2
<1>4. CASE \E r \in Resuming : resume[r].g = p
  <2>1. PICK r \in Resuming : resume[r].g = p
    BY <1>4
  <2>2. <<"resume", r>> \in Owners(p)
    BY <2>1 DEF Owners
  <2> QED
    BY <1>1, <2>2
<1>5. CASE \E d \in Dispatchers : disp[d].g = p
  <2>1. PICK d \in Dispatchers : disp[d].g = p
    BY <1>5
  <2>2. <<"dispatcher", d>> \in Owners(p)
    BY <2>1 DEF Owners
  <2> QED
    BY <1>1, <2>2
<1> QED
  BY <1>2, <1>3, <1>4, <1>5 DEF Counted, InThreads

\* Who has left the owners of a permit.
LEMMA OwnersThen ==
  ASSUME NEW p, NEW x
  PROVE  /\ <<"row", x>> \in Owners(p)' => globalPermit'[x] = p
         /\ <<"attaching", x>> \in Owners(p)' => attaching'[x] = p
         /\ <<"resume", x>> \in Owners(p)' => resume'[x].pc = "acquired" /\ resume'[x].g = p
         /\ <<"dispatcher", x>> \in Owners(p)' => disp'[x].g = p
         /\ <<"releasing", x>> \in Owners(p)' => x \in releasing'
BY DEF Owners, Resuming

LEMMA FreshUnowned ==
  ASSUME NEW p \in Permits \ GlobalIdsInUse
  PROVE  Owners(p) = {}
BY DEF Owners, GlobalIdsInUse, Resuming

\* A permit that nobody has after the step is not counted on.
LEMMA GiveBack ==
  ASSUME Typed', Holds, NEW q, globalHeld' = globalHeld \ {q},
         Counted' \ {None} \subseteq Counted, q \in Permits => Owners(q)' = {}
  PROVE  Holds'
<1> SUFFICES ASSUME NEW p \in Counted', p # None
             PROVE  p \in globalHeld'
  BY DEF Holds
<1>1. CountedOwned'
  BY TypedOwned, PTL
<1>2. p \in Permits /\ Owners(p)' # {}
  BY <1>1 DEF CountedOwned
<1> QED
  BY <1>2 DEF Holds
Good == Typed /\ OnlyDispatched /\ FinishedIsTerminal /\ HandsKnown /\ Holds /\ OneOwner

\* The four ways of a step with the permits.
LEMMA KeepsStep ==
  ASSUME Good, UNCHANGED globalHeld, \A p \in Permits : Owners(p)' \subseteq Owners(p),
         Counted' \ {None} \subseteq Counted
  PROVE  OneOwner' /\ Holds'
BY OwnersStep DEF Good, OwnedStep, Holds

LEMMA AcquiresStep ==
  ASSUME Good, NEW p \in Permits \ GlobalIdsInUse, globalHeld' = globalHeld \cup {p},
         \A q \in Permits \ {p} : Owners(q)' \subseteq Owners(q),
         NEW k, Owners(p)' \subseteq Owners(p) \cup {k},
         Counted' \ {None} \subseteq Counted \cup {p}
  PROVE  OneOwner' /\ Holds'
<1>1. OneOwner'
  BY FreshUnowned, OwnersStep DEF Good, OwnedStep
<1>2. Holds'
  BY DEF Good, Holds
<1> QED
  BY <1>1, <1>2

LEMMA HandsOverStep ==
  ASSUME Good, UNCHANGED globalHeld, NEW p,
         \A q \in Permits \ {p} : Owners(q)' \subseteq Owners(q),
         NEW h, NEW k,
         p \in Permits => h \in Owners(p) /\ Owners(p)' \subseteq (Owners(p) \ {h}) \cup {k},
         Counted' \ {None} \subseteq Counted
  PROVE  OneOwner' /\ Holds'
<1>1. OneOwner'
  BY HandOver, OwnersStep DEF Good, OwnedStep
<1>2. Holds'
  BY DEF Good, Holds
<1> QED
  BY <1>1, <1>2

LEMMA GivesBackStep ==
  ASSUME Good, Typed', NEW p, globalHeld' = globalHeld \ {p},
         \A q \in Permits : Owners(q)' \subseteq Owners(q),
         NEW h, p \in Permits => h \in Owners(p) /\ h \notin Owners(p)',
         Counted' \ {None} \subseteq Counted
  PROVE  OneOwner' /\ Holds'
<1>1. OneOwner'
  BY OwnersStep DEF Good, OwnedStep
<1>2. p \in Permits => Owners(p)' = {}
  BY DropOwner DEF Good
<1>3. Holds'
  BY <1>2, GiveBack DEF Good
<1> QED
  BY <1>1, <1>3

PermitTypes ==
  /\ status \in [Runs -> Status \cup {"ABSENT"}]
  /\ globalPermit \in [Runs -> MaybePermit]
  /\ attaching \in [Runs -> MaybePermit]
  /\ resume \in [Runs -> ResumeState]
  /\ disp \in [Dispatchers -> DispatchState]
  /\ releasing \in SUBSET Permits

LEMMA GoodTyped == Good => PermitTypes
BY DEF Good, Typed, TypeOK, PermitTypes

LEMMA NoneIsNoPermit == None \notin Permits
BY RunAssumption

\* Who has no permit after the step owns none.
LEMMA NoLongerOwns ==
  ASSUME NEW p \in Permits, NEW x
  PROVE  /\ globalPermit'[x] = None => <<"row", x>> \notin Owners(p)'
         /\ attaching'[x] = None => <<"attaching", x>> \notin Owners(p)'
         /\ disp'[x].g = None => <<"dispatcher", x>> \notin Owners(p)'
<1>1. p # None
  BY NoneIsNoPermit
<1>2. <<"row", x>> \in Owners(p)' => globalPermit'[x] = p
  BY OwnersThen
<1>3. <<"attaching", x>> \in Owners(p)' => attaching'[x] = p
  BY OwnersThen
<1>4. <<"dispatcher", x>> \in Owners(p)' => disp'[x].g = p
  BY OwnersThen
<1> QED
  BY <1>1, <1>2, <1>3, <1>4

LEMMA OwnedGlobal ==
  ASSUME Good, NEW d \in Dispatchers, DispatchGlobal(d)
  PROVE  OneOwner' /\ Holds'
<1>1. /\ UNCHANGED <<status, globalPermit, releasing, attaching, resume>>
      /\ disp \in [Dispatchers -> DispatchState]
  BY GoodTyped DEF DispatchGlobal, PermitTypes
<1>2. ASSUME NEW p \in Permits, tryAcquireGlobal(p),
             disp' = [disp EXCEPT ![d].pc = "conversation", ![d].g = p]
      PROVE  OneOwner' /\ Holds'
  <2>1. \A e \in Dispatchers : disp'[e].g = IF e = d THEN p ELSE disp[e].g
    BY <1>1, <1>2 DEF DispatchState
  <2>2. \A q \in Permits \ {p} : Owners(q)' \subseteq Owners(q)
    BY <1>1, <2>1 DEF Owners, Resuming
  <2>3. Owners(p)' \subseteq Owners(p) \cup {<<"dispatcher", d>>}
    BY <1>1, <2>1 DEF Owners, Resuming
  <2>4. Counted' \ {None} \subseteq Counted \cup {p}
    BY <1>1, <2>1 DEF Counted, InThreads, Resuming
  <2> QED
    BY <1>2, <2>2, <2>3, <2>4, AcquiresStep DEF tryAcquireGlobal
<1>3. CASE disp' = [disp EXCEPT ![d] = IdleDispatch] /\ UNCHANGED globalHeld
  <2>1. \A e \in Dispatchers : disp'[e].g \in {disp[e].g, None}
    BY <1>1, <1>3 DEF IdleDispatch
  <2>2. \A q \in Permits : Owners(q)' \subseteq Owners(q)
    BY <1>1, <2>1, NoneIsNoPermit DEF Owners, Resuming
  <2>3. Counted' \ {None} \subseteq Counted
    BY <1>1, <2>1 DEF Counted, InThreads, Resuming
  <2> QED
    BY <1>3, <2>2, <2>3, KeepsStep
<1> QED
  BY <1>2, <1>3 DEF DispatchGlobal

LEMMA OwnedConversation ==
  ASSUME Good, Typed', NEW d \in Dispatchers, DispatchConversation(d)
  PROVE  OneOwner' /\ Holds'
<1>0. PICK g : g = disp[d].g
  OBVIOUS
<1>1. /\ UNCHANGED <<status, globalPermit, releasing, attaching, resume>>
      /\ disp \in [Dispatchers -> DispatchState]
  BY GoodTyped DEF DispatchConversation, PermitTypes
<1>2. \A e \in Dispatchers : disp'[e].g \in {disp[e].g, None}
  <2>1. CASE disp' = [disp EXCEPT ![d] = Walk(disp[d].todo)]
    BY <1>1, <2>1, WalkEmpty
  <2>2. CASE \E p \in Permits : disp' = [disp EXCEPT ![d].pc = "mark", ![d].c = p]
    BY <1>1, <2>2 DEF DispatchState
  <2> QED
    BY <2>1, <2>2 DEF DispatchConversation
<1>3. \A q \in Permits : Owners(q)' \subseteq Owners(q)
  BY <1>1, <1>2, NoneIsNoPermit DEF Owners, Resuming
<1>4. Counted' \ {None} \subseteq Counted
  BY <1>1, <1>2 DEF Counted, InThreads, Resuming
<1>5. CASE UNCHANGED globalHeld
  BY <1>3, <1>4, <1>5, KeepsStep
<1>6. CASE releaseGlobal(disp[d].g) /\ disp' = [disp EXCEPT ![d] = Walk(disp[d].todo)]
  <2>1. disp'[d].g = None
    BY <1>1, <1>6, WalkEmpty
  <2>2. <<"dispatcher", d>> \in Owners(g)
    BY <1>0 DEF Owners
  <2>3. g \in Permits => <<"dispatcher", d>> \notin Owners(g)'
    BY <2>1, NoLongerOwns
  <2>4. globalHeld' = globalHeld \ {g}
    BY <1>0, <1>6 DEF releaseGlobal
  <2> QED
    BY <1>3, <1>4, <2>2, <2>3, <2>4, GivesBackStep
<1> QED
  BY <1>5, <1>6 DEF DispatchConversation

LEMMA OwnedMark ==
  ASSUME Good, Typed', NEW d \in Dispatchers, DispatchMark(d)
  PROVE  OneOwner' /\ Holds'
<1>0. PICK g, r : g = disp[d].g /\ r = disp[d].run
  OBVIOUS
<1>1. /\ UNCHANGED <<releasing, attaching, resume>>
      /\ disp \in [Dispatchers -> DispatchState]
      /\ disp' = [disp EXCEPT ![d] = Walk(disp[d].todo)]
  BY GoodTyped DEF DispatchMark, PermitTypes
<1>2. \A e \in Dispatchers : disp'[e].g = IF e = d THEN None ELSE disp[e].g
  BY <1>1, WalkEmpty
<1>3. <<"dispatcher", d>> \in Owners(g)
  BY <1>0 DEF Owners
<1>4. g \in Permits => <<"dispatcher", d>> \notin Owners(g)'
  BY <1>2, NoLongerOwns
<1>5. CASE status[r] = "QUEUED"
  <2>1. /\ UNCHANGED globalHeld
        /\ \A q \in Runs : globalPermit'[q] = IF q = r THEN g ELSE globalPermit[q]
        /\ \A q \in Runs : q # r => status'[q] = status[q]
    BY <1>0, <1>5, GoodTyped DEF DispatchMark, PermitTypes
  <2>2. \A q \in Permits \ {g} : Owners(q)' \subseteq Owners(q)
    BY <1>1, <1>2, <2>1, NoneIsNoPermit DEF Owners, Resuming
  <2>3. g \in Permits => Owners(g)' \subseteq Owners(g) \cup {<<"row", r>>}
    BY <1>1, <1>2, <2>1, NoneIsNoPermit DEF Owners, Resuming
  <2>4. g \in Permits => Owners(g)' \subseteq (Owners(g) \ {<<"dispatcher", d>>}) \cup {<<"row", r>>}
    BY <1>4, <2>3
  <2>5. Counted' \ {None} \subseteq Counted
    BY <1>0, <1>1, <1>2, <2>1 DEF Counted, InThreads, Resuming
  <2> QED
    BY <1>3, <2>1, <2>2, <2>4, <2>5, HandsOverStep
<1>6. CASE status[r] # "QUEUED"
  <2>1. UNCHANGED <<status, globalPermit>> /\ globalHeld' = globalHeld \ {g}
    BY <1>0, <1>6 DEF DispatchMark, releaseGlobal
  <2>2. \A q \in Permits : Owners(q)' \subseteq Owners(q)
    BY <1>1, <1>2, <2>1, NoneIsNoPermit DEF Owners, Resuming
  <2>3. Counted' \ {None} \subseteq Counted
    BY <1>1, <1>2, <2>1 DEF Counted, InThreads, Resuming
  <2> QED
    BY <1>3, <1>4, <2>1, <2>2, <2>3, GivesBackStep
<1> QED
  BY <1>5, <1>6
\* A permit that only an inactive row names is not counted on.
LEMMA Uncounted ==
  ASSUME Good, NEW r \in Runs, NEW p \in Permits, globalPermit[r] = p, ~isActive(status[r])
  PROVE  p \notin Counted
<1>1. <<"row", r>> \in Owners(p)
  BY DEF Owners
<1>2. \A h \in Owners(p) : h = <<"row", r>>
  BY <1>1 DEF Good, OneOwner
<1>3. ASSUME NEW q \in Runs, isActive(status[q]), globalPermit[q] = p
      PROVE  FALSE
  <2>1. <<"row", q>> \in Owners(p)
    BY <1>3 DEF Owners
  <2>2. q = r
    BY <1>2, <2>1
  <2> QED
    BY <1>3, <2>2
<1>4. ASSUME NEW q \in Runs, attaching[q] = p
      PROVE  FALSE
  <2>1. <<"attaching", q>> \in Owners(p)
    BY <1>4 DEF Owners
  <2> QED
    BY <1>2, <2>1
<1>5. ASSUME NEW q \in Resuming, resume[q].g = p
      PROVE  FALSE
  <2>1. <<"resume", q>> \in Owners(p)
    BY <1>5 DEF Owners
  <2> QED
    BY <1>2, <2>1
<1>6. ASSUME NEW d \in Dispatchers, disp[d].g = p
      PROVE  FALSE
  <2>1. <<"dispatcher", d>> \in Owners(p)
    BY <1>6 DEF Owners
  <2> QED
    BY <1>2, <2>1
<1> QED
  BY <1>3, <1>4, <1>5, <1>6 DEF Counted, InThreads

LEMMA ReleasesStep ==
  ASSUME Good, NEW p, globalHeld' = globalHeld \ {p}, p \in Permits => p \notin Counted,
         \A q \in Permits : Owners(q)' \subseteq Owners(q), Counted' \ {None} \subseteq Counted
  PROVE  OneOwner' /\ Holds'
<1>1. OneOwner'
  BY OwnersStep DEF Good, OwnedStep
<1>2. globalHeld \subseteq Permits
  BY DEF Good, Typed, TypeOK
<1>3. Holds'
  BY <1>2 DEF Good, Holds
<1> QED
  BY <1>1, <1>3

\* The permit of an inactive row is released, its column cleared or not.
LEMMA OwnedRelease ==
  ASSUME Good, NEW r \in Runs, FinishRelease(r) \/ PausedRelease(r)
  PROVE  OneOwner' /\ Holds'
<1>0. PICK g : g = globalPermit[r]
  OBVIOUS
<1>1. /\ UNCHANGED <<status, disp, releasing, attaching, resume>>
      /\ \A q \in Runs : globalPermit'[q] \in {globalPermit[q], None}
      /\ globalHeld' = globalHeld \ {g}
  BY <1>0, GoodTyped DEF FinishRelease, PausedRelease, PermitTypes, releaseGlobal
<1>2. ~isActive(status[r])
  BY DEF Good, FinishedIsTerminal, HandsKnown, PausedThreads, FinishRelease, PausedRelease,
         isTerminal, isActive, ACTIVE, TERMINAL
<1>3. \A q \in Permits : Owners(q)' \subseteq Owners(q)
  BY <1>1, NoneIsNoPermit DEF Owners, Resuming
<1>4. Counted' \ {None} \subseteq Counted
  BY <1>1 DEF Counted, InThreads, Resuming
<1>5. g \in Permits => g \notin Counted
  BY <1>0, <1>2, Uncounted
<1> QED
  BY <1>1, <1>3, <1>4, <1>5, ReleasesStep

LEMMA OwnedSettle ==
  ASSUME Good, Typed', NEW r \in Runs, recoverAfterRestart(r), settlePausedAfterRestart(r)
  PROVE  OneOwner' /\ Holds'
<1>0. PICK g : g = globalPermit[r]
  OBVIOUS
<1>1. /\ UNCHANGED <<disp, releasing, attaching, resume>>
      /\ \A q \in Runs : globalPermit'[q] = IF q = r THEN None ELSE globalPermit[q]
      /\ \A q \in Runs : isActive(status'[q]) => isActive(status[q])
      /\ globalHeld' = globalHeld \ {g}
  BY <1>0, GoodTyped
  DEF recoverAfterRestart, settlePausedAfterRestart, PermitTypes, releaseGlobal, isActive, ACTIVE
<1>2. <<"row", r>> \in Owners(g)
  BY <1>0 DEF Owners
<1>3. g \in Permits => <<"row", r>> \notin Owners(g)'
  <2>1. globalPermit'[r] = None
    BY <1>1
  <2> QED
    BY <2>1, NoLongerOwns
<1>4. \A q \in Permits : Owners(q)' \subseteq Owners(q)
  BY <1>1, NoneIsNoPermit DEF Owners, Resuming
<1>5. Counted' \ {None} \subseteq Counted
  BY <1>1 DEF Counted, InThreads, Resuming
<1> QED
  BY <1>1, <1>2, <1>3, <1>4, <1>5, GivesBackStep

LEMMA OwnedClear ==
  ASSUME Good, NEW r \in Runs, PausedClear(r)
  PROVE  OneOwner' /\ Holds'
<1>1. /\ UNCHANGED <<status, globalHeld, disp, releasing, attaching, resume>>
      /\ \A q \in Runs : globalPermit'[q] \in {globalPermit[q], None}
  BY GoodTyped DEF PausedClear, PermitTypes
<1>2. \A q \in Permits : Owners(q)' \subseteq Owners(q)
  BY <1>1, NoneIsNoPermit DEF Owners, Resuming
<1>3. Counted' \ {None} \subseteq Counted
  BY <1>1 DEF Counted, InThreads, Resuming
<1> QED
  BY <1>1, <1>2, <1>3, KeepsStep

\* releaseExecutionPermit: from the column to the thread that releases it.
LEMMA OwnedDetach ==
  ASSUME Good, NEW r \in Runs, releaseExecutionPermit(r)
  PROVE  OneOwner' /\ Holds'
<1>0. PICK g : g = globalPermit[r]
  OBVIOUS
<1>1. /\ UNCHANGED <<status, globalHeld, disp, attaching, resume>>
      /\ releasing' = releasing \cup {g}
      /\ \A q \in Runs : globalPermit'[q] = IF q = r THEN None ELSE globalPermit[q]
  BY <1>0, GoodTyped DEF releaseExecutionPermit, PermitTypes
<1>2. <<"row", r>> \in Owners(g)
  BY <1>0 DEF Owners
<1>3. g \in Permits => <<"row", r>> \notin Owners(g)'
  <2>1. globalPermit'[r] = None
    BY <1>1
  <2> QED
    BY <2>1, NoLongerOwns
<1>4. \A q \in Permits \ {g} : Owners(q)' \subseteq Owners(q)
  BY <1>1, NoneIsNoPermit DEF Owners, Resuming
<1>5. g \in Permits => Owners(g)' \subseteq Owners(g) \cup {<<"releasing", g>>}
  BY <1>1, NoneIsNoPermit DEF Owners, Resuming
<1>6. g \in Permits => Owners(g)' \subseteq (Owners(g) \ {<<"row", r>>}) \cup {<<"releasing", g>>}
  BY <1>3, <1>5
<1>7. Counted' \ {None} \subseteq Counted
  BY <1>1 DEF Counted, InThreads, Resuming
<1> QED
  BY <1>1, <1>2, <1>4, <1>6, <1>7, HandsOverStep

\* tryAcquireExecutionPermit and resumePausedRun: a fresh permit.
LEMMA OwnedAcquire ==
  ASSUME Good, NEW r \in Runs, tryAcquireExecutionPermit(r)
  PROVE  OneOwner' /\ Holds'
<1>1. PICK p \in Permits : tryAcquireGlobal(p) /\ attaching' = [attaching EXCEPT ![r] = p]
  BY DEF tryAcquireExecutionPermit
<1>2. /\ UNCHANGED <<status, globalPermit, disp, releasing, resume>>
      /\ \A q \in Runs : attaching'[q] = IF q = r THEN p ELSE attaching[q]
  BY <1>1, GoodTyped DEF tryAcquireExecutionPermit, PermitTypes
<1>3. \A q \in Permits \ {p} : Owners(q)' \subseteq Owners(q)
  BY <1>2 DEF Owners, Resuming
<1>4. Owners(p)' \subseteq Owners(p) \cup {<<"attaching", r>>}
  BY <1>2 DEF Owners, Resuming
<1>5. Counted' \ {None} \subseteq Counted \cup {p}
  BY <1>2 DEF Counted, InThreads, Resuming
<1> QED
  BY <1>1, <1>3, <1>4, <1>5, AcquiresStep DEF tryAcquireGlobal

LEMMA OwnedResume ==
  ASSUME Good, NEW r \in Runs, resumePausedRun(r)
  PROVE  OneOwner' /\ Holds'
<1>1. PICK p \in Permits :
        tryAcquireGlobal(p) /\ resume' = [resume EXCEPT ![r] = [pc |-> "acquired", g |-> p]]
  BY DEF resumePausedRun
<1>2. /\ UNCHANGED <<status, globalPermit, disp, releasing, attaching>>
      /\ resume'[r].pc = "acquired" /\ resume'[r].g = p
      /\ \A q \in Runs : q # r => resume'[q] = resume[q]
  BY <1>1, GoodTyped DEF resumePausedRun, PermitTypes
<1>3. \A q \in Permits \ {p} : Owners(q)' \subseteq Owners(q)
  BY <1>2 DEF Owners, Resuming
<1>4. Owners(p)' \subseteq Owners(p) \cup {<<"resume", r>>}
  BY <1>2 DEF Owners, Resuming
<1>5. Counted' \ {None} \subseteq Counted \cup {p}
  BY <1>2 DEF Counted, InThreads, Resuming
<1> QED
  BY <1>1, <1>3, <1>4, <1>5, AcquiresStep DEF tryAcquireGlobal
\* From the thread that acquired it to the column, or to the thread that
\* releases it.
LEMMA OwnedAttach ==
  ASSUME Good, NEW r \in Runs, AttachExecutionPermit(r)
  PROVE  OneOwner' /\ Holds'
<1>0. PICK g : g = attaching[r]
  OBVIOUS
<1>1. /\ UNCHANGED <<status, globalHeld, disp, resume>>
      /\ \A q \in Runs : attaching'[q] = IF q = r THEN None ELSE attaching[q]
  BY GoodTyped DEF AttachExecutionPermit, PermitTypes
<1>2. <<"attaching", r>> \in Owners(g)
  BY <1>0 DEF Owners
<1>3. g \in Permits => <<"attaching", r>> \notin Owners(g)'
  <2>1. attaching'[r] = None
    BY <1>1
  <2> QED
    BY <2>1, NoLongerOwns
<1>4. CASE globalPermit[r] = None /\ isActive(status[r])
  <2>1. /\ UNCHANGED releasing
        /\ \A q \in Runs : globalPermit'[q] = IF q = r THEN g ELSE globalPermit[q]
    BY <1>0, <1>4, GoodTyped DEF AttachExecutionPermit, PermitTypes
  <2>2. \A q \in Permits \ {g} : Owners(q)' \subseteq Owners(q)
    BY <1>1, <2>1, NoneIsNoPermit DEF Owners, Resuming
  <2>3. g \in Permits => Owners(g)' \subseteq Owners(g) \cup {<<"row", r>>}
    BY <1>1, <2>1, NoneIsNoPermit DEF Owners, Resuming
  <2>4. g \in Permits => Owners(g)' \subseteq (Owners(g) \ {<<"attaching", r>>}) \cup {<<"row", r>>}
    BY <1>3, <2>3
  <2>5. Counted' \ {None} \subseteq Counted
    BY <1>0, <1>1, <2>1 DEF Counted, InThreads, Resuming
  <2> QED
    BY <1>1, <1>2, <2>2, <2>4, <2>5, HandsOverStep
<1>5. CASE ~(globalPermit[r] = None /\ isActive(status[r]))
  <2>1. UNCHANGED globalPermit /\ releasing' = releasing \cup {g}
    BY <1>0, <1>5 DEF AttachExecutionPermit
  <2>2. \A q \in Permits \ {g} : Owners(q)' \subseteq Owners(q)
    BY <1>1, <2>1, NoneIsNoPermit DEF Owners, Resuming
  <2>3. g \in Permits => Owners(g)' \subseteq Owners(g) \cup {<<"releasing", g>>}
    BY <1>1, <2>1, NoneIsNoPermit DEF Owners, Resuming
  <2>4. g \in Permits =>
          Owners(g)' \subseteq (Owners(g) \ {<<"attaching", r>>}) \cup {<<"releasing", g>>}
    BY <1>3, <2>3
  <2>5. Counted' \ {None} \subseteq Counted
    BY <1>1, <2>1 DEF Counted, InThreads, Resuming
  <2> QED
    BY <1>1, <1>2, <2>2, <2>4, <2>5, HandsOverStep
<1> QED
  BY <1>4, <1>5

\* The CAS of a resume stores its permit, or gives it back.
LEMMA OwnedResumeCas ==
  ASSUME Good, Typed', NEW r \in Runs, ResumeCas(r)
  PROVE  OneOwner' /\ Holds'
<1>0. PICK g : g = resume[r].g
  OBVIOUS
<1>1. /\ UNCHANGED <<disp, releasing, attaching>>
      /\ resume'[r].pc # "acquired"
      /\ \A q \in Runs : q # r => resume'[q] = resume[q]
  BY GoodTyped DEF ResumeCas, PermitTypes, ResumeState, IdleResume
<1>2. r \in Resuming /\ <<"resume", r>> \in Owners(g)
  BY <1>0 DEF Owners, Resuming, ResumeCas
<1>3. <<"resume", r>> \notin Owners(g)'
  BY <1>1, OwnersThen
<1>4. CASE status[r] = "PAUSED"
  <2>1. /\ UNCHANGED globalHeld
        /\ \A q \in Runs : globalPermit'[q] = IF q = r THEN g ELSE globalPermit[q]
        /\ \A q \in Runs : q # r => status'[q] = status[q]
    BY <1>0, <1>4, GoodTyped DEF ResumeCas, PermitTypes
  <2>2. \A q \in Permits \ {g} : Owners(q)' \subseteq Owners(q)
    BY <1>1, <2>1 DEF Owners, Resuming
  <2>3. g \in Permits => Owners(g)' \subseteq Owners(g) \cup {<<"row", r>>}
    BY <1>1, <2>1 DEF Owners, Resuming
  <2>4. g \in Permits => Owners(g)' \subseteq (Owners(g) \ {<<"resume", r>>}) \cup {<<"row", r>>}
    BY <1>3, <2>3
  <2>5. Counted' \ {None} \subseteq Counted
    BY <1>0, <1>1, <1>2, <2>1 DEF Counted, InThreads, Resuming
  <2> QED
    BY <1>2, <2>1, <2>2, <2>4, <2>5, HandsOverStep
<1>5. CASE status[r] # "PAUSED"
  <2>1. UNCHANGED <<status, globalPermit>> /\ globalHeld' = globalHeld \ {g}
    BY <1>0, <1>5 DEF ResumeCas, releaseGlobal
  <2>2. \A q \in Permits : Owners(q)' \subseteq Owners(q)
    BY <1>1, <2>1 DEF Owners, Resuming
  <2>3. Counted' \ {None} \subseteq Counted
    BY <1>1, <2>1 DEF Counted, InThreads, Resuming
  <2> QED
    BY <1>2, <1>3, <2>1, <2>2, <2>3, GivesBackStep
<1> QED
  BY <1>4, <1>5

LEMMA OwnedRun ==
  ASSUME Good, Typed', RunStep
  PROVE  OneOwner' /\ Holds'
BY OwnedRelease, OwnedSettle, OwnedClear, OwnedDetach, OwnedAcquire, OwnedResume, OwnedAttach,
   OwnedResumeCas
DEF RunStep

\* A release of its own thread, and the end of a lease nobody renews.
LEMMA OwnedLease ==
  ASSUME Good, Typed', LeaseStep
  PROVE  OneOwner' /\ Holds'
<1>1. PICK p \in Permits : ReleaseGlobal(p) \/ LeaseExpires(p)
  BY DEF LeaseStep
<1>2. UNCHANGED <<status, globalPermit, disp, attaching, resume>>
  BY <1>1 DEF ReleaseGlobal, LeaseExpires
<1>3. Counted' \ {None} \subseteq Counted
  BY <1>2 DEF Counted, InThreads, Resuming
<1>4. releasing' \subseteq releasing
  BY <1>1 DEF ReleaseGlobal, LeaseExpires
<1>5. \A q \in Permits : Owners(q)' \subseteq Owners(q)
  BY <1>2, <1>4 DEF Owners, Resuming
<1>6. CASE ReleaseGlobal(p)
  <2>1. <<"releasing", p>> \in Owners(p)
    BY <1>6 DEF ReleaseGlobal, Owners
  <2>2. <<"releasing", p>> \notin Owners(p)'
    BY <1>6, OwnersThen DEF ReleaseGlobal
  <2> QED
    BY <1>3, <1>5, <1>6, <2>1, <2>2, GivesBackStep DEF ReleaseGlobal, releaseGlobal
<1>7. CASE LeaseExpires(p) /\ UNCHANGED globalHeld
  BY <1>3, <1>5, <1>7, KeepsStep
<1>8. CASE LeaseExpires(p) /\ p \notin GlobalRenewed /\ globalHeld' = globalHeld \ {p}
  <2>1. p \notin Counted
    BY <1>8 DEF GlobalRenewed, Counted, InThreads, Resuming
  <2> QED
    BY <1>3, <1>5, <1>8, <2>1, ReleasesStep
<1> QED
  BY <1>1, <1>6, <1>7, <1>8 DEF LeaseExpires, releaseGlobal

LEMMA OwnedCrash ==
  ASSUME Good, ~Outages, Crash
  PROVE  OneOwner' /\ Holds'
<1>1. /\ UNCHANGED <<status, globalPermit, globalHeld>>
      /\ releasing' = {}
      /\ \A r \in Runs : attaching'[r] = None /\ resume'[r].pc = "idle"
      /\ \A d \in Dispatchers : disp'[d].g = None
  BY DEF Crash, IdleResume, IdleDispatch
<1>2. \A q \in Permits : Owners(q)' \subseteq Owners(q)
  BY <1>1, NoneIsNoPermit DEF Owners, Resuming
<1>3. Counted' \ {None} \subseteq Counted
  BY <1>1 DEF Counted, InThreads, Resuming
<1> QED
  BY <1>1, <1>2, <1>3, KeepsStep

\* All other steps leave the permits alone, and no row becomes active.
LEMMA OwnedQuiet ==
  ASSUME Good, Next, QuietPermits, ~PermitStep
  PROVE  OneOwner' /\ Holds'
<1>1. \A q \in Permits : Owners(q)' \subseteq Owners(q)
  BY DEF QuietPermits, Owners, Resuming
<1>2. \A r \in Runs : isActive(status'[r]) => isActive(status[r])
  BY NewlyActive DEF Good, PermitStep, DispatchStep, RunStep
<1>3. Counted' \ {None} \subseteq Counted
  BY <1>2 DEF QuietPermits, Counted, InThreads, Resuming
<1> QED
  BY <1>1, <1>3, KeepsStep DEF QuietPermits

LEMMA GoodInit == Init => Good
<1>1. Init => Holds /\ OneOwner
  BY NoneIsNoPermit
  DEF Init, Holds, Counted, InThreads, Resuming, OneOwner, Owners, IdleDispatch, IdleResume,
      isActive, ACTIVE
<1> QED
  BY <1>1, HandsInvariantInit DEF Good, HandsInvariant

LEMMA GoodStep ==
  ASSUME "startFailure" \notin Traffic, ~Outages, Good, [Next]_vars, [ResumesAfterPause]_vars
  PROVE  Good'
<1>1. HandsInvariant'
  BY HandsInvariantStep DEF Good, HandsInvariant
<1>2. Typed'
  BY <1>1 DEF HandsInvariant
<1>3. CASE UNCHANGED vars
  <2>1. OneOwner' /\ Holds'
    BY <1>3 DEF Good, OneOwner, Owners, Resuming, Holds, Counted, InThreads
  <2> QED
    BY <1>1, <2>1 DEF HandsInvariant, Good
<1>4. CASE Next
  <2>1. QuietPermits \/ PermitStep
    BY <1>4, PermitSteps DEF Good, HandsKnown
  <2>2. OneOwner' /\ Holds'
    BY <1>2, <1>4, <2>1, OwnedGlobal, OwnedConversation, OwnedMark, OwnedRun, OwnedLease,
       OwnedCrash, OwnedQuiet
    DEF PermitStep, DispatchStep
  <2> QED
    BY <1>1, <2>2 DEF HandsInvariant, Good
<1> QED
  BY <1>3, <1>4

\* The inductive invariant behind PermitsBacked: every permit has one owner, and
\* those that threads and executing rows count on are leased.
THEOREM PermitsAccountedFor ==
  ASSUME "startFailure" \notin Traffic, ~Outages
  PROVE  OrderlySpec => []PermitsAccounted
<1>1. Good => PermitsAccounted
  BY DEF Good, PermitsAccounted
<1> QED
  BY <1>1, GoodInit, GoodStep, PTL DEF OrderlySpec, Spec

LEMMA GoodBacked ==
  ASSUME Good
  PROVE  PermitsBacked
<1> SUFFICES ASSUME NEW r \in Runs, isActive(status[r]), globalPermit[r] # None
             PROVE  /\ globalPermit[r] \in globalHeld
                    /\ \A q \in Runs \ {r} : globalPermit[q] # globalPermit[r]
  BY DEF PermitsBacked
<1>1. globalPermit[r] \in globalHeld
  BY DEF Good, Holds, Counted
<1>2. globalPermit[r] \in Permits
  BY <1>1 DEF Good, Typed, TypeOK
<1>3. ASSUME NEW q \in Runs, globalPermit[q] = globalPermit[r]
      PROVE  q = r
  <2>1. <<"row", q>> \in Owners(globalPermit[r]) /\ <<"row", r>> \in Owners(globalPermit[r])
    BY <1>3 DEF Owners
  <2>2. <<"row", q>> = <<"row", r>>
    BY <1>2, <2>1 DEF Good, OneOwner
  <2> QED
    BY <2>2
<1> QED
  BY <1>1, <1>3

\* A row that executes with a permit names one that the semaphore leased to it
\* and to no other row, whatever releases, re-acquisitions, pauses, resumes,
\* results, expiring leases and restarts there are.
THEOREM Backed ==
  ASSUME "startFailure" \notin Traffic, ~Outages
  PROVE  OrderlySpec => []PermitsBacked
<1> QED
  BY GoodBacked, GoodInit, GoodStep, PTL DEF OrderlySpec, Spec

-----------------------------------------------------------------------------
(***************************************************************************)
(* What the semaphore is for: it bounds the runs that execute on a permit. *)
(***************************************************************************)
Capped == IsFiniteSet(globalHeld) /\ Cardinality(globalHeld) <= MaxGlobal

LEMMA CappedStep ==
  ASSUME Good, Capped, [Next]_vars
  PROVE  Capped'
<1>1. CASE globalHeld' \subseteq globalHeld
  <2>1. IsFiniteSet(globalHeld') /\ Cardinality(globalHeld') <= Cardinality(globalHeld)
    BY <1>1, FS_Subset DEF Capped
  <2>2. Cardinality(globalHeld') \in Nat /\ Cardinality(globalHeld) \in Nat
    BY <2>1, FS_CardinalityType DEF Capped
  <2> QED
    BY <2>1, <2>2, RunAssumption DEF Capped
<1>2. ASSUME NEW p, tryAcquireGlobal(p)
      PROVE  Capped'
  <2>1. Cardinality(globalHeld) \in Nat
    BY FS_CardinalityType DEF Capped
  <2>2. IsFiniteSet(globalHeld \cup {p})
          /\ Cardinality(globalHeld \cup {p}) <= Cardinality(globalHeld) + 1
    BY <2>1, FS_AddElement DEF Capped
  <2>3. Cardinality(globalHeld) < MaxGlobal /\ globalHeld' = globalHeld \cup {p}
    BY <1>2 DEF tryAcquireGlobal, GlobalFree
  <2>4. Cardinality(globalHeld \cup {p}) \in Nat
    BY <2>2, FS_CardinalityType
  <2> QED
    BY <2>1, <2>2, <2>3, <2>4, RunAssumption DEF Capped
<1>3. CASE UNCHANGED vars
  BY <1>1, <1>3
<1> QED
  BY <1>1, <1>2, <1>3, HeldGrows DEF Good, HandsKnown

\* The rows that execute on a permit.
OnPermit == {r \in Runs : isActive(status[r]) /\ globalPermit[r] # None}

\* agent.run.max-global-concurrent bounds the rows that execute on a permit: the
\* column of each names a different one of the leased permits.
THEOREM RunsBounded ==
  ASSUME "startFailure" \notin Traffic, ~Outages
  PROVE  OrderlySpec => [](Cardinality(OnPermit) <= MaxGlobal)
<1>1. Init => Capped
  BY FS_EmptySet, RunAssumption DEF Init, Capped
<1>2. Good /\ Capped => Cardinality(OnPermit) <= MaxGlobal
  <2> SUFFICES ASSUME Good, Capped
               PROVE  Cardinality(OnPermit) <= MaxGlobal
    OBVIOUS
  <2> DEFINE f == [r \in OnPermit |-> globalPermit[r]]
  <2>1. PermitsBacked
    BY GoodBacked
  <2>2. f \in [OnPermit -> globalHeld]
    BY <2>1 DEF PermitsBacked, OnPermit
  <2>3. \A q, r \in OnPermit : f[q] = f[r] => q = r
    BY <2>1 DEF PermitsBacked, OnPermit
  <2> HIDE DEF f
  <2>4. f \in Injection(OnPermit, globalHeld)
    BY <2>2, <2>3, Fun_IsInj
  <2>5. IsFiniteSet(OnPermit) /\ Cardinality(OnPermit) <= Cardinality(globalHeld)
    BY <2>4, FS_Injection DEF Capped
  <2>6. Cardinality(OnPermit) \in Nat /\ Cardinality(globalHeld) \in Nat
    BY <2>5, FS_CardinalityType DEF Capped
  <2> QED
    BY <2>5, <2>6, RunAssumption DEF Capped
<1> QED
  BY <1>1, <1>2, CappedStep, GoodInit, GoodStep, PTL DEF OrderlySpec, Spec

-----------------------------------------------------------------------------
(***************************************************************************)
(* A paused run does not execute.                                          *)
(***************************************************************************)
\* What Quiescent(r) speaks of; a step that leaves it alone keeps Quiescent(r),
\* and so does one that moves a status other than to PAUSED.
SameLife(r) ==
  /\ start'[r] = start[r] /\ resume'[r] = resume[r] /\ pausing'[r] = pausing[r]
  /\ result'[r] = result[r] /\ runtime'[r] = runtime[r] /\ posts'[r] = posts[r]

LEMMA QuietLife ==
  ASSUME NEW r, Quiescent(r), SameLife(r), status'[r] = "PAUSED" => status[r] = "PAUSED"
  PROVE  Quiescent(r)'
BY DEF SameLife, Quiescent, Waiting, Still, Posting

\* A step of one run leaves the others alone.
LEMMA OthersLife ==
  ASSUME Typed, NEW r \in Runs, NEW q \in Runs \ {r},
         \/ Thread(q) \/ Callback(q) \/ Request(q) \/ RuntimeEnds(q) \/ ResultLost(q)
  PROVE  SameLife(r) /\ status'[r] = status[r]
<1> USE DEF Typed, TypeOK, SameLife
<1>1. CASE Thread(q)
  <2>1. CASE Start(q)
    BY <2>1 DEF Start, StartCas, StartCall, StartFailed, Accept, finishInternal
  <2>2. CASE FinishRelease(q) \/ PausedRelease(q) \/ PausedClear(q) \/ AttachExecutionPermit(q)
               \/ PauseReturn(q)
    BY <2>2 DEF FinishRelease, PausedRelease, PausedClear, AttachExecutionPermit, PauseReturn
  <2>3. CASE applyRuntimeResult(q)
    BY <2>3 DEF applyRuntimeResult, ResultCancelled, ResultPaused, ResultTerminal, ResultRecheck,
                finishInternal
  <2>4. CASE Resume(q)
    BY <2>4 DEF Resume, ResumeCas, ResumeCall, ResumeAccepted, ResumeFailed, Accept
  <2>5. CASE CancelAct(q)
    BY <2>5 DEF CancelAct, cancelQueued, CancelPaused, CancelPropagate, cancelRun, finishInternal
  <2> QED
    BY <1>1, <2>1, <2>2, <2>3, <2>4, <2>5 DEF Thread
<1>2. CASE Callback(q)
  BY <1>2 DEF Callback, applyRuntimeEvent, saveRunCheckpoint, releaseExecutionPermit,
              tryAcquireExecutionPermit, ResultArrives
<1>3. CASE Request(q)
  BY <1>3 DEF Request, submit, retryFromCheckpoint, Insert, pauseActiveRun, resumePausedRun,
              CancelRead, cancelActiveRun
<1>4. CASE RuntimeEnds(q) \/ ResultLost(q)
  BY <1>4 DEF RuntimeEnds, ResultLost
<1> QED
  BY <1>1, <1>2, <1>3, <1>4

\* A start comes to the runtime before any execution, a resume while the last
\* one has ended: either makes a run that waits for nothing else live.
LEMMA LifeThread ==
  ASSUME Typed, "startFailure" \notin Traffic, NEW r \in Runs, Quiescent(r), Thread(r)
  PROVE  Quiescent(r)'
<1> USE DEF Typed, TypeOK
<1>1. CASE StartCas(r)
  <2>1. start'[r] \in {"calling", "idle"} /\ start[r] = "submitted"
    BY <1>1 DEF StartCas
  <2>2. status'[r] = "PAUSED" => status[r] = "PAUSED"
    BY <1>1 DEF StartCas, finishInternal, TERMINAL
  <2>3. UNCHANGED <<resume, pausing, result, runtime, posts>>
    BY <1>1 DEF StartCas
  <2> QED
    BY <2>1, <2>2, <2>3 DEF Quiescent, Waiting, Still, Posting
<1>2. CASE StartCall(r)
  <2>1. start[r] = "calling" /\ start'[r] = "idle" /\ Accept(r)
          /\ UNCHANGED <<status, resume, pausing, result, posts>>
    BY <1>2 DEF StartCall
  <2> QED
    BY <2>1 DEF Accept, Quiescent, Waiting, Still, Posting
<1>3. ~StartFailed(r)
  BY DEF StartFailed, Quiescent
<1>4. CASE FinishRelease(r) \/ AttachExecutionPermit(r) \/ PausedRelease(r) \/ PausedClear(r)
             \/ PauseReturn(r)
  <2>1. UNCHANGED <<start, resume, result, runtime, posts>>
          /\ (status'[r] = "PAUSED" => status[r] = "PAUSED")
          /\ (pausing[r] = "idle" => pausing'[r] = "idle")
    BY <1>4 DEF FinishRelease, AttachExecutionPermit, PausedRelease, PausedClear, PauseReturn
  <2> QED
    BY <2>1 DEF Quiescent, Waiting, Still, Posting
<1>5. CASE applyRuntimeResult(r)
  <2>1. UNCHANGED <<start, resume, runtime, posts>>
    BY <1>5 DEF applyRuntimeResult
  <2>2. result[r] \in ResultState /\ result[r].pc # "idle"
    BY <1>5 DEF applyRuntimeResult, ResultCancelled, ResultPaused, ResultTerminal, ResultRecheck
  <2>3. runtime[r] # "live"
    BY <2>2 DEF Quiescent, Posting
  <2>4. result'[r].pc # "paused"
    BY <1>5, <2>2 DEF applyRuntimeResult, ResultCancelled, ResultPaused, ResultTerminal,
                      ResultRecheck, IdleResult, ResultState
  <2>5. status'[r] = "PAUSED" => status[r] = "PAUSED" \/ result[r].pc = "paused"
    BY <1>5 DEF applyRuntimeResult, ResultCancelled, ResultPaused, ResultTerminal,
                ResultRecheck, finishInternal, ResultsTyped, TERMINAL
  <2> QED
    BY <2>1, <2>3, <2>4, <2>5 DEF Quiescent, Waiting, Still
<1>6. CASE ResumeCas(r)
  <2>1. UNCHANGED <<start, pausing, result, runtime, posts>> /\ resume[r].pc = "acquired"
    BY <1>6 DEF ResumeCas
  <2>2. \/ /\ status[r] = "PAUSED" /\ status'[r] # "PAUSED"
           /\ resume'[r].pc = "calling"
        \/ status'[r] = status[r] /\ resume'[r].pc = "idle"
    BY <1>6 DEF ResumeCas, ResumeState, IdleResume
  <2> QED
    BY <2>1, <2>2 DEF Quiescent, Waiting, Still, Posting
<1>7. CASE ResumeCall(r)
  <2>1. /\ resume[r].pc = "calling" /\ resume'[r].pc = "accepted" /\ Accept(r)
        /\ UNCHANGED <<status, start, pausing, result, posts>>
    BY <1>7 DEF ResumeCall, ResumeState
  <2> QED
    BY <2>1 DEF Accept, Quiescent, Waiting, Still, Posting
<1>8. CASE ResumeAccepted(r)
  <2>1. /\ resume'[r].pc = "idle"
        /\ status'[r] = "PAUSED" => status[r] = "PAUSED"
        /\ UNCHANGED <<start, pausing, result, runtime, posts>>
    BY <1>8 DEF ResumeAccepted, IdleResume
  <2> QED
    BY <2>1 DEF Quiescent, Waiting, Still, Posting
<1>9. ~ResumeFailed(r)
  BY DEF ResumeFailed, Quiescent
<1>10. CASE CancelAct(r)
  <2>1. UNCHANGED <<start, resume, pausing, result>>
          /\ (status'[r] = "PAUSED" => status[r] = "PAUSED")
    BY <1>10 DEF CancelAct, cancelQueued, CancelPaused, CancelPropagate, finishInternal
  <2>2. \/ UNCHANGED <<runtime, posts>>
        \/ runtime'[r] = "tomb" /\ posts'[r] \in {posts[r], "CANCELLED"}
    BY <1>10 DEF CancelAct, cancelQueued, CancelPaused, CancelPropagate, cancelRun
  <2> QED
    BY <2>1, <2>2 DEF Quiescent, Waiting, Still, Posting
<1> QED
  BY <1>1, <1>2, <1>3, <1>4, <1>5, <1>6, <1>7, <1>8, <1>9, <1>10 DEF Thread, Start, Resume

LEMMA LifeOther ==
  ASSUME Typed, "duplicate" \notin Traffic, NEW r \in Runs, Quiescent(r),
         Callback(r) \/ Request(r) \/ RuntimeEnds(r) \/ ResultLost(r)
  PROVE  Quiescent(r)'
<1> USE DEF Typed, TypeOK
<1>1. CASE ResultArrives(r)
  <2>1. /\ posts[r] # None /\ posts'[r] = None /\ result[r].pc = "idle"
        /\ UNCHANGED <<status, start, resume, pausing, runtime>>
    BY <1>1 DEF ResultArrives
  <2>2. result'[r].pc = "paused" => posts[r] = "PAUSED"
    BY <1>1, <2>1 DEF ResultArrives, Branch
  <2>3. None # "PAUSED"
    BY RunAssumption DEF Status
  <2> QED
    BY <2>1, <2>2, <2>3 DEF Quiescent, Waiting, Still, Posting
<1>2. CASE applyRuntimeEvent(r) \/ saveRunCheckpoint(r) \/ releaseExecutionPermit(r)
             \/ tryAcquireExecutionPermit(r)
  <2>1. "PAUSED" \notin Phases
    BY RunAssumption
  <2>2. SameLife(r) /\ (status'[r] = "PAUSED" => status[r] = "PAUSED")
    BY <1>2, <2>1 DEF applyRuntimeEvent, saveRunCheckpoint, releaseExecutionPermit,
                      tryAcquireExecutionPermit, SameLife
  <2> QED
    BY <2>2, QuietLife
<1>3. CASE submit(r) \/ retryFromCheckpoint(r) \/ pauseActiveRun(r) \/ CancelRead(r)
             \/ cancelActiveRun(r)
  <2>1. SameLife(r) /\ (status'[r] = "PAUSED" => status[r] = "PAUSED")
    BY <1>3 DEF submit, retryFromCheckpoint, Insert, pauseActiveRun, CancelRead, cancelActiveRun,
                SameLife
  <2> QED
    BY <2>1, QuietLife
<1>4. CASE resumePausedRun(r)
  <2>1. resume[r].pc = "idle" /\ resume'[r].pc = "acquired"
          /\ UNCHANGED <<status, start, pausing, result, runtime, posts>>
    BY <1>4 DEF resumePausedRun
  <2> QED
    BY <2>1 DEF Quiescent, Waiting, Still, Posting
<1>5. CASE RuntimeEnds(r)
  <2>1. runtime[r] = "live" /\ runtime'[r] # "live"
          /\ UNCHANGED <<status, start, resume, pausing, result>>
    BY <1>5 DEF RuntimeEnds
  <2> QED
    BY <2>1 DEF Quiescent, Waiting, Still, Posting
<1>6. CASE ResultLost(r)
  <2>1. posts'[r] = None /\ UNCHANGED <<status, start, resume, pausing, result, runtime>>
    BY <1>6 DEF ResultLost
  <2>2. None # "PAUSED"
    BY RunAssumption DEF Status
  <2> QED
    BY <2>1, <2>2 DEF Quiescent, Waiting, Still, Posting
<1> QED
  BY <1>1, <1>2, <1>3, <1>4, <1>5, <1>6 DEF Callback, Request

\* The watchdog forces rows to terminal statuses and executions to end.
LEMMA LifeWatchdog ==
  ASSUME Typed, NEW r \in Runs, Quiescent(r), Watchdog
  PROVE  Quiescent(r)'
<1> USE DEF Typed, TypeOK
<1>1. UNCHANGED <<start, resume, pausing, result>>
  BY DEF Watchdog, WatchdogJudge, revertPausing, WatchdogCancel, WatchdogFinish
<1>2. status'[r] = "PAUSED" => status[r] = "PAUSED"
  BY DEF Watchdog, WatchdogJudge, revertPausing, WatchdogCancel, WatchdogFinish, finishInternal,
         WatchdogTyped, TERMINAL
<1>3. \/ runtime'[r] = runtime[r] /\ posts'[r] = posts[r]
      \/ runtime'[r] = "tomb" /\ posts'[r] \in {posts[r], "CANCELLED"}
  BY DEF Watchdog, WatchdogJudge, revertPausing, WatchdogCancel, WatchdogFinish, cancelRun
<1> QED
  BY <1>1, <1>2, <1>3 DEF Quiescent, Waiting, Still, Posting

\* A row is marked while nobody is busy with it.
LEMMA LifeDispatch ==
  ASSUME Typed, OnlyDispatched, NEW r \in Runs, Quiescent(r), NEW d \in Dispatchers, Dispatch(d)
  PROVE  Quiescent(r)'
<1> USE DEF Typed, TypeOK
<1>1. UNCHANGED <<resume, pausing, result, runtime, posts>>
  BY DEF Dispatch, DispatchList, DispatchNext, DispatchGlobal, DispatchConversation, DispatchMark
<1>2. CASE start'[r] = start[r] /\ status'[r] = status[r]
  BY <1>1, <1>2, QuietLife DEF SameLife
<1>3. CASE ~(start'[r] = start[r] /\ status'[r] = status[r])
  <2>1. DispatchMark(d) /\ disp[d].run = r /\ status[r] = "QUEUED"
    <3>1. CASE DispatchList(d) \/ DispatchNext(d) \/ DispatchGlobal(d) \/ DispatchConversation(d)
      BY <1>3, <3>1 DEF DispatchList, DispatchNext, DispatchGlobal, DispatchConversation
    <3>2. CASE DispatchMark(d)
      <4>1. \/ /\ status' = [status EXCEPT ![disp[d].run] = "STARTING"]
               /\ start' = [start EXCEPT ![disp[d].run] = "submitted"]
               /\ status[disp[d].run] = "QUEUED"
            \/ UNCHANGED <<status, start>>
        BY <3>2 DEF DispatchMark
      <4> QED
        BY <1>3, <3>2, <4>1
    <3> QED
      BY <3>1, <3>2 DEF Dispatch
  <2>2. ~Busy(r)
    BY <2>1 DEF OnlyDispatched, Dispatched
  <2>3. status'[r] = "STARTING" /\ start'[r] = "submitted"
    BY <2>1 DEF DispatchMark
  <2>4. None # "PAUSED"
    BY RunAssumption DEF Status
  <2> QED
    BY <1>1, <2>2, <2>3, <2>4 DEF Busy, Quiescent, Waiting, Still, Posting
<1> QED
  BY <1>2, <1>3

\* Only restarts are counted, and only a restart of the control plane has rows
\* to recover.
LEMMA RestartsCount ==
  ASSUME [Next]_vars, ~Crash, ~RuntimeRestarts
  PROVE  crashes' = crashes /\ recovering' \subseteq recovering
<1>1. ASSUME NEW d \in Dispatchers, Dispatch(d) PROVE UNCHANGED crashVars
  BY <1>1 DEF Dispatch, DispatchList, DispatchNext, DispatchGlobal, DispatchConversation,
              DispatchMark
<1>2. ASSUME NEW r \in Runs, Start(r)
      PROVE  crashes' = crashes /\ recovering' \subseteq recovering
  BY <1>2 DEF Start, StartCas, StartCall, StartFailed
<1>3. ASSUME NEW r \in Runs, Thread(r) \/ Callback(r) \/ Request(r), ~Start(r)
      PROVE  UNCHANGED crashVars
  BY <1>3
  DEF Thread, FinishRelease, applyRuntimeResult, PausedRelease, PausedClear, Resume, ResumeCas,
      ResumeCall, ResumeAccepted, ResumeFailed, PauseReturn, CancelAct, AttachExecutionPermit,
      Callback, applyRuntimeEvent, saveRunCheckpoint, releaseExecutionPermit,
      tryAcquireExecutionPermit, ResultArrives, Request, submit, retryFromCheckpoint, Insert,
      pauseActiveRun, resumePausedRun, CancelRead, cancelActiveRun
<1>4. ASSUME NEW r \in Runs, RuntimeEnds(r) \/ ResultLost(r) PROVE UNCHANGED crashVars
  BY <1>4 DEF RuntimeEnds, ResultLost
<1>5. ASSUME NEW r \in Runs, recoverAfterRestart(r)
      PROVE  crashes' = crashes /\ recovering' \subseteq recovering
  BY <1>5 DEF recoverAfterRestart
<1>6. (\E p \in Permits : ReleaseGlobal(p) \/ LeaseExpires(p)) \/ Watchdog
        => UNCHANGED crashVars
  BY DEF ReleaseGlobal, LeaseExpires, Watchdog, WatchdogJudge, revertPausing, WatchdogCancel,
         WatchdogFinish
<1> QED
  BY <1>1, <1>2, <1>3, <1>4, <1>5, <1>6 DEF Next

LEMMA QuiescentStep ==
  ASSUME Typed, OnlyDispatched, QuiescentRuns, [Next]_vars,
         "startFailure" \notin Traffic, "duplicate" \notin Traffic
  PROVE  QuiescentRuns'
<1> SUFFICES ASSUME crashes' = 0
             PROVE  recovering' = {} /\ \A r \in Runs : Quiescent(r)'
  BY DEF QuiescentRuns
<1>1. crashes = 0 /\ ~Crash /\ ~RuntimeRestarts
  <2>1. ~Crash /\ ~RuntimeRestarts
    BY DEF Crash, RuntimeRestarts, Typed, TypeOK
  <2>2. UNCHANGED crashes
    BY <2>1, RestartsCount
  <2> QED
    BY <2>1, <2>2
<1>2. recovering = {} /\ \A r \in Runs : Quiescent(r)
  BY <1>1 DEF QuiescentRuns
<1>3. ASSUME NEW q \in Runs, recoverAfterRestart(q) PROVE FALSE
  BY <1>2, <1>3 DEF recoverAfterRestart
<1>4. recovering' = {}
  <2>1. recovering' \subseteq recovering
    BY <1>1, RestartsCount
  <2> QED
    BY <1>2, <2>1
<1>5. ASSUME NEW r \in Runs PROVE Quiescent(r)'
  <2> Quiescent(r)
    BY <1>2
  <2>1. ASSUME NEW q \in Runs,
               Thread(q) \/ Callback(q) \/ Request(q) \/ RuntimeEnds(q) \/ ResultLost(q)
        PROVE  Quiescent(r)'
    BY <2>1, LifeThread, LifeOther, OthersLife, QuietLife
  <2>2. CASE \E p \in Permits : ReleaseGlobal(p) \/ LeaseExpires(p)
    BY <2>2, QuietLife DEF ReleaseGlobal, LeaseExpires, SameLife
  <2>3. CASE UNCHANGED vars
    BY <2>3, QuietLife DEF SameLife
  <2> QED
    BY <1>1, <1>3, <2>1, <2>2, <2>3, LifeWatchdog, LifeDispatch DEF Next
<1> QED
  BY <1>4, <1>5

\* The inductive invariant behind PausedIsQuiescent: an execution has no result
\* on the way, and a PAUSED result that is taken finds no other and no resume.
THEOREM RunsQuiesce ==
  ASSUME "startFailure" \notin Traffic, "duplicate" \notin Traffic
  PROVE  Spec => []QuiescentRuns
<1>1. Init => Typed /\ OnlyDispatched /\ QuiescentRuns
  <2>1. None # "PAUSED"
    BY RunAssumption DEF Status
  <2> QED
    BY <2>1, InvariantInit
    DEF RunInvariant, Init, QuiescentRuns, Quiescent, Waiting, Still, Posting, IdleResult,
        IdleResume
<1>2. Typed /\ OnlyDispatched /\ QuiescentRuns /\ [Next]_vars
        => Typed' /\ OnlyDispatched' /\ QuiescentRuns'
  BY TypedStep, OnlyDispatchedStep, QuiescentStep
<1> QED
  BY <1>1, <1>2, PTL DEF Spec

\* As long as neither side restarts, the runtime executes nothing of a run whose
\* row is PAUSED, whatever pauses, resumes, cancellations, time limits and lost
\* results there are; the resume of a run that is still settling its pause
\* included.
THEOREM Quiescence ==
  ASSUME "startFailure" \notin Traffic, "duplicate" \notin Traffic
  PROVE  Spec => []PausedIsQuiescent
<1>1. QuiescentRuns => PausedIsQuiescent
  BY DEF QuiescentRuns, PausedIsQuiescent, Quiescent, Waiting, Still
<1> QED
  BY <1>1, RunsQuiesce, PTL
=============================================================================
