---------------------------- MODULE RunLifecycle ----------------------------
(***************************************************************************)
(* The run control plane: the agent_run rows, the Redis permits and every  *)
(* thread that moves them (RunSchedulerService, RunLifecycleService,       *)
(* RunPermitService, RunQueueService, the RunController and the internal   *)
(* callback controller).                                                   *)
(*                                                                         *)
(* One database statement or one Redis call of the code is one step; what  *)
(* a thread remembers between two of them is in the variables of the       *)
(* "threads" group.  The Python runtime is kept to what the control plane  *)
(* sees of it: whether it executes a run, and the results it posts.        *)
(***************************************************************************)
EXTENDS Naturals, FiniteSets, RunStatus

CONSTANTS
  Runs,            \* run ids
  Conversations,   \* conversation ids
  ConvOf,          \* the conversation of each run
  Permits,         \* permit ids the semaphores hand out
  MaxGlobal,       \* agent.run.max-global-concurrent
  Dispatchers,     \* threads that may be inside dispatchOnce at one time
  None,            \* a null column or an idle thread
  Outcomes,        \* results the runtime's executions may end with
  Phases,          \* statuses its phase events may write
  Traffic,         \* requests, callbacks and faults considered in this instance
  MaxCrashes,      \* bound on control-plane restarts
  Outages          \* BOOLEAN: may a restart outlast the permit leases

TrafficKinds ==
  {"cancel", "pause", "resume", "retry", "permit", "checkpoint", "timeout",
   "startFailure", "duplicate", "loss"}

ASSUME RunAssumption ==
  /\ ConvOf \in [Runs -> Conversations]
  /\ MaxGlobal \in Nat \ {0}
  /\ None \notin Runs \cup Permits \cup Status
  /\ Outcomes \subseteq TERMINAL \cup {"PAUSED"}
  /\ Phases \subseteq {"RUNNING", "WAITING_LLM", "WAITING_TOOL"}
  /\ Traffic \subseteq TrafficKinds
  /\ MaxCrashes \in Nat
  /\ Outages \in BOOLEAN

VARIABLES
  \* the agent_run table
  status,          \* status column; "ABSENT" before the row is inserted
  convPermit,      \* conv_permit_id column
  globalPermit,    \* global_permit_id column
  snapshot,        \* is execution_snapshot set
  created,         \* created_at column, 0 before the row is inserted
  now,             \* the next created_at
  \* Redis
  globalHeld,      \* leased permits of the global semaphore
  convHeld,        \* leased permit of each conversation's one-permit semaphore
  \* threads
  disp,            \* a dispatchOnce call per dispatcher
  start,           \* startRun of each run
  finish,          \* finishInternal of each run, after its terminal CAS
  result,          \* applyRuntimeResult of each run
  pausing,         \* applyPausedResult of each run, after its CAS
  resume,          \* resumePausedRun of each run
  pauseCall,       \* is pauseActiveRun inside runtimeClient.pauseRun
  cancel,          \* a cancel request: what it read (QUEUED, PAUSED) before it
                   \* acts, or CANCELLING before it tells the runtime
  attaching,       \* permit tryAcquireExecutionPermit has not yet attached
  releasing,       \* permits a thread is about to release
  watchdog,        \* the run and verdict of forceTerminal in the watchdog
  \* the Python runtime, as the control plane sees it
  runtime,         \* its execution handle: none, live, paused, or a tombstone
  posts,           \* the result it posts until it is answered
  \* restart
  recovering,      \* runs recoverAfterRestart has still to look at
  crashes          \* restarts so far

tableVars   == <<status, convPermit, globalPermit, snapshot, created, now>>
redisVars   == <<globalHeld, convHeld>>
permitVars  == <<convPermit, globalPermit, globalHeld, convHeld>>
runtimeVars == <<runtime, posts>>
userVars    == <<resume, pauseCall, cancel>>
callVars    == <<result, pausing, attaching, releasing>>
threadVars  == <<disp, start, finish, watchdog, userVars, callVars>>
crashVars   == <<recovering, crashes>>
vars == <<tableVars, redisVars, threadVars, runtimeVars, crashVars>>

-----------------------------------------------------------------------------
IdleDispatch == [pc |-> "idle", todo |-> {}, run |-> None, g |-> None, c |-> None]
IdleResult   == [pc |-> "idle", outcome |-> None]
IdleResume   == [pc |-> "idle", g |-> None]
IdleWatchdog == [run |-> None, verdict |-> None, pc |-> "idle"]

Init ==
  /\ status = [r \in Runs |-> "ABSENT"]
  /\ convPermit = [r \in Runs |-> None]
  /\ globalPermit = [r \in Runs |-> None]
  /\ snapshot = [r \in Runs |-> FALSE]
  /\ created = [r \in Runs |-> 0]
  /\ now = 1
  /\ globalHeld = {}
  /\ convHeld = [c \in Conversations |-> None]
  /\ disp = [d \in Dispatchers |-> IdleDispatch]
  /\ start = [r \in Runs |-> "idle"]
  /\ finish = [r \in Runs |-> FALSE]
  /\ result = [r \in Runs |-> IdleResult]
  /\ pausing = [r \in Runs |-> "idle"]
  /\ resume = [r \in Runs |-> IdleResume]
  /\ pauseCall = [r \in Runs |-> FALSE]
  /\ cancel = [r \in Runs |-> None]
  /\ attaching = [r \in Runs |-> None]
  /\ releasing = {}
  /\ watchdog = IdleWatchdog
  /\ runtime = [r \in Runs |-> "none"]
  /\ posts = [r \in Runs |-> None]
  /\ recovering = {}
  /\ crashes = 0

\* The control plane answers requests: startup recovery is over.
Up == recovering = {}

-----------------------------------------------------------------------------
(***************************************************************************)
(* Permits.  A permit id is a fresh UUID: none that a semaphore, a column  *)
(* or a thread still knows.                                                *)
(***************************************************************************)
GlobalIdsInUse ==
  globalHeld \cup releasing
    \cup {globalPermit[r] : r \in Runs} \cup {attaching[r] : r \in Runs}
    \cup {resume[r].g : r \in Runs} \cup {disp[d].g : d \in Dispatchers}

ConvIdsInUse ==
  {convHeld[c] : c \in Conversations} \cup {convPermit[r] : r \in Runs}
    \cup {disp[d].c : d \in Dispatchers}

GlobalFree == Cardinality(globalHeld) < MaxGlobal

tryAcquireGlobal(p) ==
  /\ GlobalFree
  /\ p \in Permits \ GlobalIdsInUse
  /\ globalHeld' = globalHeld \cup {p}

\* tryRelease of an unknown, expired or null permit does nothing.
releaseGlobal(p) == globalHeld' = globalHeld \ {p}

tryAcquireConversation(c, p) ==
  /\ convHeld[c] = None
  /\ p \in Permits \ ConvIdsInUse
  /\ convHeld' = [convHeld EXCEPT ![c] = p]

releaseConversation(c, p) ==
  convHeld' = IF convHeld[c] = p THEN [convHeld EXCEPT ![c] = None] ELSE convHeld

-----------------------------------------------------------------------------
(***************************************************************************)
(* finishInternal.  The terminal CAS gives way to a concurrent             *)
(* cancellation; only the thread whose CAS succeeded releases the permits. *)
(***************************************************************************)
FinishGuard(r, terminal) ==
  /\ status[r] \notin TERMINAL
  /\ terminal # "CANCELLED" => status[r] # "CANCELLING"

finishInternal(r, terminal) ==
  IF FinishGuard(r, terminal)
  THEN /\ status' = [status EXCEPT ![r] = terminal]
       /\ finish' = [finish EXCEPT ![r] = TRUE]
  ELSE UNCHANGED <<status, finish>>

\* Re-read the row, release what its columns name, clear the columns.
FinishRelease(r) ==
  /\ finish[r]
  /\ releaseConversation(ConvOf[r], convPermit[r])
  /\ releaseGlobal(globalPermit[r])
  /\ convPermit' = [convPermit EXCEPT ![r] = None]
  /\ globalPermit' = [globalPermit EXCEPT ![r] = None]
  /\ finish' = [finish EXCEPT ![r] = FALSE]
  /\ UNCHANGED <<status, snapshot, created, now, disp, start, watchdog, userVars,
                 callVars, runtimeVars, crashVars>>

-----------------------------------------------------------------------------
(***************************************************************************)
(* Enqueueing.                                                             *)
(***************************************************************************)
Insert(r, withSnapshot) ==
  /\ status[r] = "ABSENT"
  /\ status' = [status EXCEPT ![r] = "QUEUED"]
  /\ snapshot' = [snapshot EXCEPT ![r] = withSnapshot]
  /\ created' = [created EXCEPT ![r] = now]
  /\ now' = now + 1
  /\ UNCHANGED <<permitVars, threadVars, runtimeVars, crashVars>>

submit(r) == Up /\ Insert(r, FALSE)

\* A failed run is never restarted: a new row carries its snapshot.
retryFromCheckpoint(r) ==
  /\ Up
  /\ "retry" \in Traffic
  /\ \E failed \in Runs :
       /\ ConvOf[failed] = ConvOf[r]
       /\ status[failed] \in {"FAILED", "TIMED_OUT"}
       /\ Insert(r, snapshot[failed])

-----------------------------------------------------------------------------
(***************************************************************************)
(* dispatchOnce.  A dispatcher reads the queue once and walks the earliest *)
(* queued run of each conversation; the timer and every kick may be inside *)
(* it at the same time.                                                    *)
(***************************************************************************)
EarlierQueued(r) ==
  {q \in Runs : ConvOf[q] = ConvOf[r] /\ created[q] < created[r] /\ status[q] = "QUEUED"}

\* Faulty variant: the walk takes every queued run of a conversation.
HeadsOfConversations_All == {r \in Runs : status[r] = "QUEUED"}

HeadsOfConversations == {r \in Runs : status[r] = "QUEUED" /\ EarlierQueued(r) = {}}

findActiveRun(c) == {r \in Runs : ConvOf[r] = c /\ isActive(status[r])}

\* Where the walk goes when the dispatcher is done with one run.
Walk(todo) ==
  [pc |-> IF todo = {} THEN "idle" ELSE "next", todo |-> todo,
   run |-> None, g |-> None, c |-> None]

DispatchList(d) ==
  /\ Up
  /\ disp[d].pc = "idle"
  /\ HeadsOfConversations # {}
  /\ disp' = [disp EXCEPT ![d] = Walk(HeadsOfConversations)]
  /\ UNCHANGED <<tableVars, redisVars, start, finish, watchdog, userVars,
                 callVars, runtimeVars, crashVars>>

\* A conversation with an active run is skipped.
DispatchNext(d) ==
  /\ Up
  /\ disp[d].pc = "next"
  /\ \E r \in disp[d].todo :
       /\ \A q \in disp[d].todo : created[r] <= created[q]
       /\ IF findActiveRun(ConvOf[r]) # {}
          THEN disp' = [disp EXCEPT ![d] = Walk(disp[d].todo \ {r})]
          ELSE disp' = [disp EXCEPT ![d].pc = "global", ![d].run = r,
                                    ![d].todo = @ \ {r}]
  /\ UNCHANGED <<tableVars, redisVars, start, finish, watchdog, userVars,
                 callVars, runtimeVars, crashVars>>

\* A full system ends the walk.
DispatchGlobal(d) ==
  /\ Up
  /\ disp[d].pc = "global"
  /\ \/ \E p \in Permits :
          /\ tryAcquireGlobal(p)
          /\ disp' = [disp EXCEPT ![d].pc = "conversation", ![d].g = p]
     \/ /\ ~GlobalFree
        /\ disp' = [disp EXCEPT ![d] = IdleDispatch]
        /\ UNCHANGED globalHeld
  /\ UNCHANGED <<tableVars, convHeld, start, finish, watchdog, userVars,
                 callVars, runtimeVars, crashVars>>

DispatchConversation(d) ==
  LET c == ConvOf[disp[d].run] IN
  /\ Up
  /\ disp[d].pc = "conversation"
  /\ \/ \E p \in Permits :
          /\ tryAcquireConversation(c, p)
          /\ disp' = [disp EXCEPT ![d].pc = "mark", ![d].c = p]
          /\ UNCHANGED globalHeld
     \/ /\ convHeld[c] # None
        /\ releaseGlobal(disp[d].g)
        /\ disp' = [disp EXCEPT ![d] = Walk(disp[d].todo)]
        /\ UNCHANGED convHeld
  /\ UNCHANGED <<tableVars, start, finish, watchdog, userVars,
                 callVars, runtimeVars, crashVars>>

\* markStarting, then the start pool; both permits go back when the CAS loses.
DispatchMark(d) ==
  LET r == disp[d].run IN
  /\ Up
  /\ disp[d].pc = "mark"
  /\ \/ /\ status[r] = "QUEUED"
        /\ status' = [status EXCEPT ![r] = "STARTING"]
        /\ convPermit' = [convPermit EXCEPT ![r] = disp[d].c]
        /\ globalPermit' = [globalPermit EXCEPT ![r] = disp[d].g]
        /\ start' = [start EXCEPT ![r] = "submitted"]
        /\ UNCHANGED redisVars
     \/ /\ status[r] # "QUEUED"
        /\ releaseConversation(ConvOf[r], disp[d].c)
        /\ releaseGlobal(disp[d].g)
        /\ UNCHANGED <<status, convPermit, globalPermit, start>>
  /\ disp' = [disp EXCEPT ![d] = Walk(disp[d].todo)]
  /\ UNCHANGED <<snapshot, created, now, finish, watchdog, userVars,
                 callVars, runtimeVars, crashVars>>

-----------------------------------------------------------------------------
(***************************************************************************)
(* startRun: in the start pool, or inside recoverAfterRestart, which then   *)
(* goes on to the next row when it returns.                                *)
(***************************************************************************)
\* The task of an execution ends when its result has been answered.
Posting(r) == posts[r] # None \/ result[r].pc # "idle" \/ pausing[r] # "idle"

\* A start or a resume is silently ignored while a task of the run has not
\* ended, and after the run has ended or was cancelled.
Accept(r) ==
  runtime' = IF runtime[r] \in {"none", "paused"} /\ ~Posting(r)
             THEN [runtime EXCEPT ![r] = "live"] ELSE runtime

\* A cancel call reaches the runtime, which cancels the task even if it is
\* posting another result, or is lost ("runtime cancel deferred").
cancelRun(r) ==
  \/ /\ runtime' = [runtime EXCEPT ![r] = "tomb"]
     /\ posts' = IF runtime[r] = "live" \/ Posting(r)
                 THEN [posts EXCEPT ![r] = "CANCELLED"] ELSE posts
  \/ UNCHANGED runtimeVars

\* CAS STARTING -> RUNNING; a run cancelled while starting is left alone.
StartCas(r) ==
  /\ start[r] = "submitted"
  /\ IF status[r] = "STARTING"
     THEN \/ /\ status' = [status EXCEPT ![r] = "RUNNING"]
             /\ start' = [start EXCEPT ![r] = "calling"]
             /\ UNCHANGED finish
          \/ /\ "startFailure" \in Traffic   \* the conversation row is gone
             /\ finishInternal(r, "FAILED")
             /\ start' = [start EXCEPT ![r] = "idle"]
     ELSE /\ start' = [start EXCEPT ![r] = "idle"]
          /\ UNCHANGED <<status, finish>>
  /\ UNCHANGED <<permitVars, snapshot, created, now, disp, watchdog, userVars,
                 callVars, runtimeVars, crashes>>

\* runtimeClient.startRun: an exception does not tell whether it was accepted.
StartCall(r) ==
  /\ start[r] = "calling"
  /\ \/ Accept(r) /\ start' = [start EXCEPT ![r] = "idle"]
     \/ /\ "startFailure" \in Traffic
        /\ Accept(r) \/ UNCHANGED runtime
        /\ start' = [start EXCEPT ![r] = "failed"]
  /\ UNCHANGED <<tableVars, redisVars, disp, finish, watchdog, userVars,
                 callVars, posts, crashes>>

StartFailed(r) ==
  /\ start[r] = "failed"
  /\ finishInternal(r, "FAILED")
  /\ start' = [start EXCEPT ![r] = "idle"]
  /\ UNCHANGED <<permitVars, snapshot, created, now, disp, watchdog, userVars,
                 callVars, runtimeVars, crashes>>

-----------------------------------------------------------------------------
(***************************************************************************)
(* Callbacks of the runtime: phase events, checkpoints, permit transitions *)
(* and results.                                                            *)
(***************************************************************************)
\* A phase event overwrites every active status but CANCELLING.
applyRuntimeEvent(r) ==
  /\ Up
  /\ runtime[r] = "live"
  /\ status[r] \in ACTIVE \ {"CANCELLING"}
  /\ \E phase \in Phases : status' = [status EXCEPT ![r] = phase]
  /\ UNCHANGED <<permitVars, snapshot, created, now, threadVars, runtimeVars, crashVars>>

saveRunCheckpoint(r) ==
  /\ Up
  /\ "checkpoint" \in Traffic
  /\ runtime[r] = "live"
  /\ status[r] \notin TERMINAL
  /\ snapshot' = [snapshot EXCEPT ![r] = TRUE]
  /\ UNCHANGED <<status, permitVars, created, now, threadVars, runtimeVars, crashVars>>

\* Faulty variant: the permit is released but stays in the column.
releaseExecutionPermit_KeepColumn(r) ==
  /\ Up
  /\ "permit" \in Traffic
  /\ runtime[r] = "live"
  /\ globalPermit[r] # None
  /\ releasing' = releasing \cup {globalPermit[r]}
  /\ UNCHANGED <<tableVars, redisVars, disp, start, finish, watchdog, userVars,
                 result, pausing, attaching, runtimeVars, crashVars>>

\* All branches of the run wait for the LLM: clear the column, then release.
releaseExecutionPermit(r) ==
  /\ Up
  /\ "permit" \in Traffic
  /\ runtime[r] = "live"
  /\ globalPermit[r] # None
  /\ releasing' = releasing \cup {globalPermit[r]}
  /\ globalPermit' = [globalPermit EXCEPT ![r] = None]
  /\ UNCHANGED <<status, convPermit, snapshot, created, now, redisVars, disp, start,
                 finish, watchdog, userVars, result, pausing, attaching,
                 runtimeVars, crashVars>>

ReleaseGlobal(p) ==
  /\ Up
  /\ p \in releasing
  /\ releaseGlobal(p)
  /\ releasing' = releasing \ {p}
  /\ UNCHANGED <<tableVars, convHeld, disp, start, finish, watchdog, userVars,
                 result, pausing, attaching, runtimeVars, crashVars>>

\* An LLM result arrived: the run must hold a permit again before it goes on.
tryAcquireExecutionPermit(r) ==
  /\ Up
  /\ "permit" \in Traffic
  /\ runtime[r] = "live"
  /\ attaching[r] = None
  /\ status[r] \notin TERMINAL
  /\ globalPermit[r] = None
  /\ \E p \in Permits :
       /\ tryAcquireGlobal(p)
       /\ attaching' = [attaching EXCEPT ![r] = p]
  /\ UNCHANGED <<tableVars, convHeld, disp, start, finish, watchdog, userVars,
                 result, pausing, releasing, runtimeVars, crashVars>>

\* Faulty variant: a permit that cannot be attached is forgotten.
AttachExecutionPermit_Forget(r) ==
  /\ Up
  /\ attaching[r] # None
  /\ globalPermit' = [globalPermit EXCEPT ![r] =
       IF @ = None /\ isActive(status[r]) THEN attaching[r] ELSE @]
  /\ attaching' = [attaching EXCEPT ![r] = None]
  /\ UNCHANGED <<status, convPermit, snapshot, created, now, redisVars, disp, start,
                 finish, watchdog, userVars, result, pausing, releasing,
                 runtimeVars, crashVars>>

AttachExecutionPermit(r) ==
  /\ Up
  /\ attaching[r] # None
  /\ IF globalPermit[r] = None /\ isActive(status[r])
     THEN /\ globalPermit' = [globalPermit EXCEPT ![r] = attaching[r]]
          /\ UNCHANGED releasing
     ELSE /\ releasing' = releasing \cup {attaching[r]}
          /\ UNCHANGED globalPermit
  /\ attaching' = [attaching EXCEPT ![r] = None]
  /\ UNCHANGED <<status, convPermit, snapshot, created, now, redisVars, disp, start,
                 finish, watchdog, userVars, result, pausing, runtimeVars, crashVars>>

(***************************************************************************)
(* applyRuntimeResult.  The row is read, and acted upon later by CAS.      *)
(***************************************************************************)
\* The branch applyRuntimeResult takes on the row as read.
Branch(s, outcome) ==
  CASE s = "CANCELLING" -> "cancelled"
    [] s # "CANCELLING" /\ outcome # "PAUSED" -> "terminal"
    [] s # "CANCELLING" /\ outcome = "PAUSED" /\ isActive(s) -> "paused"
    [] OTHER -> "recheck"

\* A post whose answer is lost is sent again.  A late result of a terminal run
\* is fenced on reading the row.
ResultArrives(r) ==
  /\ Up
  /\ posts[r] # None
  /\ result[r].pc = "idle"
  /\ \/ posts' = [posts EXCEPT ![r] = None]
     \/ "duplicate" \in Traffic /\ UNCHANGED posts
  /\ result' = IF isTerminal(status[r]) THEN result
               ELSE [result EXCEPT ![r] = [pc |-> Branch(status[r], posts[r]),
                                           outcome |-> posts[r]]]
  /\ UNCHANGED <<tableVars, redisVars, disp, start, finish, watchdog, userVars,
                 pausing, attaching, releasing, runtime, crashVars>>

PAUSABLE == {"STARTING", "RUNNING", "WAITING_LLM", "WAITING_TOOL", "PAUSING", "RESUMING"}

\* Cancellation is authoritative over every racing result.
ResultCancelled(r) ==
  /\ result[r].pc = "cancelled"
  /\ finishInternal(r, "CANCELLED")
  /\ result' = [result EXCEPT ![r] = IdleResult]
  /\ UNCHANGED <<snapshot, pausing>>

ResultPaused(r) ==
  /\ result[r].pc = "paused"
  /\ pausing[r] = "idle"
  /\ IF status[r] \in PAUSABLE
     THEN /\ status' = [status EXCEPT ![r] = "PAUSED"]
          /\ snapshot' = [snapshot EXCEPT ![r] = TRUE]
          /\ pausing' = [pausing EXCEPT ![r] = "release"]
          /\ result' = [result EXCEPT ![r] = IdleResult]
     ELSE /\ result' = [result EXCEPT ![r].pc = "recheck"]
          /\ UNCHANGED <<status, snapshot, pausing>>
  /\ UNCHANGED finish

ResultTerminal(r) ==
  /\ result[r].pc = "terminal"
  /\ finishInternal(r, result[r].outcome)
  /\ result' = IF FinishGuard(r, result[r].outcome)
               THEN [result EXCEPT ![r] = IdleResult]
               ELSE [result EXCEPT ![r].pc = "recheck"]
  /\ UNCHANGED <<snapshot, pausing>>

\* The CAS lost: if that was to a cancellation, complete the cancellation.
ResultRecheck(r) ==
  /\ result[r].pc = "recheck"
  /\ IF status[r] = "CANCELLING"
     THEN finishInternal(r, "CANCELLED")
     ELSE UNCHANGED <<status, finish>>
  /\ result' = [result EXCEPT ![r] = IdleResult]
  /\ UNCHANGED <<snapshot, pausing>>

applyRuntimeResult(r) ==
  /\ Up
  /\ \/ ResultCancelled(r)
     \/ ResultPaused(r)
     \/ ResultTerminal(r)
     \/ ResultRecheck(r)
  /\ UNCHANGED <<permitVars, created, now, disp, start, watchdog, userVars,
                 attaching, releasing, runtimeVars, crashVars>>

\* After the CAS to PAUSED: re-read the row and release its global permit ...
PausedRelease(r) ==
  /\ Up
  /\ pausing[r] = "release"
  /\ releaseGlobal(globalPermit[r])
  /\ pausing' = [pausing EXCEPT ![r] = "clear"]
  /\ UNCHANGED <<tableVars, convHeld, disp, start, finish, watchdog, userVars,
                 result, attaching, releasing, runtimeVars, crashVars>>

\* ... then clear the column, whatever it holds by then.
PausedClear(r) ==
  /\ Up
  /\ pausing[r] = "clear"
  /\ globalPermit' = [globalPermit EXCEPT ![r] = None]
  /\ pausing' = [pausing EXCEPT ![r] = "idle"]
  /\ UNCHANGED <<status, convPermit, snapshot, created, now, redisVars, disp, start,
                 finish, watchdog, userVars, result, attaching, releasing,
                 runtimeVars, crashVars>>

-----------------------------------------------------------------------------
(***************************************************************************)
(* Requests of the user.                                                   *)
(***************************************************************************)
pauseActiveRun(r) ==
  /\ Up
  /\ "pause" \in Traffic
  /\ ~pauseCall[r]
  /\ isActive(status[r])
  /\ status[r] # "CANCELLING"
  /\ status' = [status EXCEPT ![r] = "PAUSING"]
  /\ pauseCall' = [pauseCall EXCEPT ![r] = TRUE]
  /\ UNCHANGED <<permitVars, snapshot, created, now, disp, start, finish, watchdog,
                 resume, cancel, callVars, runtimeVars, crashVars>>

\* A runtime that does not execute the run answers 404: the CAS is undone.
PauseReturn(r) ==
  /\ Up
  /\ pauseCall[r]
  /\ pauseCall' = [pauseCall EXCEPT ![r] = FALSE]
  /\ \/ UNCHANGED status
     \/ status' = [status EXCEPT ![r] = IF @ = "PAUSING" THEN "RUNNING" ELSE @]
  /\ UNCHANGED <<permitVars, snapshot, created, now, disp, start, finish, watchdog,
                 resume, cancel, callVars, runtimeVars, crashVars>>

\* resumePausedRun: a global permit first; none free is an error to the user.
resumePausedRun(r) ==
  /\ Up
  /\ "resume" \in Traffic
  /\ resume[r].pc = "idle"
  /\ status[r] = "PAUSED"
  /\ \E p \in Permits :
       /\ tryAcquireGlobal(p)
       /\ resume' = [resume EXCEPT ![r] = [pc |-> "acquired", g |-> p]]
  /\ UNCHANGED <<tableVars, convHeld, disp, start, finish, watchdog, pauseCall,
                 cancel, callVars, runtimeVars, crashVars>>

\* Faulty variant: the row stays PAUSED until the runtime has answered.
ResumeCas_Late(r) ==
  /\ Up
  /\ resume[r].pc = "acquired"
  /\ IF status[r] = "PAUSED"
     THEN /\ globalPermit' = [globalPermit EXCEPT ![r] = resume[r].g]
          /\ resume' = [resume EXCEPT ![r].pc = "calling"]
          /\ UNCHANGED globalHeld
     ELSE /\ releaseGlobal(resume[r].g)
          /\ resume' = [resume EXCEPT ![r] = IdleResume]
          /\ UNCHANGED globalPermit
  /\ UNCHANGED <<status, convPermit, snapshot, created, now, convHeld, disp, start,
                 finish, watchdog, pauseCall, cancel, callVars, runtimeVars, crashVars>>

\* CAS PAUSED -> RESUMING storing the permit, or give the permit back.
ResumeCas(r) ==
  /\ Up
  /\ resume[r].pc = "acquired"
  /\ IF status[r] = "PAUSED"
     THEN /\ status' = [status EXCEPT ![r] = "RESUMING"]
          /\ globalPermit' = [globalPermit EXCEPT ![r] = resume[r].g]
          /\ resume' = [resume EXCEPT ![r].pc = "calling"]
          /\ UNCHANGED globalHeld
     ELSE /\ releaseGlobal(resume[r].g)
          /\ resume' = [resume EXCEPT ![r] = IdleResume]
          /\ UNCHANGED <<status, globalPermit>>
  /\ UNCHANGED <<convPermit, snapshot, created, now, convHeld, disp, start, finish,
                 watchdog, pauseCall, cancel, callVars, runtimeVars, crashVars>>

ResumeCall(r) ==
  /\ Up
  /\ resume[r].pc = "calling"
  /\ \/ Accept(r) /\ resume' = [resume EXCEPT ![r].pc = "accepted"]
     \/ /\ "startFailure" \in Traffic
        /\ Accept(r) \/ UNCHANGED runtime
        /\ resume' = [resume EXCEPT ![r].pc = "failed"]
  /\ UNCHANGED <<tableVars, redisVars, disp, start, finish, watchdog, pauseCall,
                 cancel, callVars, posts, crashVars>>

ResumeAccepted(r) ==
  /\ Up
  /\ resume[r].pc = "accepted"
  /\ status' = [status EXCEPT ![r] = IF @ = "RESUMING" THEN "RUNNING" ELSE @]
  /\ resume' = [resume EXCEPT ![r] = IdleResume]
  /\ UNCHANGED <<permitVars, snapshot, created, now, disp, start, finish, watchdog,
                 pauseCall, cancel, callVars, runtimeVars, crashVars>>

\* The permit is released in any case, the row reverted only if still RESUMING.
ResumeFailed(r) ==
  /\ Up
  /\ resume[r].pc = "failed"
  /\ releaseGlobal(resume[r].g)
  /\ IF status[r] = "RESUMING"
     THEN /\ status' = [status EXCEPT ![r] = "PAUSED"]
          /\ globalPermit' = [globalPermit EXCEPT ![r] = None]
     ELSE UNCHANGED <<status, globalPermit>>
  /\ resume' = [resume EXCEPT ![r] = IdleResume]
  /\ UNCHANGED <<convPermit, snapshot, created, now, convHeld, disp, start, finish,
                 watchdog, pauseCall, cancel, callVars, runtimeVars, crashVars>>

\* A cancel request first reads the row; on a queued or a paused row it acts
\* on what it read.
CancelRead(r) ==
  /\ Up
  /\ "cancel" \in Traffic
  /\ cancel[r] = None
  /\ status[r] \in {"QUEUED", "PAUSED"}
  /\ cancel' = [cancel EXCEPT ![r] = status[r]]
  /\ UNCHANGED <<tableVars, redisVars, disp, start, finish, watchdog, resume,
                 pauseCall, callVars, runtimeVars, crashVars>>

\* Faulty variant: an update instead of a CAS.
cancelQueued_NoCas(r) ==
  /\ cancel[r] = "QUEUED"
  /\ status' = [status EXCEPT ![r] = "CANCELLED"]
  /\ UNCHANGED finish

\* CAS QUEUED -> CANCELLED; a run dispatched meanwhile is left running.
cancelQueued(r) ==
  /\ cancel[r] = "QUEUED"
  /\ status' = [status EXCEPT ![r] = IF @ = "QUEUED" THEN "CANCELLED" ELSE @]
  /\ UNCHANGED finish

\* A paused run is finished locally, the runtime is not told.
CancelPaused(r) ==
  /\ cancel[r] = "PAUSED"
  /\ finishInternal(r, "CANCELLED")

\* CAS to CANCELLING; a second request only propagates again.
cancelActiveRun(r) ==
  /\ Up
  /\ "cancel" \in Traffic
  /\ cancel[r] = None
  /\ isActive(status[r])
  /\ status' = [status EXCEPT ![r] = "CANCELLING"]
  /\ cancel' = [cancel EXCEPT ![r] = "CANCELLING"]
  /\ UNCHANGED <<permitVars, snapshot, created, now, disp, start, finish, watchdog,
                 resume, pauseCall, callVars, runtimeVars, crashVars>>

CancelPropagate(r) ==
  /\ cancel[r] = "CANCELLING"
  /\ cancelRun(r)
  /\ UNCHANGED <<status, finish>>

CancelAct(r) ==
  /\ Up
  /\ \/ cancelQueued(r) /\ UNCHANGED runtimeVars
     \/ CancelPaused(r) /\ UNCHANGED runtimeVars
     \/ CancelPropagate(r)
  /\ cancel' = [cancel EXCEPT ![r] = None]
  /\ UNCHANGED <<permitVars, snapshot, created, now, disp, start, watchdog, resume,
                 pauseCall, callVars, crashVars>>

-----------------------------------------------------------------------------
(***************************************************************************)
(* watchdogOnce.  Deadlines are not clocked here: any may have passed.     *)
(* The verdict is on the row as listed, forceTerminal on the row by then.  *)
(***************************************************************************)
\* Mutant: a cancellation the runtime does not answer is never forced.
Verdict_NotForced(s) ==
  CASE s \in ACTIVE \ {"CANCELLING"} -> {"TIMED_OUT"}
    [] s = "PAUSED" -> {"CANCELLED"}
    [] OTHER -> {}

Verdict(s) ==
  CASE s = "CANCELLING" -> {"CANCELLED"}              \* CANCEL_FORCED
    [] s = "STARTING" -> {"TIMED_OUT", "FAILED"}      \* RUN_TIMEOUT, START_STUCK
    [] s = "PAUSED" -> {"CANCELLED"}                  \* PAUSE_EXPIRED
    [] s \in ACTIVE \ {"CANCELLING", "STARTING"} -> {"TIMED_OUT"}
    [] OTHER -> {}

WatchdogJudge(r) ==
  /\ Up
  /\ "timeout" \in Traffic
  /\ watchdog.pc = "idle"
  /\ \E v \in Verdict(status[r]) :
       watchdog' = [run |-> r, verdict |-> v,
                    pc |-> IF v = "FAILED" THEN "finish" ELSE "cancel"]
  /\ UNCHANGED <<tableVars, redisVars, disp, start, finish, userVars, callVars,
                 runtimeVars, crashVars>>

\* forceTerminal tells the runtime first, for TIMED_OUT and CANCELLED only ...
WatchdogCancel ==
  /\ Up
  /\ watchdog.pc = "cancel"
  /\ cancelRun(watchdog.run)
  /\ watchdog' = [watchdog EXCEPT !.pc = "finish"]
  /\ UNCHANGED <<tableVars, redisVars, disp, start, finish, userVars, callVars,
                 crashVars>>

\* ... and closes the row unless it is terminal by now.
WatchdogFinish ==
  /\ Up
  /\ watchdog.pc = "finish"
  /\ finishInternal(watchdog.run, watchdog.verdict)
  /\ watchdog' = IdleWatchdog
  /\ UNCHANGED <<permitVars, snapshot, created, now, disp, start, userVars, callVars,
                 runtimeVars, crashVars>>

\* No snapshot within the pause grace: the runtime kept executing.
revertPausing(r) ==
  /\ Up
  /\ "timeout" \in Traffic
  /\ watchdog.pc = "idle"
  /\ status[r] = "PAUSING"
  /\ status' = [status EXCEPT ![r] = "RUNNING"]
  /\ UNCHANGED <<permitVars, snapshot, created, now, threadVars, runtimeVars, crashVars>>

-----------------------------------------------------------------------------
(***************************************************************************)
(* Leases.  The watchdog renews what active rows name, and the             *)
(* conversation permit of paused rows; anything else runs out.             *)
(***************************************************************************)
\* Faulty variant: permits without a lease time.
GlobalRenewed_All == Permits

GlobalRenewed ==
  {globalPermit[r] :
     r \in {q \in Runs : isActive(status[q]) \/ finish[q] \/ pausing[q] = "release"}}
    \cup releasing \cup {attaching[r] : r \in Runs} \cup {resume[r].g : r \in Runs}
    \cup {disp[d].g : d \in Dispatchers}

\* Faulty variant: the lease of a paused conversation is not renewed.
ConvRenewed_ActiveOnly ==
  {convPermit[r] : r \in {q \in Runs : isActive(status[q]) \/ finish[q]}}
    \cup {disp[d].c : d \in Dispatchers}

ConvRenewed ==
  {convPermit[r] : r \in {q \in Runs : status[q] \in OCCUPYING \/ finish[q]}}
    \cup {disp[d].c : d \in Dispatchers}

LeaseExpires(p) ==
  /\ Up
  /\ \/ /\ p \in globalHeld \ GlobalRenewed
        /\ releaseGlobal(p)
        /\ UNCHANGED convHeld
     \/ \E c \in Conversations :
          /\ convHeld[c] = p
          /\ p \notin ConvRenewed
          /\ releaseConversation(c, p)
          /\ UNCHANGED globalHeld
  /\ UNCHANGED <<tableVars, threadVars, runtimeVars, crashVars>>

-----------------------------------------------------------------------------
(***************************************************************************)
(* The Python runtime as a source of results.                              *)
(***************************************************************************)
\* A paused execution may be resumed, a finished one refuses its id.
RuntimeEnds(r) ==
  /\ runtime[r] = "live"
  /\ \E outcome \in Outcomes :
       /\ posts' = [posts EXCEPT ![r] = outcome]
       /\ runtime' = [runtime EXCEPT ![r] = IF outcome = "PAUSED" THEN "paused" ELSE "tomb"]
  /\ UNCHANGED <<tableVars, redisVars, threadVars, crashVars>>

\* After its last attempt the runtime gives a result up.
ResultLost(r) ==
  /\ "loss" \in Traffic
  /\ posts[r] # None
  /\ posts' = [posts EXCEPT ![r] = None]
  /\ UNCHANGED <<tableVars, redisVars, threadVars, runtime, crashVars>>

\* The registry does not survive its process.  A killed runtime posts nothing
\* more; one that shuts down cancels its tasks, and they post that.
RuntimeRestarts ==
  /\ crashes < MaxCrashes
  /\ crashes' = crashes + 1
  /\ runtime' = [r \in Runs |-> "none"]
  /\ \/ posts' = [r \in Runs |-> None]
     \/ posts' = [r \in Runs |-> IF runtime[r] = "live" \/ Posting(r)
                                  THEN "CANCELLED" ELSE None]
  /\ UNCHANGED <<tableVars, redisVars, threadVars, recovering>>

-----------------------------------------------------------------------------
(***************************************************************************)
(* The control plane restarts: threads are gone, rows and leases are not   *)
(* (unless the outage outlasts the leases).                                *)
(***************************************************************************)
\* The runtime repeats a post whose answer the crash swallowed.
Unanswered(r) ==
  IF result[r].pc # "idle" THEN result[r].outcome
  ELSE IF pausing[r] # "idle" THEN "PAUSED" ELSE posts[r]

Crash ==
  /\ crashes < MaxCrashes
  /\ crashes' = crashes + 1
  /\ disp' = [d \in Dispatchers |-> IdleDispatch]
  /\ start' = [r \in Runs |-> "idle"]
  /\ finish' = [r \in Runs |-> FALSE]
  /\ result' = [r \in Runs |-> IdleResult]
  /\ pausing' = [r \in Runs |-> "idle"]
  /\ resume' = [r \in Runs |-> IdleResume]
  /\ pauseCall' = [r \in Runs |-> FALSE]
  /\ cancel' = [r \in Runs |-> None]
  /\ attaching' = [r \in Runs |-> None]
  /\ releasing' = {}
  /\ watchdog' = IdleWatchdog
  /\ recovering' = {r \in Runs : isActive(status[r])}
  /\ posts' = [r \in Runs |-> Unanswered(r)]
  /\ \/ UNCHANGED redisVars
     \/ /\ Outages
        /\ globalHeld' = {}
        /\ convHeld' = [c \in Conversations |-> None]
  /\ UNCHANGED <<tableVars, runtime>>

\* The runtime has a handle of the run that is not terminal.
Adopt(r) ==
  /\ runtime[r] \in {"live", "paused"}
  /\ UNCHANGED <<status, globalPermit, globalHeld, start, finish, runtime>>

settlePausedAfterRestart(r) ==
  /\ status[r] = "PAUSING" /\ snapshot[r]
  /\ status' = [status EXCEPT ![r] = "PAUSED"]
  /\ releaseGlobal(globalPermit[r])
  /\ globalPermit' = [globalPermit EXCEPT ![r] = None]
  /\ UNCHANGED <<start, finish, runtime>>

RedispatchStarting(r) ==
  /\ status[r] = "STARTING"
  /\ start' = [start EXCEPT ![r] = "submitted"]
  /\ UNCHANGED <<status, globalPermit, globalHeld, finish, runtime>>

isResumableActive(s) == s \in {"RUNNING", "WAITING_LLM", "WAITING_TOOL", "RESUMING"}

\* No permit is taken for the resumed execution: the row keeps what it has.
resumeAfterRestart(r) ==
  /\ isResumableActive(status[r]) /\ snapshot[r]
  /\ \/ /\ Accept(r)
        /\ status' = [status EXCEPT ![r] = "RUNNING"]
        /\ UNCHANGED finish
     \/ /\ Accept(r) \/ UNCHANGED runtime
        /\ finishInternal(r, "FAILED") \/ UNCHANGED <<status, finish>>
  /\ UNCHANGED <<globalPermit, globalHeld, start>>

\* Past the grace and nothing to continue from, or kept for the watchdog.
OrphanOrKeep(r) ==
  /\ ~(status[r] = "PAUSING" /\ snapshot[r])
  /\ ~(isResumableActive(status[r]) /\ snapshot[r])
  /\ \/ ~snapshot[r] /\ finishInternal(r, "FAILED")
     \/ status[r] # "STARTING" /\ UNCHANGED <<status, finish>>
     \/ snapshot[r] /\ UNCHANGED <<status, finish>>
  /\ UNCHANGED <<globalPermit, globalHeld, start, runtime>>

\* One step per listed row, but for a row started again: recovery waits for
\* its startRun.  A status query that fails counts as not live.
recoverAfterRestart(r) ==
  /\ r \in recovering
  /\ \A q \in recovering : start[q] = "idle"
  /\ \/ RedispatchStarting(r) /\ UNCHANGED recovering
     \/ /\ \/ Adopt(r)
           \/ settlePausedAfterRestart(r)
           \/ resumeAfterRestart(r)
           \/ OrphanOrKeep(r)
        /\ recovering' = recovering \ {r}
  /\ UNCHANGED <<convPermit, snapshot, created, now, convHeld, disp, watchdog,
                 userVars, callVars, posts, crashes>>

-----------------------------------------------------------------------------
Dispatch(d) ==
  \/ DispatchList(d)
  \/ DispatchNext(d)
  \/ DispatchGlobal(d)
  \/ DispatchConversation(d)
  \/ DispatchMark(d)

Start(r) ==
  /\ StartCas(r) \/ StartCall(r) \/ StartFailed(r)
  /\ recovering' = IF start'[r] = "idle" THEN recovering \ {r} ELSE recovering

Resume(r) == ResumeCas(r) \/ ResumeCall(r) \/ ResumeAccepted(r) \/ ResumeFailed(r)

\* Threads of the control plane that end by themselves.
Thread(r) ==
  \/ Start(r)
  \/ FinishRelease(r)
  \/ applyRuntimeResult(r)
  \/ PausedRelease(r)
  \/ PausedClear(r)
  \/ Resume(r)
  \/ PauseReturn(r)
  \/ CancelAct(r)
  \/ AttachExecutionPermit(r)

Callback(r) ==
  \/ applyRuntimeEvent(r)
  \/ saveRunCheckpoint(r)
  \/ releaseExecutionPermit(r)
  \/ tryAcquireExecutionPermit(r)
  \/ ResultArrives(r)

Request(r) ==
  \/ submit(r)
  \/ retryFromCheckpoint(r)
  \/ pauseActiveRun(r)
  \/ resumePausedRun(r)
  \/ CancelRead(r)
  \/ cancelActiveRun(r)

Watchdog ==
  \/ \E r \in Runs : WatchdogJudge(r) \/ revertPausing(r)
  \/ WatchdogCancel
  \/ WatchdogFinish

Next ==
  \/ \E d \in Dispatchers : Dispatch(d)
  \/ \E r \in Runs : \/ Thread(r) \/ Callback(r) \/ Request(r)
                     \/ RuntimeEnds(r) \/ ResultLost(r) \/ recoverAfterRestart(r)
  \/ \E p \in Permits : ReleaseGlobal(p) \/ LeaseExpires(p)
  \/ Watchdog
  \/ RuntimeRestarts
  \/ Crash

Spec == Init /\ [][Next]_vars

-----------------------------------------------------------------------------
(***************************************************************************)
(* Properties.                                                             *)
(***************************************************************************)
MaybePermit == Permits \cup {None}

DispatchState ==
  [pc : {"idle", "next", "global", "conversation", "mark"}, todo : SUBSET Runs,
   run : Runs \cup {None}, g : MaybePermit, c : MaybePermit]

ResultState ==
  [pc : {"idle", "cancelled", "paused", "terminal", "recheck"},
   outcome : TERMINAL \cup {"PAUSED", None}]

ResumeState ==
  [pc : {"idle", "acquired", "calling", "accepted", "failed"}, g : MaybePermit]

WatchdogState ==
  [run : Runs \cup {None}, verdict : TERMINAL \cup {None}, pc : {"idle", "cancel", "finish"}]

\* Every column, lease and thread variable has the type the code gives it.
TypeOK ==
  /\ status \in [Runs -> Status \cup {"ABSENT"}]
  /\ convPermit \in [Runs -> MaybePermit]
  /\ globalPermit \in [Runs -> MaybePermit]
  /\ snapshot \in [Runs -> BOOLEAN]
  /\ created \in [Runs -> Nat]
  /\ now \in Nat
  /\ globalHeld \in SUBSET Permits
  /\ convHeld \in [Conversations -> MaybePermit]
  /\ disp \in [Dispatchers -> DispatchState]
  /\ start \in [Runs -> {"idle", "submitted", "calling", "failed"}]
  /\ finish \in [Runs -> BOOLEAN]
  /\ result \in [Runs -> ResultState]
  /\ pausing \in [Runs -> {"idle", "release", "clear"}]
  /\ resume \in [Runs -> ResumeState]
  /\ pauseCall \in [Runs -> BOOLEAN]
  /\ cancel \in [Runs -> {"QUEUED", "PAUSED", "CANCELLING", None}]
  /\ attaching \in [Runs -> MaybePermit]
  /\ releasing \in SUBSET Permits
  /\ watchdog \in WatchdogState
  /\ runtime \in [Runs -> {"none", "live", "paused", "tomb"}]
  /\ posts \in [Runs -> TERMINAL \cup {"PAUSED", None}]
  /\ recovering \in SUBSET Runs
  /\ crashes \in Nat

\* README "strictly serial within a conversation": whatever dispatchers,
\* pauses, resumes, late results, restarts and retries do, at most one run
\* occupies a conversation.
ConversationSerial ==
  \A q, r \in Runs :
    ConvOf[q] = ConvOf[r] /\ status[q] \in OCCUPYING /\ status[r] \in OCCUPYING => q = r

\* The control plane implements the queue a conversation is promised: FIFO
\* service, one run at a time, final outcomes, authoritative cancellation.
PhaseOf(s) ==
  CASE s = "ABSENT" -> "new"
    [] s = "QUEUED" -> "waiting"
    [] s \in ACTIVE \ {"CANCELLING"} -> "serving"
    [] s = "PAUSED" -> "paused"
    [] s = "CANCELLING" -> "cancelling"
    [] OTHER -> s

Queue == INSTANCE ConversationQueue WITH
  Outcomes <- TERMINAL,
  phase <- [r \in Runs |-> PhaseOf(status[r])],
  arrived <- created,
  clock <- now

ServesConversations == Queue!Spec

\* RunPermitService "leases prevent crash leaks": short of a crash no permit of
\* the global semaphore is leaked: each is named by a row that will release it
\* or is in the hands of a thread.
NoPermitLost == globalHeld \subseteq GlobalRenewed

\* A row that executes with a permit names one the semaphore really leased to it
\* and to no other row, so that the semaphore bounds the executing runs.
PermitsBacked ==
  \A r \in Runs : isActive(status[r]) /\ globalPermit[r] # None =>
    /\ globalPermit[r] \in globalHeld
    /\ \A q \in Runs \ {r} : globalPermit[q] # globalPermit[r]

\* cancelActiveRun "No Python coroutine is running while paused".  After a
\* restart it may be: a PAUSED result whose answer was lost is posted again, and
\* finds the row RESUMING.
PausedIsQuiescent ==
  crashes = 0 => \A r \in Runs : status[r] = "PAUSED" => runtime[r] # "live"

-----------------------------------------------------------------------------
(***************************************************************************)
(* Fairness: the scheduler's timers keep firing and the watchdog visits    *)
(* every listed row, threads that were started end, leases run out.        *)
(***************************************************************************)
Fairness ==
  /\ \A d \in Dispatchers : WF_vars(Dispatch(d))
  /\ \A r \in Runs :
       /\ WF_vars(Start(r))
       /\ WF_vars(FinishRelease(r))
       /\ WF_vars(applyRuntimeResult(r))
       /\ WF_vars(PausedRelease(r) \/ PausedClear(r))
       /\ WF_vars(Resume(r))
       /\ WF_vars(recoverAfterRestart(r))
       /\ SF_vars(WatchdogJudge(r))
  /\ WF_vars(WatchdogCancel \/ WatchdogFinish)
  /\ \A p \in Permits : WF_vars(ReleaseGlobal(p)) /\ WF_vars(LeaseExpires(p))

FairSpec == Spec /\ Fairness

\* A cancellation always completes, be the runtime's answer lost or not.
CancellationCompletes ==
  \A r \in Runs : status[r] = "CANCELLING" ~> status[r] = "CANCELLED"

\* Every queued run is dispatched or cancelled some day: no schedule of pauses,
\* lost results, crashes and leaked permits stalls a conversation for ever.
QueueDrains == \A r \in Runs : status[r] = "QUEUED" ~> status[r] # "QUEUED"
=============================================================================
