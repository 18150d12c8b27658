-------------------------- MODULE TaskQueue_proofs --------------------------
(***************************************************************************)
(* TasksSettle, for any workers, users, messages, requests and faults.     *)
(*                                                                         *)
(* The row and the run are written by many hands; what keeps them together *)
(* is that the two columns of the row move as one (RowIsWhole), that a run *)
(* reports nothing before it executes and ends with a report that is final *)
(* (ReportsFit), and that whoever drops the run of a superseded task finds *)
(* it superseded still, or knows who wrote over it (DropsAreFinal).        *)
(***************************************************************************)
EXTENDS TaskQueue, TLAPS

RunStates == {"none", "queued", "active", "pausing", "paused", "cancelling", "ended"}
WorkerPlaces == {"idle", "claim", "check", "register", "update", "ack", "fail", "again"}
UserPlaces ==
  {"idle", "announce", "cancel", "revise", "hold", "pause", "release", "resume", "pauseRun",
   "unpause", "enqueue", "requeue", "resumeRun", "resumed", "unresume", "cancelRun", "dropRun"}
Queues == {"QUEUED", "RETRYING", "RUNNING", "PAUSED", "RESUMING"} \cup Final

Typed ==
  /\ task \in [status : Open \cup Final, queue : Queues, started : BOOLEAN]
  /\ stream \in Nat
  /\ worker \in [Workers -> WorkerPlaces]
  /\ user \in [Users -> [at : UserPlaces, run : RunStates]]
  /\ run \in RunStates
  /\ mirror \in {"none", "PAUSED", "SUCCESS", "FAILED", "CANCELLED"}
  /\ history \in [lost : BOOLEAN, overwritten : BOOLEAN, stopped : BOOLEAN,
                  cancelled : BOOLEAN]

\* The queue column says what the status says.
RowIsWhole ==
  /\ task.queue \in {"QUEUED", "RETRYING"} => task.status = "QUEUED"
  /\ task.queue = "RUNNING" => task.status \in {"RUNNING", "PAUSING"}
  /\ task.queue \notin {"QUEUED", "RETRYING", "RUNNING"} => task.queue = task.status

ReportsFit ==
  /\ run \in {"none", "queued"} => mirror = "none"
  /\ run = "ended" => mirror # "PAUSED"

\* What a stop of the task leaves for a worker that claimed it before.
StopHolds ==
  history.stopped =>
    /\ run = "none" /\ MonitorFree
    /\ task.status \in {"PAUSED", "CANCELLED", "SUPERSEDED"}
    /\ task.queue = task.status

Excused == history.overwritten \/ history.lost

DropsAreFinal ==
  \A u \in Users :
    user[u].at = "dropRun" /\ run \in {"none", "queued"} => task.status \in Final \/ Excused

\* The whole of it, inductive.
TaskInv ==
  Typed /\ RowIsWhole /\ ReportsFit /\ StopHolds /\ QueuedIsAnnounced /\ DropsAreFinal
    /\ EndIsKept

LEMMA TaskInit == Init => TaskInv
<1> SUFFICES ASSUME Init PROVE TaskInv
  OBVIOUS
<1>1. PICK u \in Users :
        user = [v \in Users |-> [Idle EXCEPT !.at = IF v = u THEN "announce" ELSE "idle"]]
  BY DEF Init
<1>2. user[u].at = "announce" /\ \A v \in Users : user[v].at \in {"announce", "idle"}
                                                 /\ user[v].run = "none"
                                                 /\ user[v] \in [at : UserPlaces, run : RunStates]
  BY <1>1 DEF Idle, UserPlaces, RunStates
<1>3. user \in [Users -> [at : UserPlaces, run : RunStates]]
  BY <1>1, <1>2
<1> QED
  BY <1>2, <1>3
  DEF Init, TaskInv, Typed, RowIsWhole, ReportsFit, StopHolds, QueuedIsAnnounced,
      DropsAreFinal, EndIsKept, Unstarted, Open, Queues, Final, WorkerPlaces, RunStates

-----------------------------------------------------------------------------
(***************************************************************************)
(* Workers.                                                                *)
(***************************************************************************)
\* A worker's step moves it alone.
LEMMA WorkerMoves ==
  ASSUME Typed, NEW w \in Workers, NEW place \in WorkerPlaces, To(w, place)
  PROVE  /\ worker' \in [Workers -> WorkerPlaces]
         /\ worker'[w] = place
         /\ \A v \in Workers \ {w} : worker'[v] = worker[v]
BY DEF Typed, To

WorkerStep(w) ==
  \/ pollMessage(w) \/ claimTask(w) \/ runQueuedEvaluation(w)
  \/ enqueueTaskRun(w) \/ updateResumeTask(w) \/ startFails(w) \/ ack(w)
  \/ breaks(w) \/ handleFailure(w) \/ announceRetry(w) \/ gaveUp(w)

\* The parts of the invariant a step of a worker that leaves the row, the run
\* and the history alone could disturb.
LEMMA WorkerOnly ==
  ASSUME TaskInv, NEW w \in Workers, NEW place \in WorkerPlaces, To(w, place),
         UNCHANGED <<task, stream, user, run, mirror, history>>,
         worker[w] \notin {"claim", "fail"} \/ place \in {"claim", "fail"}
           \/ task.queue # "QUEUED",
         place \in {"register", "update"} => ~history.stopped
  PROVE  TaskInv'
<1>1. /\ worker' \in [Workers -> WorkerPlaces] /\ worker'[w] = place
      /\ \A v \in Workers \ {w} : worker'[v] = worker[v]
  BY WorkerMoves DEF TaskInv
<1>2. Typed'
  BY <1>1 DEF TaskInv, Typed
<1>3. StopHolds'
  BY <1>1 DEF TaskInv, StopHolds, MonitorFree
<1>4. QueuedIsAnnounced'
  BY <1>1 DEF TaskInv, QueuedIsAnnounced
<1> QED
  BY <1>2, <1>3, <1>4
  DEF TaskInv, RowIsWhole, ReportsFit, DropsAreFinal, EndIsKept, Excused

LEMMA WorkerKeeps ==
  ASSUME TaskInv, NEW w \in Workers, WorkerStep(w)
  PROVE  TaskInv'
<1> USE DEF TaskInv, Excused
<1>1. CASE pollMessage(w)
  <2>1. To(w, "claim") /\ stream > 0 /\ stream' = stream - 1 /\ worker[w] = "idle"
          /\ UNCHANGED <<task, user, run, mirror, history>>
    BY <1>1 DEF pollMessage
  <2>2. /\ worker' \in [Workers -> WorkerPlaces] /\ worker'[w] = "claim"
        /\ \A v \in Workers \ {w} : worker'[v] = worker[v]
    BY <2>1, WorkerMoves DEF WorkerPlaces
  <2>3. Typed'
    BY <2>1, <2>2 DEF Typed
  <2>4. StopHolds' /\ QueuedIsAnnounced'
    BY <2>1, <2>2 DEF StopHolds, MonitorFree, QueuedIsAnnounced
  <2> QED
    BY <2>1, <2>3, <2>4 DEF RowIsWhole, ReportsFit, DropsAreFinal, EndIsKept
<1>2. CASE claimTask(w)
  <2>1. CASE task.queue \in {"QUEUED", "RETRYING"}
    <3>1. To(w, "check") /\ task' = Row("RUNNING", "RUNNING")
            /\ UNCHANGED <<stream, user, run, mirror, history>>
      BY <1>2, <2>1 DEF claimTask
    <3>2. /\ worker' \in [Workers -> WorkerPlaces] /\ worker'[w] = "check"
          /\ \A v \in Workers \ {w} : worker'[v] = worker[v]
      BY <3>1, WorkerMoves DEF WorkerPlaces
    <3>3. task.status = "QUEUED" /\ ~history.stopped
      BY <2>1 DEF RowIsWhole, StopHolds
    <3>4. task'.status = "RUNNING" /\ task'.queue = "RUNNING"
            /\ task' \in [status : Open \cup Final, queue : Queues, started : BOOLEAN]
      BY <3>1 DEF Row, Open, Queues
    <3>5. Typed' /\ RowIsWhole'
      BY <3>1, <3>2, <3>4 DEF Typed, RowIsWhole, Final
    <3>6. StopHolds' /\ QueuedIsAnnounced' /\ ReportsFit'
      BY <3>1, <3>3, <3>4 DEF StopHolds, QueuedIsAnnounced, ReportsFit
    <3>7. DropsAreFinal' /\ EndIsKept'
      BY <3>1, <3>3, <3>4 DEF DropsAreFinal, EndIsKept, Final
    <3> QED
      BY <3>5, <3>6, <3>7
  <2>2. CASE task.queue \notin {"QUEUED", "RETRYING"}
    <3>1. To(w, "ack") /\ UNCHANGED <<task, stream, user, run, mirror, history>>
      BY <1>2, <2>2 DEF claimTask
    <3> QED
      BY <2>2, <3>1, WorkerOnly DEF WorkerPlaces
  <2> QED
    BY <2>1, <2>2
<1>3. CASE runQueuedEvaluation(w)
  <2>1. worker[w] = "check" /\ UNCHANGED <<task, stream, user, run, mirror, history>>
    BY <1>3 DEF runQueuedEvaluation
  <2>2. \/ To(w, "register") /\ task.status = "RUNNING"
        \/ To(w, "ack")
    BY <1>3 DEF runQueuedEvaluation
  <2>3. task.status = "RUNNING" => ~history.stopped
    BY DEF StopHolds
  <2> QED
    BY <2>1, <2>2, <2>3, WorkerOnly DEF WorkerPlaces
<1>4. CASE enqueueTaskRun(w)
  <2>1. /\ To(w, "update") /\ worker[w] = "register"
        /\ run' = IF run = "none" THEN "queued" ELSE run
        /\ UNCHANGED <<task, stream, user, mirror, history>>
    BY <1>4 DEF enqueueTaskRun
  <2>2. /\ worker' \in [Workers -> WorkerPlaces] /\ worker'[w] = "update"
        /\ \A v \in Workers \ {w} : worker'[v] = worker[v]
    BY <2>1, WorkerMoves DEF WorkerPlaces
  <2>3. ~history.stopped
    BY <2>1 DEF StopHolds, MonitorFree
  <2>4. Typed'
    BY <2>1, <2>2 DEF Typed, RunStates
  <2>5. StopHolds' /\ QueuedIsAnnounced' /\ RowIsWhole'
    BY <2>1, <2>2, <2>3 DEF StopHolds, QueuedIsAnnounced, RowIsWhole
  <2>6. ReportsFit' /\ DropsAreFinal' /\ EndIsKept'
    BY <2>1 DEF ReportsFit, DropsAreFinal, EndIsKept
  <2> QED
    BY <2>4, <2>5, <2>6
<1>5. CASE updateResumeTask(w)
  <2>1. /\ To(w, "ack") /\ worker[w] = "update"
        /\ task' = Row("RUNNING", "RUNNING")
        /\ history' = [history EXCEPT !.overwritten = @ \/ task.status \in Final]
        /\ UNCHANGED <<stream, user, run, mirror>>
    BY <1>5 DEF updateResumeTask
  <2>2. /\ worker' \in [Workers -> WorkerPlaces] /\ worker'[w] = "ack"
        /\ \A v \in Workers \ {w} : worker'[v] = worker[v]
    BY <2>1, WorkerMoves DEF WorkerPlaces
  <2>3. task'.status = "RUNNING" /\ task'.queue = "RUNNING"
          /\ task' \in [status : Open \cup Final, queue : Queues, started : BOOLEAN]
    BY <2>1 DEF Row, Open, Queues
  <2>4. /\ history' \in [lost : BOOLEAN, overwritten : BOOLEAN, stopped : BOOLEAN,
                         cancelled : BOOLEAN]
        /\ history'.lost = history.lost /\ history'.stopped = history.stopped
        /\ history'.overwritten = (history.overwritten \/ task.status \in Final)
    BY <2>1 DEF Typed
  <2>5. ~history.stopped
    BY <2>1 DEF StopHolds, MonitorFree
  <2>6. Typed' /\ RowIsWhole'
    BY <2>1, <2>2, <2>3, <2>4 DEF Typed, RowIsWhole
  <2>7. StopHolds' /\ QueuedIsAnnounced' /\ ReportsFit'
    BY <2>1, <2>3, <2>4, <2>5 DEF StopHolds, QueuedIsAnnounced, ReportsFit
  <2>8. DropsAreFinal' /\ EndIsKept'
    BY <2>1, <2>4 DEF DropsAreFinal, EndIsKept
  <2> QED
    BY <2>6, <2>7, <2>8
<1>6. CASE startFails(w)
  <2>1. /\ To(w, "ack") /\ worker[w] \in {"register", "update"}
        /\ task' = Row("FAILED", "FAILED")
        /\ UNCHANGED <<stream, user, run, mirror, history>>
    BY <1>6 DEF startFails
  <2>2. /\ worker' \in [Workers -> WorkerPlaces] /\ worker'[w] = "ack"
        /\ \A v \in Workers \ {w} : worker'[v] = worker[v]
    BY <2>1, WorkerMoves DEF WorkerPlaces
  <2>3. task'.status = "FAILED" /\ task'.queue = "FAILED"
          /\ task' \in [status : Open \cup Final, queue : Queues, started : BOOLEAN]
    BY <2>1 DEF Row, Final, Queues
  <2>4. ~history.stopped
    BY <2>1 DEF StopHolds, MonitorFree
  <2>5. Typed' /\ RowIsWhole'
    BY <2>1, <2>2, <2>3 DEF Typed, RowIsWhole
  <2>6. StopHolds' /\ QueuedIsAnnounced' /\ ReportsFit'
    BY <2>1, <2>3, <2>4 DEF StopHolds, QueuedIsAnnounced, ReportsFit
  <2>7. DropsAreFinal' /\ EndIsKept'
    BY <2>1, <2>3 DEF DropsAreFinal, EndIsKept, Final
  <2> QED
    BY <2>5, <2>6, <2>7
<1>7. CASE ack(w)
  BY <1>7, WorkerOnly DEF ack, WorkerPlaces
<1>8. CASE breaks(w)
  BY <1>8, WorkerOnly DEF breaks, WorkerPlaces
<1>9. CASE handleFailure(w)
  <2>1. /\ history' = [history EXCEPT !.overwritten = @ \/ task.status \in Final,
                                     !.stopped = FALSE, !.cancelled = FALSE]
        /\ UNCHANGED <<stream, user, run, mirror>>
    BY <1>9 DEF handleFailure
  <2>2. \/ task' = Row("QUEUED", "RETRYING") /\ To(w, "again")
        \/ task' = Row("FAILED", "FAILED") /\ To(w, "idle")
    BY <1>9 DEF handleFailure
  <2>3. worker' \in [Workers -> WorkerPlaces]
    BY <2>2, WorkerMoves DEF WorkerPlaces
  <2>4. /\ task' \in [status : Open \cup Final, queue : Queues, started : BOOLEAN]
        /\ \/ task'.status = "QUEUED" /\ task'.queue = "RETRYING"
           \/ task'.status = "FAILED" /\ task'.queue = "FAILED"
    <3>1. CASE task' = Row("QUEUED", "RETRYING")
      BY <3>1 DEF Row, Open, Queues
    <3>2. CASE task' = Row("FAILED", "FAILED")
      BY <3>2 DEF Row, Final, Queues
    <3> QED
      BY <2>2, <3>1, <3>2
  <2>5. /\ history' \in [lost : BOOLEAN, overwritten : BOOLEAN, stopped : BOOLEAN,
                         cancelled : BOOLEAN]
        /\ history'.lost = history.lost /\ ~history'.stopped
        /\ history'.overwritten = (history.overwritten \/ task.status \in Final)
    BY <2>1 DEF Typed
  <2>6. Typed' /\ RowIsWhole'
    BY <2>1, <2>3, <2>4, <2>5 DEF Typed, RowIsWhole
  <2>7. StopHolds' /\ QueuedIsAnnounced' /\ ReportsFit'
    BY <2>1, <2>4, <2>5 DEF StopHolds, QueuedIsAnnounced, ReportsFit
  <2>8. DropsAreFinal' /\ EndIsKept'
    BY <2>1, <2>5 DEF DropsAreFinal, EndIsKept
  <2> QED
    BY <2>6, <2>7, <2>8
<1>10. CASE announceRetry(w)
  <2>1. To(w, "idle") /\ stream' = stream + 1 /\ UNCHANGED <<task, user, run, mirror, history>>
    BY <1>10 DEF announceRetry
  <2>2. /\ worker' \in [Workers -> WorkerPlaces] /\ worker'[w] = "idle"
        /\ \A v \in Workers \ {w} : worker'[v] = worker[v]
    BY <2>1, WorkerMoves DEF WorkerPlaces
  <2>3. Typed'
    BY <2>1, <2>2 DEF Typed
  <2>4. StopHolds' /\ QueuedIsAnnounced'
    BY <2>1, <2>2 DEF StopHolds, MonitorFree, QueuedIsAnnounced, Typed
  <2> QED
    BY <2>1, <2>3, <2>4 DEF RowIsWhole, ReportsFit, DropsAreFinal, EndIsKept
<1>11. CASE gaveUp(w)
  <2>1. /\ To(w, "idle") /\ worker[w] \in {"fail", "again"}
        /\ history' = [history EXCEPT !.lost = @ \/ worker[w] = "fail"]
        /\ UNCHANGED <<task, stream, user, run, mirror>>
    BY <1>11 DEF gaveUp
  <2>2. /\ worker' \in [Workers -> WorkerPlaces] /\ worker'[w] = "idle"
        /\ \A v \in Workers \ {w} : worker'[v] = worker[v]
    BY <2>1, WorkerMoves DEF WorkerPlaces
  <2>3. /\ history' \in [lost : BOOLEAN, overwritten : BOOLEAN, stopped : BOOLEAN,
                         cancelled : BOOLEAN]
        /\ history'.lost = (history.lost \/ worker[w] = "fail")
        /\ history'.stopped = history.stopped
        /\ history'.overwritten = history.overwritten
    BY <2>1 DEF Typed
  <2>4. Typed'
    BY <2>1, <2>2, <2>3 DEF Typed
  <2>5. StopHolds'
    BY <2>1, <2>2, <2>3 DEF StopHolds, MonitorFree
  <2>6. QueuedIsAnnounced'
    BY <2>1, <2>2, <2>3 DEF QueuedIsAnnounced
  <2>7. DropsAreFinal' /\ EndIsKept'
    BY <2>1, <2>3 DEF DropsAreFinal, EndIsKept
  <2> QED
    BY <2>1, <2>4, <2>5, <2>6, <2>7 DEF RowIsWhole, ReportsFit
<1> QED
  BY <1>1, <1>2, <1>3, <1>4, <1>5, <1>6, <1>7, <1>8, <1>9, <1>10, <1>11 DEF WorkerStep

-----------------------------------------------------------------------------
(***************************************************************************)
(* Requests of users, and the poller.                                      *)
(***************************************************************************)
\* A request's step moves it alone.
LEMMA UserMoves ==
  ASSUME Typed, NEW u \in Users, NEW place \in UserPlaces, Done(u) \/ Goes(u, place)
  PROVE  /\ user' \in [Users -> [at : UserPlaces, run : RunStates]]
         /\ user'[u].at = place \/ user'[u].at = "idle"
         /\ \A v \in Users \ {u} : user'[v] = user[v]
<1>1. Done(u) => user' = [user EXCEPT ![u] = [at |-> "idle", run |-> "none"]]
  BY DEF Done, Idle
<1>2. Goes(u, place) =>
        user' = [user EXCEPT ![u] =
                    [at |-> place, run |-> IF place = "resumeRun" THEN run ELSE "none"]]
  BY DEF Goes, Idle
<1>3. "idle" \in UserPlaces /\ "none" \in RunStates
  BY DEF UserPlaces, RunStates
<1> QED
  BY <1>1, <1>2, <1>3 DEF Typed

Announcing == {"announce", "enqueue", "requeue"}

\* A step of a request that leaves the row alone.
LEMMA UserOnly ==
  ASSUME TaskInv, NEW u \in Users, NEW place \in UserPlaces, Done(u) \/ Goes(u, place),
         UNCHANGED <<task, stream, worker, run, mirror, history>>,
         \/ user[u].at \notin Announcing
         \/ place \in Announcing /\ Goes(u, place)
         \/ task.queue # "QUEUED",
         place # "dropRun"
  PROVE  TaskInv'
<1>1. /\ user' \in [Users -> [at : UserPlaces, run : RunStates]]
      /\ user'[u].at = place \/ user'[u].at = "idle"
      /\ \A v \in Users \ {u} : user'[v] = user[v]
  BY UserMoves DEF TaskInv
<1>2. place \in Announcing /\ Goes(u, place) => user'[u].at = place
  BY DEF TaskInv, Typed, Goes, Idle
<1>3. Typed'
  BY <1>1 DEF TaskInv, Typed
<1>4. QueuedIsAnnounced'
  BY <1>1, <1>2 DEF TaskInv, QueuedIsAnnounced, Announcing
<1>5. DropsAreFinal'
  BY <1>1 DEF TaskInv, DropsAreFinal, Excused
<1> QED
  BY <1>3, <1>4, <1>5 DEF TaskInv, RowIsWhole, ReportsFit, StopHolds, MonitorFree, EndIsKept, Excused

LEMMA UserDone ==
  ASSUME TaskInv, NEW u \in Users, Done(u),
         UNCHANGED <<task, stream, worker, run, mirror, history>>,
         user[u].at \notin Announcing \/ task.queue # "QUEUED"
  PROVE  TaskInv'
<1>1. "idle" \in UserPlaces
  BY DEF UserPlaces
<1> QED
  BY <1>1, UserOnly

\* The columns compareAndSetControlState is called with.
Pair(status, queue) ==
  <<status, queue>> \in
    {<<"PAUSED", "PAUSED">>, <<"PAUSING", "RUNNING">>, <<"QUEUED", "QUEUED">>,
     <<"RESUMING", "RESUMING">>, <<"RUNNING", "RUNNING">>, <<"CANCELLED", "CANCELLED">>,
     <<"SUPERSEDED", "SUPERSEDED">>}

\* A transition of the row by a request: out of no final status, announced when
\* the task goes back to its queue, final when its run is dropped.
LEMMA Controlled ==
  ASSUME TaskInv, NEW u \in Users, NEW expected, NEW status, NEW queue, NEW next \in UserPlaces,
         compareAndSetControlState(u, expected, status, queue, next),
         expected \cap Final = {}, Pair(status, queue),
         queue = "QUEUED" => next = "enqueue",
         next = "dropRun" => status \in Final,
         user[u].at \in Announcing => expected = {"QUEUED"} /\ queue # "QUEUED"
  PROVE  TaskInv'
<1> USE DEF TaskInv, Excused
<1>1. MonitorFree /\ UNCHANGED <<stream, worker, run, mirror>>
  BY DEF compareAndSetControlState
<1>2. CASE task.status \in expected
  <2>1. /\ task' = [task EXCEPT !.status = status, !.queue = queue]
        /\ history' = [history EXCEPT
              !.stopped = status \in {"PAUSED", "CANCELLED", "SUPERSEDED"} /\ run = "none"]
        /\ Goes(u, next)
    BY <1>2 DEF compareAndSetControlState
  <2>2. /\ user' \in [Users -> [at : UserPlaces, run : RunStates]]
        /\ user'[u].at = next
        /\ \A v \in Users \ {u} : user'[v] = user[v]
    BY <2>1, UserMoves DEF Typed, Goes, Idle
  <2>3. status \in Open \cup Final /\ queue \in Queues
    BY DEF Pair, Open, Final, Queues
  <2>4. task'.status = status /\ task'.queue = queue
          /\ task' \in [status : Open \cup Final, queue : Queues, started : BOOLEAN]
    BY <2>1, <2>3 DEF Typed
  <2>5. /\ history' \in [lost : BOOLEAN, overwritten : BOOLEAN, stopped : BOOLEAN,
                         cancelled : BOOLEAN]
        /\ history'.lost = history.lost /\ history'.overwritten = history.overwritten
        /\ history'.stopped = (status \in {"PAUSED", "CANCELLED", "SUPERSEDED"} /\ run = "none")
    BY <2>1 DEF Typed
  <2>6. Typed'
    BY <1>1, <2>2, <2>4, <2>5 DEF Typed
  <2>7. RowIsWhole'
    BY <2>4 DEF RowIsWhole, Pair
  <2>8. StopHolds'
    BY <1>1, <2>4, <2>5 DEF StopHolds, MonitorFree, Pair
  <2>9. QueuedIsAnnounced'
    BY <2>2, <2>4 DEF QueuedIsAnnounced
  <2>10. task.status \notin Final
    BY <1>2
  <2>11. DropsAreFinal'
    BY <1>1, <2>2, <2>4, <2>5, <2>10 DEF DropsAreFinal
  <2>12. EndIsKept'
    BY <1>1, <2>5, <2>10 DEF EndIsKept
  <2> QED
    BY <1>1, <2>6, <2>7, <2>8, <2>9, <2>11, <2>12 DEF ReportsFit
<1>3. CASE task.status \notin expected
  <2>1. Done(u) /\ UNCHANGED <<task, history>>
    BY <1>3 DEF compareAndSetControlState
  <2>2. user[u].at \notin Announcing \/ task.queue # "QUEUED"
    BY <1>3 DEF RowIsWhole
  <2> QED
    BY <1>1, <2>1, <2>2, UserDone
<1> QED
  BY <1>2, <1>3

UserStep(u) ==
  \/ \E action \in {"PAUSE", "RESUME", "CANCEL", "REVISE"} : control(u, action)
  \/ pause(u) \/ pauseActiveRun(u)
  \/ resume(u) \/ enqueue(u) \/ enqueueFails(u) \/ resumePausedRun(u)
  \/ settles(u)
  \/ cancel(u) \/ createRevision(u)
  \/ cancelActiveRun(u) \/ cancelQueuedTask(u) \/ cancelLinkedRun(u)

LEMMA ControlKeeps ==
  ASSUME TaskInv, NEW u \in Users, NEW action \in {"PAUSE", "RESUME", "CANCEL", "REVISE"},
         control(u, action)
  PROVE  TaskInv'
<1> DEFINE place == Decision(action, task)
<1>1. place \in {"cancel", "revise", "hold", "pause", "release", "resume", "idle"}
  BY DEF Decision
<1>2. user' = [user EXCEPT ![u].at = place] /\ user[u].at = "idle"
        /\ UNCHANGED <<task, stream, worker, run, mirror, history>>
  BY DEF control, Idle
<1> HIDE DEF place
<1>3. /\ user' \in [Users -> [at : UserPlaces, run : RunStates]]
      /\ user'[u].at = place
      /\ \A v \in Users \ {u} : user'[v] = user[v]
  BY <1>1, <1>2 DEF TaskInv, Typed, UserPlaces
<1>4. Typed' /\ QueuedIsAnnounced' /\ DropsAreFinal'
  BY <1>1, <1>2, <1>3 DEF TaskInv, Typed, QueuedIsAnnounced, DropsAreFinal, Excused
<1> QED
  BY <1>2, <1>4 DEF TaskInv, RowIsWhole, ReportsFit, StopHolds, MonitorFree, EndIsKept, Excused

LEMMA TransitionsKeep ==
  ASSUME TaskInv, NEW u \in Users,
         pause(u) \/ (resume(u) /\ ~(user[u].at = "resume" /\ run = "none"))
           \/ settles(u) \/ cancel(u) \/ createRevision(u)
  PROVE  TaskInv'
<1> USE DEF Pair, Final, Announcing, UserPlaces
<1>1. CASE pause(u)
  BY <1>1, Controlled DEF pause
<1>2. CASE resume(u) /\ ~(user[u].at = "resume" /\ run = "none")
  BY <1>2, Controlled DEF resume
<1>3. CASE settles(u)
  BY <1>3, Controlled DEF settles
<1>4. CASE cancel(u)
  BY <1>4, Controlled DEF cancel, Open
<1>5. CASE createRevision(u)
  BY <1>5, Controlled DEF createRevision, Open
<1> QED
  BY <1>1, <1>2, <1>3, <1>4, <1>5

\* The run is changed by a request: paused, resumed or ended.
LEMMA UserRun ==
  ASSUME TaskInv, NEW u \in Users, NEW place \in UserPlaces, Done(u) \/ Goes(u, place),
         place \notin {"dropRun"}, user[u].at \notin Announcing, run' \in RunStates,
         run \notin {"none", "queued"}, run' \notin {"none", "queued"},
         UNCHANGED <<task, stream, worker, history>>,
         mirror' \in {mirror, "CANCELLED"},
         run' = "ended" => run = "ended" \/ mirror' = "CANCELLED"
  PROVE  TaskInv'
<1>1. /\ user' \in [Users -> [at : UserPlaces, run : RunStates]]
      /\ user'[u].at = place \/ user'[u].at = "idle"
      /\ \A v \in Users \ {u} : user'[v] = user[v]
  BY UserMoves DEF TaskInv
<1>2. Typed'
  BY <1>1 DEF TaskInv, Typed
<1>3. QueuedIsAnnounced'
  BY <1>1 DEF TaskInv, QueuedIsAnnounced, Announcing
<1>4. DropsAreFinal' /\ StopHolds'
  BY <1>1 DEF TaskInv, DropsAreFinal, Excused, StopHolds
<1>5. ReportsFit' /\ EndIsKept' /\ RowIsWhole'
  BY DEF TaskInv, ReportsFit, EndIsKept, RowIsWhole
<1> QED
  BY <1>2, <1>3, <1>4, <1>5 DEF TaskInv

LEMMA UserKeeps ==
  ASSUME TaskInv, NEW u \in Users, UserStep(u)
  PROVE  TaskInv'
<1> USE DEF Announcing
<1>0. /\ "unpause" \in UserPlaces /\ "resumed" \in UserPlaces /\ "unresume" \in UserPlaces
      /\ "requeue" \in UserPlaces /\ "idle" \in UserPlaces
  BY DEF UserPlaces
<1>1. CASE pauseActiveRun(u)
  <2>1. user[u].at = "pauseRun" /\ UNCHANGED <<task, stream, worker, mirror, history>>
    BY <1>1 DEF pauseActiveRun
  <2>2. \/ run = "active" /\ run' = "pausing" /\ Done(u)
        \/ Done(u) /\ UNCHANGED run
        \/ Goes(u, "unpause") /\ UNCHANGED run
    BY <1>1 DEF pauseActiveRun
  <2>3. CASE run = "active" /\ run' = "pausing" /\ Done(u)
    BY <1>0, <2>1, <2>3, UserRun DEF RunStates
  <2> QED
    BY <1>0, <2>1, <2>2, <2>3, UserDone, UserOnly
<1>2. CASE resume(u) /\ user[u].at = "resume" /\ run = "none"
  BY <1>2, UserDone DEF resume
<1>3. CASE enqueue(u)
  <2>1. stream' = stream + 1 /\ Done(u) /\ UNCHANGED <<task, worker, run, mirror, history>>
    BY <1>3 DEF enqueue
  <2>2. /\ user' \in [Users -> [at : UserPlaces, run : RunStates]]
        /\ user'[u].at = "idle"
        /\ \A v \in Users \ {u} : user'[v] = user[v]
    BY <1>0, <2>1, UserMoves DEF TaskInv
  <2>3. Typed' /\ QueuedIsAnnounced'
    BY <2>1, <2>2 DEF TaskInv, Typed, QueuedIsAnnounced
  <2>4. DropsAreFinal'
    BY <2>1, <2>2 DEF TaskInv, DropsAreFinal, Excused
  <2> QED
    BY <2>1, <2>3, <2>4
    DEF TaskInv, RowIsWhole, ReportsFit, StopHolds, MonitorFree, EndIsKept, Excused
<1>4. CASE enqueueFails(u)
  <2>1. CASE user[u].at = "enqueue" /\ Goes(u, "requeue") /\ UNCHANGED history
    BY <1>0, <1>4, <2>1, UserOnly DEF enqueueFails
  <2>2. CASE user[u].at = "announce" /\ Done(u) /\ history' = [history EXCEPT !.lost = TRUE]
    <3>1. UNCHANGED <<task, stream, worker, run, mirror>>
      BY <1>4 DEF enqueueFails
    <3>2. /\ user' \in [Users -> [at : UserPlaces, run : RunStates]]
          /\ user'[u].at = "idle"
          /\ \A v \in Users \ {u} : user'[v] = user[v]
      BY <1>0, <2>2, UserMoves DEF TaskInv
    <3>3. /\ history' \in [lost : BOOLEAN, overwritten : BOOLEAN, stopped : BOOLEAN,
                           cancelled : BOOLEAN]
          /\ history'.lost /\ history'.stopped = history.stopped
      BY <2>2 DEF TaskInv, Typed
    <3>4. Typed' /\ QueuedIsAnnounced' /\ DropsAreFinal' /\ EndIsKept'
      BY <3>1, <3>2, <3>3
      DEF TaskInv, Typed, QueuedIsAnnounced, DropsAreFinal, EndIsKept, Excused
    <3> QED
      BY <3>1, <3>3, <3>4 DEF TaskInv, RowIsWhole, ReportsFit, StopHolds, MonitorFree
  <2> QED
    BY <1>4, <2>1, <2>2 DEF enqueueFails
<1>5. CASE resumePausedRun(u)
  <2>1. user[u].at = "resumeRun" /\ UNCHANGED <<task, stream, worker, mirror, history>>
    BY <1>5 DEF resumePausedRun
  <2>2. \/ run = "paused" /\ run' = "active" /\ Goes(u, "resumed")
        \/ (Goes(u, "resumed") \/ Goes(u, "unresume")) /\ UNCHANGED run
    BY <1>5 DEF resumePausedRun
  <2>3. CASE run = "paused" /\ run' = "active" /\ Goes(u, "resumed")
    BY <1>0, <2>1, <2>3, UserRun DEF RunStates
  <2> QED
    BY <1>0, <2>1, <2>2, <2>3, UserOnly
<1>6. CASE cancelActiveRun(u) \/ cancelQueuedTask(u)
  <2>1. /\ user[u].at \in {"cancelRun", "dropRun"} /\ Done(u)
        /\ history' = [history EXCEPT !.cancelled = @ \/ task.status = "CANCELLED"]
        /\ UNCHANGED <<task, stream, worker>>
    BY <1>6 DEF cancelActiveRun, cancelQueuedTask
  <2>2. \/ UNCHANGED <<run, mirror>>
        \/ run = "paused" /\ run' = "ended" /\ mirror' = "CANCELLED"
        \/ run \in {"active", "pausing"} /\ run' = "cancelling" /\ UNCHANGED mirror
    BY <1>6 DEF cancelActiveRun, cancelQueuedTask
  <2>3. /\ user' \in [Users -> [at : UserPlaces, run : RunStates]]
        /\ user'[u].at = "idle"
        /\ \A v \in Users \ {u} : user'[v] = user[v]
    BY <1>0, <2>1, UserMoves DEF TaskInv
  <2>4. /\ history' \in [lost : BOOLEAN, overwritten : BOOLEAN, stopped : BOOLEAN,
                         cancelled : BOOLEAN]
        /\ history'.lost = history.lost /\ history'.stopped = history.stopped
        /\ history'.overwritten = history.overwritten
    BY <2>1 DEF TaskInv, Typed
  <2>5. Typed'
    BY <2>1, <2>2, <2>3, <2>4 DEF TaskInv, Typed, RunStates
  <2>6. QueuedIsAnnounced' /\ DropsAreFinal'
    BY <2>1, <2>2, <2>3, <2>4 DEF TaskInv, QueuedIsAnnounced, DropsAreFinal, Excused
  <2>7. StopHolds' /\ EndIsKept' /\ ReportsFit' /\ RowIsWhole'
    BY <2>1, <2>2, <2>4
    DEF TaskInv, StopHolds, MonitorFree, EndIsKept, ReportsFit, RowIsWhole, Excused
  <2> QED
    BY <2>5, <2>6, <2>7 DEF TaskInv
<1>7. CASE cancelLinkedRun(u)
  <2>1. /\ user[u].at = "dropRun" /\ run = "queued" /\ run' = "ended" /\ Done(u)
        /\ UNCHANGED <<task, stream, worker, mirror, history>>
    BY <1>7 DEF cancelLinkedRun
  <2>2. mirror = "none" /\ (task.status \in Final \/ Excused)
    BY <2>1 DEF TaskInv, ReportsFit, DropsAreFinal
  <2>3. /\ user' \in [Users -> [at : UserPlaces, run : RunStates]]
        /\ user'[u].at = "idle"
        /\ \A v \in Users \ {u} : user'[v] = user[v]
    BY <1>0, <2>1, UserMoves DEF TaskInv
  <2>4. Typed' /\ QueuedIsAnnounced' /\ DropsAreFinal'
    BY <2>1, <2>3 DEF TaskInv, Typed, RunStates, QueuedIsAnnounced, DropsAreFinal, Excused
  <2>5. StopHolds' /\ EndIsKept' /\ ReportsFit' /\ RowIsWhole'
    BY <2>1, <2>2 DEF TaskInv, StopHolds, EndIsKept, ReportsFit, RowIsWhole, Excused
  <2> QED
    BY <2>4, <2>5 DEF TaskInv
<1> QED
  BY <1>1, <1>2, <1>3, <1>4, <1>5, <1>6, <1>7, ControlKeeps, TransitionsKeep DEF UserStep

-----------------------------------------------------------------------------
(***************************************************************************)
(* The poller, the run and restarts.                                       *)
(***************************************************************************)
LEMMA PollerKeeps ==
  ASSUME TaskInv, requeueRetryReadyTasks \/ recoverStuckRunning
  PROVE  TaskInv'
<1>1. CASE requeueRetryReadyTasks
  BY <1>1
  DEF requeueRetryReadyTasks, TaskInv, Typed, RowIsWhole, ReportsFit, StopHolds, MonitorFree,
      QueuedIsAnnounced, DropsAreFinal, EndIsKept, Excused
<1>2. CASE recoverStuckRunning
  <2>1. /\ task.queue = "RUNNING" /\ task' = Row("QUEUED", "RETRYING")
        /\ UNCHANGED <<stream, worker, user, run, mirror, history>>
    BY <1>2 DEF recoverStuckRunning
  <2>2. /\ task' \in [status : Open \cup Final, queue : Queues, started : BOOLEAN]
        /\ task'.status = "QUEUED" /\ task'.queue = "RETRYING"
    BY <2>1 DEF Row, Open, Queues
  <2>3. task.status \in {"RUNNING", "PAUSING"}
    BY <2>1 DEF TaskInv, RowIsWhole
  <2> QED
    BY <2>1, <2>2, <2>3
    DEF TaskInv, Typed, RowIsWhole, ReportsFit, StopHolds, QueuedIsAnnounced, DropsAreFinal,
        EndIsKept, Final, Excused
<1> QED
  BY <1>1, <1>2

LEMMA RunKeeps ==
  ASSUME TaskInv, Dispatch \/ applyPausedResult \/ finishInternal
  PROVE  TaskInv'
<1>1. /\ mirror = "none" /\ run \notin {"none", "ended"}
      /\ UNCHANGED <<task, stream, worker, user, history>>
  BY DEF Dispatch, applyPausedResult, finishInternal, RunStep
<1>2. run' \in {"active", "paused", "ended"}
        /\ mirror' \in {"none", "PAUSED", "SUCCESS", "FAILED", "CANCELLED"}
        /\ (run' = "ended" => mirror' \notin {"none", "PAUSED"})
  BY DEF Dispatch, applyPausedResult, finishInternal, RunStep
<1> QED
  BY <1>1, <1>2
  DEF TaskInv, Typed, RunStates, RowIsWhole, ReportsFit, StopHolds, MonitorFree, QueuedIsAnnounced,
      DropsAreFinal, EndIsKept, Excused

LEMMA SyncKeeps ==
  ASSUME TaskInv, syncSourceTask
  PROVE  TaskInv'
<1> USE DEF TaskInv, Excused
<1>1. mirror # "none" /\ mirror' = "none" /\ UNCHANGED <<stream, worker, user, run, history>>
  BY DEF syncSourceTask
<1>2. run \notin {"none", "queued"} /\ (run = "ended" => mirror # "PAUSED")
  BY <1>1 DEF ReportsFit
<1>3. ~history.stopped
  BY <1>2 DEF StopHolds
<1>4. CASE task.status \in Fenced
  <2>1. task' = task
    BY <1>4 DEF syncSourceTask
  <2> QED
    BY <1>1, <1>2, <1>3, <1>4, <2>1
    DEF Typed, RowIsWhole, ReportsFit, StopHolds, QueuedIsAnnounced, DropsAreFinal, EndIsKept,
        Fenced
<1>5. CASE task.status \notin Fenced
  <2>1. task' = [task EXCEPT !.status = mirror, !.queue = mirror]
    BY <1>5 DEF syncSourceTask
  <2>2. mirror \in Open \cup Final /\ mirror \in Queues
          /\ mirror \in {"PAUSED", "SUCCESS", "FAILED", "CANCELLED"}
    BY <1>1 DEF Typed, Open, Final, Queues
  <2>3. /\ task' \in [status : Open \cup Final, queue : Queues, started : BOOLEAN]
        /\ task'.status = mirror /\ task'.queue = mirror
    BY <2>1, <2>2 DEF Typed
  <2>4. Typed' /\ RowIsWhole' /\ ReportsFit'
    BY <1>1, <1>2, <2>2, <2>3 DEF Typed, RowIsWhole, ReportsFit
  <2>5. StopHolds' /\ QueuedIsAnnounced' /\ DropsAreFinal' /\ EndIsKept'
    BY <1>1, <1>2, <1>3, <2>2, <2>3
    DEF StopHolds, QueuedIsAnnounced, DropsAreFinal, EndIsKept, Final
  <2> QED
    BY <2>4, <2>5
<1> QED
  BY <1>4, <1>5

LEMMA RestartKeeps ==
  ASSUME TaskInv, Restart
  PROVE  TaskInv'
<1> DEFINE gone == \/ mirror # "none"
                   \/ \E w \in Workers : worker[w] \in {"claim", "fail"}
                   \/ \E u \in Users : user[u].at \in {"announce", "enqueue", "requeue"}
<1>1. /\ worker' = [w \in Workers |-> "idle"]
      /\ user' = [u \in Users |-> [at |-> "idle", run |-> "none"]]
      /\ mirror' = "none"
      /\ UNCHANGED <<task, stream, run>>
  BY DEF Restart, Idle
<1>2. history' = [history EXCEPT !.lost = @ \/ gone]
  BY DEF Restart
<1>3. /\ history' \in [lost : BOOLEAN, overwritten : BOOLEAN, stopped : BOOLEAN,
                       cancelled : BOOLEAN]
      /\ history'.lost = (history.lost \/ gone)
      /\ history'.stopped = history.stopped /\ history'.overwritten = history.overwritten
  <2> HIDE DEF gone
  <2>1. (history.lost \/ gone) \in BOOLEAN
    OBVIOUS
  <2> QED
    BY <1>2, <2>1 DEF TaskInv, Typed
<1>4. Typed'
  BY <1>1, <1>3 DEF TaskInv, Typed, WorkerPlaces, UserPlaces, RunStates
<1>5. StopHolds'
  BY <1>1, <1>3 DEF TaskInv, StopHolds, MonitorFree
<1>6. QueuedIsAnnounced'
  BY <1>1, <1>3 DEF TaskInv, QueuedIsAnnounced
<1>7. DropsAreFinal' /\ RowIsWhole' /\ ReportsFit'
  BY <1>1 DEF TaskInv, DropsAreFinal, RowIsWhole, ReportsFit
<1>8. EndIsKept'
  BY <1>1, <1>3 DEF TaskInv, EndIsKept
<1> QED
  BY <1>4, <1>5, <1>6, <1>7, <1>8 DEF TaskInv

LEMMA TaskStep ==
  ASSUME TaskInv, [Next]_vars
  PROVE  TaskInv'
<1>1. CASE UNCHANGED vars
  BY <1>1
  DEF vars, TaskInv, Typed, RowIsWhole, ReportsFit, StopHolds, MonitorFree, QueuedIsAnnounced,
      DropsAreFinal, EndIsKept, Excused
<1> QED
  BY <1>1, WorkerKeeps, UserKeeps, PollerKeeps, RunKeeps, SyncKeeps, RestartKeeps
  DEF Next, WorkerStep, UserStep

\* The two columns of a task, its run's report and the hands that still act on
\* it agree in every state of the queue.
THEOREM TaskHolds == Spec => []TaskInv
BY TaskInit, TaskStep, PTL DEF Spec

\* A task stopped before its run is registered gets none, one that waits is
\* announced, and the end of the run is the end of the task, whatever claims,
\* repeated messages, failures, recoveries, requests and restarts there are.
THEOREM Settled == Spec => []TasksSettle
<1>1. TaskInv => TasksSettle
  BY DEF TaskInv, TasksSettle, StoppedStaysUnrun, StopHolds
<1> QED
  BY <1>1, TaskHolds, PTL
=============================================================================
